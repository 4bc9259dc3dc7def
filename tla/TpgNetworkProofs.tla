-------------------------- MODULE TpgNetworkProofs --------------------------
(***************************************************************************)
(* What holds of the network that set() builds, for every source: it is a  *)
(* proper circuit, its dominators are the first nodes on every path, the   *)
(* conditions of its regions are exact, and its faults are collected once. *)
(* Of the representatives, the part of set_rep_faults(): from faults that   *)
(* are as they should be made it gives each a representative with its tests.*)
(***************************************************************************)
EXTENDS TpgNetwork, FiniteSetTheorems, TLAPS

\* The lemmas about circuits, for the network so far.
P == INSTANCE CircuitProofs WITH Gate <- node, Fanout <- fanout

-----------------------------------------------------------------------------
(* Sequences.                                                              *)

LEMMA AppendFacts ==
  ASSUME NEW A, NEW s \in Seq(A), NEW a \in A
  PROVE  /\ Append(s, a) \in Seq(A) /\ Len(Append(s, a)) = Len(s) + 1 /\ Len(s) \in Nat
         /\ DOMAIN Append(s, a) = 1 .. Len(s) + 1 /\ DOMAIN s = 1 .. Len(s)
         /\ \A k \in DOMAIN s : Append(s, a)[k] = s[k]
         /\ Append(s, a)[Len(s) + 1] = a
         /\ ToSet(Append(s, a)) = ToSet(s) \cup {a}
<1>1. /\ Append(s, a) \in Seq(A) /\ Len(Append(s, a)) = Len(s) + 1 /\ Len(s) \in Nat
      /\ DOMAIN Append(s, a) = 1 .. Len(s) + 1 /\ DOMAIN s = 1 .. Len(s)
      /\ \A k \in DOMAIN s : Append(s, a)[k] = s[k]
      /\ Append(s, a)[Len(s) + 1] = a
  OBVIOUS
<1>2. DOMAIN Append(s, a) = DOMAIN s \cup {Len(s) + 1}
  BY <1>1
<1> QED BY <1>1, <1>2 DEF ToSet

LEMMA ConcatFacts ==
  ASSUME NEW A, NEW s \in Seq(A), NEW t \in Seq(A)
  PROVE  /\ s \o t \in Seq(A) /\ Len(s \o t) = Len(s) + Len(t)
         /\ Len(s) \in Nat /\ Len(t) \in Nat
         /\ DOMAIN s = 1 .. Len(s) /\ DOMAIN t = 1 .. Len(t) /\ DOMAIN (s \o t) = 1 .. Len(s) + Len(t)
         /\ \A k \in DOMAIN s : (s \o t)[k] = s[k]
         /\ \A k \in DOMAIN t : (s \o t)[Len(s) + k] = t[k]
         /\ ToSet(s \o t) = ToSet(s) \cup ToSet(t)
<1>1. /\ s \o t \in Seq(A) /\ Len(s \o t) = Len(s) + Len(t) /\ Len(s) \in Nat /\ Len(t) \in Nat
      /\ DOMAIN s = 1 .. Len(s) /\ DOMAIN t = 1 .. Len(t) /\ DOMAIN (s \o t) = 1 .. Len(s) + Len(t)
      /\ \A k \in DOMAIN s : (s \o t)[k] = s[k]
      /\ \A k \in DOMAIN t : (s \o t)[Len(s) + k] = t[k]
  OBVIOUS
<1>2. ASSUME NEW x \in ToSet(s \o t) PROVE x \in ToSet(s) \cup ToSet(t)
  <2>1. PICK k \in DOMAIN (s \o t) : (s \o t)[k] = x
    BY DEF ToSet
  <2>2. CASE k \in DOMAIN s
    BY <1>1, <2>1, <2>2 DEF ToSet
  <2>3. CASE k \notin DOMAIN s
    <3>1. k - Len(s) \in DOMAIN t /\ Len(s) + (k - Len(s)) = k
      BY <1>1, <2>1, <2>3
    <3> QED BY <1>1, <2>1, <3>1 DEF ToSet
  <2> QED BY <2>2, <2>3
<1>3. ASSUME NEW x \in ToSet(s) \cup ToSet(t) PROVE x \in ToSet(s \o t)
  <2>1. CASE x \in ToSet(s)
    <3>1. PICK k \in DOMAIN s : s[k] = x
      BY <2>1 DEF ToSet
    <3>2. k \in DOMAIN (s \o t)
      BY <1>1, <3>1
    <3> QED BY <1>1, <3>1, <3>2 DEF ToSet
  <2>2. CASE x \in ToSet(t)
    <3>1. PICK k \in DOMAIN t : t[k] = x
      BY <2>2 DEF ToSet
    <3>2. Len(s) + k \in DOMAIN (s \o t)
      BY <1>1, <3>1
    <3> QED BY <1>1, <3>1, <3>2 DEF ToSet
  <2> QED BY <2>1, <2>2
<1> QED BY <1>1, <1>2, <1>3

\* at: where the elements of w stand in the first n places of s.
Picks(at, w, n, s, S) ==
  /\ at \in [1 .. Len(w) -> 1 .. n]
  /\ \A j \in 1 .. Len(w) : w[j] = s[at[j]] /\ s[at[j]] \in S
  /\ \A j, k \in 1 .. Len(w) : j < k => at[j] < at[k]
  /\ \A m \in 1 .. n : s[m] \in S => \E j \in 1 .. Len(w) : at[j] = m

LEMMA PicksMore ==
  ASSUME NEW A, NEW s \in Seq(A), NEW S, NEW n \in 1 .. Len(s), NEW w \in Seq(A), NEW at,
         Picks(at, w, n - 1, s, S)
  PROVE  \E b : Picks(b, IF s[n] \in S THEN Append(w, s[n]) ELSE w, n, s, S)
<1>1. Len(w) \in Nat /\ n \in Nat /\ s[n] \in A
  OBVIOUS
<1>2. \A j \in 1 .. Len(w) : at[j] \in 1 .. n - 1
  BY DEF Picks
<1>3. \A m \in 1 .. n : m = n \/ m \in 1 .. n - 1
  BY <1>1
<1>4. 1 .. n - 1 \subseteq 1 .. n
  BY <1>1
<1>5. CASE s[n] \notin S
  <2>1. Picks(at, w, n, s, S)
    BY <1>1, <1>3, <1>4, <1>5 DEF Picks
  <2> QED BY <1>5, <2>1
<1>6. CASE s[n] \in S
  <2> DEFINE l == Len(w) + 1
             b == [j \in 1 .. l |-> IF j = l THEN n ELSE at[j]]
             v == Append(w, s[n])
  <2>1. Len(v) = l /\ v[l] = s[n] /\ \A j \in 1 .. Len(w) : v[j] = w[j] /\ j \in 1 .. l /\ j # l
    BY <1>1
  <2>2. \A j \in 1 .. l : j = l \/ j \in 1 .. Len(w)
    BY <1>1
  <2>3. b[l] = n /\ \A j \in 1 .. Len(w) : b[j] = at[j]
    BY <1>1
  <2>4. DOMAIN b = 1 .. l /\ b = [j \in 1 .. l |-> b[j]]
    OBVIOUS
  <2> HIDE DEF b, v
  <2>5. \A j \in 1 .. l : b[j] \in 1 .. n
    BY <1>2, <1>4, <2>2, <2>3
  <2>6. \A j \in 1 .. l : v[j] = s[b[j]] /\ s[b[j]] \in S
    BY <1>6, <2>1, <2>2, <2>3 DEF Picks
  <2>7. \A j, k \in 1 .. l : j < k => b[j] < b[k]
    <3> SUFFICES ASSUME NEW j \in 1 .. l, NEW k \in 1 .. l, j < k PROVE b[j] < b[k]
      OBVIOUS
    <3>1. j \in 1 .. Len(w)
      BY <1>1
    <3>2. CASE k = l
      BY <1>1, <1>2, <2>3, <3>1, <3>2
    <3>3. CASE k # l
      BY <2>2, <2>3, <3>1, <3>3 DEF Picks
    <3> QED BY <3>2, <3>3
  <2>8. \A m \in 1 .. n : s[m] \in S => \E j \in 1 .. l : b[j] = m
    <3> SUFFICES ASSUME NEW m \in 1 .. n, s[m] \in S PROVE \E j \in 1 .. l : b[j] = m
      OBVIOUS
    <3>1. CASE m = n
      BY <1>1, <2>3, <3>1
    <3>2. CASE m # n
      <4>1. PICK j \in 1 .. Len(w) : at[j] = m
        BY <1>3, <3>2 DEF Picks
      <4> QED BY <2>1, <2>3, <4>1
    <3> QED BY <3>1, <3>2
  <2>9. b \in [1 .. l -> 1 .. n]
    BY <2>4, <2>5
  <2>10. Picks(b, v, n, s, S)
    BY <2>1, <2>6, <2>7, <2>8, <2>9 DEF Picks
  <2> QED BY <1>6, <2>10 DEF v
<1> QED BY <1>5, <1>6

LEMMA WithinPicks ==
  ASSUME NEW A, NEW s \in Seq(A), NEW S
  PROVE  Within(s, S) \in Seq(A) /\ \E at : Picks(at, Within(s, S), Len(s), s, S)
<1> DEFINE n == Len(s)
           E(g) == [k \in 0 .. n |->
                      IF k = 0 THEN << >>
                      ELSE IF s[k] \in S THEN Append(g[k - 1], s[k]) ELSE g[k - 1]]
           f == CHOOSE g : g = E(g)
           step == [k \in 1 .. n |-> [w \in Seq(A) |-> IF s[k] \in S THEN Append(w, s[k]) ELSE w]]
<1>1. Within(s, S) = f[n]
  BY Zenon DEF Within
<1>2. n \in Nat /\ \A k \in 1 .. n : s[k] \in A
  OBVIOUS
<1> HIDE DEF n
<1>3. PICK g \in [0 .. n -> Seq(A)] : g = P!Steps(n, << >>, step, g)
  <2>1. \A k \in 1 .. n, w \in Seq(A) : step[k][w] \in Seq(A)
    BY <1>2
  <2>2. << >> \in Seq(A)
    OBVIOUS
  <2> HIDE DEF step
  <2>3. P!StepsIn(n, Seq(A), << >>, step)
    BY <1>2, <2>1, <2>2 DEF P!StepsIn
  <2>4. \A m, B, start, st : P!StepsIn(m, B, start, st) => \E h \in [0 .. m -> B] : h = P!Steps(m, start, st, h)
    BY P!RecursionTo
  <2> QED BY <2>3, <2>4
<1>4. g = E(g)
  <2>1. \A k \in 0 .. n : g[k] = IF k = 0 THEN << >> ELSE step[k][g[k - 1]]
    BY <1>3 DEF P!Steps
  <2>2. \A k \in 0 .. n : k # 0 => k \in 1 .. n /\ k - 1 \in 0 .. n
    BY <1>2
  <2>3. \A k \in 0 .. n : k # 0 => g[k - 1] \in Seq(A)
    BY <2>2
  <2>4. \A k \in 0 .. n : g[k] = IF k = 0 THEN << >>
                                 ELSE IF s[k] \in S THEN Append(g[k - 1], s[k]) ELSE g[k - 1]
    BY <2>1, <2>2, <2>3
  <2>5. g = [k \in 0 .. n |-> g[k]]
    BY <1>3
  <2> HIDE DEF step
  <2> QED BY <2>4, <2>5
<1> HIDE DEF E
<1>5. f = E(f)
  BY <1>4
<1> HIDE DEF f
<1>6. \A k \in 0 .. n : f[k] = IF k = 0 THEN << >>
                               ELSE IF s[k] \in S THEN Append(f[k - 1], s[k]) ELSE f[k - 1]
  <2>1. \A k \in 0 .. n : E(f)[k] = IF k = 0 THEN << >>
                               ELSE IF s[k] \in S THEN Append(f[k - 1], s[k]) ELSE f[k - 1]
    BY DEF E
  <2> QED BY <1>5, <2>1
<1> DEFINE T == {k \in 0 .. n : f[k] \in Seq(A) /\ \E at : Picks(at, f[k], k, s, S)}
<1>7. 0 \in T
  <2>1. f[0] = << >>
    BY <1>2, <1>6
  <2>2. Len(<< >>) = 0 /\ 1 .. 0 = {}
    OBVIOUS
  <2>3. \E b : b \in [{} -> {}]
    <3>1. [j \in {} |-> j] \in [{} -> {}]
      OBVIOUS
    <3> QED BY <3>1
  <2>4. \E b : Picks(b, << >>, 0, s, S)
    <3>1. PICK b : b \in [{} -> {}]
      BY <2>3
    <3> DEFINE none == << >>
    <3>2. 1 .. Len(none) = {}
      OBVIOUS
    <3> HIDE DEF none
    <3>3. Picks(b, none, 0, s, S)
      BY <2>2, <3>1, <3>2 DEF Picks
    <3> QED BY <3>3 DEF none
  <2>5. << >> \in Seq(A) /\ 0 \in 0 .. n
    BY <1>2
  <2> QED BY Zenon, <2>1, <2>4, <2>5
<1>8. ASSUME NEW k \in 1 .. n, k - 1 \in T PROVE k \in T
  <2>1. k \in 0 .. n /\ k # 0 /\ k \in 1 .. Len(s)
    BY <1>2 DEF n
  <2>2. f[k] = IF s[k] \in S THEN Append(f[k - 1], s[k]) ELSE f[k - 1]
    BY <1>6, <2>1
  <2>3. f[k - 1] \in Seq(A) /\ \E at : Picks(at, f[k - 1], k - 1, s, S)
    BY <1>8
  <2>4. \E b : Picks(b, IF s[k] \in S THEN Append(f[k - 1], s[k]) ELSE f[k - 1], k, s, S)
    BY <2>1, <2>3, PicksMore
  <2>5. f[k] \in Seq(A)
    BY <1>2, <2>2, <2>3
  <2> QED BY <2>1, <2>2, <2>4, <2>5
<1> HIDE DEF T
<1>9. n \in T
  <2>1. \A m \in Nat : \A U : 0 \in U /\ (\A k \in 1 .. m : k - 1 \in U => k \in U) => 0 .. m \subseteq U
    BY P!InductionTo
  <2>2. 0 .. n \subseteq T
    BY <1>2, <1>7, <1>8, <2>1
  <2> QED BY <1>2, <2>2
<1> QED BY <1>1, <1>9 DEF T, n

LEMMA WithinFacts ==
  ASSUME NEW A, NEW s \in Seq(A), NEW S
  PROVE  /\ Within(s, S) \in Seq(A)
         /\ ToSet(Within(s, S)) = ToSet(s) \cap S
         /\ IsInjective(s) => IsInjective(Within(s, S))
         /\ \A j, k \in DOMAIN s : j < k /\ s[j] \in S /\ s[k] \in S => Len(Within(s, S)) >= 2
<1> DEFINE w == Within(s, S)
<1>1. w \in Seq(A) /\ \E at : Picks(at, w, Len(s), s, S)
  BY WithinPicks
<1> HIDE DEF w
<1>2. PICK at : Picks(at, w, Len(s), s, S)
  BY <1>1
<1>3. DOMAIN w = 1 .. Len(w) /\ DOMAIN s = 1 .. Len(s) /\ Len(s) \in Nat /\ Len(w) \in Nat
  BY <1>1
<1>4. \A j \in 1 .. Len(w) : at[j] \in 1 .. Len(s)
  BY <1>2 DEF Picks
<1>5. ToSet(w) = ToSet(s) \cap S
  <2>1. ASSUME NEW x \in ToSet(w) PROVE x \in ToSet(s) \cap S
    BY <1>2, <1>3, <1>4, <2>1 DEF ToSet, Picks
  <2>2. ASSUME NEW x \in ToSet(s) \cap S PROVE x \in ToSet(w)
    <3>1. PICK m \in 1 .. Len(s) : s[m] = x
      BY <1>3, <2>2 DEF ToSet
    <3>2. PICK j \in 1 .. Len(w) : at[j] = m
      BY <1>2, <2>2, <3>1 DEF Picks
    <3> QED BY <1>2, <1>3, <3>1, <3>2 DEF ToSet, Picks
  <2> QED BY <2>1, <2>2
<1>6. ASSUME IsInjective(s) PROVE IsInjective(w)
  <2> SUFFICES ASSUME NEW j \in DOMAIN w, NEW k \in DOMAIN w, w[j] = w[k] PROVE j = k
    BY DEF IsInjective
  <2>1. s[at[j]] = s[at[k]] /\ at[j] \in DOMAIN s /\ at[k] \in DOMAIN s
    BY <1>2, <1>3, <1>4 DEF Picks
  <2>2. at[j] = at[k]
    BY <1>6, <2>1 DEF IsInjective
  <2>3. ~ (at[j] < at[k]) /\ ~ (at[k] < at[j])
    BY <1>3, <2>1, <2>2
  <2>4. ~ (j < k) /\ ~ (k < j)
    BY <1>2, <1>3, <2>3 DEF Picks
  <2> QED BY <1>3, <2>4
<1>7. ASSUME NEW j \in DOMAIN s, NEW k \in DOMAIN s, j < k, s[j] \in S, s[k] \in S
      PROVE  Len(w) >= 2
  <2>1. PICK x \in 1 .. Len(w) : at[x] = j
    BY <1>2, <1>3, <1>7 DEF Picks
  <2>2. PICK y \in 1 .. Len(w) : at[y] = k
    BY <1>2, <1>3, <1>7 DEF Picks
  <2>3. x # y
    BY <1>3, <1>7, <2>1, <2>2
  <2> QED BY <1>3, <2>1, <2>2, <2>3
<1> QED BY <1>1, <1>5, <1>6, <1>7 DEF w

\* FlattenSeq() puts the lists together from the first on.
Joins(ss, f) == \A k \in 1 .. Len(ss) : f[k] = IF k = 1 THEN ss[k] ELSE f[k - 1] \o ss[k]

LEMMA FlattenJoins ==
  ASSUME NEW A, NEW ss \in Seq(Seq(A)), Len(ss) # 0
  PROVE  \E f : Joins(ss, f) /\ FlattenSeq(ss) = f[Len(ss)]
<1> DEFINE n == Len(ss)
           step == [k \in 1 .. n |-> [s \in Seq(A) |-> s \o ss[k]]]
           E(g) == [k \in 1 .. n |-> IF k = 1 THEN ss[k] ELSE g[k - 1] \o ss[k]]
           f == CHOOSE g : g = E(g)
<1>1. n \in Nat /\ n # 0 /\ DOMAIN ss = 1 .. n /\ \A k \in 1 .. n : ss[k] \in Seq(A)
  OBVIOUS
<1>2. FlattenSeq(ss) = f[n]
  BY <1>1 DEF FlattenSeq
<1> HIDE DEF n
<1>3. PICK g \in [0 .. n -> Seq(A)] : g = P!Steps(n, << >>, step, g)
  <2>1. \A k \in 1 .. n, s \in Seq(A) : step[k][s] \in Seq(A)
    BY <1>1
  <2>2. << >> \in Seq(A)
    OBVIOUS
  <2> HIDE DEF step
  <2>3. P!StepsIn(n, Seq(A), << >>, step)
    BY <1>1, <2>1, <2>2 DEF P!StepsIn
  <2>4. \A m, B, start, st : P!StepsIn(m, B, start, st) => \E h \in [0 .. m -> B] : h = P!Steps(m, start, st, h)
    BY P!RecursionTo
  <2> QED BY <2>3, <2>4
<1> DEFINE h == [k \in 1 .. n |-> g[k]]
<1>4. h = E(h)
  <2>1. 0 \in 0 .. n /\ 1 \in 1 .. n
    BY <1>1
  <2>2. g[0] = << >>
    BY <1>3, <2>1 DEF P!Steps
  <2>3. ASSUME NEW k \in 1 .. n PROVE g[k] = g[k - 1] \o ss[k]
    <3>1. k \in 0 .. n /\ k # 0 /\ k - 1 \in 0 .. n
      BY <1>1
    <3>2. g[k] = step[k][g[k - 1]]
      BY <1>3, <3>1 DEF P!Steps
    <3>3. g[k - 1] \in Seq(A)
      BY <3>1
    <3> QED BY <3>2, <3>3
  <2>4. g[1] = ss[1]
    <3>1. g[1] = << >> \o ss[1]
      <4>1. g[1] = g[1 - 1] \o ss[1]
        BY <2>1, <2>3
      <4>2. 1 - 1 = 0
        OBVIOUS
      <4> QED BY <2>2, <4>1, <4>2
    <3>2. << >> \o ss[1] = ss[1]
      BY <1>1, <2>1
    <3> QED BY <3>1, <3>2
  <2>5. \A k \in 1 .. n : k # 1 => k - 1 \in 1 .. n
    BY <1>1
  <2>6. \A k \in 1 .. n : h[k] = IF k = 1 THEN ss[k] ELSE h[k - 1] \o ss[k]
    BY <2>3, <2>4, <2>5
  <2> QED BY <2>6
<1> HIDE DEF step, E, h
<1>5. f = E(f)
  BY <1>4
<1> HIDE DEF f
<1>6. \A k \in 1 .. n : f[k] = IF k = 1 THEN ss[k] ELSE f[k - 1] \o ss[k]
  <2>1. \A k \in 1 .. n : E(f)[k] = IF k = 1 THEN ss[k] ELSE f[k - 1] \o ss[k]
    BY DEF E
  <2> QED BY <1>5, <2>1
<1> QED BY <1>2, <1>6 DEF Joins, n

\* The elements of lists one after another.
LEMMA FlattenFacts ==
  ASSUME NEW A, NEW ss \in Seq(Seq(A))
  PROVE  /\ FlattenSeq(ss) \in Seq(A)
         /\ ToSet(FlattenSeq(ss)) = UNION {ToSet(ss[k]) : k \in DOMAIN ss}
<1> DEFINE n == Len(ss)
           UpTo(k) == UNION {ToSet(ss[j]) : j \in 1 .. k}
<1>1. n \in Nat /\ DOMAIN ss = 1 .. n /\ \A k \in 1 .. n : ss[k] \in Seq(A)
  OBVIOUS
<1>2. CASE n = 0
  <2>1. FlattenSeq(ss) = ss /\ ss = << >>
    BY <1>2 DEF FlattenSeq
  <2> QED BY <2>1 DEF ToSet
<1>3. CASE n # 0
  <2>1. PICK f : Joins(ss, f) /\ FlattenSeq(ss) = f[n]
    BY <1>3, FlattenJoins
  <2>5. \A k \in 1 .. n : f[k] = IF k = 1 THEN ss[k] ELSE f[k - 1] \o ss[k]
    BY <2>1 DEF Joins
  <2> DEFINE Good == {k \in 0 .. n : k # 0 => f[k] \in Seq(A) /\ ToSet(f[k]) = UpTo(k)}
  <2> HIDE DEF n
  <2>6. ASSUME NEW k \in 1 .. n, k - 1 \in Good PROVE k \in Good
    <3>1. CASE k = 1
      <4>1. UpTo(1) = ToSet(ss[1])
        <5>1. 1 .. 1 = {1}
          OBVIOUS
        <5> QED BY <5>1
      <4>2. k \in 0 .. n
        BY <1>1
      <4>3. f[k] = ss[k]
        <5> HIDE DEF UpTo, Good
        <5> QED BY <2>5, <3>1
      <4> HIDE DEF UpTo
      <4> QED BY <1>1, <3>1, <4>1, <4>2, <4>3
    <3>2. CASE k # 1
      <4>1. /\ k - 1 # 0 /\ k - 1 \in 1 .. n /\ k \in 0 .. n
            /\ \A j \in 1 .. k : j \in 1 .. n /\ (j = k \/ j \in 1 .. (k - 1))
            /\ \A j \in 1 .. (k - 1) : j # k /\ j \in 1 .. k /\ j \in 1 .. n
            /\ k \in 1 .. k
        <5> HIDE DEF UpTo, Good
        <5> QED BY <1>1, <3>2
      <4>2. UpTo(k) = UpTo(k - 1) \cup ToSet(ss[k])
        <5>1. \A x \in UpTo(k) : x \in UpTo(k - 1) \cup ToSet(ss[k])
          BY <4>1
        <5>2. \A x \in UpTo(k - 1) \cup ToSet(ss[k]) : x \in UpTo(k)
          BY <4>1
        <5> HIDE DEF UpTo
        <5> QED BY <5>1, <5>2
      <4> HIDE DEF UpTo
      <4>4. f[k - 1] \in Seq(A) /\ ToSet(f[k - 1]) = UpTo(k - 1)
        BY <2>6, <4>1
      <4>5. f[k] = f[k - 1] \o ss[k]
        BY <2>5, <3>2
      <4>6. ss[k] \in Seq(A)
        BY <1>1
      <4>7. f[k] \in Seq(A) /\ ToSet(f[k]) = UpTo(k)
        BY <4>2, <4>4, <4>5, <4>6, ConcatFacts
      <4> QED BY <4>1, <4>7
    <3> QED BY <3>1, <3>2
  <2>7. n \in Good
    <3>1. 0 \in Good /\ n \in 0 .. n
      BY <1>1
    <3> HIDE DEF Good
    <3>2. \A m \in Nat : \A U : 0 \in U /\ (\A k \in 1 .. m : k - 1 \in U => k \in U) => 0 .. m \subseteq U
      BY P!InductionTo
    <3>3. 0 .. n \subseteq Good
      BY <1>1, <2>6, <3>1, <3>2
    <3> QED BY <3>1, <3>3
  <2> HIDE DEF UpTo
  <2>8. f[n] \in Seq(A) /\ ToSet(f[n]) = UpTo(n)
    BY <1>3, <2>7
  <2> QED BY <1>1, <2>1, <2>8 DEF UpTo
<1> QED BY <1>2, <1>3

\* No element of S occurs twice.
Once(s, S) == \A j, k \in DOMAIN s : s[j] \in S /\ s[j] = s[k] => j = k

LEMMA OnceJoined ==
  ASSUME NEW A, NEW s \in Seq(A), NEW t \in Seq(A), NEW S, Once(s, S), Once(t, S),
         ToSet(s) \cap ToSet(t) \cap S = {}
  PROVE  Once(s \o t, S)
<1> DEFINE w == s \o t
<1>1. /\ Len(s) \in Nat /\ Len(t) \in Nat
      /\ DOMAIN s = 1 .. Len(s) /\ DOMAIN t = 1 .. Len(t) /\ DOMAIN w = 1 .. Len(s) + Len(t)
      /\ \A k \in DOMAIN s : w[k] = s[k]
      /\ \A k \in DOMAIN t : w[Len(s) + k] = t[k]
  BY ConcatFacts
<1> HIDE DEF w
<1>2. SUFFICES ASSUME NEW j \in DOMAIN w, NEW k \in DOMAIN w, w[j] \in S, w[j] = w[k] PROVE j = k
  BY DEF Once, w
<1>3. \A m \in DOMAIN w : \/ m \in DOMAIN s /\ w[m] = s[m]
                          \/ m - Len(s) \in DOMAIN t /\ w[m] = t[m - Len(s)]
  <2>1. ASSUME NEW m \in DOMAIN w, m \notin DOMAIN s PROVE m - Len(s) \in DOMAIN t /\ w[m] = t[m - Len(s)]
    <3>1. m - Len(s) \in DOMAIN t /\ Len(s) + (m - Len(s)) = m
      BY <1>1, <2>1
    <3> QED BY <1>1, <3>1
  <2> QED BY <1>1, <2>1
<1>4. CASE j \in DOMAIN s /\ k \in DOMAIN s
  BY <1>1, <1>2, <1>4 DEF Once
<1>5. CASE j - Len(s) \in DOMAIN t /\ w[j] = t[j - Len(s)] /\ k - Len(s) \in DOMAIN t /\ w[k] = t[k - Len(s)]
  <2>1. j - Len(s) = k - Len(s)
    BY <1>2, <1>5 DEF Once
  <2> QED BY <1>1, <1>2, <2>1
<1>6. \A x \in DOMAIN s, y \in DOMAIN t : s[x] \in S => s[x] # t[y]
  BY DEF ToSet
<1> QED BY <1>1, <1>2, <1>3, <1>4, <1>5, <1>6

\* Nor in several of the lists.
Apart(ss, S) ==
  /\ \A k \in DOMAIN ss : Once(ss[k], S)
  /\ \A j, k \in DOMAIN ss : j # k => ToSet(ss[j]) \cap ToSet(ss[k]) \cap S = {}

LEMMA OnceFlat ==
  ASSUME NEW A, NEW ss \in Seq(Seq(A)), NEW S, Apart(ss, S)
  PROVE  Once(FlattenSeq(ss), S)
<1> DEFINE n == Len(ss)
<1>1. n \in Nat /\ DOMAIN ss = 1 .. n /\ \A k \in 1 .. n : ss[k] \in Seq(A)
  OBVIOUS
<1>2. CASE n = 0
  <2>1. FlattenSeq(ss) = << >>
    BY <1>2 DEF FlattenSeq
  <2> QED BY <2>1 DEF Once
<1>3. CASE n # 0
  <2>1. PICK f : Joins(ss, f) /\ FlattenSeq(ss) = f[n]
    BY <1>3, FlattenJoins
  <2>2. \A k \in 1 .. n : f[k] = IF k = 1 THEN ss[k] ELSE f[k - 1] \o ss[k]
    BY <2>1 DEF Joins
  <2> DEFINE Good == {k \in 0 .. n : k # 0 => /\ f[k] \in Seq(A) /\ Once(f[k], S)
                                             /\ \A x \in ToSet(f[k]) : \E j \in 1 .. k : x \in ToSet(ss[j])}
  <2> HIDE DEF n
  <2>3. ASSUME NEW k \in 1 .. n, k - 1 \in Good PROVE k \in Good
    <3>1. k \in 0 .. n /\ k \in Nat /\ k \in 1 .. k /\ ss[k] \in Seq(A) /\ Once(ss[k], S)
      <4>1. k \in 0 .. n /\ k \in Nat /\ k \in 1 .. k
        BY <1>1, SMT
      <4>2. ss[k] \in Seq(A)
        BY <1>1, Zenon
      <4>3. Once(ss[k], S)
        BY <1>1, Zenon DEF Apart
      <4> QED BY <4>1, <4>2, <4>3
    <3>2. CASE k = 1
      <4>1. f[k] = ss[k]
        BY <2>2, <3>2
      <4> QED BY <3>1, <4>1
    <3>3. CASE k # 1
      <4> DEFINE s == f[k - 1]
      <4>1. k - 1 # 0 /\ f[k] = s \o ss[k]
        <5> HIDE DEF Good
        <5>1. k - 1 # 0
          BY <3>1, <3>3
        <5> QED BY <2>2, <3>3, <5>1, Zenon
      <4>2. s \in Seq(A) /\ Once(s, S) /\ \A x \in ToSet(s) : \E j \in 1 .. (k - 1) : x \in ToSet(ss[j])
        BY <2>3, <4>1
      <4>3. \A j \in 1 .. (k - 1) : j \in DOMAIN ss /\ k \in DOMAIN ss /\ j # k /\ j \in 1 .. k
        BY <1>1
      <4>4. ToSet(s) \cap ToSet(ss[k]) \cap S = {}
        <5> SUFFICES ASSUME NEW x \in ToSet(s), x \in ToSet(ss[k]), x \in S PROVE FALSE
          OBVIOUS
        <5>1. PICK j \in 1 .. (k - 1) : x \in ToSet(ss[j])
          BY <4>2
        <5> HIDE DEF Good, s
        <5> QED BY <4>3, <5>1 DEF Apart
      <4>5. Once(s \o ss[k], S) /\ s \o ss[k] \in Seq(A) /\ ToSet(s \o ss[k]) = ToSet(s) \cup ToSet(ss[k])
        BY <3>1, <4>2, <4>4, OnceJoined, ConcatFacts
      <4>6. \A x \in ToSet(f[k]) : \E j \in 1 .. k : x \in ToSet(ss[j])
        BY <3>1, <4>1, <4>2, <4>3, <4>5
      <4> QED BY <3>1, <4>1, <4>5, <4>6
    <3> QED BY <3>2, <3>3
  <2>4. n \in Good
    <3>1. 0 \in Good /\ n \in 0 .. n
      BY <1>1
    <3> HIDE DEF Good
    <3>2. \A m \in Nat : \A U : 0 \in U /\ (\A k \in 1 .. m : k - 1 \in U => k \in U) => 0 .. m \subseteq U
      BY P!InductionTo
    <3>3. 0 .. n \subseteq Good
      BY <1>1, <2>3, <3>1, <3>2
    <3> QED BY <3>1, <3>3
  <2> QED BY <1>3, <2>1, <2>4
<1> QED BY <1>2, <1>3

LEMMA OnceWithin ==
  ASSUME NEW A, NEW s \in Seq(A), NEW S, Once(s, S)
  PROVE  IsInjective(Within(s, S))
<1> DEFINE w == Within(s, S)
<1>1. w \in Seq(A) /\ \E at : Picks(at, w, Len(s), s, S)
  BY WithinPicks
<1> HIDE DEF w
<1>2. PICK at : Picks(at, w, Len(s), s, S)
  BY <1>1
<1>3. DOMAIN w = 1 .. Len(w) /\ DOMAIN s = 1 .. Len(s) /\ Len(s) \in Nat /\ Len(w) \in Nat
  BY <1>1
<1>4. \A j \in 1 .. Len(w) : at[j] \in 1 .. Len(s)
  BY <1>2 DEF Picks
<1>5. SUFFICES ASSUME NEW j \in DOMAIN w, NEW k \in DOMAIN w, w[j] = w[k] PROVE j = k
  BY DEF IsInjective, w
<1>6. s[at[j]] = s[at[k]] /\ at[j] \in DOMAIN s /\ at[k] \in DOMAIN s /\ s[at[j]] \in S
  BY <1>2, <1>3, <1>4, <1>5 DEF Picks
<1>7. at[j] = at[k]
  BY <1>6 DEF Once
<1>8. ~ (at[j] < at[k]) /\ ~ (at[k] < at[j])
  BY <1>3, <1>6, <1>7
<1>9. ~ (j < k) /\ ~ (k < j)
  BY <1>2, <1>3, <1>8 DEF Picks
<1> QED BY <1>3, <1>9

LEMMA OnceIsInjective ==
  ASSUME NEW A, NEW s \in Seq(A)
  PROVE  IsInjective(s) <=> Once(s, A)
<1>1. \A k \in DOMAIN s : s[k] \in A
  OBVIOUS
<1> QED BY <1>1 DEF IsInjective, Once

\* Two lists of the same elements, each without repetition, are equally long.
LEMMA SameLength ==
  ASSUME NEW A, NEW s \in Seq(A), NEW t \in Seq(A), IsInjective(s), IsInjective(t), ToSet(s) = ToSet(t)
  PROVE  SameElements(s, t)
<1>1. ASSUME NEW u \in Seq(A), IsInjective(u) PROVE Len(u) = Cardinality(ToSet(u)) /\ IsFiniteSet(ToSet(u))
  <2> DEFINE n == Len(u)
             T == ToSet(u)
  <2>1. n \in Nat /\ DOMAIN u = 1 .. n
    OBVIOUS
  <2>2. u \in [1 .. n -> T] /\ \A x \in T : \E k \in 1 .. n : u[k] = x
    <3>1. u = [k \in 1 .. n |-> u[k]]
      BY <2>1
    <3> QED BY <2>1, <3>1 DEF ToSet
  <2>3. \A j, k \in 1 .. n : u[j] = u[k] => j = k
    BY <1>1, <2>1 DEF IsInjective
  <2> HIDE DEF n, T
  <2>4. u \in Bijection(1 .. n, T)
    BY <2>2, <2>3 DEF Bijection, Injection, Surjection, IsInjective
  <2>5. ExistsBijection(1 .. n, T)
    BY <2>4 DEF ExistsBijection
  <2>6. Cardinality(T) = n
    BY <2>1, <2>5, FS_CountingElements
  <2>7. IsFiniteSet(1 .. n)
    BY <2>1, FS_Interval
  <2> QED BY <2>5, <2>6, <2>7, FS_Bijection DEF n, T
<1>2. Len(s) = Cardinality(ToSet(s)) /\ Len(t) = Cardinality(ToSet(t))
  BY <1>1
<1> QED BY <1>2 DEF SameElements

-----------------------------------------------------------------------------
(* The nodes and connections under construction.                           *)

NodeRecs == [type : C!NodeTypes, fanin : Seq(Nat), nfo : Nat]
Arity(type, fanin) ==
  /\ type \in C!NoFanin => fanin = << >>
  /\ type \in C!OneFanin => Len(fanin) = 1
  /\ type \notin C!NoFanin => fanin # << >>

\* A node that other nodes can have as a fanin.
Drives(nodes, n) == n \in DOMAIN nodes /\ nodes[n].type \notin C!PpoTypes
Fed(nodes, fanin) == fanin \in Seq(Nat) /\ \A k \in DOMAIN fanin : Drives(nodes, fanin[k])

PinsOf(nodes) == {p \in (DOMAIN nodes) \X Nat : p[2] \in DOMAIN nodes[p[1]].fanin}
\* Every pin has its own connection, and every connection is that of a pin.
Wires(at, nodes, conns) ==
  /\ at \in [PinsOf(nodes) -> DOMAIN conns]
  /\ \A p, q \in PinsOf(nodes) : at[p] = at[q] => p = q
  /\ \A j \in DOMAIN conns : \E p \in PinsOf(nodes) : at[p] = j
  /\ \A p \in PinsOf(nodes) : conns[at[p]] = <<nodes[p[1]].fanin[p[2]], p[1]>>
Wired(nodes, conns) ==
  /\ nodes \in Seq(NodeRecs) /\ conns \in Seq(Nat \X Nat)
  /\ \A n \in DOMAIN nodes :
       /\ Arity(nodes[n].type, nodes[n].fanin)
       /\ \A k \in DOMAIN nodes[n].fanin :
            nodes[n].fanin[k] \in 1 .. n - 1 /\ Drives(nodes, nodes[n].fanin[k])
  /\ \E at : Wires(at, nodes, conns)
Grown(old, new) == Len(old) <= Len(new) /\ \A n \in DOMAIN old : new[n] = old[n]

\* What make_prim_node() and the terminals append.
NewNode(type, fanin, nfo) == [type |-> type, fanin |-> fanin, nfo |-> nfo]
NewConns(fanin, n) == [k \in DOMAIN fanin |-> <<fanin[k], n>>]
Fits(nodes, type, fanin, nfo) ==
  type \in C!NodeTypes /\ nfo \in Nat /\ Fed(nodes, fanin) /\ Arity(type, fanin)
LEMMA NodeAppended ==
  ASSUME NEW nodes, NEW conns, NEW type, NEW fanin, NEW nfo,
         Wired(nodes, conns), Fits(nodes, type, fanin, nfo),
         NEW new, new = Append(nodes, NewNode(type, fanin, nfo))
  PROVE  /\ Wired(new, conns \o NewConns(fanin, Len(nodes) + 1)) /\ Grown(nodes, new)
         /\ Len(new) = Len(nodes) + 1 /\ Len(nodes) \in Nat
         /\ new[Len(new)] = NewNode(type, fanin, nfo) /\ Len(new) \in DOMAIN new
<1> DEFINE n == Len(nodes) + 1
           added == NewConns(fanin, n)
           all == conns \o added
<1> /\ type \in C!NodeTypes /\ nfo \in Nat /\ Arity(type, fanin)
    /\ fanin \in Seq(Nat) /\ \A k \in DOMAIN fanin : Drives(nodes, fanin[k])
  BY DEF Fed, Fits
<1>1. nodes \in Seq(NodeRecs) /\ conns \in Seq(Nat \X Nat)
  BY DEF Wired
<1>2. NewNode(type, fanin, nfo) \in NodeRecs
  BY DEF NewNode, NodeRecs
<1>3. /\ new \in Seq(NodeRecs) /\ Len(new) = n /\ Len(nodes) \in Nat
      /\ DOMAIN new = 1 .. n /\ DOMAIN nodes = 1 .. Len(nodes)
      /\ \A k \in DOMAIN nodes : new[k] = nodes[k]
      /\ new[n] = NewNode(type, fanin, nfo)
  BY <1>1, <1>2, AppendFacts
<1>4. Grown(nodes, new)
  BY <1>3 DEF Grown
<1>5. \A k : Drives(nodes, k) => Drives(new, k) /\ k \in 1 .. n - 1
  BY <1>3 DEF Drives
<1>6. \A k \in 1 .. n : k = n \/ k \in DOMAIN nodes
  BY <1>3
<1>7. ASSUME NEW m \in DOMAIN new
      PROVE  /\ Arity(new[m].type, new[m].fanin)
             /\ \A k \in DOMAIN new[m].fanin :
                  new[m].fanin[k] \in 1 .. m - 1 /\ Drives(new, new[m].fanin[k])
  <2>1. CASE m = n
    BY <1>3, <1>5, <2>1 DEF NewNode
  <2>2. CASE m # n
    <3>1. m \in DOMAIN nodes /\ new[m] = nodes[m]
      BY <1>3, <1>6, <2>2
    <3> QED BY <1>5, <3>1 DEF Wired
  <2> QED BY <2>1, <2>2
<1>8. DOMAIN fanin = 1 .. Len(fanin) /\ Len(fanin) \in Nat /\ \A k \in DOMAIN fanin : fanin[k] \in Nat
  OBVIOUS
<1>9. added \in Seq(Nat \X Nat) /\ Len(added) = Len(fanin) /\ DOMAIN added = DOMAIN fanin
      /\ \A k \in DOMAIN fanin : added[k] = <<fanin[k], n>>
  BY <1>3, <1>8 DEF NewConns
<1> HIDE DEF added
<1> DEFINE l == Len(conns)
<1>10. /\ all \in Seq(Nat \X Nat) /\ l \in Nat
       /\ DOMAIN conns = 1 .. l /\ DOMAIN all = 1 .. l + Len(fanin)
       /\ \A j \in DOMAIN conns : all[j] = conns[j]
       /\ \A k \in DOMAIN fanin : all[l + k] = <<fanin[k], n>>
  <2> DEFINE Pairs == Nat \X Nat
  <2>1. conns \in Seq(Pairs) /\ added \in Seq(Pairs)
    BY <1>1, <1>9
  <2> HIDE DEF Pairs
  <2>2. /\ all \in Seq(Pairs) /\ l \in Nat
        /\ DOMAIN conns = 1 .. l /\ DOMAIN all = 1 .. l + Len(added)
        /\ \A j \in DOMAIN conns : all[j] = conns[j]
        /\ \A k \in DOMAIN added : all[l + k] = added[k]
    BY <2>1, ConcatFacts
  <2> QED BY <1>9, <2>2 DEF Pairs
<1> HIDE DEF l
<1> HIDE DEF all
<1>places. /\ \A k \in 1 .. Len(fanin) : l + k \in 1 .. l + Len(fanin) /\ l + k \notin 1 .. l
        /\ \A j \in 1 .. l + Len(fanin) : j \notin 1 .. l => \E k \in 1 .. Len(fanin) : j = l + k
  <2>1. l \in Nat /\ Len(fanin) \in Nat
    BY <1>10
  <2>2. \A j \in 1 .. l + Len(fanin) : j \notin 1 .. l => j - l \in 1 .. Len(fanin) /\ j = l + (j - l)
    BY <2>1
  <2>3. \A k \in 1 .. Len(fanin) : l + k \in 1 .. l + Len(fanin) /\ l + k \notin 1 .. l
    BY <2>1
  <2> QED BY <2>2, <2>3
<1>11. PICK at : Wires(at, nodes, conns)
  BY DEF Wired
<1> DEFINE old == PinsOf(nodes)
           pins == PinsOf(new)
           b == [p \in pins |-> IF p \in old THEN at[p] ELSE l + p[2]]
<1>12. \A p \in pins : p[1] \in DOMAIN new /\ p[2] \in DOMAIN new[p[1]].fanin /\ p = <<p[1], p[2]>>
  BY SMTT(40) DEF PinsOf
<1>13. \A p \in old : p[1] \in DOMAIN nodes /\ p[2] \in DOMAIN nodes[p[1]].fanin /\ p = <<p[1], p[2]>>
  BY DEF PinsOf
<1>14. \A k \in DOMAIN fanin : <<n, k>> \in pins /\ <<n, k>> \notin old
  BY <1>3, <1>8 DEF PinsOf, NewNode
<1>15. \A p \in old : p \in pins /\ new[p[1]] = nodes[p[1]]
  BY <1>3, <1>6 DEF PinsOf
<1>16. \A p \in pins : p \notin old => p[1] = n /\ p[2] \in DOMAIN fanin
  BY <1>3, <1>6 DEF PinsOf, NewNode
<1>17. /\ \A p \in old : at[p] \in DOMAIN conns
       /\ \A p, q \in old : at[p] = at[q] => p = q
       /\ \A j \in DOMAIN conns : \E p \in old : at[p] = j
       /\ \A p \in old : conns[at[p]] = <<nodes[p[1]].fanin[p[2]], p[1]>>
  BY <1>11 DEF Wires
<1> HIDE DEF old, pins
<1>18. b = [p \in pins |-> b[p]] /\ \A p \in pins : b[p] = IF p \in old THEN at[p] ELSE l + p[2]
  OBVIOUS
<1> HIDE DEF b, n
<1>19. ASSUME NEW p \in pins, p \in old
       PROVE  b[p] = at[p] /\ b[p] \in DOMAIN conns /\ b[p] \in DOMAIN all
  <2>1. b[p] = at[p] /\ at[p] \in DOMAIN conns
    BY <1>17, <1>18, <1>19
  <2>2. 1 .. l \subseteq 1 .. l + Len(fanin)
    BY <1>8, <1>10
  <2> QED BY <1>10, <2>1, <2>2
<1>20. ASSUME NEW p \in pins, p \notin old
       PROVE  p = <<n, p[2]>> /\ p[2] \in DOMAIN fanin /\ b[p] = l + p[2]
              /\ b[p] \in DOMAIN all /\ b[p] \notin DOMAIN conns
  <2>1. p = <<n, p[2]>> /\ p[2] \in DOMAIN fanin /\ b[p] = l + p[2]
    BY <1>12, <1>16, <1>18, <1>20
  <2>2. DOMAIN conns = 1 .. l /\ DOMAIN all = 1 .. l + Len(fanin) /\ DOMAIN fanin = 1 .. Len(fanin)
    BY <1>8, <1>10
  <2> QED BY <1>places, <2>1, <2>2
<1>21. ASSUME NEW p \in pins, NEW q \in pins, b[p] = b[q] PROVE p = q
  <2>1. CASE p \in old /\ q \in old
    BY <1>17, <1>19, <1>21, <2>1
  <2>2. CASE p \notin old /\ q \notin old
    <3>1. p = <<n, p[2]>> /\ q = <<n, q[2]>> /\ l + p[2] = l + q[2]
          /\ p[2] \in DOMAIN fanin /\ q[2] \in DOMAIN fanin
      BY <1>20, <1>21, <2>2
    <3>2. p[2] = q[2]
      BY <1>8, <1>10, <3>1
    <3> QED BY <3>1, <3>2
  <2>3. \A r, t \in pins : r \in old /\ t \notin old => b[r] # b[t]
    BY <1>19, <1>20
  <2> QED BY <1>21, <2>1, <2>2, <2>3
<1>22. ASSUME NEW j \in DOMAIN all PROVE \E p \in pins : b[p] = j
  <2>1. CASE j \in DOMAIN conns
    BY <1>15, <1>17, <1>18, <2>1
  <2>2. CASE j \notin DOMAIN conns
    <3>1. PICK k \in DOMAIN fanin : j = l + k
      <4>1. j \in 1 .. l + Len(fanin) /\ j \notin 1 .. l /\ DOMAIN fanin = 1 .. Len(fanin)
        BY <1>8, <1>10, <2>2
      <4> QED BY <1>places, <4>1
    <3>2. <<n, k>> \in pins /\ <<n, k>> \notin old /\ <<n, k>>[2] = k
      BY <1>14
    <3>3. b[<<n, k>>] = j
      BY <1>18, <3>1, <3>2
    <3> QED BY <3>2, <3>3
  <2> QED BY <2>1, <2>2
<1>23. ASSUME NEW p \in pins PROVE all[b[p]] = <<new[p[1]].fanin[p[2]], p[1]>>
  <2>1. CASE p \in old
    BY ZenonT(60), <1>10, <1>15, <1>17, <1>19, <2>1
  <2>2. CASE p \notin old
    <3>1. p[1] = n /\ p[2] \in DOMAIN fanin /\ b[p] = l + p[2]
      BY <1>16, <1>20, <2>2
    <3>2. all[l + p[2]] = <<fanin[p[2]], n>>
      BY <1>10, <3>1
    <3>3. new[n].fanin = fanin
      BY <1>3 DEF NewNode
    <3> QED BY <3>1, <3>2, <3>3
  <2> QED BY <2>1, <2>2
<1>24. Wires(b, new, all)
  BY <1>18, <1>19, <1>20, <1>21, <1>22, <1>23 DEF Wires, pins
<1> QED BY <1>3, <1>4, <1>7, <1>10, <1>24 DEF Wired, all, added, n

Pairs == Nat \X Nat
Builds == [node : Seq(NodeRecs), conn : Seq(Pairs), site : Seq(Pairs), leaf : Seq(Pairs), at : Seq(Nat)]
Sound(b) == b \in Builds /\ Wired(b.node, b.conn)

LEMMA GrownFacts ==
  ASSUME NEW a, NEW b, Grown(a, b), NEW A, a \in Seq(A), b \in Seq(A)
  PROVE  /\ \A n : Drives(a, n) => Drives(b, n)
         /\ DOMAIN a \subseteq DOMAIN b
<1>1. DOMAIN a = 1 .. Len(a) /\ DOMAIN b = 1 .. Len(b) /\ Len(a) \in Nat /\ Len(b) \in Nat
  OBVIOUS
<1>2. DOMAIN a \subseteq DOMAIN b
  BY <1>1 DEF Grown
<1> QED BY <1>2 DEF Drives, Grown

LEMMA GrownTwice ==
  ASSUME NEW A, NEW a \in Seq(A), NEW b \in Seq(A), NEW c \in Seq(A), Grown(a, b), Grown(b, c)
  PROVE  Grown(a, c)
<1>1. DOMAIN a \subseteq DOMAIN b
  BY GrownFacts
<1>2. Len(a) \in Nat /\ Len(b) \in Nat /\ Len(c) \in Nat
  OBVIOUS
<1> QED BY <1>1, <1>2 DEF Grown

LEMMA PrimFacts ==
  ASSUME NEW b, NEW type, NEW fanin, NEW nfo, Sound(b), Fits(b.node, type, fanin, nfo),
         NEW c, c = Prim(b, type, fanin, nfo)
  PROVE  /\ Sound(c) /\ Grown(b.node, c.node)
         /\ c.site = b.site /\ c.leaf = b.leaf /\ c.at = b.at
         /\ Top(c) = Len(b.node) + 1 /\ Top(c) \in DOMAIN c.node /\ Top(c) \in Nat
         /\ c.node[Top(c)].type = type
<1>1. b \in Builds /\ Wired(b.node, b.conn)
  BY DEF Sound
<1> DEFINE new == Append(b.node, NewNode(type, fanin, nfo))
           all == b.conn \o NewConns(fanin, Len(b.node) + 1)
<1>2. /\ Wired(new, all) /\ Grown(b.node, new) /\ Len(new) = Len(b.node) + 1 /\ Len(b.node) \in Nat
      /\ new[Len(new)] = NewNode(type, fanin, nfo) /\ Len(new) \in DOMAIN new
  <2>1. new = Append(b.node, NewNode(type, fanin, nfo))
    OBVIOUS
  <2> HIDE DEF new
  <2>2. Wired(new, all)
    BY <1>1, <2>1, NodeAppended
  <2>3. Grown(b.node, new)
    BY <1>1, <2>1, NodeAppended
  <2>4. Len(new) = Len(b.node) + 1 
    BY <1>1, <2>1, NodeAppended
  <2>5. Len(b.node) \in Nat
    BY <1>1, <2>1, NodeAppended
  <2>6. new[Len(new)] = NewNode(type, fanin, nfo)
    BY <1>1, <2>1, NodeAppended
  <2>7. Len(new) \in DOMAIN new
    BY <1>1, <2>1, NodeAppended
  <2> QED BY <2>2, <2>3, <2>4, <2>5, <2>6, <2>7
<1>3. c = [b EXCEPT !.node = new, !.conn = all]
  BY DEF Prim, NewNode, NewConns
<1> HIDE DEF new, all
<1>4. new \in Seq(NodeRecs) /\ all \in Seq(Pairs)
  BY <1>2 DEF Wired, Pairs
<1>5. c \in Builds /\ c.node = new /\ c.conn = all
      /\ c.site = b.site /\ c.leaf = b.leaf /\ c.at = b.at
  <2> HIDE DEF Pairs, NodeRecs
  <2>1. b = [node |-> b.node, conn |-> b.conn, site |-> b.site, leaf |-> b.leaf, at |-> b.at]
        /\ b.site \in Seq(Pairs) /\ b.leaf \in Seq(Pairs) /\ b.at \in Seq(Nat)
    BY <1>1 DEF Builds
  <2>2. c = [node |-> new, conn |-> all, site |-> b.site, leaf |-> b.leaf, at |-> b.at]
    BY <1>3, <2>1
  <2> QED BY <1>4, <2>1, <2>2 DEF Builds
<1> QED BY <1>2, <1>5 DEF Sound, Top, NewNode

LEMMA PrimNode ==
  ASSUME NEW b, NEW type, NEW fanin, NEW nfo, Sound(b), Fits(b.node, type, fanin, nfo),
         NEW c, c = Prim(b, type, fanin, nfo)
  PROVE  /\ Sound(c) /\ Grown(b.node, c.node)
         /\ c.site = b.site /\ c.leaf = b.leaf /\ c.at = b.at
         /\ Len(b.node) \in Nat /\ Len(c.node) = Len(b.node) + 1 /\ Top(c) = Len(b.node) + 1
         /\ c.node[Len(b.node) + 1] = NewNode(type, fanin, nfo)
<1>1. b \in Builds /\ Wired(b.node, b.conn)
  BY DEF Sound
<1> DEFINE new == Append(b.node, NewNode(type, fanin, nfo))
<1>2. Sound(c) /\ Grown(b.node, c.node)
  BY PrimFacts
<1>3. c.site = b.site /\ c.leaf = b.leaf /\ c.at = b.at
  BY PrimFacts
<1>4. Top(c) = Len(b.node) + 1
  BY PrimFacts
<1>5. c.node = new
  <2>1. b = [node |-> b.node, conn |-> b.conn, site |-> b.site, leaf |-> b.leaf, at |-> b.at]
    BY <1>1 DEF Builds
  <2> DEFINE all == b.conn \o NewConns(fanin, Len(b.node) + 1)
  <2>2. c = [b EXCEPT !.node = new, !.conn = all]
    BY DEF Prim, NewNode, NewConns
  <2> HIDE DEF new, all
  <2>3. c = [node |-> new, conn |-> all, site |-> b.site, leaf |-> b.leaf, at |-> b.at]
    BY <2>1, <2>2
  <2> QED BY <2>3
<1>6. Len(new) = Len(b.node) + 1 /\ Len(b.node) \in Nat /\ new[Len(new)] = NewNode(type, fanin, nfo)
  <2>1. new = Append(b.node, NewNode(type, fanin, nfo))
    OBVIOUS
  <2> HIDE DEF new
  <2> QED BY <1>1, <2>1, NodeAppended
<1> HIDE DEF new
<1> QED BY <1>2, <1>3, <1>4, <1>5, <1>6

\* Changes to the other fields leave the nodes.
LEMMA OtherFields ==
  ASSUME NEW b, NEW c, Sound(b), c \in Builds, c.node = b.node, c.conn = b.conn
  PROVE  Sound(c) /\ Grown(b.node, c.node) /\ Top(c) = Top(b)
<1>1. b.node \in Seq(NodeRecs)
  BY DEF Sound, Builds
<1> QED BY <1>1 DEF Sound, Grown, Top

Placed(b) == \A v \in DOMAIN b.site : b.site[v][1] \in DOMAIN b.node
\* What a whole gate is built into.
GateDone(before, c) ==
  /\ Sound(c) /\ Grown(before, c.node) /\ Drives(c.node, Top(c)) /\ Placed(c)

LEMMA SimpleGateFacts ==
  ASSUME NEW b, NEW type, NEW fanin, NEW nfo, Sound(b), Fits(b.node, type, fanin, nfo),
         type \notin C!PpoTypes
  PROVE  GateDone(b.node, SimpleGate(b, type, fanin, nfo))
<1> DEFINE d == Prim(b, type, fanin, nfo)
           sites == [k \in DOMAIN fanin |-> <<Top(d), k>>]
           c == [d EXCEPT !.site = sites]
<1>1. /\ Sound(d) /\ Grown(b.node, d.node) /\ Top(d) \in DOMAIN d.node /\ Top(d) \in Nat
      /\ d.node[Top(d)].type = type
  BY PrimFacts
<1>2. SimpleGate(b, type, fanin, nfo) = c
  BY Zenon DEF SimpleGate
<1> HIDE DEF d
<1>3. DOMAIN fanin = 1 .. Len(fanin) /\ Len(fanin) \in Nat
  BY DEF Fed, Fits
<1>4. sites \in Seq(Pairs) /\ DOMAIN sites = DOMAIN fanin /\ \A k \in DOMAIN fanin : sites[k][1] = Top(d)
  BY <1>1, <1>3 DEF Pairs
<1> HIDE DEF sites
<1>5. d \in Builds
  BY <1>1 DEF Sound
<1>6. c \in Builds /\ c.node = d.node /\ c.conn = d.conn /\ c.site = sites
  BY <1>4, <1>5 DEF Builds
<1> HIDE DEF c
<1>7. Sound(c) /\ Top(c) = Top(d)
  BY <1>1, <1>6, OtherFields
<1> QED BY <1>1, <1>2, <1>4, <1>6, <1>7 DEF GateDone, Drives, Placed

\* One more node on top of a finished build.
LEMMA PrimDone ==
  ASSUME NEW before \in Seq(NodeRecs), NEW b, NEW type, NEW fanin, NEW nfo, Sound(b),
         Grown(before, b.node), Placed(b), Fits(b.node, type, fanin, nfo), type \notin C!PpoTypes
  PROVE  /\ GateDone(before, Prim(b, type, fanin, nfo))
         /\ Top(Prim(b, type, fanin, nfo)) \in Nat
         /\ Prim(b, type, fanin, nfo).site = b.site
         /\ Prim(b, type, fanin, nfo).leaf = b.leaf
         /\ Prim(b, type, fanin, nfo).at = b.at
         /\ Grown(b.node, Prim(b, type, fanin, nfo).node)
<1> DEFINE c == Prim(b, type, fanin, nfo)
<1>1. c = Prim(b, type, fanin, nfo)
  OBVIOUS
<1> HIDE DEF c
<1>2. Sound(c) /\ Grown(b.node, c.node)
  BY <1>1, PrimFacts
<1>3. c.site = b.site /\ c.leaf = b.leaf /\ c.at = b.at
  BY <1>1, PrimFacts
<1>4. Top(c) \in DOMAIN c.node /\ Top(c) \in Nat /\ c.node[Top(c)].type = type
  BY <1>1, PrimFacts
<1>5. b.node \in Seq(NodeRecs) /\ c.node \in Seq(NodeRecs)
  BY <1>2 DEF Sound, Builds
<1>6. Grown(before, c.node)
  BY <1>2, <1>5, GrownTwice
<1>7. DOMAIN b.node \subseteq DOMAIN c.node
  BY <1>2, <1>5, GrownFacts
<1>8. Placed(c)
  BY <1>3, <1>7 DEF Placed
<1> QED BY <1>1, <1>2, <1>3, <1>4, <1>6, <1>8 DEF GateDone, Drives

\* A site at a node that exists.
LEMMA SiteAdded ==
  ASSUME NEW before, NEW b, GateDone(before, b), NEW m \in Nat, NEW n \in DOMAIN b.node
  PROVE  GateDone(before, [b EXCEPT !.site = Append(@, <<n, m>>)])
<1> DEFINE sites == Append(b.site, <<n, m>>)
           c == [b EXCEPT !.site = sites]
<1>1. b \in Builds /\ Sound(b)
  BY DEF GateDone, Sound
<1>2. n \in Nat
  BY <1>1 DEF Builds
<1>3. b.site \in Seq(Pairs) /\ <<n, m>> \in Pairs
  BY <1>1, <1>2 DEF Builds, Pairs
<1>4. sites \in Seq(Pairs) /\ DOMAIN sites = 1 .. Len(b.site) + 1 /\ Len(b.site) \in Nat
      /\ DOMAIN b.site = 1 .. Len(b.site)
      /\ (\A k \in DOMAIN b.site : sites[k] = b.site[k]) /\ sites[Len(b.site) + 1] = <<n, m>>
  BY <1>3, AppendFacts
<1> HIDE DEF sites
<1>5. c \in Builds /\ c.node = b.node /\ c.conn = b.conn /\ c.site = sites
  BY <1>1, <1>4 DEF Builds
<1> HIDE DEF c
<1>6. Sound(c) /\ Top(c) = Top(b)
  BY <1>1, <1>5, OtherFields
<1>7. Placed(c)
  <2> SUFFICES ASSUME NEW v \in DOMAIN sites PROVE sites[v][1] \in DOMAIN b.node
    BY <1>5 DEF Placed
  <2>1. CASE v = Len(b.site) + 1
    BY <1>4, <2>1
  <2>2. CASE v # Len(b.site) + 1
    <3>1. v \in DOMAIN b.site
      BY <1>4, <2>2
    <3> QED BY <1>4, <3>1 DEF GateDone, Placed
  <2> QED BY <2>1, <2>2
<1>8. GateDone(before, c)
  BY <1>5, <1>6, <1>7 DEF GateDone
<1> QED BY <1>8 DEF c, sites

TwoFanins(nodes, m, n) == Drives(nodes, m) /\ Drives(nodes, n) /\ m \in Nat /\ n \in Nat
LEMMA PairFits ==
  ASSUME NEW nodes, NEW m, NEW n, TwoFanins(nodes, m, n), NEW type \in {"Xor", "Xnor"}, NEW nfo \in Nat
  PROVE  Fits(nodes, type, <<m, n>>, nfo) /\ type \notin C!PpoTypes
<1>1. <<m, n>> \in Seq(Nat) /\ DOMAIN <<m, n>> = 1 .. 2 /\ <<m, n>>[1] = m /\ <<m, n>>[2] = n
      /\ <<m, n>> # << >>
  BY DEF TwoFanins
<1>2. \A k \in 1 .. 2 : k = 1 \/ k = 2
  OBVIOUS
<1>3. Fed(nodes, <<m, n>>)
  BY <1>1, <1>2 DEF Fed, TwoFanins
<1>4. /\ type \in C!NodeTypes /\ type \notin C!PpoTypes
      /\ type \notin C!NoFanin /\ type \notin C!OneFanin
  BY DEF C!NodeTypes, C!GateTypes, C!PpoTypes, C!NoFanin, C!PpiTypes, C!OneFanin, C!ControlTypes
<1> QED BY <1>1, <1>3, <1>4 DEF Fits, Arity

\* The builds of the chain, one after the other.
ChainPrim(c, type, fanin, nfo, k) ==
  IF k < Len(fanin) THEN Prim(c, "Xor", <<Top(c), fanin[k]>>, 1)
  ELSE Prim(c, type, <<Top(c), fanin[k]>>, nfo)
ChainLink(c, type, fanin, nfo, k) ==
  [ChainPrim(c, type, fanin, nfo, k) EXCEPT
     !.site = Append(@, <<Top(ChainPrim(c, type, fanin, nfo, k)), ChainPosition(type, k)>>)]
ChainStart(b, fanin) ==
  LET first == Prim(b, "Xor", <<fanin[1], fanin[2]>>, 1)
  IN  [first EXCEPT !.site = << <<Top(first), 1>>, <<Top(first), 2>> >>]
ChainBuilds(b, type, fanin, nfo, f) ==
  \A j \in 0 .. Len(fanin) - 2 :
    /\ GateDone(b.node, f[j])
    /\ f[j] = IF j = 0 THEN ChainStart(b, fanin) ELSE ChainLink(f[j - 1], type, fanin, nfo, j + 2)

LEMMA ChainIs ==
  ASSUME NEW b, NEW type, NEW fanin, NEW nfo, Sound(b), Placed(b), type \in {"Xor", "Xnor"}, nfo \in Nat,
         Fed(b.node, fanin), Len(fanin) > 2
  PROVE  \E f : /\ ChainBuilds(b, type, fanin, nfo, f)
                /\ XorChain(b, type, fanin, nfo) = f[Len(fanin) - 2]
<1> DEFINE ni == Len(fanin)
           before == b.node
           A == {c \in Builds : GateDone(before, c)}
           Next1(c, k) ==
             IF k < ni THEN Prim(c, "Xor", <<Top(c), fanin[k]>>, 1)
             ELSE Prim(c, type, <<Top(c), fanin[k]>>, nfo)
           Link1(c, k) == [Next1(c, k) EXCEPT !.site = Append(@, <<Top(Next1(c, k)), ChainPosition(type, k)>>)]
           first == Prim(b, "Xor", <<fanin[1], fanin[2]>>, 1)
           start == [first EXCEPT !.site = << <<Top(first), 1>>, <<Top(first), 2>> >>]
           E(g) == [j \in 0 .. ni - 2 |-> IF j = 0 THEN start ELSE Link1(g[j - 1], j + 2)]
           f == CHOOSE g : g = E(g)
           step == [j \in 1 .. ni - 2 |-> [c \in A |-> Link1(c, j + 2)]]
<1>1. XorChain(b, type, fanin, nfo) = f[ni - 2]
  BY Zenon DEF XorChain
<1>2. ni \in Nat /\ ni - 2 \in Nat /\ DOMAIN fanin = 1 .. ni
      /\ 1 \in DOMAIN fanin /\ 2 \in DOMAIN fanin /\ \A j \in 1 .. ni - 2 : j + 2 \in DOMAIN fanin
  BY DEF Fed
<1> HIDE DEF ni
<1>3. before \in Seq(NodeRecs) /\ b \in Builds
  BY DEF Sound, Builds
<1>4. \A k \in DOMAIN fanin : Drives(before, fanin[k]) /\ fanin[k] \in Nat
  BY DEF Fed
<1>5. start \in A
  <2>1. TwoFanins(before, fanin[1], fanin[2])
    BY <1>2, <1>4 DEF TwoFanins
  <2>2. Fits(before, "Xor", <<fanin[1], fanin[2]>>, 1) /\ "Xor" \notin C!PpoTypes
    BY <2>1, PairFits
  <2>3. Grown(before, before)
    BY <1>3 DEF Grown
  <2>4. GateDone(before, first) /\ Top(first) \in Nat
    BY <1>3, <2>2, <2>3, PrimDone
  <2> HIDE DEF first
  <2> DEFINE sites == << <<Top(first), 1>>, <<Top(first), 2>> >>
  <2>5. sites \in Seq(Pairs) /\ \A v \in DOMAIN sites : sites[v][1] = Top(first)
    BY <2>4 DEF Pairs
  <2>6. first \in Builds /\ Sound(first)
    BY <2>4 DEF GateDone, Sound
  <2>7. start = [first EXCEPT !.site = sites]
    OBVIOUS
  <2> HIDE DEF sites, start
  <2>8. start \in Builds /\ start.node = first.node /\ start.conn = first.conn /\ start.site = sites
    BY <2>5, <2>6, <2>7 DEF Builds
  <2>9. Sound(start) /\ Top(start) = Top(first)
    BY <2>6, <2>8, OtherFields
  <2>10. GateDone(before, start)
    BY <2>4, <2>5, <2>8, <2>9 DEF GateDone, Placed, Drives
  <2> QED BY <2>8, <2>10
<1> HIDE DEF start
<1>6. ASSUME NEW c \in A, NEW j \in 1 .. ni - 2 PROVE Link1(c, j + 2) \in A
  <2> DEFINE d == Next1(c, j + 2)
  <2>1. GateDone(before, c) /\ Sound(c) /\ Grown(before, c.node) /\ Placed(c) /\ Drives(c.node, Top(c))
    BY DEF GateDone
  <2>2. j + 2 \in DOMAIN fanin /\ c.node \in Seq(NodeRecs)
    BY <1>2, <2>1 DEF Sound, Builds
  <2>3. Drives(c.node, fanin[j + 2]) /\ Top(c) \in Nat /\ fanin[j + 2] \in Nat
    BY SMTT(40), <1>3, <1>4, <2>1, <2>2, GrownFacts DEF Drives
  <2>4. TwoFanins(c.node, Top(c), fanin[j + 2])
    BY <2>1, <2>3 DEF TwoFanins
  <2>5. /\ Fits(c.node, "Xor", <<Top(c), fanin[j + 2]>>, 1) /\ "Xor" \notin C!PpoTypes
        /\ Fits(c.node, type, <<Top(c), fanin[j + 2]>>, nfo) /\ type \notin C!PpoTypes
    BY <2>4, PairFits
  <2>6. /\ GateDone(before, Prim(c, "Xor", <<Top(c), fanin[j + 2]>>, 1))
        /\ GateDone(before, Prim(c, type, <<Top(c), fanin[j + 2]>>, nfo))
    BY <1>3, <2>1, <2>5, PrimDone
  <2>7. GateDone(before, d)
    BY <2>6
  <2> HIDE DEF d
  <2>8. Top(d) \in DOMAIN d.node /\ ChainPosition(type, j + 2) \in Nat
    BY <2>7 DEF GateDone, Drives, ChainPosition
  <2>9. GateDone(before, [d EXCEPT !.site = Append(@, <<Top(d), ChainPosition(type, j + 2)>>)])
    BY <2>7, <2>8, SiteAdded
  <2>10. GateDone(before, Link1(c, j + 2))
    BY <2>9 DEF d
  <2> HIDE DEF Link1
  <2> QED BY <2>10 DEF GateDone, Sound
<1>7. PICK g \in [0 .. ni - 2 -> A] : g = P!Steps(ni - 2, start, step, g)
  <2>1. \A j \in 1 .. ni - 2, c \in A : step[j][c] \in A
    BY <1>6
  <2> HIDE DEF step, A
  <2>2. P!StepsIn(ni - 2, A, start, step)
    BY <1>2, <1>5, <2>1 DEF P!StepsIn
  <2>3. \A m, B, st, s : P!StepsIn(m, B, st, s) => \E h \in [0 .. m -> B] : h = P!Steps(m, st, s, h)
    BY P!RecursionTo
  <2> QED BY <2>2, <2>3
<1>8. g = E(g)
  <2>1. \A j \in 0 .. ni - 2 : g[j] = IF j = 0 THEN start ELSE step[j][g[j - 1]]
    BY Zenon, <1>7 DEF P!Steps
  <2>2. \A j \in 0 .. ni - 2 : j # 0 => j \in 1 .. ni - 2 /\ j - 1 \in 0 .. ni - 2
    BY <1>2
  <2>3. \A j \in 0 .. ni - 2 : j # 0 => g[j - 1] \in A
    BY <2>2
  <2> HIDE DEF Link1, A
  <2>4. \A j \in 0 .. ni - 2 : g[j] = IF j = 0 THEN start ELSE Link1(g[j - 1], j + 2)
    BY <2>1, <2>2, <2>3
  <2>5. g = [j \in 0 .. ni - 2 |-> g[j]]
    BY <1>7
  <2> HIDE DEF step
  <2> QED BY SMTT(40), <2>4, <2>5
<1> HIDE DEF E, Link1
<1>9. f = E(f)
  BY <1>8
<1> HIDE DEF f
<1>10. \A j \in 0 .. ni - 2 : f[j] = IF j = 0 THEN start ELSE Link1(f[j - 1], j + 2)
  <2>1. \A j \in 0 .. ni - 2 : E(f)[j] = IF j = 0 THEN start ELSE Link1(f[j - 1], j + 2)
    BY DEF E
  <2> QED BY <1>9, <2>1
<1> DEFINE T == {j \in 0 .. ni - 2 : f[j] \in A}
<1>11. 0 \in T
  BY <1>2, <1>5, <1>10
<1>12. ASSUME NEW j \in 1 .. ni - 2, j - 1 \in T PROVE j \in T
  <2>1. j \in 0 .. ni - 2 /\ j # 0 /\ f[j - 1] \in A
    BY <1>2, <1>12
  <2>2. f[j] \in A
    <3> HIDE DEF A
    <3> QED BY <1>6, <1>10, <2>1
  <2> QED BY <2>1, <2>2
<1>13. 0 .. ni - 2 \subseteq T
  <2> HIDE DEF T
  <2>1. \A m \in Nat : \A U : 0 \in U /\ (\A k \in 1 .. m : k - 1 \in U => k \in U) => 0 .. m \subseteq U
    BY P!InductionTo
  <2> QED BY <1>2, <1>11, <1>12, <2>1
<1>14. start = ChainStart(b, fanin)
  BY Zenon DEF start, first, before, ChainStart
<1>15. \A c, k : Link1(c, k) = ChainLink(c, type, fanin, nfo, k)
  BY Zenon DEF Link1, Next1, ni, ChainLink, ChainPrim
<1>16. ChainBuilds(b, type, fanin, nfo, f)
  BY <1>10, <1>13, <1>14, <1>15 DEF T, ni, ChainBuilds
<1> QED BY <1>1, <1>16 DEF ni

LEMMA XorChainFacts ==
  ASSUME NEW b, NEW type, NEW fanin, NEW nfo, Sound(b), Placed(b), type \in {"Xor", "Xnor"}, nfo \in Nat,
         Fed(b.node, fanin), Len(fanin) > 2
  PROVE  GateDone(b.node, XorChain(b, type, fanin, nfo))
<1>1. PICK f : ChainBuilds(b, type, fanin, nfo, f) /\ XorChain(b, type, fanin, nfo) = f[Len(fanin) - 2]
  BY ChainIs
<1>2. Len(fanin) \in Nat
  BY DEF Fed
<1>3. Len(fanin) - 2 \in 0 .. Len(fanin) - 2
  BY <1>2
<1> QED BY <1>1, <1>3 DEF ChainBuilds

-----------------------------------------------------------------------------
(* Complex gates.                                                          *)

LEMMA LitNumType ==
  ASSUME NEW expr, NEW B, expr \in Seq(B), NEW v, NEW op
  PROVE  /\ LitNum(expr, v, op) \in Nat
         /\ (\E k \in DOMAIN expr : expr[k].op = op /\ expr[k].var = v) => LitNum(expr, v, op) > 0
<1> DEFINE S == {k \in DOMAIN expr : expr[k].op = op /\ expr[k].var = v}
<1>1. S \subseteq 1 .. Len(expr) /\ Len(expr) \in Nat
  OBVIOUS
<1> HIDE DEF S
<1>2. IsFiniteSet(1 .. Len(expr))
  BY <1>1, FS_Interval
<1>3. IsFiniteSet(S) /\ Cardinality(S) \in Nat
  BY <1>1, <1>2, FS_Subset, FS_CardinalityType
<1>4. S # {} => Cardinality(S) # 0
  BY <1>3, FS_EmptySet
<1>5. (\E k \in DOMAIN expr : expr[k].op = op /\ expr[k].var = v) => S # {}
  BY DEF S
<1>6. LitNum(expr, v, op) = Cardinality(S)
  BY DEF LitNum, S
<1> QED BY <1>3, <1>4, <1>5, <1>6

LEMMA SingleFits ==
  ASSUME NEW nodes, NEW n, Drives(nodes, n), n \in Nat, NEW type \in {"Buff", "Not"}, NEW nfo \in Nat
  PROVE  Fits(nodes, type, <<n>>, nfo) /\ type \notin C!PpoTypes
<1>1. <<n>> \in Seq(Nat) /\ DOMAIN <<n>> = {1} /\ <<n>>[1] = n /\ <<n>> # << >> /\ Len(<<n>>) = 1
  OBVIOUS
<1>3. Fed(nodes, <<n>>)
  BY <1>1 DEF Fed
<1>4. type \in C!NodeTypes /\ type \notin C!PpoTypes /\ type \notin C!NoFanin
  BY DEF C!NodeTypes, C!GateTypes, C!PpoTypes, C!NoFanin, C!PpiTypes
<1> QED BY <1>1, <1>3, <1>4 DEF Fits, Arity

\* What one more buffer or inverter is, or none.
MayAdd(b, c, cond, n) ==
  /\ Sound(c) /\ Grown(b.node, c.node) /\ c.site = b.site /\ c.leaf = b.leaf /\ c.at = b.at
  /\ Top(c) \in Nat
  /\ cond => Drives(c.node, Top(c))
LEMMA AddSingle ==
  ASSUME NEW b, Sound(b), NEW n, Drives(b.node, n), NEW type \in {"Buff", "Not"}, NEW nfo \in Nat,
         NEW cond, NEW c, c = IF cond THEN Prim(b, type, <<n>>, nfo) ELSE b
  PROVE  MayAdd(b, c, cond, n)
<1>1. b.node \in Seq(NodeRecs)
  BY DEF Sound, Builds
<1>2. CASE cond
  <2>1. n \in Nat
    BY <1>1 DEF Drives
  <2>2. Fits(b.node, type, <<n>>, nfo) /\ type \notin C!PpoTypes
    BY <2>1, SingleFits
  <2>3. c = Prim(b, type, <<n>>, nfo)
    BY <1>2
  <2>4. Sound(c) /\ Grown(b.node, c.node)
    BY <2>2, <2>3, PrimFacts
  <2>5. c.site = b.site /\ c.leaf = b.leaf /\ c.at = b.at
    BY <2>2, <2>3, PrimFacts
  <2>6. Top(c) \in DOMAIN c.node /\ Top(c) \in Nat /\ c.node[Top(c)].type = type
    BY <2>2, <2>3, PrimFacts
  <2> QED BY <2>2, <2>4, <2>5, <2>6 DEF MayAdd, Drives
<1>3. CASE ~ cond
  BY <1>1, <1>3 DEF MayAdd, Grown, Top
<1> QED BY <1>2, <1>3

Unplaced == <<0, 0>>
LeafAt(c, expr, w) ==
  /\ Drives(c.node, c.leaf[w][1])
  /\ LitNum(expr, w, "Neg") > 0 => Drives(c.node, c.leaf[w][2])
  /\ c.site[w][1] \in DOMAIN c.node \/ (c.site[w] = Unplaced /\ LitNum(expr, w, "Neg") = 0)
LeavesDone(before, expr, m, c) ==
  /\ Sound(c) /\ Grown(before, c.node)
  /\ DOMAIN c.site = 1 .. m /\ DOMAIN c.leaf = 1 .. m /\ c.at = << >>
  /\ \A w \in 1 .. m : LeafAt(c, expr, w)

LEMMA LeavesStep ==
  ASSUME NEW before \in Seq(NodeRecs), NEW B, NEW expr \in Seq(B), NEW v \in Nat \ {0}, NEW b,
         LeavesDone(before, expr, v - 1, b), NEW n, Drives(before, n)
  PROVE  LeavesDone(before, expr, v, Leaves(b, expr, v, n))
<1> DEFINE pos == LitNum(expr, v, "Var")
           neg == LitNum(expr, v, "Neg")
           buffered == IF neg = 0 THEN pos # 1 ELSE pos > 0
           buff == IF buffered THEN Prim(b, "Buff", <<n>>, IF neg > 0 THEN pos + 1 ELSE pos) ELSE b
           posi == IF buffered THEN Top(buff) ELSE n
           inv == IF neg > 0 THEN Prim(buff, "Not", <<posi>>, neg) ELSE buff
           place == IF buffered THEN <<posi, 1>> ELSE IF neg > 0 THEN <<Top(inv), 1>> ELSE <<0, 0>>
           leaves == Append(b.leaf, <<posi, Top(inv)>>)
           sites == Append(b.site, place)
           c == [inv EXCEPT !.leaf = leaves, !.site = sites]
<1>1. pos \in Nat /\ neg \in Nat
  BY LitNumType
<1>2. Sound(b) /\ b \in Builds /\ b.node \in Seq(NodeRecs) /\ b.site \in Seq(Pairs) /\ b.leaf \in Seq(Pairs)
      /\ Grown(before, b.node)
  BY DEF LeavesDone, Sound, Builds
<1> HIDE DEF pos, neg
<1>3. Drives(b.node, n) /\ n \in Nat /\ Top(b) \in Nat
  BY <1>2, GrownFacts DEF Drives, Top
<1>4. MayAdd(b, buff, buffered, n)
  <2>1. (IF neg > 0 THEN pos + 1 ELSE pos) \in Nat
    BY <1>1
  <2>2. buff = IF buffered THEN Prim(b, "Buff", <<n>>, IF neg > 0 THEN pos + 1 ELSE pos) ELSE b
    OBVIOUS
  <2> HIDE DEF buff, buffered
  <2> QED BY <1>2, <1>3, <2>1, <2>2, AddSingle
<1>buf. (buffered => posi = Top(buff)) /\ (~ buffered => posi = n)
  <2> HIDE DEF buffered, buff
  <2> QED OBVIOUS
<1>plc. /\ buffered => place = <<posi, 1>>
        /\ ~ buffered /\ neg > 0 => place = <<Top(inv), 1>>
        /\ ~ buffered /\ ~ (neg > 0) => place = <<0, 0>>
  <2> HIDE DEF buffered, inv, posi
  <2> QED OBVIOUS
<1> HIDE DEF buff, buffered, posi
<1>5. buff.node \in Seq(NodeRecs) /\ Sound(buff) /\ Drives(buff.node, posi) /\ posi \in Nat
  <2>1. buff.node \in Seq(NodeRecs) /\ Sound(buff)
    BY <1>4 DEF MayAdd, Sound, Builds
  <2>2. Drives(buff.node, n)
    BY <1>2, <1>3, <1>4, <2>1, GrownFacts DEF MayAdd
  <2>3. CASE buffered
    BY <1>4, <1>buf, <2>1, <2>3 DEF MayAdd
  <2>4. CASE ~ buffered
    BY <1>3, <1>buf, <2>1, <2>2, <2>4 
  <2> QED BY <2>3, <2>4
<1>6. MayAdd(buff, inv, neg > 0, posi)
  <2> DEFINE cond == neg > 0
  <2>1. inv = IF cond THEN Prim(buff, "Not", <<posi>>, neg) ELSE buff
    BY <1>1
  <2> HIDE DEF cond, inv
  <2>2. MayAdd(buff, inv, cond, posi)
    BY <1>1, <1>5, <2>1, AddSingle
  <2> QED BY <2>2 DEF cond
<1> HIDE DEF inv
<1>7. inv \in Builds /\ inv.node \in Seq(NodeRecs) /\ Sound(inv) /\ Top(inv) \in Nat
      /\ inv.site = b.site /\ inv.leaf = b.leaf /\ inv.at = b.at
  <2>1. inv.site = b.site /\ inv.leaf = b.leaf /\ inv.at = b.at /\ Sound(inv) /\ Top(inv) \in Nat
    BY <1>4, <1>6 DEF MayAdd
  <2> QED BY <2>1 DEF Sound, Builds
<1>8. Grown(b.node, inv.node) /\ Grown(before, inv.node)
  BY <1>2, <1>4, <1>5, <1>6, <1>7, GrownTwice DEF MayAdd
<1>9. Drives(inv.node, posi) /\ (neg > 0 => Drives(inv.node, Top(inv)))
  BY <1>5, <1>6, <1>7, GrownFacts DEF MayAdd
<1>10. place \in Pairs /\ (place[1] \in DOMAIN inv.node \/ (place = Unplaced /\ neg = 0))
  <2> HIDE DEF place
  <2>1. <<posi, 1>> \in Pairs /\ <<Top(inv), 1>> \in Pairs /\ <<0, 0>> \in Pairs
        /\ <<posi, 1>>[1] = posi /\ <<Top(inv), 1>>[1] = Top(inv)
    BY <1>5, <1>7 DEF Pairs
  <2>2. CASE buffered
    BY <1>9, <1>plc, <2>1, <2>2 DEF Drives
  <2>3. CASE ~ buffered /\ neg > 0
    BY <1>9, <1>plc, <2>1, <2>3 DEF Drives
  <2>4. CASE ~ buffered /\ ~ (neg > 0)
    BY <1>1, <1>plc, <2>1, <2>4 DEF Unplaced
  <2> QED BY <2>2, <2>3, <2>4
<1> HIDE DEF place
<1>11. /\ sites \in Seq(Pairs) /\ DOMAIN sites = 1 .. v /\ sites[v] = place
       /\ \A w \in 1 .. v - 1 : sites[w] = b.site[w]
  <2>1. DOMAIN b.site = 1 .. v - 1 /\ Len(b.site) = v - 1
    BY <1>2 DEF LeavesDone
  <2> QED BY <1>2, <1>10, <2>1, AppendFacts
<1>12. /\ leaves \in Seq(Pairs) /\ DOMAIN leaves = 1 .. v /\ leaves[v] = <<posi, Top(inv)>>
       /\ \A w \in 1 .. v - 1 : leaves[w] = b.leaf[w]
  <2>1. DOMAIN b.leaf = 1 .. v - 1 /\ Len(b.leaf) = v - 1
    BY <1>2 DEF LeavesDone
  <2>2. <<posi, Top(inv)>> \in Pairs
    BY <1>5, <1>7 DEF Pairs
  <2> QED BY <1>2, <2>1, <2>2, AppendFacts
<1> HIDE DEF sites, leaves
<1>13. c \in Builds /\ c.node = inv.node /\ c.conn = inv.conn /\ c.site = sites /\ c.leaf = leaves
       /\ c.at = b.at
  BY <1>7, <1>11, <1>12 DEF Builds
<1>14. Leaves(b, expr, v, n) = c
  <2>1. leaves = Append(inv.leaf, <<posi, Top(inv)>>) /\ sites = Append(inv.site, place)
    BY <1>7 DEF leaves, sites
  <2>2. c = [inv EXCEPT !.leaf = Append(@, <<posi, Top(inv)>>), !.site = Append(@, place)]
    BY <2>1
  <2> QED BY <2>2, Zenon DEF Leaves, pos, neg, buffered, buff, posi, inv, place
<1> HIDE DEF c
<1>15. Sound(c)
  BY <1>7, <1>13, OtherFields
<1>16. ASSUME NEW w \in 1 .. v PROVE LeafAt(c, expr, w)
  <2>1. CASE w = v
    BY <1>9, <1>10, <1>11, <1>12, <1>13, <2>1 DEF LeafAt, neg
  <2>2. CASE w # v
    <3>1. w \in 1 .. v - 1
      BY <2>2
    <3>2. LeafAt(b, expr, w)
      BY <3>1 DEF LeavesDone
    <3>3. DOMAIN b.node \subseteq DOMAIN c.node /\ \A m : Drives(b.node, m) => Drives(c.node, m)
      BY <1>2, <1>7, <1>8, <1>13, GrownFacts
    <3> QED BY <1>11, <1>12, <1>13, <3>1, <3>2, <3>3 DEF LeafAt
  <2> QED BY <2>1, <2>2
<1>17. c.at = << >>
  BY <1>13 DEF LeavesDone
<1> QED BY <1>8, <1>11, <1>12, <1>13, <1>14, <1>15, <1>16, <1>17 DEF LeavesDone

\* No operator up to k has the literal j as its operand.
Waiting(expr, k, j) == \A p \in Operators(expr) : p <= k => j \notin ToSet(expr[p].kids)
SiteAt(c, expr, k, w) ==
  \/ c.site[w][1] \in DOMAIN c.node
  \/ c.site[w] = Unplaced /\ \E j \in DOMAIN expr : /\ expr[j].op = "Var" /\ expr[j].var = w
                                                    /\ Waiting(expr, k, j)
NodesDone(before, expr, ni, k, c) ==
  /\ Sound(c) /\ Grown(before, c.node)
  /\ DOMAIN c.site = 1 .. ni /\ DOMAIN c.leaf = 1 .. ni /\ DOMAIN c.at = 1 .. k
  /\ \A w \in 1 .. ni : /\ SiteAt(c, expr, k, w)
                        /\ Drives(c.node, c.leaf[w][1])
                        /\ LitNum(expr, w, "Neg") > 0 => Drives(c.node, c.leaf[w][2])
  /\ \A j \in 1 .. k : Drives(c.node, c.at[j])
  /\ k \in Operators(expr) => Top(c) = c.at[k]

Ops == {"And", "Or", "Xor"}
ExprRecs(ni) == [op : {"Var", "Neg", "And", "Or", "Xor"}, var : 0 .. ni, kids : Seq(Nat)]
LEMMA ExprFacts ==
  ASSUME NEW expr, NEW ni \in Nat, ProperExpr(expr, ni)
  PROVE  /\ expr \in Seq(ExprRecs(ni)) /\ DOMAIN expr = 1 .. Len(expr) /\ Len(expr) \in Nat
         /\ Len(expr) \in Operators(expr)
         /\ \A k \in DOMAIN expr : IF k \in Operators(expr)
                                   THEN /\ expr[k].op \in Ops
                                        /\ expr[k].kids \in Seq(1 .. k - 1) /\ Len(expr[k].kids) >= 2
                                   ELSE expr[k].op \in {"Var", "Neg"} /\ expr[k].var \in 1 .. ni
         /\ \A k \in DOMAIN expr : k # Len(expr) => \E p \in Operators(expr) : k \in ToSet(expr[p].kids)
         /\ \A v \in 1 .. ni : \E k \in DOMAIN expr : expr[k].op \in {"Var", "Neg"} /\ expr[k].var = v
<1> DEFINE Literal == {k \in DOMAIN expr : expr[k].op \in {"Var", "Neg"}}
           Inner == DOMAIN expr \ Literal
<1>1. /\ expr \in Seq(ExprRecs(ni))
      /\ \A k \in Literal : expr[k].var # 0
      /\ \A k \in Inner : expr[k].kids \in Seq(1 .. k - 1) /\ Len(expr[k].kids) >= 2
      /\ Len(expr) \in Inner
      /\ \A k \in DOMAIN expr \ {Len(expr)} : \E p \in Inner : k \in ToSet(expr[p].kids)
      /\ \A v \in 1 .. ni : \E k \in Literal : expr[k].var = v
  BY Zenon DEF ProperExpr, ExprRecs
<1>2. DOMAIN expr = 1 .. Len(expr) /\ Len(expr) \in Nat /\ \A k \in DOMAIN expr : expr[k] \in ExprRecs(ni)
  BY <1>1
<1>3. \A k \in DOMAIN expr : expr[k].op \in {"Var", "Neg"} \cup Ops /\ expr[k].var \in 0 .. ni
  BY <1>2 DEF ExprRecs, Ops
<1>4. Inner = Operators(expr) /\ \A k \in DOMAIN expr : k \in Operators(expr) <=> expr[k].op \in Ops
  BY <1>3 DEF Operators, Ops
<1>5. \A k \in DOMAIN expr : k \notin Inner => k \in Literal
  OBVIOUS
<1>6. \A k \in Literal : expr[k].var \in 1 .. ni /\ expr[k].op \in {"Var", "Neg"} /\ k \in DOMAIN expr
  BY <1>1, <1>3
<1> HIDE DEF Literal, Inner
<1> QED BY <1>1, <1>2, <1>4, <1>5, <1>6

LEMMA LeavesAreNodes ==
  ASSUME NEW before, NEW expr, NEW ni \in Nat, ProperExpr(expr, ni), NEW c,
         LeavesDone(before, expr, ni, c)
  PROVE  NodesDone(before, expr, ni, 0, c)
<1>1. /\ expr \in Seq(ExprRecs(ni)) /\ DOMAIN expr = 1 .. Len(expr) /\ Len(expr) \in Nat
      /\ \A v \in 1 .. ni : \E k \in DOMAIN expr : expr[k].op \in {"Var", "Neg"} /\ expr[k].var = v
  BY ExprFacts
<1>2. \A w \in 1 .. ni : LeafAt(c, expr, w)
  BY DEF LeavesDone
<1>3. \A p \in Operators(expr) : p \in 1 .. Len(expr) /\ ~ (p <= 0)
  BY <1>1 DEF Operators
<1>4. ASSUME NEW w \in 1 .. ni PROVE SiteAt(c, expr, 0, w)
  <2>1. CASE c.site[w][1] \in DOMAIN c.node
    BY <2>1 DEF SiteAt
  <2>2. CASE c.site[w][1] \notin DOMAIN c.node
    <3>1. c.site[w] = Unplaced /\ LitNum(expr, w, "Neg") = 0
      BY <1>2, <2>2 DEF LeafAt
    <3>2. PICK k \in DOMAIN expr : expr[k].op \in {"Var", "Neg"} /\ expr[k].var = w
      BY <1>1
    <3>3. expr[k].op # "Neg"
      BY <1>1, <3>1, <3>2, LitNumType
    <3>4. Waiting(expr, 0, k)
      BY <1>3 DEF Waiting
    <3> QED BY <3>1, <3>2, <3>3, <3>4 DEF SiteAt
  <2> QED BY <2>1, <2>2
<1>5. DOMAIN c.at = 1 .. 0 /\ 1 .. 0 = {} /\ 0 \notin Operators(expr)
  <2>1. DOMAIN << >> = 1 .. 0 /\ 1 .. 0 = {}
    OBVIOUS
  <2> QED BY <1>3, <2>1 DEF LeavesDone
<1> QED BY <1>2, <1>4, <1>5 DEF NodesDone, LeavesDone, LeafAt

LEMMA LiteralStep ==
  ASSUME NEW before, NEW expr, NEW ni \in Nat, ProperExpr(expr, ni), NEW k \in DOMAIN expr,
         k \notin Operators(expr), NEW b, NodesDone(before, expr, ni, k - 1, b), NEW nfo
  PROVE  NodesDone(before, expr, ni, k, ExprNode(b, expr, k, nfo))
<1> DEFINE n == b.leaf[expr[k].var][IF expr[k].op = "Var" THEN 1 ELSE 2]
           ats == Append(b.at, n)
           c == [b EXCEPT !.at = ats]
<1>1. /\ expr \in Seq(ExprRecs(ni)) /\ k \in Nat /\ k # 0
      /\ expr[k].op \in {"Var", "Neg"} /\ expr[k].var \in 1 .. ni
  BY ExprFacts
<1>2. b \in Builds /\ b.node \in Seq(NodeRecs) /\ b.at \in Seq(Nat) /\ Sound(b)
  BY DEF NodesDone, Sound, Builds
<1>3. Drives(b.node, n)
  <2>1. CASE expr[k].op = "Var"
    BY <1>1, <2>1 DEF NodesDone
  <2>2. CASE expr[k].op # "Var"
    <3>1. LitNum(expr, expr[k].var, "Neg") > 0
      BY <1>1, <2>2, LitNumType
    <3> QED BY <1>1, <2>2, <3>1 DEF NodesDone
  <2> QED BY <2>1, <2>2
<1> HIDE DEF n
<1>4. n \in Nat
  BY <1>2, <1>3 DEF Drives
<1>5. ats \in Seq(Nat) /\ DOMAIN ats = 1 .. k /\ ats[k] = n /\ \A j \in 1 .. k - 1 : ats[j] = b.at[j]
  <2>1. DOMAIN b.at = 1 .. k - 1 /\ Len(b.at) = k - 1
    BY <1>1, <1>2 DEF NodesDone
  <2> QED BY <1>1, <1>2, <1>4, <2>1, AppendFacts
<1> HIDE DEF ats
<1>6. /\ c \in Builds /\ c.node = b.node /\ c.conn = b.conn /\ c.site = b.site /\ c.leaf = b.leaf
      /\ c.at = ats
  BY <1>2, <1>5 DEF Builds
<1>7. ExprNode(b, expr, k, nfo) = c
  BY DEF ExprNode, c, ats, n
<1> HIDE DEF c
<1>8. Sound(c) /\ Grown(before, c.node)
  BY <1>2, <1>6, OtherFields DEF NodesDone
<1>9. \A j \in 1 .. k : Drives(c.node, c.at[j])
  <2>1. \A j \in 1 .. k : j = k \/ j \in 1 .. k - 1
    BY <1>1
  <2> QED BY <1>3, <1>5, <1>6, <2>1 DEF NodesDone
<1>10. \A w \in 1 .. ni : SiteAt(c, expr, k, w)
  <2>1. \A p \in Operators(expr) : p <= k => p <= k - 1
    BY <1>1, ExprFacts DEF Operators
  <2>2. \A j : Waiting(expr, k - 1, j) => Waiting(expr, k, j)
    BY <2>1 DEF Waiting
  <2>3. \A w \in 1 .. ni : SiteAt(b, expr, k - 1, w)
    BY DEF NodesDone
  <2> QED BY <1>6, <2>2, <2>3 DEF SiteAt
<1> QED BY <1>5, <1>6, <1>7, <1>8, <1>9, <1>10 DEF NodesDone

\* What an operator adds to b: its node, and the sites of the literals that end at it.
OperandsOf(c, expr, q) == [j \in DOMAIN expr[q].kids |-> c.at[expr[q].kids[j]]]
KidsOf(expr, q, v) == {j \in DOMAIN expr[q].kids : LET kid == expr[expr[q].kids[j]]
                                                   IN  kid.op = "Var" /\ kid.var = v}
OperatorMade(b, expr, ni, k, nfo, c) ==
  LET n == Len(b.node) + 1
  IN  /\ c \in Builds /\ Sound(c) /\ Grown(b.node, c.node) /\ c.leaf = b.leaf
      /\ Len(b.node) \in Nat /\ Len(c.node) = n /\ Top(c) = n /\ Drives(c.node, n)
      /\ c.node[n] = NewNode(expr[k].op, OperandsOf(b, expr, k), IF k = Len(expr) THEN nfo ELSE 1)
      /\ DOMAIN c.at = 1 .. k /\ c.at[k] = n /\ \A j \in 1 .. k - 1 : c.at[j] = b.at[j]
      /\ DOMAIN c.site = 1 .. ni
      /\ \A v \in 1 .. ni : IF b.site[v] = Unplaced /\ KidsOf(expr, k, v) # {}
                            THEN \E j \in KidsOf(expr, k, v) : c.site[v] = <<n, j>>
                            ELSE c.site[v] = b.site[v]

LEMMA OperatorIs ==
  ASSUME NEW before \in Seq(NodeRecs), NEW expr, NEW ni \in Nat, ProperExpr(expr, ni),
         NEW k \in Operators(expr), NEW b, NodesDone(before, expr, ni, k - 1, b), NEW nfo \in Nat
  PROVE  OperatorMade(b, expr, ni, k, nfo, ExprNode(b, expr, k, nfo))
<1> DEFINE e == expr[k]
           fanin == [j \in DOMAIN e.kids |-> b.at[e.kids[j]]]
           num == IF k = Len(expr) THEN nfo ELSE 1
           next == Prim(b, e.op, fanin, num)
           Here(v) == {j \in DOMAIN e.kids : LET kid == expr[e.kids[j]]
                                             IN  kid.op = "Var" /\ kid.var = v}
           Least(v) == CHOOSE j \in Here(v) : \A m \in Here(v) : j <= m
           SiteOf(v) == IF b.site[v] = <<0, 0>> /\ Here(v) # {} THEN <<Top(next), Least(v)>>
                        ELSE b.site[v]
           ats == Append(b.at, Top(next))
           sites == [v \in DOMAIN b.site |-> SiteOf(v)]
           c == [next EXCEPT !.at = ats, !.site = sites]
<1>1. /\ expr \in Seq(ExprRecs(ni)) /\ DOMAIN expr = 1 .. Len(expr) /\ Len(expr) \in Nat
      /\ k \in DOMAIN expr /\ k \in Nat /\ k # 0
      /\ e.op \in Ops /\ e.kids \in Seq(1 .. k - 1) /\ Len(e.kids) >= 2
  BY ExprFacts DEF Operators
<1> HIDE DEF e
<1>2. /\ b \in Builds /\ b.node \in Seq(NodeRecs) /\ b.at \in Seq(Nat) /\ Sound(b)
      /\ b.site \in Seq(Pairs) /\ DOMAIN b.site = 1 .. ni /\ Grown(before, b.node)
  BY DEF NodesDone, Sound, Builds
<1>3. DOMAIN e.kids = 1 .. Len(e.kids) /\ Len(e.kids) \in Nat
      /\ \A j \in DOMAIN e.kids : e.kids[j] \in 1 .. k - 1
  BY <1>1
<1>4. \A j \in 1 .. k - 1 : Drives(b.node, b.at[j]) /\ b.at[j] \in Nat
  BY SMTT(40), <1>2 DEF NodesDone, Drives
<1>5. Fits(b.node, e.op, fanin, num) /\ e.op \notin C!PpoTypes
  <2>0. \A j \in 1 .. Len(e.kids) : b.at[e.kids[j]] \in Nat
    BY <1>3, <1>4
  <2>1. fanin \in Seq(Nat) /\ fanin # << >> /\ DOMAIN fanin = DOMAIN e.kids
    <3>1. fanin \in [1 .. Len(e.kids) -> Nat] /\ DOMAIN fanin = DOMAIN e.kids
      BY <1>3, <2>0
    <3>2. Len(e.kids) \in Nat /\ Len(e.kids) # 0
      BY <1>1, <1>3
    <3> HIDE DEF fanin
    <3> QED BY <1>3, <3>1, <3>2
  <2>2. Fed(b.node, fanin)
    BY <1>3, <1>4, <2>1 DEF Fed
  <2>3. /\ e.op \in C!NodeTypes /\ e.op \notin C!PpoTypes
        /\ e.op \notin C!NoFanin /\ e.op \notin C!OneFanin
    BY <1>1 DEF Ops, C!NodeTypes, C!GateTypes, C!PpoTypes, C!NoFanin, C!PpiTypes, C!OneFanin, C!ControlTypes
  <2>4. num \in Nat
    OBVIOUS
  <2> HIDE DEF fanin, num
  <2> QED BY <2>1, <2>2, <2>3, <2>4 DEF Fits, Arity
<1> HIDE DEF fanin, num
<1>6. next = Prim(b, e.op, fanin, num)
  OBVIOUS
<1> HIDE DEF next
<1>7. /\ Sound(next) /\ Grown(b.node, next.node)
      /\ next.site = b.site /\ next.leaf = b.leaf /\ next.at = b.at
  BY <1>2, <1>5, <1>6, PrimNode
<1>8. Len(b.node) \in Nat /\ Len(next.node) = Len(b.node) + 1 /\ Top(next) = Len(b.node) + 1
  BY <1>2, <1>5, <1>6, PrimNode
<1>9. next.node[Len(b.node) + 1] = NewNode(e.op, fanin, num)
  BY <1>2, <1>5, <1>6, PrimNode
<1>10. next \in Builds /\ Top(next) \in Nat /\ Drives(next.node, Len(b.node) + 1)
  <2>1. next.node \in Seq(NodeRecs) /\ next \in Builds
    BY <1>7 DEF Sound, Builds
  <2>2. Len(b.node) + 1 \in DOMAIN next.node
    BY <1>8, <2>1
  <2>3. next.node[Len(b.node) + 1].type = e.op
    BY <1>9 DEF NewNode
  <2> QED BY <1>5, <1>8, <2>1, <2>2, <2>3 DEF Drives
<1>11. ats \in Seq(Nat) /\ DOMAIN ats = 1 .. k /\ ats[k] = Top(next)
       /\ \A j \in 1 .. k - 1 : ats[j] = b.at[j]
  <2>0. DOMAIN b.at = 1 .. k - 1 /\ b.at \in Seq(Nat) /\ k - 1 \in Nat
    BY SMTT(40), <1>1, <1>2 DEF NodesDone
  <2>1. DOMAIN b.at = 1 .. k - 1 /\ Len(b.at) = k - 1
    BY <2>0
  <2>2. (k - 1) + 1 = k
    BY <1>1
  <2> QED BY <1>10, <2>0, <2>1, <2>2, AppendFacts
<1>12. \A v : Here(v) # {} => Least(v) \in Nat /\ Least(v) \in Here(v)
  <2> SUFFICES ASSUME NEW v, Here(v) # {} PROVE Least(v) \in Nat /\ Least(v) \in Here(v)
    BY Zenon
  <2> DEFINE S == Here(v)
  <2>1. S \subseteq Nat /\ S # {}
    BY <1>3
  <2> HIDE DEF S
  <2>2. \A U : U \subseteq Nat /\ U # {} => \E x \in U : \A y \in U : x <= y
    BY P!NatLeast
  <2>3. \E j \in S : \A m \in S : j <= m
    BY <2>1, <2>2
  <2>4. (CHOOSE j \in S : \A m \in S : j <= m) \in S
    BY <2>3
  <2> QED BY ZenonT(60), <2>1, <2>4 DEF S
<1> HIDE DEF Here, Least
<1>13. ASSUME NEW v \in 1 .. ni PROVE SiteOf(v) \in Pairs
  <2>1. b.site[v] \in Pairs
    BY <1>2
  <2>2. Here(v) # {} => <<Top(next), Least(v)>> \in Pairs
    BY <1>10, <1>12 DEF Pairs
  <2> QED BY <2>1, <2>2
<1>14. /\ \A v \in 1 .. ni : b.site[v] = <<0, 0>> /\ Here(v) # {} => SiteOf(v) = <<Top(next), Least(v)>>
       /\ \A v \in 1 .. ni : b.site[v] # <<0, 0>> \/ Here(v) = {} => SiteOf(v) = b.site[v]
  OBVIOUS
<1> HIDE DEF SiteOf
<1>15. sites \in Seq(Pairs) /\ DOMAIN sites = 1 .. ni /\ \A v \in 1 .. ni : sites[v] = SiteOf(v)
  BY <1>2, <1>13
<1> HIDE DEF ats, sites
<1>16. /\ c \in Builds /\ c.node = next.node /\ c.conn = next.conn /\ c.site = sites /\ c.leaf = b.leaf
       /\ c.at = ats
  BY <1>7, <1>10, <1>11, <1>15 DEF Builds
<1>17. ExprNode(b, expr, k, nfo) = c
  <2>1. ExprNode(b, expr, k, nfo) = OperatorNode(b, expr, k, nfo)
    BY DEF ExprNode
  <2>2. ats = Append(next.at, Top(next)) 
    BY <1>7 DEF ats
  <2>3. c = [next EXCEPT !.at = Append(@, Top(next)), !.site = sites]
    BY <2>2
  <2>4. OperatorNode(b, expr, k, nfo) = [next EXCEPT !.at = Append(@, Top(next)), !.site = sites]
    BY Zenon DEF OperatorNode, next, fanin, num, sites, SiteOf, Here, Least, e
  <2> QED BY <2>1, <2>3, <2>4
<1> HIDE DEF c
<1> HIDE DEF c
<1>18. Sound(c) /\ Top(c) = Top(next)
  BY <1>7, <1>16, OtherFields
<1>19. fanin = OperandsOf(b, expr, k) /\ \A v : Here(v) = KidsOf(expr, k, v)
  BY DEF fanin, OperandsOf, Here, KidsOf, e
<1>20. c.node[Len(b.node) + 1] = NewNode(expr[k].op, OperandsOf(b, expr, k), IF k = Len(expr) THEN nfo ELSE 1)
  BY <1>9, <1>16, <1>19 DEF num, e
<1>21. ASSUME NEW v \in 1 .. ni
       PROVE  IF b.site[v] = Unplaced /\ KidsOf(expr, k, v) # {}
              THEN \E j \in KidsOf(expr, k, v) : c.site[v] = <<Len(b.node) + 1, j>>
              ELSE c.site[v] = b.site[v]
  <2>1. c.site[v] = SiteOf(v) /\ Here(v) = KidsOf(expr, k, v)
    BY <1>15, <1>16, <1>19
  <2>2. CASE b.site[v] = Unplaced /\ Here(v) # {}
    <3>1. SiteOf(v) = <<Len(b.node) + 1, Least(v)>> /\ Least(v) \in Here(v)
      BY <1>8, <1>12, <1>14, <2>2 DEF Unplaced
    <3> QED BY <2>1, <2>2, <3>1
  <2>3. CASE ~ (b.site[v] = Unplaced /\ Here(v) # {})
    BY <1>14, <2>1, <2>3 DEF Unplaced
  <2> QED BY <2>2, <2>3
<1>22. OperatorMade(b, expr, ni, k, nfo, c)
  BY <1>7, <1>8, <1>10, <1>11, <1>15, <1>16, <1>18, <1>20, <1>21 DEF OperatorMade
<1> QED BY <1>17, <1>22

LEMMA OperatorStep ==
  ASSUME NEW before \in Seq(NodeRecs), NEW expr, NEW ni \in Nat, ProperExpr(expr, ni),
         NEW k \in Operators(expr), NEW b, NodesDone(before, expr, ni, k - 1, b), NEW nfo \in Nat
  PROVE  NodesDone(before, expr, ni, k, ExprNode(b, expr, k, nfo))
<1> DEFINE c == ExprNode(b, expr, k, nfo)
           n == Len(b.node) + 1
<1>0. OperatorMade(b, expr, ni, k, nfo, c)
  BY OperatorIs
<1>1. k \in DOMAIN expr /\ k \in Nat /\ k # 0 /\ \A p \in Operators(expr) : p \in Nat
  BY ExprFacts DEF Operators
<1> HIDE DEF c
<1>2. /\ b.node \in Seq(NodeRecs) /\ c.node \in Seq(NodeRecs) /\ Grown(before, b.node) /\ Grown(b.node, c.node)
      /\ Sound(c) /\ Drives(c.node, n) /\ Top(c) = n /\ c.leaf = b.leaf
  BY <1>0 DEF NodesDone, Sound, Builds, OperatorMade
<1>3. Grown(before, c.node) /\ \A m : Drives(b.node, m) => Drives(c.node, m)
  BY <1>2, GrownTwice, GrownFacts
<1>4. DOMAIN c.site = 1 .. ni /\ DOMAIN c.leaf = 1 .. ni /\ DOMAIN c.at = 1 .. k
  BY <1>0 DEF OperatorMade, NodesDone
<1>5. c.at[k] = n /\ \A j \in 1 .. k : j = k \/ (j \in 1 .. k - 1 /\ c.at[j] = b.at[j])
  BY <1>0, <1>1 DEF OperatorMade
<1>6. \A j \in 1 .. k : Drives(c.node, c.at[j])
  BY <1>2, <1>3, <1>5 DEF NodesDone
<1>7. ASSUME NEW w \in 1 .. ni PROVE SiteAt(c, expr, k, w)
  <2>1. SiteAt(b, expr, k - 1, w)
    BY DEF NodesDone
  <2>2. IF b.site[w] = Unplaced /\ KidsOf(expr, k, w) # {}
        THEN \E j \in KidsOf(expr, k, w) : c.site[w] = <<n, j>>
        ELSE c.site[w] = b.site[w]
    BY <1>0 DEF OperatorMade
  <2>3. CASE b.site[w][1] \in DOMAIN b.node
    <3>1. DOMAIN b.node \subseteq DOMAIN c.node /\ 0 \notin DOMAIN b.node
      BY <1>2, GrownFacts
    <3>2. b.site[w] # Unplaced
      BY <2>3, <3>1 DEF Unplaced
    <3> QED BY <2>2, <2>3, <3>1, <3>2 DEF SiteAt
  <2>4. CASE b.site[w][1] \notin DOMAIN b.node
    <3>1. b.site[w] = Unplaced
      BY <2>1, <2>4 DEF SiteAt
    <3>2. CASE KidsOf(expr, k, w) # {}
      <4>1. c.site[w][1] = n
        BY <2>2, <3>1, <3>2
      <4> QED BY <1>2, <4>1 DEF SiteAt, Drives
    <3>3. CASE KidsOf(expr, k, w) = {}
      <4>1. c.site[w] = Unplaced
        BY <2>2, <3>1, <3>3
      <4>2. PICK j \in DOMAIN expr : expr[j].op = "Var" /\ expr[j].var = w /\ Waiting(expr, k - 1, j)
        BY <2>1, <2>4 DEF SiteAt
      <4>3. j \notin ToSet(expr[k].kids)
        BY <3>3, <4>2 DEF KidsOf, ToSet
      <4>4. \A p \in Operators(expr) : p <= k => p = k \/ p <= k - 1
        BY <1>1
      <4>5. Waiting(expr, k, j)
        BY <4>2, <4>3, <4>4 DEF Waiting
      <4> QED BY <4>1, <4>2, <4>5 DEF SiteAt
    <3> QED BY <3>2, <3>3
  <2> QED BY <2>3, <2>4
<1>8. \A w \in 1 .. ni : Drives(c.node, c.leaf[w][1])
                         /\ (LitNum(expr, w, "Neg") > 0 => Drives(c.node, c.leaf[w][2]))
  BY <1>2, <1>3 DEF NodesDone
<1>9. NodesDone(before, expr, ni, k, c)
  BY <1>2, <1>3, <1>4, <1>5, <1>6, <1>7, <1>8 DEF NodesDone
<1> QED BY <1>9 DEF c

\* The loop over the inputs of a complex gate, and the one over its operators.
LEMMA LeavesLoop ==
  ASSUME NEW b, NEW expr, NEW fanin, Sound(b), b.site = << >>, b.leaf = << >>, b.at = << >>,
         Fed(b.node, fanin), ProperExpr(expr, Len(fanin)),
         NEW f, f = [v \in 0 .. Len(fanin) |-> IF v = 0 THEN b ELSE Leaves(f[v - 1], expr, v, fanin[v])]
  PROVE  \A v \in 0 .. Len(fanin) : LeavesDone(b.node, expr, v, f[v])
<1> DEFINE ni == Len(fanin)
           T == {v \in 0 .. ni : LeavesDone(b.node, expr, v, f[v])}
<1>1. ni \in Nat /\ \A v \in 1 .. ni : Drives(b.node, fanin[v])
  BY DEF Fed
<1> HIDE DEF ni
<1>2. \A v \in 0 .. ni : f[v] = IF v = 0 THEN b ELSE Leaves(f[v - 1], expr, v, fanin[v])
  BY DEF ni
<1>3. b.node \in Seq(NodeRecs) /\ expr \in Seq(ExprRecs(ni))
  <2>1. ProperExpr(expr, ni)
    BY DEF ni
  <2> QED BY <1>1, <2>1, ExprFacts DEF Sound, Builds
<1>4. 0 \in T
  <2>1. f[0] = b /\ 0 \in 0 .. ni
    BY <1>1, <1>2
  <2>2. DOMAIN << >> = 1 .. 0 /\ \A w \in 1 .. 0 : FALSE
    OBVIOUS
  <2>3. Grown(b.node, b.node)
    BY <1>3 DEF Grown
  <2> QED BY <2>1, <2>2, <2>3 DEF LeavesDone
<1>5. ASSUME NEW v \in 1 .. ni, v - 1 \in T PROVE v \in T
  <2>1. v \in 0 .. ni /\ v # 0 /\ v \in Nat
    BY <1>1
  <2>2. LeavesDone(b.node, expr, v - 1, f[v - 1]) /\ f[v] = Leaves(f[v - 1], expr, v, fanin[v])
    BY <1>2, <1>5, <2>1
  <2>3. LeavesDone(b.node, expr, v, f[v])
    BY <1>1, <1>3, <2>1, <2>2, LeavesStep
  <2> QED BY <2>1, <2>3
<1> HIDE DEF T
<1>6. 0 .. ni \subseteq T
  <2>1. \A m \in Nat : \A U : 0 \in U /\ (\A k \in 1 .. m : k - 1 \in U => k \in U) => 0 .. m \subseteq U
    BY P!InductionTo
  <2> QED BY <1>1, <1>4, <1>5, <2>1
<1> QED BY <1>6 DEF T, ni

LEMMA NodesLoop ==
  ASSUME NEW before \in Seq(NodeRecs), NEW expr, NEW ni \in Nat, ProperExpr(expr, ni), NEW nfo \in Nat,
         NEW b, NodesDone(before, expr, ni, 0, b),
         NEW f, f = [k \in 0 .. Len(expr) |-> IF k = 0 THEN b ELSE ExprNode(f[k - 1], expr, k, nfo)]
  PROVE  /\ \A k \in 0 .. Len(expr) : NodesDone(before, expr, ni, k, f[k])
         /\ GateDone(before, f[Len(expr)])
<1> DEFINE n == Len(expr)
           T == {k \in 0 .. n : NodesDone(before, expr, ni, k, f[k])}
<1>1. n \in Nat /\ DOMAIN expr = 1 .. n /\ n \in Operators(expr)
      /\ \A k \in DOMAIN expr : k # n => \E p \in Operators(expr) : k \in ToSet(expr[p].kids)
  BY ExprFacts
<1> HIDE DEF n
<1>2. \A k \in 0 .. n : f[k] = IF k = 0 THEN b ELSE ExprNode(f[k - 1], expr, k, nfo)
  BY DEF n
<1>3. 0 \in T
  BY <1>1, <1>2
<1>4. ASSUME NEW k \in 1 .. n, k - 1 \in T PROVE k \in T
  <2>1. k \in 0 .. n /\ k # 0 /\ k \in DOMAIN expr
    BY <1>1
  <2>2. NodesDone(before, expr, ni, k - 1, f[k - 1]) /\ f[k] = ExprNode(f[k - 1], expr, k, nfo)
    BY <1>2, <1>4, <2>1
  <2>3. NodesDone(before, expr, ni, k, f[k])
    BY <2>1, <2>2, OperatorStep, LiteralStep
  <2> QED BY <2>1, <2>3
<1> HIDE DEF T
<1>5. 0 .. n \subseteq T
  <2>1. \A m \in Nat : \A U : 0 \in U /\ (\A k \in 1 .. m : k - 1 \in U => k \in U) => 0 .. m \subseteq U
    BY P!InductionTo
  <2> QED BY <1>1, <1>3, <1>4, <2>1
<1> DEFINE c == f[n]
<1>in. \A k \in 0 .. n : NodesDone(before, expr, ni, k, f[k])
  BY <1>5 DEF T
<1>6. NodesDone(before, expr, ni, n, c)
  BY <1>1, <1>in
<1> HIDE DEF c
<1>7. Drives(c.node, Top(c))
  <2>1. n \in 1 .. n
    BY <1>1 DEF Operators
  <2> QED BY <1>1, <1>6, <2>1 DEF NodesDone
<1>8. Placed(c)
  <2> SUFFICES ASSUME NEW w \in 1 .. ni PROVE c.site[w][1] \in DOMAIN c.node
    BY <1>6 DEF NodesDone, Placed
  <2> SUFFICES ASSUME NEW j \in DOMAIN expr, expr[j].op = "Var", Waiting(expr, n, j) PROVE FALSE
    BY <1>6 DEF NodesDone, SiteAt
  <2>1. j # n
    BY <1>1 DEF Operators
  <2>2. PICK p \in Operators(expr) : j \in ToSet(expr[p].kids)
    BY <1>1, <2>1
  <2>3. p <= n
    BY <1>1 DEF Operators
  <2> QED BY <2>2, <2>3 DEF Waiting
<1>9. GateDone(before, c)
  BY <1>6, <1>7, <1>8 DEF GateDone, NodesDone
<1> QED BY <1>in, <1>9 DEF c, n

\* A loop over 1 .. n whose step is good for what the steps before it made.
MakesGood(n, A, Good, start, next) ==
  /\ n \in Nat /\ start \in A /\ <<0, start>> \in Good
  /\ \A k \in 1 .. n : \A a \in A :
       <<k - 1, a>> \in Good => next[k][a] \in A /\ <<k, next[k][a]>> \in Good
Loops(n, Good, start, next, g) ==
  \A k \in 0 .. n : g[k] = (IF k = 0 THEN start ELSE next[k][g[k - 1]]) /\ <<k, g[k]>> \in Good
LEMMA GuardedRecursion ==
  ASSUME NEW n, NEW A, NEW Good, NEW start, NEW next, MakesGood(n, A, Good, start, next)
  PROVE  \E g \in [0 .. n -> A] : Loops(n, Good, start, next, g)
<1>0. /\ n \in Nat /\ start \in A /\ <<0, start>> \in Good
      /\ \A k \in 1 .. n : \A a \in A :
           <<k - 1, a>> \in Good => next[k][a] \in A /\ <<k, next[k][a]>> \in Good
  BY DEF MakesGood
<1> DEFINE step == [k \in 1 .. n |-> [a \in A |-> IF <<k - 1, a>> \in Good THEN next[k][a] ELSE a]]
<1>1. PICK g \in [0 .. n -> A] : g = P!Steps(n, start, step, g)
  <2>1. \A k \in 1 .. n, a \in A : step[k][a] \in A
    BY <1>0
  <2> HIDE DEF step
  <2>2. P!StepsIn(n, A, start, step)
    BY <1>0, <2>1 DEF P!StepsIn
  <2>3. \A m, B, st, s : P!StepsIn(m, B, st, s) => \E h \in [0 .. m -> B] : h = P!Steps(m, st, s, h)
    BY SMTT(40), P!RecursionTo
  <2> QED BY <2>2, <2>3
<1>2. \A k \in 0 .. n : g[k] = IF k = 0 THEN start ELSE step[k][g[k - 1]]
  BY <1>1 DEF P!Steps
<1> DEFINE T == {k \in 0 .. n : <<k, g[k]>> \in Good}
<1>3. 0 \in T
  <2> HIDE DEF step
  <2>1. 0 \in 0 .. n /\ g[0] = start
    BY <1>0, <1>2
  <2> QED BY <1>0, <2>1
<1>4. ASSUME NEW k \in 1 .. n, k - 1 \in T PROVE k \in T /\ g[k] = next[k][g[k - 1]]
  <2>1. k \in 0 .. n /\ k # 0 /\ k - 1 \in 0 .. n /\ g[k - 1] \in A /\ <<k - 1, g[k - 1]>> \in Good
    BY <1>0, <1>4
  <2>2. step[k][g[k - 1]] = next[k][g[k - 1]]
    BY <2>1
  <2> HIDE DEF step
  <2> QED BY <1>0, <1>2, <2>1, <2>2
<1>5. 0 .. n \subseteq T
  <2>1. \A m \in Nat : \A U : 0 \in U /\ (\A k \in 1 .. m : k - 1 \in U => k \in U) => 0 .. m \subseteq U
    BY P!InductionTo
  <2> HIDE DEF T
  <2> QED BY <1>0, <1>3, <1>4, <2>1
<1>6. \A k \in 0 .. n : k # 0 => k \in 1 .. n /\ k - 1 \in 0 .. n
  BY <1>0
<1> HIDE DEF step
<1> QED BY <1>2, <1>4, <1>5, <1>6 DEF Loops

\* The builds of a complex gate: first its literals, then its operators.
LeafBuilds(b, expr, fanin, f) ==
  \A v \in 0 .. Len(fanin) :
    /\ LeavesDone(b.node, expr, v, f[v])
    /\ f[v] = IF v = 0 THEN b ELSE Leaves(f[v - 1], expr, v, fanin[v])
ExprBuilds(b, c, expr, ni, nfo, f) ==
  \A k \in 0 .. Len(expr) :
    /\ NodesDone(b.node, expr, ni, k, f[k])
    /\ f[k] = IF k = 0 THEN c ELSE ExprNode(f[k - 1], expr, k, nfo)

LEMMA ExprGateIs ==
  ASSUME NEW b, NEW expr, NEW fanin, NEW nfo \in Nat, Sound(b), b.site = << >>, b.leaf = << >>, b.at = << >>,
         Fed(b.node, fanin), ProperExpr(expr, Len(fanin))
  PROVE  \E f, g : /\ LeafBuilds(b, expr, fanin, f)
                   /\ ExprBuilds(b, f[Len(fanin)], expr, Len(fanin), nfo, g)
                   /\ ExprGate(b, expr, fanin, nfo) = g[Len(expr)]
                   /\ GateDone(b.node, ExprGate(b, expr, fanin, nfo))
<1> DEFINE ni == Len(fanin)
           before == b.node
           E(f) == [v \in 0 .. Len(fanin) |-> IF v = 0 THEN b ELSE Leaves(f[v - 1], expr, v, fanin[v])]
           leaves == CHOOSE f : f = E(f)
           F(f) == [k \in 0 .. Len(expr) |-> IF k = 0 THEN leaves[Len(fanin)] ELSE ExprNode(f[k - 1], expr, k, nfo)]
           nodes == CHOOSE f : f = F(f)
<1>1. ExprGate(b, expr, fanin, nfo) = nodes[Len(expr)]
  BY Zenon DEF ExprGate
<1>2. before \in Seq(NodeRecs) /\ b \in Builds /\ ni \in Nat
  BY DEF Sound, Builds, Fed
<1>3. expr \in Seq(ExprRecs(ni)) /\ Len(expr) \in Nat /\ DOMAIN expr = 1 .. Len(expr)
  BY <1>2, ExprFacts
<1>4. \E f : f = E(f)
  <2> DEFINE Good == {p \in (0 .. ni) \X Builds : LeavesDone(before, expr, p[1], p[2])}
             next == [v \in 1 .. ni |-> [a \in Builds |-> Leaves(a, expr, v, fanin[v])]]
  <2>1. \A v \in 1 .. ni : Drives(before, fanin[v])
    BY DEF Fed
  <2> HIDE DEF ni
  <2>2. <<0, b>> \in Good
    <3>1. DOMAIN << >> = 1 .. 0 /\ \A w \in 1 .. 0 : FALSE
      OBVIOUS
    <3>2. Grown(b.node, b.node)
      BY <1>2 DEF Grown
    <3>3. LeavesDone(before, expr, 0, b)
      BY <3>1, <3>2 DEF LeavesDone
    <3> QED BY <1>2, <3>3
  <2>3. ASSUME NEW v \in 1 .. ni, NEW a \in Builds, <<v - 1, a>> \in Good
        PROVE  next[v][a] \in Builds /\ <<v, next[v][a]>> \in Good
    <3>1. LeavesDone(before, expr, v - 1, a) /\ v \in Nat \ {0} /\ v \in 0 .. ni
      BY <1>2, <2>3
    <3>2. LeavesDone(before, expr, v, Leaves(a, expr, v, fanin[v]))
      BY <1>2, <1>3, <2>1, <3>1, LeavesStep
    <3>3. next[v][a] = Leaves(a, expr, v, fanin[v])
      OBVIOUS
    <3> HIDE DEF next
    <3>4. LeavesDone(before, expr, v, next[v][a])
      BY <3>2, <3>3
    <3>5. next[v][a] \in Builds
      BY <3>4 DEF LeavesDone, Sound
    <3> QED BY <3>1, <3>4, <3>5
  <2>4. \A v \in 1 .. ni, a \in Builds : next[v][a] = Leaves(a, expr, v, fanin[v])
    OBVIOUS
  <2> HIDE DEF Good, next
  <2>5. MakesGood(ni, Builds, Good, b, next)
    BY <1>2, <2>2, <2>3 DEF MakesGood
  <2>6. PICK g \in [0 .. ni -> Builds] : Loops(ni, Good, b, next, g)
    BY <2>5, GuardedRecursion
  <2>7. \A k \in 0 .. ni : k # 0 => k \in 1 .. ni /\ k - 1 \in 0 .. ni
    BY <1>2
  <2>8. \A k \in 0 .. ni : g[k] = IF k = 0 THEN b ELSE Leaves(g[k - 1], expr, k, fanin[k])
    BY <2>4, <2>6, <2>7 DEF Loops
  <2>9. g = [k \in 0 .. ni |-> g[k]]
    BY <2>6
  <2>10. g = [k \in 0 .. ni |-> IF k = 0 THEN b ELSE Leaves(g[k - 1], expr, k, fanin[k])]
    BY <2>8, <2>9
  <2> QED BY <2>10 DEF ni
<1>5. leaves = E(leaves)
  BY <1>4
<1> HIDE DEF leaves
<1>all. \A v \in 0 .. ni : LeavesDone(before, expr, v, leaves[v])
  BY <1>5, LeavesLoop
<1>6. LeavesDone(before, expr, ni, leaves[ni])
  BY <1>2, <1>all
<1>leaf. LeafBuilds(b, expr, fanin, leaves)
  <2>1. \A v \in 0 .. ni : leaves[v] = IF v = 0 THEN b ELSE Leaves(leaves[v - 1], expr, v, fanin[v])
    <3>1. \A v \in 0 .. ni : E(leaves)[v] = IF v = 0 THEN b ELSE Leaves(leaves[v - 1], expr, v, fanin[v])
      BY DEF E
    <3> HIDE DEF E
    <3> QED BY <1>5, <3>1
  <2> QED BY <1>all, <2>1 DEF LeafBuilds
<1> DEFINE c == leaves[ni]
<1>7. NodesDone(before, expr, ni, 0, c)
  <2> HIDE DEF c
  <2>1. LeavesDone(before, expr, ni, c)
    BY <1>6 DEF c
  <2> QED BY <1>2, <2>1, LeavesAreNodes
<1>8. \E f : f = F(f)
  <2> DEFINE n == Len(expr)
             Good == {p \in (0 .. n) \X Builds : NodesDone(before, expr, ni, p[1], p[2])}
             next == [k \in 1 .. n |-> [a \in Builds |-> ExprNode(a, expr, k, nfo)]]
  <2>1. n \in Nat /\ DOMAIN expr = 1 .. n
    BY <1>3
  <2> HIDE DEF n, ni, c
  <2>2. <<0, c>> \in Good /\ c \in Builds
    <3>1. c \in Builds
      BY <1>7 DEF NodesDone, Sound
    <3> QED BY <1>7, <2>1, <3>1
  <2>3. ASSUME NEW k \in 1 .. n, NEW a \in Builds, <<k - 1, a>> \in Good
        PROVE  next[k][a] \in Builds /\ <<k, next[k][a]>> \in Good
    <3>1. NodesDone(before, expr, ni, k - 1, a) /\ k \in DOMAIN expr /\ k \in 0 .. n
      BY <2>1, <2>3
    <3>2. NodesDone(before, expr, ni, k, ExprNode(a, expr, k, nfo))
      <4>1. ProperExpr(expr, ni)
        BY DEF ni
      <4> QED BY <1>2, <3>1, <4>1, LiteralStep, OperatorStep
    <3>3. next[k][a] = ExprNode(a, expr, k, nfo)
      OBVIOUS
    <3> HIDE DEF next
    <3>4. NodesDone(before, expr, ni, k, next[k][a])
      BY <3>2, <3>3
    <3>5. next[k][a] \in Builds
      BY <3>4 DEF NodesDone, Sound
    <3> QED BY <3>1, <3>4, <3>5
  <2>4. \A k \in 1 .. n, a \in Builds : next[k][a] = ExprNode(a, expr, k, nfo)
    OBVIOUS
  <2> HIDE DEF Good, next
  <2>5. MakesGood(n, Builds, Good, c, next)
    BY <2>1, <2>2, <2>3 DEF MakesGood
  <2>6. PICK g \in [0 .. n -> Builds] : Loops(n, Good, c, next, g)
    BY <2>5, GuardedRecursion
  <2>7. \A k \in 0 .. n : k # 0 => k \in 1 .. n /\ k - 1 \in 0 .. n
    BY <2>1
  <2>8. \A k \in 0 .. n : g[k] = IF k = 0 THEN c ELSE ExprNode(g[k - 1], expr, k, nfo)
    BY <2>4, <2>6, <2>7 DEF Loops
  <2>9. g = [k \in 0 .. n |-> g[k]]
    BY <2>6
  <2>10. g = [k \in 0 .. n |-> IF k = 0 THEN c ELSE ExprNode(g[k - 1], expr, k, nfo)]
    BY <2>8, <2>9
  <2> QED BY <2>10 DEF n, c, ni
<1>9. nodes = F(nodes)
  BY <1>8
<1> HIDE DEF nodes
<1>10. /\ \A k \in 0 .. Len(expr) : NodesDone(before, expr, ni, k, nodes[k])
       /\ GateDone(before, nodes[Len(expr)])
  <2>1. nodes = [k \in 0 .. Len(expr) |-> IF k = 0 THEN c ELSE ExprNode(nodes[k - 1], expr, k, nfo)]
    BY <1>9
  <2>2. ProperExpr(expr, ni)
    OBVIOUS
  <2> HIDE DEF c, ni
  <2>3. \A k \in 0 .. Len(expr) : NodesDone(before, expr, ni, k, nodes[k])
    BY ZenonT(60), <1>2, <1>7, <2>1, <2>2, NodesLoop
  <2>4. GateDone(before, nodes[Len(expr)])
    BY ZenonT(60), <1>2, <1>7, <2>1, <2>2, NodesLoop
  <2> QED BY <2>3, <2>4
<1>11. ExprBuilds(b, leaves[ni], expr, ni, nfo, nodes)
  <2>1. \A k \in 0 .. Len(expr) : nodes[k] = IF k = 0 THEN leaves[Len(fanin)] ELSE ExprNode(nodes[k - 1], expr, k, nfo)
    <3>1. \A k \in 0 .. Len(expr) : F(nodes)[k] = IF k = 0 THEN leaves[Len(fanin)] ELSE ExprNode(nodes[k - 1], expr, k, nfo)
      BY DEF F
    <3> HIDE DEF F
    <3> QED BY <1>9, <3>1
  <2> QED BY <1>10, <2>1 DEF ExprBuilds
<1> QED BY <1>1, <1>leaf, <1>10, <1>11

LEMMA ExprGateFacts ==
  ASSUME NEW b, NEW expr, NEW fanin, NEW nfo \in Nat, Sound(b), b.site = << >>, b.leaf = << >>, b.at = << >>,
         Fed(b.node, fanin), ProperExpr(expr, Len(fanin))
  PROVE  GateDone(b.node, ExprGate(b, expr, fanin, nfo))
BY ExprGateIs

-----------------------------------------------------------------------------
(* A source gate.                                                          *)

\* The nodes of the source nodes so far: those of the first n.
Maps(map, n, nodes) ==
  /\ map \in Seq(Nat) /\ Len(map) = n
  /\ \A s \in DOMAIN map : Drives(nodes, map[s])
FaninNodes(g, map) == [k \in DOMAIN g.fanin |-> map[g.fanin[k]]]

LEMMA FaninIsFed ==
  ASSUME NEW g, NEW first \in Nat \ {0}, ProperGate(g, first), NEW map, NEW nodes \in Seq(NodeRecs),
         Maps(map, first - 1, nodes)
  PROVE  /\ Fed(nodes, FaninNodes(g, map)) /\ Len(FaninNodes(g, map)) = Len(g.fanin)
         /\ DOMAIN FaninNodes(g, map) = DOMAIN g.fanin
<1>1. g.fanin \in Seq(1 .. first - 1)
  BY DEF ProperGate
<1>2. DOMAIN map = 1 .. first - 1 /\ \A s \in 1 .. first - 1 : map[s] \in Nat /\ Drives(nodes, map[s])
  BY DEF Maps
<1>3. DOMAIN g.fanin = 1 .. Len(g.fanin) /\ Len(g.fanin) \in Nat
      /\ \A k \in DOMAIN g.fanin : g.fanin[k] \in 1 .. first - 1
  BY <1>1
<1> DEFINE fanin == FaninNodes(g, map)
<1>4. fanin \in [1 .. Len(g.fanin) -> Nat] /\ DOMAIN fanin = DOMAIN g.fanin
      /\ \A k \in DOMAIN fanin : Drives(nodes, fanin[k])
  BY <1>2, <1>3 DEF FaninNodes
<1> HIDE DEF fanin
<1>5. fanin \in Seq(Nat) /\ Len(fanin) = Len(g.fanin)
  BY <1>3, <1>4
<1> QED BY <1>4, <1>5 DEF Fed, fanin

LEMMA GateBuildFacts ==
  ASSUME NEW g, NEW first \in Nat \ {0}, ProperGate(g, first), Wired(node, conn),
         Maps(nodeMap, first - 1, node), NEW nfo \in Nat
  PROVE  GateDone(node, GateBuild(g, FaninNodes(g, nodeMap), nfo))
<1> DEFINE fanin == FaninNodes(g, nodeMap)
           b == [node |-> node, conn |-> conn, site |-> << >>, leaf |-> << >>, at |-> << >>]
<1>1. b.node = node /\ b.conn = conn /\ b.site = << >> /\ b.leaf = << >> /\ b.at = << >>
  OBVIOUS
<1>2. node \in Seq(NodeRecs) /\ conn \in Seq(Pairs)
  BY DEF Wired, Pairs
<1>3. b \in Builds
  BY <1>2 DEF Builds
<1>4. GateBuild(g, fanin, nfo) =
        CASE g.type = "Expr" -> ExprGate(b, g.expr, fanin, nfo)
          [] g.type \in {"Xor", "Xnor"} /\ Len(fanin) > 2 -> XorChain(b, g.type, fanin, nfo)
          [] OTHER -> SimpleGate(b, g.type, fanin, nfo)
  BY Zenon DEF GateBuild
<1> HIDE DEF b
<1>5. Sound(b) /\ Placed(b)
  <2>1. DOMAIN << >> = {}
    OBVIOUS
  <2> QED BY <1>1, <1>3, <2>1 DEF Sound, Placed
<1>6. Fed(b.node, fanin) /\ Len(fanin) = Len(g.fanin) /\ fanin \in Seq(Nat)
  BY <1>1, <1>2, FaninIsFed DEF Fed
<1> HIDE DEF fanin
<1>7. CASE g.type = "Expr"
  <2>1. ProperExpr(g.expr, Len(fanin))
    BY <1>6, <1>7 DEF ProperGate
  <2>2. GateDone(b.node, ExprGate(b, g.expr, fanin, nfo))
    BY <1>1, <1>5, <1>6, <2>1, ExprGateFacts
  <2>3. GateBuild(g, fanin, nfo) = ExprGate(b, g.expr, fanin, nfo)
    BY <1>4, <1>7
  <2> QED BY <1>1, <2>2, <2>3 DEF fanin
<1>8. CASE g.type \in {"Xor", "Xnor"} /\ Len(fanin) > 2
  <2>1. GateDone(b.node, XorChain(b, g.type, fanin, nfo))
    BY <1>5, <1>6, <1>8, XorChainFacts
  <2>2. GateBuild(g, fanin, nfo) = XorChain(b, g.type, fanin, nfo)
    BY <1>4, <1>8
  <2> QED BY <1>1, <2>1, <2>2 DEF fanin
<1>9. CASE g.type # "Expr" /\ ~ (g.type \in {"Xor", "Xnor"} /\ Len(fanin) > 2)
  <2>1. g.type \in {"Const0", "Const1", "Buff", "Not", "And", "Nand", "Or", "Nor", "Xor", "Xnor"}
    BY <1>9 DEF ProperGate, GateTypes
  <2>2. /\ g.type \in {"Const0", "Const1"} => Len(fanin) = 0
        /\ g.type \in {"Buff", "Not"} => Len(fanin) = 1
        /\ g.type \notin {"Const0", "Const1", "Buff", "Not"} => Len(fanin) >= 2
    <3>1. Len(<< >>) = 0
      OBVIOUS
    <3> QED BY <1>6, <2>1, <3>1 DEF ProperGate
  <2>3. fanin = << >> <=> Len(fanin) = 0
    BY <1>6
  <2>4. Arity(g.type, fanin) /\ g.type \in C!NodeTypes /\ g.type \notin C!PpoTypes
    BY <2>1, <2>2, <2>3 DEF Arity, C!NodeTypes, C!GateTypes, C!PpoTypes, C!NoFanin, C!PpiTypes, C!OneFanin, C!ControlTypes
  <2>5. GateDone(b.node, SimpleGate(b, g.type, fanin, nfo))
    <3>1. Fits(b.node, g.type, fanin, nfo)
      BY <1>6, <2>4 DEF Fits
    <3> QED BY <1>5, <2>4, <3>1, SimpleGateFacts
  <2>6. GateBuild(g, fanin, nfo) = SimpleGate(b, g.type, fanin, nfo)
    BY <1>4, <1>9
  <2> QED BY <1>1, <2>5, <2>6 DEF fanin
<1> QED BY <1>7, <1>8, <1>9

-----------------------------------------------------------------------------
(* The source: its terminals, its numbers of fanouts, its faults.          *)

All(src) == src.inputs + Len(src.dff) + Len(src.logic)
TerminalTypes == {"Output", "DffInput", "DffClock", "DffClear", "DffPreset"}

\* A sequence by its members.
LEMMA IndexedType ==
  ASSUME NEW A, NEW n \in Nat, NEW f, f = [k \in 1 .. n |-> f[k]], \A k \in 1 .. n : f[k] \in A
  PROVE  f \in Seq(A) /\ Len(f) = n /\ DOMAIN f = 1 .. n
<1>1. f \in [1 .. n -> A] /\ DOMAIN f = 1 .. n
  OBVIOUS
<1> QED BY <1>1

LEMMA SourceFacts ==
  ASSUME NEW src, ProperSource(src)
  PROVE  /\ src.inputs \in Nat /\ Len(src.dff) \in Nat /\ Len(src.logic) \in Nat /\ All(src) \in Nat
         /\ DOMAIN src.dff = 1 .. Len(src.dff) /\ DOMAIN src.logic = 1 .. Len(src.logic)
         /\ \A k \in DOMAIN src.logic : ProperGate(src.logic[k], src.inputs + Len(src.dff) + k)
BY DEF ProperSource, All

LEMMA TerminalsType ==
  ASSUME NEW src, ProperSource(src)
  PROVE  Terminals(src) \in Seq(TerminalTypes \X (1 .. All(src)))
<1> DEFINE A == TerminalTypes \X (1 .. All(src))
           D == [input : 1 .. All(src), clock : 1 .. All(src), clear : 0 .. All(src), preset : 0 .. All(src)]
           outs == [k \in DOMAIN src.output |-> <<"Output", src.output[k]>>]
           rest == [k \in DOMAIN src.dff |-> TerminalsOf(src.dff[k])]
<1>1. src.output \in Seq(1 .. All(src)) /\ src.dff \in Seq(D)
  BY DEF ProperSource, All
<1>2. outs \in Seq(A)
  <2> DEFINE m == Len(src.output)
             N == 1 .. All(src)
  <2>0. src.output \in Seq(N)
    BY <1>1
  <2>1. m \in Nat /\ DOMAIN src.output = 1 .. m /\ \A k \in 1 .. m : src.output[k] \in 1 .. All(src)
    <3>1. m \in Nat /\ DOMAIN src.output = 1 .. m /\ \A k \in 1 .. m : src.output[k] \in N
      <4> HIDE DEF N
      <4> QED BY <2>0
    <3> QED BY <3>1
  <2> HIDE DEF m, N
  <2>2. ASSUME NEW k \in 1 .. m PROVE outs[k] \in A
    <3>1. outs[k] = <<"Output", src.output[k]>> /\ src.output[k] \in 1 .. All(src)
      BY <2>1
    <3> HIDE DEF outs
    <3> QED BY <3>1 DEF TerminalTypes
  <2>3. outs = [k \in 1 .. m |-> outs[k]]
    BY <2>1
  <2> HIDE DEF outs, A
  <2> QED BY <2>1, <2>2, <2>3, IndexedType
<1>3. ASSUME NEW d \in D PROVE TerminalsOf(d) \in Seq(A)
  <2>1. << <<"DffInput", d.input>>, <<"DffClock", d.clock>> >> \in Seq(A)
    BY DEF TerminalTypes
  <2>2. Optional("DffClear", d.clear) \in Seq(A)
    <3>1. CASE d.clear = 0
      BY <3>1 DEF Optional
    <3>2. CASE d.clear # 0
      <4>1. <<"DffClear", d.clear>> \in A
        BY <3>2 DEF TerminalTypes
      <4> HIDE DEF A
      <4> QED BY <3>2, <4>1 DEF Optional
    <3> QED BY <3>1, <3>2
  <2>3. Optional("DffPreset", d.preset) \in Seq(A)
    <3>1. CASE d.preset = 0
      BY <3>1 DEF Optional
    <3>2. CASE d.preset # 0
      <4>1. <<"DffPreset", d.preset>> \in A
        BY <3>2 DEF TerminalTypes
      <4> HIDE DEF A
      <4> QED BY <3>2, <4>1 DEF Optional
    <3> QED BY <3>1, <3>2
  <2> HIDE DEF A, D
  <2> QED BY <2>1, <2>2, <2>3 DEF TerminalsOf
<1> HIDE DEF A, D
<1>4. rest \in Seq(Seq(A))
  <2> DEFINE m == Len(src.dff)
  <2>1. m \in Nat /\ DOMAIN src.dff = 1 .. m /\ \A k \in 1 .. m : src.dff[k] \in D
    BY <1>1
  <2> HIDE DEF m
  <2>2. \A k \in 1 .. m : rest[k] \in Seq(A)
    BY <1>3, <2>1
  <2>3. rest = [k \in 1 .. m |-> rest[k]]
    BY <2>1
  <2> HIDE DEF rest
  <2> QED BY <2>1, <2>2, <2>3, IndexedType
<1> HIDE DEF outs, rest
<1>5. FlattenSeq(rest) \in Seq(A)
  BY <1>4, FlattenFacts
<1>6. Terminals(src) = outs \o FlattenSeq(rest)
  BY Zenon DEF Terminals, outs, rest
<1> QED BY <1>2, <1>5, <1>6 DEF A

LEMMA FanoutNumType ==
  ASSUME NEW src, ProperSource(src), NEW s
  PROVE  FanoutNum(src, s) \in Nat
<1> DEFINE T == {k \in DOMAIN Terminals(src) : Terminals(src)[k][2] = s}
           U == {e \in Pins(src) : src.logic[e[1]].fanin[e[2]] = s}
           D == DOMAIN src.logic
           PinSets == {{k} \X DOMAIN src.logic[k].fanin : k \in D}
           f == [k \in D |-> {k} \X DOMAIN src.logic[k].fanin]
<1>1. IsFiniteSet(T)
  <2>1. Terminals(src) \in Seq(TerminalTypes \X (1 .. All(src)))
    BY TerminalsType
  <2> DEFINE l == Len(Terminals(src))
  <2>2. l \in Nat /\ T \subseteq 1 .. l
    BY <2>1
  <2> HIDE DEF l, T
  <2>3. IsFiniteSet(1 .. l)
    BY <2>2, FS_Interval
  <2> QED BY <2>2, <2>3, FS_Subset
<1>2. IsFiniteSet(D)
  <2>1. D = 1 .. Len(src.logic) /\ Len(src.logic) \in Nat
    BY SourceFacts
  <2> QED BY <2>1, FS_Interval
<1>3. ASSUME NEW k \in D PROVE IsFiniteSet({k} \X DOMAIN src.logic[k].fanin)
  <2> DEFINE g == src.logic[k]
  <2>1. ProperGate(g, src.inputs + Len(src.dff) + k)
    BY SourceFacts
  <2> HIDE DEF g
  <2>2. DOMAIN g.fanin = 1 .. Len(g.fanin) /\ Len(g.fanin) \in Nat
    BY <2>1 DEF ProperGate
  <2>3. IsFiniteSet(DOMAIN g.fanin) /\ IsFiniteSet({k})
    <3> DEFINE l == Len(g.fanin)
    <3>1. 1 \in Int /\ l \in Int
      BY <2>2
    <3> HIDE DEF l
    <3>2. IsFiniteSet(1 .. l)
      BY <3>1, FS_Interval
    <3> QED BY <2>2, <3>2, FS_Singleton DEF l
  <2> QED BY <2>3, FS_Product DEF g
<1> HIDE DEF D
<1>4. f \in Surjection(D, PinSets)
  BY DEF Surjection
<1>5. IsFiniteSet(PinSets)
  <2> HIDE DEF f, PinSets
  <2> QED BY <1>2, <1>4, FS_Surjection
<1>6. \A S \in PinSets : IsFiniteSet(S)
  BY <1>3
<1>7. Pins(src) = UNION PinSets
  BY DEF Pins, D
<1> HIDE DEF PinSets
<1>8. IsFiniteSet(Pins(src))
  BY <1>5, <1>6, <1>7, FS_UNION
<1>9. IsFiniteSet(U)
  BY <1>8, FS_Subset
<1>10. FanoutNum(src, s) = Cardinality(T) + Cardinality(U)
  BY DEF FanoutNum
<1> HIDE DEF T, U
<1> QED BY <1>1, <1>9, <1>10, FS_CardinalityType

\* The faults, of n nodes and with m of them at most.
FaultRecs(n, m) == [node : 1 .. n, pos : Nat, val : {"0", "1"}, rep : 0 .. m]
Faulted(nodes, faults) == faults \in Seq(FaultRecs(Len(nodes), Len(faults)))

LEMMA FaultsAdded ==
  ASSUME NEW old \in Seq(NodeRecs), NEW nodes \in Seq(NodeRecs), Grown(old, nodes),
         NEW faults, Faulted(old, faults),
         NEW new \in Seq(FaultRecs(Len(nodes), Len(faults) + 2)), Len(new) >= 2
  PROVE  Faulted(nodes, faults \o new)
<1> DEFINE n == Len(nodes)
           m == Len(faults)
           both == faults \o new
<1>1. faults \in Seq(FaultRecs(Len(old), m)) /\ m \in Nat /\ Len(new) \in Nat /\ n \in Nat
      /\ Len(old) \in Nat /\ Len(old) <= n
  BY DEF Faulted, Grown
<1>2. Len(both) = m + Len(new)
  BY <1>1
<1> DEFINE k == Len(both)
<1>3. k \in Nat /\ m + 2 <= k
  BY <1>1, <1>2
<1>4. FaultRecs(Len(old), m) \subseteq FaultRecs(n, k) /\ FaultRecs(n, m + 2) \subseteq FaultRecs(n, k)
  <2>1. 1 .. Len(old) \subseteq 1 .. n /\ 0 .. m \subseteq 0 .. k /\ 0 .. m + 2 \subseteq 0 .. k
    <3> HIDE DEF n, m, k, both
    <3> QED BY <1>1, <1>3
  <2> HIDE DEF n, m, k, both
  <2> QED BY <2>1 DEF FaultRecs
<1>5. faults \in Seq(FaultRecs(n, k)) /\ new \in Seq(FaultRecs(n, k))
  <2> HIDE DEF n, k, both, FaultRecs
  <2>1. faults \in Seq(FaultRecs(Len(old), m)) /\ new \in Seq(FaultRecs(n, m + 2))
    BY <1>1 DEF n
  <2> HIDE DEF m
  <2> QED BY <1>4, <2>1
<1>6. both \in Seq(FaultRecs(n, k))
  <2> HIDE DEF n, k, FaultRecs
  <2> QED BY <1>5
<1> QED BY <1>6 DEF Faulted

LEMMA OutputFaultsType ==
  ASSUME NEW n \in Nat, NEW k \in 1 .. n, NEW m \in Nat
  PROVE  OutputFaults(k) \in Seq(FaultRecs(n, m)) /\ Len(OutputFaults(k)) = 2
<1> DEFINE a == [node |-> k, pos |-> 0, val |-> "0", rep |-> 0]
           b == [node |-> k, pos |-> 0, val |-> "1", rep |-> 0]
<1>1. a \in FaultRecs(n, m) /\ b \in FaultRecs(n, m)
  BY DEF FaultRecs
<1>2. OutputFaults(k) = <<a, b>>
  BY DEF OutputFaults
<1> HIDE DEF a, b
<1> QED BY <1>1, <1>2

LEMMA GateFaultsType ==
  ASSUME NEW g, NEW old, NEW b, GateDone(old, b), Faulted(old, fault)
  PROVE  /\ GateFaults(g, b) \in Seq(FaultRecs(Len(b.node), Len(fault) + 2))
         /\ Len(GateFaults(g, b)) >= 2
<1> DEFINE n == Len(b.node)
           m == Len(fault) + 2
           A == FaultRecs(n, m)
           ins == [k \in DOMAIN b.site |-> InputFaults(g, k, b.site[k], Len(fault) + 1)]
<1>1. /\ b.node \in Seq(NodeRecs) /\ n \in Nat /\ DOMAIN b.node = 1 .. n /\ b.site \in Seq(Pairs)
      /\ m \in Nat /\ Len(fault) \in Nat /\ Top(b) \in 1 .. n
  BY DEF GateDone, Sound, Builds, Drives, Faulted
<1>2. ASSUME NEW k \in DOMAIN b.site PROVE ins[k] \in Seq(A)
  <2>1. b.site[k][1] \in 1 .. n /\ b.site[k][2] \in Nat
    BY <1>1 DEF GateDone, Placed, Pairs
  <2>2. \A v : ForcedRep(g, k, v, Len(fault) + 1) \in 0 .. m
    BY <1>1 DEF ForcedRep
  <2> DEFINE Fault(j) == LET v == IF j = 1 THEN "0" ELSE "1"
                         IN  [node |-> b.site[k][1], pos |-> b.site[k][2], val |-> v,
                              rep |-> ForcedRep(g, k, v, Len(fault) + 1)]
  <2>3. \A j \in 1 .. 2 : Fault(j) \in A
    <3> SUFFICES ASSUME NEW j \in 1 .. 2 PROVE Fault(j) \in A
      OBVIOUS
    <3> DEFINE v == IF j = 1 THEN "0" ELSE "1"
               r == ForcedRep(g, k, v, Len(fault) + 1)
    <3>1. v \in {"0", "1"} /\ r \in 0 .. m
      BY <2>2
    <3>2. Fault(j) = [node |-> b.site[k][1], pos |-> b.site[k][2], val |-> v, rep |-> r]
      OBVIOUS
    <3> HIDE DEF v, r, n, m, Fault
    <3> QED BY <2>1, <3>1, <3>2 DEF FaultRecs
  <2>4. ins[k] = [j \in 1 .. 2 |-> Fault(j)]
    BY Zenon DEF InputFaults
  <2> HIDE DEF A, Fault, ins
  <2> QED BY <2>3, <2>4
<1>3. ins \in Seq(Seq(A))
  <2> HIDE DEF A
  <2>1. ins = [k \in DOMAIN b.site |-> ins[k]] /\ DOMAIN b.site = 1 .. Len(b.site) /\ Len(b.site) \in Nat
    BY <1>1
  <2> HIDE DEF ins
  <2> QED BY <1>2, <2>1
<1>4. FlattenSeq(ins) \in Seq(A)
  <2> HIDE DEF ins, A
  <2> QED BY <1>3, FlattenFacts
<1>5. OutputFaults(Top(b)) \in Seq(A) /\ Len(OutputFaults(Top(b))) = 2
  <2> HIDE DEF n, m
  <2> QED BY <1>1, OutputFaultsType
<1>6. GateFaults(g, b) = OutputFaults(Top(b)) \o FlattenSeq(ins)
  BY Zenon DEF GateFaults
<1> HIDE DEF ins, A, n, m
<1>7. GateFaults(g, b) \in Seq(A) /\ Len(GateFaults(g, b)) >= 2
  BY SMTT(40), <1>4, <1>5, <1>6
<1> QED BY <1>7 DEF A, n, m

-----------------------------------------------------------------------------
(* The fanouts.                                                            *)

LEMMA EdgeFacts ==
  ASSUME Wired(node, conn), NEW m \in DOMAIN node
  PROVE  /\ FanoutsOf(m) \in Seq(DOMAIN node)
         /\ \A n \in DOMAIN node : (\E k \in DOMAIN FanoutsOf(m) : FanoutsOf(m)[k] = n)
                                     <=> <<m, n>> \in ToSet(conn)
         /\ Len(FanoutsOf(m)) = Len(Within(conn, {m} \X DOMAIN node))
<1> DEFINE D == DOMAIN node
           S == {m} \X D
           edges == Within(conn, S)
           outs == [k \in DOMAIN edges |-> edges[k][2]]
<1>1. conn \in Seq(Pairs)
  BY DEF Wired, Pairs
<1>2. edges \in Seq(Pairs) /\ ToSet(edges) = ToSet(conn) \cap S
  <2> HIDE DEF S
  <2> QED BY <1>1, WithinFacts
<1>3. FanoutsOf(m) = outs
  BY Zenon DEF FanoutsOf
<1> HIDE DEF edges
<1>4. DOMAIN edges = 1 .. Len(edges) /\ Len(edges) \in Nat
  BY <1>2
<1>5. \A k \in DOMAIN edges : edges[k] \in ToSet(edges)
  BY DEF ToSet
<1>6. \A k \in DOMAIN edges : edges[k] \in S /\ edges[k][2] \in D /\ edges[k] = <<m, edges[k][2]>>
  BY <1>2, <1>5
<1>7. outs \in Seq(D) /\ Len(outs) = Len(edges) /\ DOMAIN outs = DOMAIN edges
  <2> DEFINE l == Len(edges)
  <2>1. \A k \in 1 .. l : outs[k] \in D
    BY <1>4, <1>6
  <2>2. outs = [k \in 1 .. l |-> outs[k]] /\ l \in Nat /\ DOMAIN edges = 1 .. l
    BY <1>4
  <2> HIDE DEF outs, l, D
  <2>3. outs \in Seq(D) /\ Len(outs) = l /\ DOMAIN outs = 1 .. l
    BY <2>1, <2>2, IndexedType
  <2> QED BY <2>2, <2>3 DEF l
<1>8. ASSUME NEW n \in D
      PROVE  (\E k \in DOMAIN outs : outs[k] = n) <=> <<m, n>> \in ToSet(conn)
  <2>1. (\E k \in DOMAIN outs : outs[k] = n) <=> \E k \in DOMAIN edges : edges[k] = <<m, n>>
    BY <1>6, <1>7
  <2>2. (\E k \in DOMAIN edges : edges[k] = <<m, n>>) <=> <<m, n>> \in ToSet(edges)
    BY DEF ToSet
  <2>3. <<m, n>> \in S
    OBVIOUS
  <2> QED BY <1>2, <2>1, <2>2, <2>3
<1> HIDE DEF outs
<1> QED BY <1>3, <1>7, <1>8 DEF edges

\* The connections are those between a fanin and its node.
LEMMA ConnsAre ==
  ASSUME Wired(node, conn)
  PROVE  /\ \A m, n : <<m, n>> \in ToSet(conn) =>
              n \in DOMAIN node /\ Drives(node, m) /\ \E k \in DOMAIN node[n].fanin : node[n].fanin[k] = m
         /\ \A n \in DOMAIN node : \A k \in DOMAIN node[n].fanin : <<node[n].fanin[k], n>> \in ToSet(conn)
<1>1. PICK at : Wires(at, node, conn)
  BY DEF Wired
<1>2. \A n \in DOMAIN node : /\ DOMAIN node[n].fanin \subseteq Nat
                             /\ \A k \in DOMAIN node[n].fanin : Drives(node, node[n].fanin[k])
  <2> SUFFICES ASSUME NEW n \in DOMAIN node
               PROVE  /\ DOMAIN node[n].fanin \subseteq Nat
                      /\ \A k \in DOMAIN node[n].fanin : Drives(node, node[n].fanin[k])
    OBVIOUS
  <2>1. node[n] \in NodeRecs
    BY DEF Wired
  <2>2. node[n].fanin \in Seq(Nat)
    BY <2>1 DEF NodeRecs
  <2> QED BY <2>2 DEF Wired
<1>3. ASSUME NEW m, NEW n, <<m, n>> \in ToSet(conn)
      PROVE  n \in DOMAIN node /\ Drives(node, m) /\ \E k \in DOMAIN node[n].fanin : node[n].fanin[k] = m
  <2>1. PICK j \in DOMAIN conn : conn[j] = <<m, n>>
    BY <1>3 DEF ToSet
  <2>2. PICK p \in PinsOf(node) : at[p] = j
    BY <1>1 DEF Wires
  <2>3. conn[j] = <<node[p[1]].fanin[p[2]], p[1]>>
    BY <1>1, <2>2 DEF Wires
  <2>4. p[1] \in DOMAIN node /\ p[2] \in DOMAIN node[p[1]].fanin
    BY DEF PinsOf
  <2>5. p[1] = n /\ node[p[1]].fanin[p[2]] = m
    BY <2>1, <2>3
  <2> QED BY <1>2, <2>4, <2>5
<1>4. ASSUME NEW n \in DOMAIN node, NEW k \in DOMAIN node[n].fanin
      PROVE  <<node[n].fanin[k], n>> \in ToSet(conn)
  <2>1. <<n, k>> \in PinsOf(node)
    BY <1>2 DEF PinsOf
  <2>2. at[<<n, k>>] \in DOMAIN conn /\ conn[at[<<n, k>>]] = <<node[n].fanin[k], n>>
    BY <1>1, <2>1 DEF Wires
  <2> QED BY <2>2 DEF ToSet
<1> QED BY <1>3, <1>4

LEMMA FanoutsAreProper ==
  ASSUME Wired(node, conn), fanout = [n \in DOMAIN node |-> FanoutsOf(n)]
  PROVE  C!ProperNetwork(node, fanout)
<1> DEFINE D == DOMAIN node
<1>1. node \in Seq(NodeRecs) /\ D = 1 .. Len(node) /\ Len(node) \in Nat
      /\ conn \in Seq(Pairs) /\ DOMAIN conn = 1 .. Len(conn) /\ Len(conn) \in Nat
  BY DEF Wired, Pairs
<1>2. DOMAIN fanout = D /\ \A n \in D : fanout[n] = FanoutsOf(n)
  OBVIOUS
<1>3. ASSUME NEW n \in D
      PROVE  /\ node[n].type \in C!NodeTypes
             /\ node[n].fanin \in Seq(1 .. n - 1)
             /\ node[n].type \in C!NoFanin => node[n].fanin = << >>
             /\ node[n].type \in C!OneFanin => Len(node[n].fanin) = 1
             /\ node[n].type \notin C!NoFanin => node[n].fanin # << >>
  <2>1. node[n] \in NodeRecs
    BY <1>1
  <2>2. node[n].type \in C!NodeTypes /\ node[n].fanin \in Seq(Nat)
    BY <2>1 DEF NodeRecs
  <2>3. \A k \in DOMAIN node[n].fanin : node[n].fanin[k] \in 1 .. n - 1
    BY DEF Wired
  <2>4. node[n].fanin \in Seq(1 .. n - 1)
    <3> DEFINE s == node[n].fanin
               A == 1 .. n - 1
               l == Len(s)
    <3>1. l \in Nat /\ DOMAIN s = 1 .. l /\ s = [k \in 1 .. l |-> s[k]] /\ \A k \in 1 .. l : s[k] \in A
      BY <2>2, <2>3
    <3> HIDE DEF s, A, l
    <3>2. s \in Seq(A)
      BY <3>1, IndexedType
    <3> QED BY <3>2 DEF s, A
  <2>5. Arity(node[n].type, node[n].fanin)
    BY DEF Wired
  <2> QED BY <2>2, <2>4, <2>5 DEF Arity
<1>4. ASSUME NEW n \in D
      PROVE  /\ fanout[n] \in Seq(D)
             /\ node[n].type \in C!PpoTypes => fanout[n] = << >>
  <2>1. fanout[n] \in Seq(D)
    BY <1>2, EdgeFacts
  <2>2. ASSUME node[n].type \in C!PpoTypes PROVE fanout[n] = << >>
    <3>0. /\ \A k \in DOMAIN fanout[n] : fanout[n][k] \in D
          /\ \A o \in D : (\E k \in DOMAIN fanout[n] : fanout[n][k] = o) <=> <<n, o>> \in ToSet(conn)
      <4>1. \A o \in D : (\E k \in DOMAIN FanoutsOf(n) : FanoutsOf(n)[k] = o) <=> <<n, o>> \in ToSet(conn)
        BY EdgeFacts
      <4>2. fanout[n] = FanoutsOf(n)
        BY <1>2
      <4>3. \A k \in DOMAIN fanout[n] : fanout[n][k] \in D
        <5> HIDE DEF D
        <5> QED BY <2>1
      <4> QED BY <4>1, <4>2, <4>3, Zenon
    <3>1. \A k \in DOMAIN fanout[n] : <<n, fanout[n][k]>> \in ToSet(conn)
      BY <3>0
    <3>2. DOMAIN fanout[n] = {}
      BY <2>2, <3>1, ConnsAre DEF Drives
    <3> DEFINE s == fanout[n]
               l == Len(s)
    <3> HIDE DEF D
    <3>3. s \in Seq(D) /\ DOMAIN s = {}
      BY <2>1, <3>2
    <3> HIDE DEF s
    <3>4. l \in Nat /\ DOMAIN s = 1 .. l /\ ~ 1 \in DOMAIN s
      BY <3>3
    <3>5. Len(s) = 0
      BY <3>4
    <3>6. s = << >>
      BY <3>3, <3>5
    <3> QED BY <3>6 DEF s
  <2> QED BY <2>1, <2>2
<1>5. ASSUME NEW m \in D, NEW n \in D
      PROVE  (\E k \in DOMAIN fanout[m] : fanout[m][k] = n)
               <=> (\E k \in DOMAIN node[n].fanin : node[n].fanin[k] = m)
  <2>1. (\E k \in DOMAIN fanout[m] : fanout[m][k] = n) <=> <<m, n>> \in ToSet(conn)
    BY <1>2, EdgeFacts
  <2> QED BY <2>1, ConnsAre
<1>6. ASSUME NEW m \in D, NEW n \in D, NEW j \in DOMAIN node[n].fanin, NEW k \in DOMAIN node[n].fanin,
             j # k, node[n].fanin[j] = m, node[n].fanin[k] = m
      PROVE  Len(fanout[m]) # 1
  <2>1. PICK at : Wires(at, node, conn)
    BY DEF Wired
  <2> DEFINE x == at[<<n, j>>]
             y == at[<<n, k>>]
             S == {m} \X D
  <2>2. <<n, j>> \in PinsOf(node) /\ <<n, k>> \in PinsOf(node)
    BY <1>3 DEF PinsOf
  <2>3. x \in DOMAIN conn /\ y \in DOMAIN conn /\ x # y /\ conn[x] = <<m, n>> /\ conn[y] = <<m, n>>
    BY <1>6, <2>1, <2>2 DEF Wires
  <2>4. conn[x] \in S /\ conn[y] \in S
    <3>1. <<m, n>> \in S
      OBVIOUS
    <3> HIDE DEF S, x, y
    <3> QED BY <2>3, <3>1
  <2> HIDE DEF x, y
  <2>5. x < y \/ y < x
    BY <1>1, <2>3
  <2>6. Len(Within(conn, S)) >= 2
    <3> HIDE DEF S
    <3> QED BY <1>1, <2>3, <2>4, <2>5, WithinFacts
  <2>7. Len(fanout[m]) = Len(Within(conn, S))
    BY <1>2, EdgeFacts
  <2>8. Len(Within(conn, S)) \in Nat
    <3> HIDE DEF S
    <3>1. Within(conn, S) \in Seq(Pairs)
      BY <1>1, WithinFacts
    <3> QED BY <3>1
  <2> DEFINE l == Len(Within(conn, S))
             q == Len(fanout[m])
  <2>9. l >= 2 /\ l \in Nat /\ q = l
    BY <2>6, <2>7, <2>8
  <2>10. q # 1
    <3> HIDE DEF l, q
    <3> QED BY <2>9
  <2> QED BY <2>10
<1>7. \A m, n \in D : \A j, k \in DOMAIN node[n].fanin :
        j # k /\ node[n].fanin[j] = m /\ node[n].fanin[k] = m => Len(fanout[m]) # 1
  BY <1>6
<1> HIDE DEF D
<1>8. \A m, n \in D :
        /\ (\E k \in DOMAIN fanout[m] : fanout[m][k] = n)
             <=> (\E k \in DOMAIN node[n].fanin : node[n].fanin[k] = m)
        /\ \A j, k \in DOMAIN node[n].fanin :
             j # k /\ node[n].fanin[j] = m /\ node[n].fanin[k] = m => Len(fanout[m]) # 1
  BY <1>5, <1>7
<1>9. \A n \in D :
        /\ node[n].type \in C!NodeTypes
        /\ node[n].fanin \in Seq(1 .. n - 1)
        /\ node[n].type \in C!NoFanin => node[n].fanin = << >>
        /\ node[n].type \in C!OneFanin => Len(node[n].fanin) = 1
        /\ node[n].type \notin C!NoFanin => node[n].fanin # << >>
        /\ fanout[n] \in Seq(D)
        /\ node[n].type \in C!PpoTypes => fanout[n] = << >>
  BY <1>3, <1>4
<1> QED BY <1>1, <1>2, <1>8, <1>9, Zenon DEF C!ProperNetwork, D

-----------------------------------------------------------------------------
(* Dominators.                                                             *)

Proper == C!ProperNetwork(node, fanout)

LEMMA SameOperators ==
  /\ P!Proper <=> Proper
  /\ P!Nodes = DOMAIN node
  /\ P!PPOs = C!PPOs /\ P!PPIs = C!PPIs /\ P!Inputs = C!Inputs
  /\ \A n : P!FaninSet(n) = C!FaninSet(n) /\ P!FanoutSet(n) = C!FanoutSet(n)
  /\ \A n : P!FfrRoot(n) = C!FfrRoot(n)
  /\ \A in, f : P!ValuesUnder(in, f) = C!ValuesUnder(in, f)
  /\ \A in : P!Values(in) = C!Values(in)
  /\ \A f, type : P!FfrCondition(f, type) = C!FfrCondition(f, type)
<1>1. P!Proper <=> Proper
  BY Zenon DEF P!Proper, P!ProperNetwork, Proper, C!ProperNetwork, P!NodeTypes, C!NodeTypes, P!GateTypes, C!GateTypes,
     P!PpoTypes, C!PpoTypes, P!ControlTypes, C!ControlTypes, P!NoFanin, C!NoFanin, P!OneFanin, C!OneFanin,
     P!PpiTypes, C!PpiTypes
<1>2. P!Nodes = DOMAIN node
  BY DEF P!Nodes
<1>3. P!PPOs = C!PPOs /\ P!PPIs = C!PPIs
  BY Zenon DEF P!PPOs, P!PPIs, C!PPOs, C!PPIs, P!PpoTypes, P!PpiTypes, C!PpoTypes, C!PpiTypes
<1>4. P!Inputs = C!Inputs
  BY <1>3, Zenon DEF P!Inputs, C!Inputs
<1>5. \A n : P!FaninSet(n) = C!FaninSet(n) /\ P!FanoutSet(n) = C!FanoutSet(n)
  BY Zenon DEF P!FaninSet, P!FanoutSet, C!FaninSet, C!FanoutSet
<1>6. \A n : P!FfrRoot(n) = C!FfrRoot(n)
  BY Zenon DEF P!FfrRoot, C!FfrRoot
<1>7. \A in, f : P!ValuesUnder(in, f) = C!ValuesUnder(in, f)
  BY Zenon DEF P!ValuesUnder, C!ValuesUnder, P!Output, C!Output, P!PpiTypes, C!PpiTypes, P!GateTypes, C!GateTypes,
     P!GateFunction, C!GateFunction, P!AndOf, C!AndOf, P!OrOf, C!OrOf, P!XorOf, C!XorOf, P!Some, C!Some,
     P!Complement, C!Complement, P!Cardinality, C!Cardinality
<1>8. \A in : P!Values(in) = C!Values(in)
  BY <1>7, Zenon DEF P!Values, C!Values, P!NoFault, C!NoFault
<1>9. \A f, type : P!FfrCondition(f, type) = C!FfrCondition(f, type)
  BY Zenon DEF P!FfrCondition, C!FfrCondition, P!Activation, C!Activation, P!BranchCondition, C!BranchCondition,
     P!PathCondition, C!PathCondition, P!SideAt, C!SideAt, P!Nval, C!Nval, P!SideValue, C!SideValue,
     P!ControlValue, C!ControlValue, P!Complement, C!Complement, P!Assign, C!Assign, P!FaultyLine, C!FaultyLine
<1> QED BY <1>1, <1>2, <1>3, <1>4, <1>5, <1>6, <1>7, <1>8, <1>9

LEMMA NetworkFacts ==
  ASSUME Proper
  PROVE  /\ Len(node) \in Nat /\ DOMAIN node = 1 .. Len(node)
         /\ \A n \in DOMAIN node :
              /\ Len(fanout[n]) \in Nat /\ DOMAIN fanout[n] = 1 .. Len(fanout[n])
              /\ fanout[n] = << >> <=> Len(fanout[n]) = 0
              /\ n \in C!PPOs => fanout[n] = << >>
         /\ \A n \in DOMAIN node : \A k \in DOMAIN fanout[n] : fanout[n][k] \in DOMAIN node /\ n < fanout[n][k]
<1>1. P!Proper /\ P!Nodes = DOMAIN node
  BY SameOperators
<1>2. Len(node) \in Nat /\ DOMAIN node = 1 .. Len(node)
  BY <1>1, P!NodesAre
<1>3. ASSUME NEW n \in DOMAIN node
      PROVE  /\ Len(fanout[n]) \in Nat /\ DOMAIN fanout[n] = 1 .. Len(fanout[n])
             /\ fanout[n] = << >> <=> Len(fanout[n]) = 0
             /\ n \in C!PPOs => fanout[n] = << >>
             /\ \A k \in DOMAIN fanout[n] : fanout[n][k] \in DOMAIN node /\ n < fanout[n][k]
  <2>1. fanout[n] \in Seq(DOMAIN node) /\ (n \in C!PPOs => fanout[n] = << >>)
    BY DEF Proper, C!ProperNetwork, C!PPOs
  <2>2. /\ \A k \in DOMAIN fanout[n] : fanout[n][k] \in C!FanoutSet(n)
        /\ \A o \in C!FanoutSet(n) : n < o
    BY <1>1, P!FanoutFacts, SameOperators DEF C!FanoutSet
  <2> DEFINE s == fanout[n]
             D == DOMAIN node
  <2>3. Len(s) \in Nat /\ DOMAIN s = 1 .. Len(s) /\ (s = << >> <=> Len(s) = 0) /\ \A k \in DOMAIN s : s[k] \in D
    <3>1. s \in Seq(D)
      BY <2>1
    <3> HIDE DEF s, D
    <3> QED BY <3>1
  <2> QED BY <2>1, <2>2, <2>3
<1> QED BY <1>2, <1>3

AvoidsBy(d, g) ==
  [m \in DOMAIN node |-> m # d /\ (fanout[m] = << >> \/ \E k \in DOMAIN fanout[m] : g[fanout[m][k]])]

LEMMA PathStep ==
  ASSUME Proper, NEW d, NEW n \in DOMAIN node
  PROVE  OnEveryPath(d, n) <=>
           d = n \/ (fanout[n] # << >> /\ \A k \in DOMAIN fanout[n] : OnEveryPath(d, fanout[n][k]))
<1> DEFINE D == DOMAIN node
           G == [g \in [D -> BOOLEAN] |-> AvoidsBy(d, g)]
           avoids == CHOOSE g : g = AvoidsBy(d, g)
<1>0. Len(node) \in Nat /\ D = 1 .. Len(node)
      /\ \A k \in D : \A m \in DOMAIN fanout[k] : fanout[k][m] \in D /\ k < fanout[k][m]
  BY NetworkFacts
<1>1. P!DownDependent(Len(node), D, BOOLEAN, G)
  <2>1. \A g \in [D -> BOOLEAN] : AvoidsBy(d, g) \in [D -> BOOLEAN]
    BY Zenon DEF AvoidsBy
  <2>2. [D -> BOOLEAN] # {}
    <3>1. [k \in D |-> TRUE] \in [D -> BOOLEAN]
      OBVIOUS
    <3> QED BY <3>1
  <2>3. ASSUME NEW g \in [D -> BOOLEAN], NEW h \in [D -> BOOLEAN], NEW k \in D,
               \A j \in D : k < j => g[j] = h[j]
        PROVE  AvoidsBy(d, g)[k] = AvoidsBy(d, h)[k]
    <3>1. \A m \in DOMAIN fanout[k] : g[fanout[k][m]] = h[fanout[k][m]]
      BY <1>0, <2>3
    <3>2. /\ AvoidsBy(d, g)[k] = (k # d /\ (fanout[k] = << >> \/ \E m \in DOMAIN fanout[k] : g[fanout[k][m]]))
          /\ AvoidsBy(d, h)[k] = (k # d /\ (fanout[k] = << >> \/ \E m \in DOMAIN fanout[k] : h[fanout[k][m]]))
      BY Zenon DEF AvoidsBy
    <3> QED BY <3>1, <3>2, Zenon
  <2>4. G \in [[D -> BOOLEAN] -> [D -> BOOLEAN]]
    BY <2>1
  <2>5. \A g, h \in [D -> BOOLEAN] : \A k \in D :
          (\A j \in D : k < j => g[j] = h[j]) => G[g][k] = G[h][k]
    BY <2>3
  <2> HIDE DEF G
  <2> QED BY <1>0, <2>2, <2>4, <2>5, Zenon DEF P!DownDependent
<1>2. PICK g \in [D -> BOOLEAN] : g = G[g]
  <2>1. \A m, E, V, H : P!DownDependent(m, E, V, H) => \E f \in [E -> V] : f = H[f]
    BY P!DownRecursion
  <2> HIDE DEF G
  <2> QED BY <1>1, <2>1
<1>3. avoids = AvoidsBy(d, avoids)
  BY <1>2
<1>4. \A k : OnEveryPath(d, k) <=> ~ avoids[k]
  BY Zenon DEF OnEveryPath, AvoidsBy
<1> HIDE DEF avoids
<1>5. avoids[n] = (n # d /\ (fanout[n] = << >> \/ \E k \in DOMAIN fanout[n] : avoids[fanout[n][k]]))
  <2>1. \A h : AvoidsBy(d, h)[n] = (n # d /\ (fanout[n] = << >> \/ \E k \in DOMAIN fanout[n] : h[fanout[n][k]]))
    BY Zenon DEF AvoidsBy
  <2> QED BY <1>3, <2>1, Zenon
<1> QED BY <1>4, <1>5, Zenon

\* The nodes that are on every path from n, and those that imm_dom() leads to.
Doms(n) == {d \in DOMAIN node : OnEveryPath(d, n)}
DomsOf(n) == IF n = 0 THEN {} ELSE Doms(n)
DomsUp == immDom \in [DOMAIN node -> 0 .. Len(node)]
          /\ \A n \in DOMAIN node : immDom[n] = 0 \/ n < immDom[n]
Chained(n) == Doms(n) = {n} \cup DomsOf(immDom[n])

LEMMA DomsAbove ==
  ASSUME Proper, NEW n \in DOMAIN node
  PROVE  n \in Doms(n) /\ \A d \in Doms(n) : n <= d
<1> DEFINE N == Len(node)
           D == DOMAIN node
           T == {k \in D : \A d \in D : OnEveryPath(d, k) => k <= d}
<1>0. /\ N \in Nat /\ D = 1 .. N
      /\ \A k \in D : \A m \in DOMAIN fanout[k] : fanout[k][m] \in D /\ k < fanout[k][m]
      /\ \A k \in D : fanout[k] # << >> => 1 \in DOMAIN fanout[k]
  <2>1. N \in Nat /\ D = 1 .. N
        /\ \A k \in D : \A m \in DOMAIN fanout[k] : fanout[k][m] \in D /\ k < fanout[k][m]
    BY NetworkFacts
  <2>2. ASSUME NEW k \in D, fanout[k] # << >> PROVE 1 \in DOMAIN fanout[k]
    <3> DEFINE l == Len(fanout[k])
    <3>1. l \in Nat /\ DOMAIN fanout[k] = 1 .. l /\ l # 0
      BY <2>2, NetworkFacts
    <3> HIDE DEF l
    <3> QED BY <3>1
  <2> QED BY <2>1, <2>2
<1>1. ASSUME NEW k \in 1 .. N, \A j \in 1 .. N : k < j => j \in T PROVE k \in T
  <2>1. k \in D
    BY <1>0
  <2>2. ASSUME NEW d \in D, OnEveryPath(d, k) PROVE k <= d
    <3>1. CASE d = k
      BY <1>0, <3>1
    <3>2. CASE d # k
      <4>1. fanout[k] # << >> /\ \A m \in DOMAIN fanout[k] : OnEveryPath(d, fanout[k][m])
        BY <2>1, <2>2, <3>2, PathStep
      <4> DEFINE o == fanout[k][1]
      <4>2. o \in D /\ k < o /\ OnEveryPath(d, o)
        BY <1>0, <2>1, <4>1
      <4> HIDE DEF o
      <4>3. o <= d
        BY <1>0, <1>1, <4>2
      <4> QED BY <1>0, <2>1, <4>2, <4>3
    <3> QED BY <3>1, <3>2
  <2> QED BY <2>1, <2>2
<1>2. D \subseteq T
  <2>1. \A m \in Nat : \A U : (\A k \in 1 .. m : (\A j \in 1 .. m : k < j => j \in U) => k \in U) => 1 .. m \subseteq U
    BY P!DownInduction
  <2> HIDE DEF T, N
  <2> QED BY <1>0, <1>1, <2>1
<1>3. OnEveryPath(n, n)
  BY PathStep
<1> QED BY <1>2, <1>3 DEF Doms

Height(n) == IF n = 0 THEN 0 ELSE Len(node) + 1 - n
MetBy(g) ==
  [p \in (0 .. Len(node)) \X (0 .. Len(node)) |->
     IF p[1] = p[2] THEN p[1]
     ELSE IF p[1] = 0 \/ p[2] = 0 THEN 0
     ELSE IF p[1] < p[2] THEN g[<<immDom[p[1]], p[2]>>] ELSE g[<<p[1], immDom[p[2]]>>]]
Places == 0 .. Len(node)

LEMMA ClimbsLower ==
  ASSUME Proper, DomsUp, NEW m \in Places, m # 0
  PROVE  immDom[m] \in Places /\ Height(immDom[m]) < Height(m) /\ Height(m) \in Nat
<1>1. Len(node) \in Nat /\ DOMAIN node = 1 .. Len(node)
  BY NetworkFacts
<1>2. m \in DOMAIN node /\ m \in Nat
  BY <1>1 DEF Places
<1> DEFINE d == immDom[m]
           N == Len(node)
<1>3. d \in 0 .. N /\ (d = 0 \/ m < d) /\ m \in 1 .. N /\ N \in Nat
  BY <1>1, <1>2 DEF DomsUp
<1> HIDE DEF d
<1>4. d \in 0 .. N /\ (IF d = 0 THEN 0 ELSE N + 1 - d) < N + 1 - m /\ N + 1 - m \in Nat
  <2> HIDE DEF N
  <2> QED BY <1>3
<1> QED BY <1>3, <1>4 DEF Height, Places, d

LEMMA MergeStep ==
  ASSUME Proper, DomsUp, NEW m \in Places, NEW n \in Places
  PROVE  /\ Merge(m, n) \in Places
         /\ Merge(m, n) = IF m = n THEN m
                          ELSE IF m = 0 \/ n = 0 THEN 0
                          ELSE IF m < n THEN Merge(immDom[m], n) ELSE Merge(m, immDom[n])
<1> DEFINE S == Places \X Places
           rank == [p \in S |-> Height(p[1]) + Height(p[2])]
           G == [g \in [S -> Places] |-> MetBy(g)]
           met == CHOOSE g : g = MetBy(g)
           Low(p) == <<immDom[p[1]], p[2]>>
           High(p) == <<p[1], immDom[p[2]]>>
<1>0. Len(node) \in Nat /\ 0 \in Places /\ Places \subseteq Nat
  BY NetworkFacts DEF Places
<1>1. \A k \in Places : Height(k) \in Nat
  BY <1>0 DEF Height, Places
<1>2. ASSUME NEW p \in S, p[1] # 0, p[2] # 0
      PROVE  Low(p) \in S /\ High(p) \in S /\ rank[Low(p)] < rank[p] /\ rank[High(p)] < rank[p]
  <2>1. p[1] \in Places /\ p[2] \in Places
    OBVIOUS
  <2>2. immDom[p[1]] \in Places /\ Height(immDom[p[1]]) < Height(p[1])
    BY <1>2, <2>1, ClimbsLower
  <2>3. immDom[p[2]] \in Places /\ Height(immDom[p[2]]) < Height(p[2])
    BY <1>2, <2>1, ClimbsLower
  <2>4. Low(p) \in S /\ High(p) \in S
    BY <2>1, <2>2, <2>3
  <2>5. /\ rank[Low(p)] = Height(immDom[p[1]]) + Height(p[2])
        /\ rank[High(p)] = Height(p[1]) + Height(immDom[p[2]])
        /\ rank[p] = Height(p[1]) + Height(p[2])
    BY <2>4
  <2>6. Height(p[1]) \in Nat /\ Height(p[2]) \in Nat /\ Height(immDom[p[1]]) \in Nat /\ Height(immDom[p[2]]) \in Nat
    BY <1>1, <2>1, <2>2, <2>3
  <2> DEFINE a == Height(p[1])
             b == Height(p[2])
             c == Height(immDom[p[1]])
             e == Height(immDom[p[2]])
  <2>7. a \in Nat /\ b \in Nat /\ c \in Nat /\ e \in Nat /\ c < a /\ e < b
    BY <2>2, <2>3, <2>6
  <2> HIDE DEF a, b, c, e
  <2>8. c + b < a + b /\ a + e < a + b
    BY <2>7
  <2> QED BY <2>4, <2>5, <2>8 DEF a, b, c, e
<1>3. ASSUME NEW g, NEW p \in S
      PROVE  MetBy(g)[p] = IF p[1] = p[2] THEN p[1] ELSE IF p[1] = 0 \/ p[2] = 0 THEN 0
                           ELSE IF p[1] < p[2] THEN g[Low(p)] ELSE g[High(p)]
  BY DEF MetBy, Places
<1>4. \A g : MetBy(g) = [p \in S |-> MetBy(g)[p]]
  BY Zenon DEF MetBy, Places
<1>5. P!IsRecursion(G, S, Places, rank)
  <2>1. rank \in [S -> Nat]
    <3> SUFFICES ASSUME NEW p \in S PROVE Height(p[1]) + Height(p[2]) \in Nat
      OBVIOUS
    <3>1. Height(p[1]) \in Nat /\ Height(p[2]) \in Nat
      BY <1>1
    <3> QED BY <3>1
  <2>2. [S -> Places] # {}
    <3>1. [p \in S |-> 0] \in [S -> Places]
      BY <1>0
    <3> QED BY <3>1
  <2> HIDE DEF rank, Low, High, S
  <2>3. ASSUME NEW g \in [S -> Places] PROVE MetBy(g) \in [S -> Places]
    <3>1. ASSUME NEW p \in S PROVE MetBy(g)[p] \in Places
      <4>1. p[1] \in Places /\ p[2] \in Places
        BY DEF S
      <4>2. p[1] # 0 /\ p[2] # 0 => g[Low(p)] \in Places /\ g[High(p)] \in Places
        BY <1>2
      <4> QED BY <1>0, <1>3, <4>1, <4>2
    <3> QED BY <1>4, <3>1
  <2>4. ASSUME NEW g \in [S -> Places], NEW h \in [S -> Places], NEW p \in S,
               \A q \in S : rank[q] < rank[p] => g[q] = h[q]
        PROVE  MetBy(g)[p] = MetBy(h)[p]
    <3>1. p[1] # 0 /\ p[2] # 0 => g[Low(p)] = h[Low(p)] /\ g[High(p)] = h[High(p)]
      BY <1>2, <2>4
    <3> QED BY <1>3, <3>1
  <2>5. G \in [[S -> Places] -> [S -> Places]]
    BY <2>3
  <2>6. \A g, h \in [S -> Places] : \A p \in S :
          (\A q \in S : rank[q] < rank[p] => g[q] = h[q]) => G[g][p] = G[h][p]
    BY <2>4
  <2> HIDE DEF G
  <2> QED BY <2>1, <2>2, <2>5, <2>6, Zenon DEF P!IsRecursion
<1>6. PICK g \in [S -> Places] : g = G[g]
  <2>1. \A H, E, V, r : P!IsRecursion(H, E, V, r) => \E f \in [E -> V] : f = H[f]
    BY P!RecursionExists
  <2> HIDE DEF G, rank, S
  <2> QED BY <1>5, <2>1
<1>7. met = MetBy(met)
  BY <1>6
<1>8. \A a, b : Merge(a, b) = met[<<a, b>>]
  BY Zenon DEF Merge, MetBy
<1> HIDE DEF met
<1>9. ASSUME NEW p \in S
      PROVE  met[p] = IF p[1] = p[2] THEN p[1] ELSE IF p[1] = 0 \/ p[2] = 0 THEN 0
                      ELSE IF p[1] < p[2] THEN met[Low(p)] ELSE met[High(p)]
  <2> HIDE DEF Low, High, S
  <2> QED BY <1>3, <1>7
<1> DEFINE T == {p \in S : met[p] \in Places}
<1>10. ASSUME NEW p \in S, \A q \in S : rank[q] < rank[p] => q \in T PROVE p \in T
  <2> HIDE DEF rank, Low, High
  <2>1. p[1] # 0 /\ p[2] # 0 => met[Low(p)] \in Places /\ met[High(p)] \in Places
    BY <1>2, <1>10
  <2> QED BY <1>0, <1>9, <2>1
<1>11. S \subseteq T
  <2>1. \A E, r, U : r \in [E -> Nat] /\ (\A x \in E : (\A y \in E : r[y] < r[x] => y \in U) => x \in U) => E \subseteq U
    BY P!RankInduction
  <2>2. rank \in [S -> Nat]
    BY <1>5, Zenon DEF P!IsRecursion
  <2> HIDE DEF rank, T, S
  <2> QED BY <1>10, <2>1, <2>2
<1>12. <<m, n>> \in S /\ <<m, n>>[1] = m /\ <<m, n>>[2] = n
  OBVIOUS
<1> HIDE DEF S, rank
<1> QED BY <1>8, <1>9, <1>11, <1>12

\* What merge() finds of two nodes with numbers above lo, all chained.
ChainedAbove(lo) == \A n \in DOMAIN node : lo < n => Chained(n)
PlacesAbove(lo) == {0} \cup {n \in DOMAIN node : lo < n}

LEMMA MergeFacts ==
  ASSUME Proper, DomsUp, NEW lo \in Nat, ChainedAbove(lo), NEW m \in PlacesAbove(lo), NEW n \in PlacesAbove(lo)
  PROVE  /\ Merge(m, n) \in PlacesAbove(lo)
         /\ DomsOf(Merge(m, n)) = DomsOf(m) \cap DomsOf(n)
<1> DEFINE A == PlacesAbove(lo)
           S == A \X A
           rank == [p \in S |-> Height(p[1]) + Height(p[2])]
           T == {p \in S : /\ Merge(p[1], p[2]) \in A
                           /\ DomsOf(Merge(p[1], p[2])) = DomsOf(p[1]) \cap DomsOf(p[2])}
<1>0. Len(node) \in Nat /\ DOMAIN node = 1 .. Len(node) /\ A \subseteq Places /\ 0 \in A /\ Places \subseteq Nat
  BY NetworkFacts DEF PlacesAbove, Places
<1>1. \A k \in Places : Height(k) \in Nat
  BY <1>0 DEF Height, Places
<1>2. ASSUME NEW k \in A, k # 0
      PROVE  /\ k \in DOMAIN node /\ immDom[k] \in A /\ Height(immDom[k]) < Height(k)
             /\ DomsOf(k) = {k} \cup DomsOf(immDom[k]) /\ \A d \in DomsOf(k) : k <= d
  <2>1. k \in DOMAIN node /\ lo < k /\ k \in Places /\ k \in Nat
    BY <1>0, <1>2 DEF PlacesAbove
  <2>2. immDom[k] \in Places /\ Height(immDom[k]) < Height(k)
    BY <1>2, <2>1, ClimbsLower
  <2>3. immDom[k] = 0 \/ k < immDom[k]
    BY <2>1 DEF DomsUp
  <2>4. immDom[k] \in A
    <3> DEFINE d == immDom[k]
    <3>1. d \in 0 .. Len(node) /\ (d = 0 \/ k < d)
      BY <2>2, <2>3 DEF Places
    <3> HIDE DEF d
    <3>2. d # 0 => d \in DOMAIN node /\ lo < d
      BY <1>0, <2>1, <3>1
    <3>3. d \in A
      BY <3>2 DEF PlacesAbove
    <3> QED BY <3>3 DEF d
  <2>5. DomsOf(k) = Doms(k)
    BY <1>2 DEF DomsOf
  <2>6. Doms(k) = {k} \cup DomsOf(immDom[k])
    BY <2>1 DEF ChainedAbove, Chained
  <2>7. \A d \in Doms(k) : k <= d
    BY <2>1, DomsAbove
  <2> QED BY <2>1, <2>2, <2>4, <2>5, <2>6, <2>7
<1> HIDE DEF A
<1>3. ASSUME NEW p \in S, \A q \in S : rank[q] < rank[p] => q \in T PROVE p \in T
  <2> DEFINE x == p[1]
             y == p[2]
             M == Merge(x, y)
  <2>1. x \in A /\ y \in A /\ x \in Places /\ y \in Places /\ x \in Nat /\ y \in Nat
    BY <1>0
  <2>2. M = IF x = y THEN x ELSE IF x = 0 \/ y = 0 THEN 0
            ELSE IF x < y THEN Merge(immDom[x], y) ELSE Merge(x, immDom[y])
    BY <2>1, MergeStep
  <2>3. ASSUME NEW a \in A, NEW b \in A, Height(a) + Height(b) < Height(x) + Height(y)
        PROVE  Merge(a, b) \in A /\ DomsOf(Merge(a, b)) = DomsOf(a) \cap DomsOf(b)
    <3>1. <<a, b>> \in S /\ <<a, b>>[1] = a /\ <<a, b>>[2] = b
      OBVIOUS
    <3>2. rank[<<a, b>>] < rank[p]
      BY <2>3, <3>1
    <3>3. <<a, b>> \in T
      <4> HIDE DEF rank, S, T
      <4> QED BY <1>3, <3>1, <3>2
    <3> QED BY <3>1, <3>3
  <2>4. p = <<x, y>>
    OBVIOUS
  <2>5. p \in T <=> M \in A /\ DomsOf(M) = DomsOf(x) \cap DomsOf(y)
    OBVIOUS
  <2> HIDE DEF rank, S, T, x, y, M
  <2>6. DomsOf(0) = {}
    BY DEF DomsOf
  <2>7. CASE x = y
    BY <2>1, <2>2, <2>5, <2>7
  <2>8. CASE x # y /\ (x = 0 \/ y = 0)
    <3>1. M = 0
      BY <2>2, <2>8
    <3> QED BY <1>0, <2>5, <2>6, <2>8, <3>1
  <2>9. CASE x # 0 /\ y # 0 /\ x < y
    <3>1. M = Merge(immDom[x], y)
      BY <2>1, <2>2, <2>9
    <3>2. immDom[x] \in A /\ Height(immDom[x]) < Height(x)
      BY <1>2, <2>1, <2>9
    <3>3. Height(immDom[x]) + Height(y) < Height(x) + Height(y)
      <4> DEFINE a == Height(immDom[x])
                 b == Height(x)
                 c == Height(y)
      <4>1. a \in Nat /\ b \in Nat /\ c \in Nat /\ a < b
        BY <1>0, <1>1, <2>1, <3>2
      <4> HIDE DEF a, b, c
      <4>2. a + c < b + c
        BY <4>1
      <4> QED BY <4>2 DEF a, b, c
    <3>4. M \in A /\ DomsOf(M) = DomsOf(immDom[x]) \cap DomsOf(y)
      BY <2>1, <2>3, <3>1, <3>2, <3>3
    <3>5. DomsOf(x) = {x} \cup DomsOf(immDom[x]) /\ \A d \in DomsOf(y) : y <= d
      BY <1>2, <2>1, <2>9
    <3>6. x \notin DomsOf(y)
      BY <2>1, <2>9, <3>5
    <3> QED BY <2>5, <3>4, <3>5, <3>6
  <2>10. CASE x # 0 /\ y # 0 /\ y < x
    <3>1. M = Merge(x, immDom[y])
      BY <2>1, <2>2, <2>10
    <3>2. immDom[y] \in A /\ Height(immDom[y]) < Height(y)
      BY <1>2, <2>1, <2>10
    <3>3. Height(x) + Height(immDom[y]) < Height(x) + Height(y)
      <4> DEFINE a == Height(immDom[y])
                 b == Height(y)
                 c == Height(x)
      <4>1. a \in Nat /\ b \in Nat /\ c \in Nat /\ a < b
        BY <1>0, <1>1, <2>1, <3>2
      <4> HIDE DEF a, b, c
      <4>2. c + a < c + b
        BY <4>1
      <4> QED BY <4>2 DEF a, b, c
    <3>4. M \in A /\ DomsOf(M) = DomsOf(x) \cap DomsOf(immDom[y])
      BY <2>1, <2>3, <3>1, <3>2, <3>3
    <3>5. DomsOf(y) = {y} \cup DomsOf(immDom[y]) /\ \A d \in DomsOf(x) : x <= d
      BY <1>2, <2>1, <2>10
    <3>6. y \notin DomsOf(x)
      BY <2>1, <2>10, <3>5
    <3> QED BY <2>5, <3>4, <3>5, <3>6
  <2>11. x = y \/ (x # y /\ (x = 0 \/ y = 0)) \/ (x # 0 /\ y # 0 /\ x < y) \/ (x # 0 /\ y # 0 /\ y < x)
    BY <2>1
  <2> QED BY <2>7, <2>8, <2>9, <2>10, <2>11
<1>4. S \subseteq T
  <2>1. \A E, r, U : r \in [E -> Nat] /\ (\A x \in E : (\A y \in E : r[y] < r[x] => y \in U) => x \in U) => E \subseteq U
    BY P!RankInduction
  <2>2. rank \in [S -> Nat]
    <3> SUFFICES ASSUME NEW p \in S PROVE Height(p[1]) + Height(p[2]) \in Nat
      OBVIOUS
    <3>1. Height(p[1]) \in Nat /\ Height(p[2]) \in Nat
      BY <1>0, <1>1
    <3> QED BY <3>1
  <2> HIDE DEF rank, T, S
  <2> QED BY <1>3, <2>1, <2>2
<1>5. <<m, n>> \in S
  BY DEF A
<1>6. <<m, n>> \in T
  BY <1>4, <1>5
<1> QED BY <1>6 DEF A

\* The loop over the fanouts of a node.
CommonBy(n, g) ==
  [k \in DOMAIN fanout[n] |-> IF k = 1 THEN fanout[n][1] ELSE Merge(g[k - 1], fanout[n][k])]

LEMMA CommonDomFacts ==
  ASSUME Proper, DomsUp, NEW n \in DOMAIN node, ChainedAbove(n), fanout[n] # << >>
  PROVE  /\ CommonDom(n) \in PlacesAbove(n)
         /\ DomsOf(CommonDom(n)) = {d \in DOMAIN node : \A k \in DOMAIN fanout[n] : OnEveryPath(d, fanout[n][k])}
<1> DEFINE D == DOMAIN node
           l == Len(fanout[n])
           A == PlacesAbove(n)
           out == fanout[n]
           common == CHOOSE g : g = CommonBy(n, g)
           Shared(k) == {d \in D : \A j \in 1 .. k : OnEveryPath(d, out[j])}
<1>0. /\ n \in Nat /\ l \in Nat /\ l # 0 /\ DOMAIN out = 1 .. l
      /\ \A k \in DOMAIN out : out[k] \in D /\ n < out[k]
  BY NetworkFacts
<1>1. /\ \A k \in DOMAIN out : out[k] \in A /\ out[k] # 0
      /\ \A k \in DOMAIN out : DomsOf(out[k]) = {d \in D : OnEveryPath(d, out[k])}
  BY <1>0 DEF PlacesAbove, DomsOf, Doms
<1>2. \A x, y \in A : Merge(x, y) \in A /\ DomsOf(Merge(x, y)) = DomsOf(x) \cap DomsOf(y)
  BY <1>0, MergeFacts
<1> HIDE DEF A
<1>3. \E g : g = CommonBy(n, g)
  <2> DEFINE next == [k \in 1 .. l |-> [a \in A |-> IF k = 1 THEN out[1] ELSE Merge(a, out[k])]]
             Good == (0 .. l) \X A
             start == out[1]
  <2>1. MakesGood(l, A, Good, start, next)
    <3>1. start \in A
      BY <1>0, <1>1
    <3>2. \A k \in 1 .. l : \A a \in A : next[k][a] \in A
      BY <1>0, <1>1, <1>2
    <3>3. \A k \in 0 .. l : \A a \in A : <<k, a>> \in Good
      OBVIOUS
    <3>4. 0 \in 0 .. l /\ \A k \in 1 .. l : k \in 0 .. l
      BY <1>0
    <3> HIDE DEF next, Good, start
    <3> QED BY <1>0, <3>1, <3>2, <3>3, <3>4 DEF MakesGood
  <2>2. PICK g \in [0 .. l -> A] : Loops(l, Good, start, next, g)
    <3> HIDE DEF next, Good, start
    <3> QED BY <2>1, GuardedRecursion
  <2>3. \A k \in 1 .. l : g[k] = next[k][g[k - 1]] /\ g[k - 1] \in A
    <3>1. \A k \in 1 .. l : k \in 0 .. l /\ k # 0 /\ k - 1 \in 0 .. l
      BY <1>0
    <3> HIDE DEF next, Good, start
    <3> QED BY <2>2, <3>1 DEF Loops
  <2>4. \A k \in 1 .. l : g[k] = IF k = 1 THEN out[1] ELSE Merge(g[k - 1], out[k])
    BY <2>3
  <2> DEFINE h == [k \in 1 .. l |-> g[k]]
  <2>5. \A k \in 1 .. l : h[k] = IF k = 1 THEN out[1] ELSE Merge(h[k - 1], out[k])
    <3>1. \A k \in 1 .. l : k # 1 => k - 1 \in 1 .. l
      BY <1>0
    <3> QED BY <2>4, <3>1
  <2>6. h = [k \in 1 .. l |-> h[k]]
    OBVIOUS
  <2> HIDE DEF h, next
  <2>7. h = [k \in 1 .. l |-> IF k = 1 THEN out[1] ELSE Merge(h[k - 1], out[k])]
    BY <2>5, <2>6
  <2> QED BY <1>0, <2>7, Zenon DEF CommonBy
<1>4. common = CommonBy(n, common)
  BY <1>3
<1>5. CommonDom(n) = common[l]
  BY Zenon DEF CommonDom, CommonBy
<1> HIDE DEF common
<1>6. \A k \in 1 .. l : common[k] = IF k = 1 THEN out[1] ELSE Merge(common[k - 1], out[k])
  <2>1. \A g : \A k \in DOMAIN out : CommonBy(n, g)[k] = IF k = 1 THEN out[1] ELSE Merge(g[k - 1], out[k])
    BY Zenon DEF CommonBy
  <2> QED BY <1>0, <1>4, <2>1
<1> DEFINE T == {k \in 0 .. l : k # 0 => common[k] \in A /\ DomsOf(common[k]) = Shared(k)}
<1>7. ASSUME NEW k \in 1 .. l, k - 1 \in T PROVE k \in T
  <2>0. k \in 0 .. l /\ k \in Nat /\ k # 0 /\ k \in DOMAIN out
    BY <1>0
  <2>1. CASE k = 1
    <3>1. common[k] = out[1]
      BY <1>6, <2>1
    <3>2. Shared(k) = {d \in D : OnEveryPath(d, out[1])}
      BY <2>1
    <3> QED BY <1>1, <2>0, <2>1, <3>1, <3>2
  <2>2. CASE k # 1
    <3>1. k - 1 # 0 /\ common[k - 1] \in A /\ DomsOf(common[k - 1]) = Shared(k - 1)
      BY <1>7, <2>0, <2>2
    <3>2. common[k] = Merge(common[k - 1], out[k])
      BY <1>6, <2>2
    <3>3. common[k] \in A /\ DomsOf(common[k]) = DomsOf(common[k - 1]) \cap DomsOf(out[k])
      BY <1>1, <1>2, <2>0, <3>1, <3>2
    <3>4. Shared(k) = Shared(k - 1) \cap {d \in D : OnEveryPath(d, out[k])}
      <4>1. \A j \in Nat : j \in 1 .. k <=> j \in 1 .. k - 1 \/ j = k
        BY <2>0
      <4> QED BY <4>1
    <3>5. DomsOf(common[k]) = Shared(k)
      BY <1>1, <2>0, <3>1, <3>3, <3>4
    <3> QED BY <2>0, <3>3, <3>5
  <2> QED BY <2>1, <2>2
<1>8. 0 \in T
  BY <1>0
<1>9. l \in T
  <2>1. \A m \in Nat : \A U : 0 \in U /\ (\A k \in 1 .. m : k - 1 \in U => k \in U) => 0 .. m \subseteq U
    BY P!InductionTo
  <2> HIDE DEF T, l
  <2>2. 0 .. l \subseteq T
    BY <1>0, <1>7, <1>8, <2>1
  <2> QED BY <1>0, <2>2
<1>10. common[l] \in A /\ DomsOf(common[l]) = Shared(l)
  BY <1>0, <1>9
<1>11. Shared(l) = {d \in D : \A k \in DOMAIN out : OnEveryPath(d, out[k])}
  BY <1>0
<1> QED BY <1>5, <1>10, <1>11 DEF A

LEMMA DomIs ==
  ASSUME Proper, DomsUp, NEW n \in DOMAIN node, ChainedAbove(n),
         NEW d, d = IF n \in C!PPOs \/ fanout[n] = << >> THEN 0 ELSE CommonDom(n)
  PROVE  d \in 0 .. Len(node) /\ (d = 0 \/ n < d) /\ Doms(n) = {n} \cup DomsOf(d)
<1>0. Len(node) \in Nat /\ DOMAIN node = 1 .. Len(node)
  BY NetworkFacts
<1>1. CASE fanout[n] = << >>
  <2>1. d = 0 /\ DomsOf(d) = {}
    BY <1>1 DEF DomsOf
  <2>2. \A e \in DOMAIN node : OnEveryPath(e, n) <=> e = n
    BY <1>1, PathStep
  <2>3. Doms(n) = {n}
    BY <2>2 DEF Doms
  <2> QED BY <1>0, <2>1, <2>3
<1>2. CASE fanout[n] # << >>
  <2>1. d = CommonDom(n)
    BY <1>2, NetworkFacts
  <2>2. /\ d \in PlacesAbove(n)
        /\ DomsOf(d) = {e \in DOMAIN node : \A k \in DOMAIN fanout[n] : OnEveryPath(e, fanout[n][k])}
    BY <1>2, <2>1, CommonDomFacts
  <2>3. \A e \in DOMAIN node : OnEveryPath(e, n) <=> e = n \/ \A k \in DOMAIN fanout[n] : OnEveryPath(e, fanout[n][k])
    BY <1>2, PathStep
  <2>4. Doms(n) = {n} \cup DomsOf(d)
    BY <2>2, <2>3 DEF Doms
  <2> QED BY <1>0, <2>2, <2>4 DEF PlacesAbove
<1> QED BY <1>1, <1>2

LEMMA FirstDominator ==
  ASSUME Proper, DomsUp, NEW n \in DOMAIN node, Chained(n)
  PROVE  LET doms == {d \in n + 1 .. Len(node) : OnEveryPath(d, n)}
         IN  IF doms = {} THEN immDom[n] = 0
             ELSE immDom[n] \in doms /\ \A d \in doms : immDom[n] <= d
<1> DEFINE doms == {d \in n + 1 .. Len(node) : OnEveryPath(d, n)}
           first == immDom[n]
<1>0. Len(node) \in Nat /\ DOMAIN node = 1 .. Len(node) /\ n \in Nat
  BY NetworkFacts
<1>1. first \in 0 .. Len(node) /\ (first = 0 \/ n < first)
  BY DEF DomsUp
<1>2. first # 0 => first \in DOMAIN node
  BY <1>0, <1>1
<1>3. Doms(n) = {n} \cup DomsOf(first)
  BY DEF Chained
<1>4. first # 0 => DomsOf(first) = Doms(first) /\ first \in Doms(first) /\ \A d \in Doms(first) : first <= d
  BY <1>2, DomsAbove DEF DomsOf
<1>5. first = 0 => DomsOf(first) = {}
  BY DEF DomsOf
<1> HIDE DEF first
<1>6. \A d \in doms : d \in DomsOf(first)
  <2>1. \A d \in n + 1 .. Len(node) : d \in DOMAIN node /\ d # n
    BY <1>0
  <2>2. \A d \in doms : d \in Doms(n) /\ d # n
    BY <2>1 DEF Doms
  <2> HIDE DEF doms
  <2> QED BY <1>3, <2>2
<1>7. first # 0 => first \in doms
  <2>1. first # 0 => first \in n + 1 .. Len(node)
    BY <1>0, <1>1
  <2>2. first # 0 => OnEveryPath(first, n)
    BY <1>3, <1>4 DEF Doms
  <2> QED BY <2>1, <2>2
<1>8. IF doms = {} THEN first = 0 ELSE first \in doms /\ \A d \in doms : first <= d
  <2> HIDE DEF doms
  <2> QED BY <1>4, <1>5, <1>6, <1>7
<1> QED BY <1>8 DEF first

-----------------------------------------------------------------------------
(* The fault lists.                                                        *)

LEMMA FaultAtFacts ==
  ASSUME NEW m, fault \in Seq(FaultRecs(m, Len(fault))), NEW n, NEW p, NEW v
  PROVE  /\ FaultAt(n, p, v) \in 0 .. Len(fault)
         /\ FaultAt(n, p, v) \in DOMAIN fault =>
              /\ fault[FaultAt(n, p, v)].node = n /\ fault[FaultAt(n, p, v)].pos = p
              /\ fault[FaultAt(n, p, v)].val = v
<1> DEFINE here == {f \in DOMAIN fault : fault[f].node = n /\ fault[f].pos = p /\ fault[f].val = v}
           one == CHOOSE f \in here : TRUE
<1>0. DOMAIN fault = 1 .. Len(fault) /\ Len(fault) \in Nat
  BY DEF Faulted
<1>1. FaultAt(n, p, v) = IF here = {} THEN 0 ELSE one
  BY DEF FaultAt
<1>2. here # {} => one \in here
  BY Zenon
<1>3. 0 \notin DOMAIN fault
  BY <1>0
<1>4. \A f \in here : f \in DOMAIN fault /\ fault[f].node = n /\ fault[f].pos = p /\ fault[f].val = v
  OBVIOUS
<1> HIDE DEF here, one
<1>5. CASE here = {}
  BY <1>0, <1>1, <1>3, <1>5
<1>6. CASE here # {}
  BY <1>0, <1>1, <1>2, <1>4, <1>6
<1> QED BY <1>5, <1>6

LEMMA FaultsOfFacts ==
  ASSUME Faulted(node, fault), NEW n \in DOMAIN node, Len(node[n].fanin) \in Nat
  PROVE  /\ FaultsOf(n) \in Seq(0 .. Len(fault))
         /\ \A f \in ToSet(FaultsOf(n)) : f \in DOMAIN fault /\ fault[f].node = n
                                          /\ fault[f].pos \in 0 .. Len(node[n].fanin)
<1> DEFINE l == Len(node[n].fanin)
           Q == 0 .. Len(fault)
           ss == [p \in 1 .. l + 1 |-> <<FaultAt(n, p - 1, "0"), FaultAt(n, p - 1, "1")>>]
           S == DOMAIN fault
<1>0. l \in Nat /\ l + 1 \in Nat /\ fault \in Seq(FaultRecs(Len(node), Len(fault)))
  BY DEF Faulted
<1>1. FaultsOf(n) = Within(FlattenSeq(ss), S)
  BY Zenon DEF FaultsOf
<1> HIDE DEF l, S
<1>2. ASSUME NEW p \in 1 .. l + 1
      PROVE  /\ ss[p] \in Seq(Q)
             /\ \A f \in ToSet(ss[p]) : f \in DOMAIN fault => fault[f].node = n /\ fault[f].pos \in 0 .. l
  <2> DEFINE a == FaultAt(n, p - 1, "0")
             b == FaultAt(n, p - 1, "1")
  <2>1. /\ a \in Q /\ (a \in DOMAIN fault => fault[a].node = n /\ fault[a].pos = p - 1)
        /\ b \in Q /\ (b \in DOMAIN fault => fault[b].node = n /\ fault[b].pos = p - 1)
    BY <1>0, FaultAtFacts
  <2>2. ss[p] = <<a, b>>
    OBVIOUS
  <2> HIDE DEF a, b, ss, Q
  <2>3. p - 1 \in 0 .. l
    BY <1>0
  <2>4. ss[p] \in Seq(Q) /\ ToSet(ss[p]) = {a, b}
    BY <2>1, <2>2 DEF ToSet
  <2> QED BY <2>1, <2>3, <2>4
<1>3. ss \in Seq(Seq(Q)) /\ DOMAIN ss = 1 .. l + 1
  <2>1. ss = [p \in 1 .. l + 1 |-> ss[p]]
    OBVIOUS
  <2> HIDE DEF ss, Q
  <2> QED BY <1>0, <1>2, <2>1, IndexedType
<1> HIDE DEF ss, Q
<1>4. FlattenSeq(ss) \in Seq(Q) /\ ToSet(FlattenSeq(ss)) = UNION {ToSet(ss[k]) : k \in DOMAIN ss}
  BY <1>3, FlattenFacts
<1>5. Within(FlattenSeq(ss), S) \in Seq(Q) /\ ToSet(Within(FlattenSeq(ss), S)) = ToSet(FlattenSeq(ss)) \cap S
  BY <1>4, WithinFacts
<1>6. ASSUME NEW f \in ToSet(FaultsOf(n)) 
      PROVE  f \in DOMAIN fault /\ fault[f].node = n /\ fault[f].pos \in 0 .. l
  <2>1. f \in S /\ f \in ToSet(FlattenSeq(ss))
    BY <1>1, <1>5
  <2>2. PICK p \in DOMAIN ss : f \in ToSet(ss[p])
    BY <1>4, <2>1
  <2> QED BY <1>2, <1>3, <2>1, <2>2 DEF S
<1> QED BY <1>1, <1>5, <1>6 DEF l, Q

-----------------------------------------------------------------------------
(* The invariant.                                                          *)

\* The source nodes that have their node.
Made == CASE pc = "inputs" -> i - 1
          [] pc = "dffs" -> source.inputs + (i - 1)
          [] pc = "logic" -> source.inputs + Len(source.dff) + (i - 1)
          [] OTHER -> All(source)
Building ==
  /\ source \in Sources /\ pc \in DOMAIN Following \cup {"done"} /\ i \in Nat \ {0}
  /\ pc \in {"inputs", "dffs", "logic"} => i <= Length + 1
  /\ Wired(node, conn)
  /\ Maps(nodeMap, Made, node)
  /\ Faulted(node, fault)

\* Before the fanouts are set, and after.
Early == pc \in {"inputs", "dffs", "logic", "terminals"} \/ (pc = "fanouts" /\ i = 1)
ListsAre ==
  /\ repList \in [DOMAIN node -> Seq(Nat)]
  /\ \A n \in DOMAIN node : \A f \in ToSet(repList[n]) :
       f \in DOMAIN fault /\ fault[f].node = n /\ fault[f].pos \in 0 .. Len(node[n].fanin)
Analysed ==
  /\ Early => fanout = << >> /\ repList = << >> /\ immDom = << >>
  /\ ~ Early => fanout = [n \in DOMAIN node |-> FanoutsOf(n)] /\ ListsAre /\ DomsUp

\* The nodes of a region lead to its root.
FaultOfRegion(f, root) ==
  /\ f \in DOMAIN fault /\ fault[f].pos \in 0 .. Len(node[fault[f].node].fanin)
  /\ C!FfrRoot(fault[f].node) = root
Regions ==
  /\ stack \in Seq(DOMAIN node) /\ mark \subseteq DOMAIN node
  /\ stack # << >> => pc \in {"ffrs", "mffcs"}
  /\ pc \notin {"mffcs", "done"} => mark = {}
  /\ pc \notin {"ffrs", "mffcs", "done"} => ffr = << >>
  /\ ffr \in Seq([root : DOMAIN node, faults : Seq(Nat)])
  /\ \A k \in DOMAIN ffr : \A f \in ToSet(ffr[k].faults) : FaultOfRegion(f, ffr[k].root)
  /\ pc = "ffrs" /\ stack # << >> =>
       ffr # << >> /\ \A n \in ToSet(stack) : C!FfrRoot(n) = ffr[Len(ffr)].root

Dominators ==
  /\ pc = "doms" => i <= Len(node) + 1 /\ ChainedAbove(FromLast)
  /\ pc \in {"ffrs", "mffcs", "done"} => ChainedAbove(0)

IInv == Building /\ Analysed /\ Regions /\ Dominators

LEMMA AnyMade ==
  ASSUME Building
  PROVE  ProperSource(source) /\ Made \in Nat /\ Made <= All(source) /\ i \in Nat /\ i # 0
<1>1. ProperSource(source)
  BY SourcesAssumption DEF Building
<1>2. /\ source.inputs \in Nat /\ Len(source.dff) \in Nat /\ Len(source.logic) \in Nat /\ i \in Nat /\ i # 0
      /\ All(source) = source.inputs + Len(source.dff) + Len(source.logic)
  BY <1>1, SourceFacts DEF All, Building
<1>3. pc \in {"inputs", "dffs", "logic"} => i <= Length + 1
  BY DEF Building
<1> DEFINE a == source.inputs
           b == Len(source.dff)
           c == Len(source.logic)
           m == All(source)
<1>4. /\ pc = "inputs" => Length = a /\ Made = i - 1
      /\ pc = "dffs" => Length = b /\ Made = a + (i - 1)
      /\ pc = "logic" => Length = c /\ Made = a + b + (i - 1)
      /\ pc \notin {"inputs", "dffs", "logic"} => Made = m
  BY DEF Length, Made
<1>5. a \in Nat /\ b \in Nat /\ c \in Nat /\ m = a + b + c
  BY <1>2
<1> HIDE DEF a, b, c, m
<1>6. Made \in Nat /\ Made <= m
  BY <1>2, <1>3, <1>4, <1>5
<1> QED BY <1>1, <1>2, <1>6 DEF m

\* A node more for the next source node.
LEMMA MapExtended ==
  ASSUME NEW map, NEW n \in Nat, NEW nodes \in Seq(NodeRecs), Maps(map, n, nodes),
         NEW new \in Seq(NodeRecs), Grown(nodes, new), NEW k, Drives(new, k)
  PROVE  Maps(Append(map, k), n + 1, new)
<1>1. map \in Seq(Nat) /\ Len(map) = n /\ k \in Nat /\ DOMAIN map = 1 .. n
  BY DEF Maps, Drives
<1>2. /\ Append(map, k) \in Seq(Nat) /\ Len(Append(map, k)) = n + 1
      /\ DOMAIN Append(map, k) = 1 .. n + 1
      /\ \A s \in 1 .. n : Append(map, k)[s] = map[s]
      /\ Append(map, k)[n + 1] = k
  BY <1>1, AppendFacts
<1>3. \A s \in 1 .. n : Drives(new, map[s])
  BY <1>1, GrownFacts DEF Maps
<1>4. \A s \in 1 .. n + 1 : s \in 1 .. n \/ s = n + 1
  OBVIOUS
<1> QED BY <1>2, <1>3, <1>4 DEF Maps

LEMMA MapKept ==
  ASSUME NEW map, NEW n, NEW nodes \in Seq(NodeRecs), Maps(map, n, nodes),
         NEW new \in Seq(NodeRecs), Grown(nodes, new)
  PROVE  Maps(map, n, new)
BY GrownFacts DEF Maps

LEMMA MakePpiKeeps ==
  ASSUME Building, NEW type \in {"Input", "DffOutput"}, MakePpi(type)
  PROVE  /\ Wired(node', conn') /\ Maps(nodeMap', Made + 1, node') /\ Faulted(node', fault')
<1> DEFINE num == FanoutNum(source, Len(nodeMap) + 1)
           k == Len(node) + 1
<1>1. ProperSource(source) /\ Made \in Nat
  BY AnyMade
<1>2. num \in Nat
  BY <1>1, FanoutNumType
<1>3. Wired(node, conn) /\ node \in Seq(NodeRecs) /\ conn \in Seq(Nat \X Nat) /\ Maps(nodeMap, Made, node)
      /\ Faulted(node, fault)
  BY DEF Building, Wired
<1>4. node' = Append(node, NewNode(type, << >>, num)) /\ conn' = conn
      /\ nodeMap' = Append(nodeMap, k) /\ fault' = fault \o OutputFaults(k)
  BY DEF MakePpi, NewNode
<1> HIDE DEF num
<1>5. Fits(node, type, << >>, num)
  <2>1. << >> \in Seq(Nat) /\ DOMAIN << >> = {}
    OBVIOUS
  <2>2. type \in C!NodeTypes /\ type \in C!NoFanin /\ type \notin C!OneFanin
    BY DEF C!NodeTypes, C!GateTypes, C!NoFanin, C!PpiTypes, C!OneFanin, C!PpoTypes, C!ControlTypes
  <2> QED BY <1>2, <2>1, <2>2 DEF Fits, Fed, Arity
<1>6. /\ Wired(node', conn \o NewConns(<< >>, Len(node) + 1)) /\ Grown(node, node')
      /\ Len(node') = Len(node) + 1 /\ Len(node) \in Nat
      /\ node'[Len(node')] = NewNode(type, << >>, num) /\ Len(node') \in DOMAIN node'
  <2> DEFINE m == node'
  <2>1. m = Append(node, NewNode(type, << >>, num))
    BY <1>4
  <2> HIDE DEF m
  <2>2. Wired(m, conn \o NewConns(<< >>, Len(node) + 1)) /\ Grown(node, m)
    BY <1>3, <1>5, <2>1, NodeAppended
  <2>3. Len(m) = Len(node) + 1 /\ Len(node) \in Nat
    BY <1>3, <1>5, <2>1, NodeAppended
  <2>4. m[Len(m)] = NewNode(type, << >>, num) /\ Len(m) \in DOMAIN m
    BY <1>3, <1>5, <2>1, NodeAppended
  <2> QED BY <2>2, <2>3, <2>4 DEF m
<1>7. Wired(node', conn')
  <2>1. NewConns(<< >>, Len(node) + 1) = << >>
    BY DEF NewConns
  <2>2. conn \o << >> = conn
    BY <1>3
  <2> QED BY <1>4, <1>6, <2>1, <2>2
<1>8. node' \in Seq(NodeRecs) /\ k \in 1 .. Len(node') /\ Len(node') \in Nat
  BY <1>6, <1>7 DEF Wired
<1>9. Drives(node', k)
  <2>1. type \notin C!PpoTypes
    BY DEF C!PpoTypes
  <2> QED BY <1>6, <2>1 DEF Drives, NewNode
<1>10. Maps(nodeMap', Made + 1, node')
  BY <1>1, <1>3, <1>4, <1>6, <1>8, <1>9, MapExtended
<1>11. Faulted(node', fault')
  <2>1. Len(fault) + 2 \in Nat
    BY <1>3 DEF Faulted
  <2>2. OutputFaults(k) \in Seq(FaultRecs(Len(node'), Len(fault) + 2)) /\ Len(OutputFaults(k)) = 2
    BY <1>8, <2>1, OutputFaultsType
  <2> DEFINE l == Len(OutputFaults(k))
  <2>3. l >= 2
    <3>1. l = 2
      BY <2>2
    <3> HIDE DEF l
    <3> QED BY <3>1
  <2> QED BY <1>3, <1>4, <1>6, <1>8, <2>2, <2>3, FaultsAdded
<1> QED BY <1>7, <1>10, <1>11

LEMMA LogicKeeps ==
  ASSUME Building, MakeLogicNode
  PROVE  /\ Wired(node', conn') /\ Maps(nodeMap', Made + 1, node') /\ Faulted(node', fault')
<1> DEFINE g == source.logic[i]
           fanin == FaninNodes(g, nodeMap)
           num == FanoutNum(source, Len(nodeMap) + 1)
           b == GateBuild(g, fanin, num)
           first == source.inputs + Len(source.dff) + i
<1>1. ProperSource(source) /\ Made \in Nat /\ i \in Nat
  BY AnyMade
<1>2. num \in Nat
  BY <1>1, FanoutNumType
<1>3. Wired(node, conn) /\ node \in Seq(NodeRecs) /\ Maps(nodeMap, Made, node) /\ Faulted(node, fault)
  BY DEF Building, Wired
<1>4. node' = b.node /\ conn' = b.conn /\ nodeMap' = Append(nodeMap, Top(b)) /\ fault' = fault \o GateFaults(g, b)
  BY Zenon DEF MakeLogicNode, FaninNodes
<1>5. ProperGate(g, first) /\ first \in Nat \ {0} /\ Made = first - 1
  <2>1. i \in DOMAIN source.logic /\ pc = "logic"
    BY DEF MakeLogicNode
  <2>2. Made = source.inputs + Len(source.dff) + (i - 1)
    BY <2>1 DEF Made
  <2>3. source.inputs \in Nat /\ Len(source.dff) \in Nat /\ i # 0 /\ ProperGate(g, first)
    BY <1>1, <2>1, SourceFacts, AnyMade
  <2> QED BY SMTT(40), <1>1, <2>2, <2>3
<1> HIDE DEF g, num, first
<1>6. GateDone(node, b)
  BY <1>2, <1>3, <1>5, GateBuildFacts
<1> HIDE DEF b
<1>7. Wired(node', conn') /\ Grown(node, node') /\ Drives(node', Top(b)) /\ node' \in Seq(NodeRecs)
  BY <1>4, <1>6 DEF GateDone, Sound, Builds
<1>8. Maps(nodeMap', Made + 1, node')
  BY <1>1, <1>3, <1>4, <1>7, MapExtended
<1>9. Faulted(node', fault')
  BY <1>3, <1>4, <1>6, <1>7, GateFaultsType, FaultsAdded
<1> QED BY <1>7, <1>8, <1>9

LEMMA TerminalKeeps ==
  ASSUME Building, MakeTerminalNode
  PROVE  /\ Wired(node', conn') /\ Maps(nodeMap', Made, node') /\ Faulted(node', fault')
<1> DEFINE t == Terminals(source)[i]
           n == Len(node) + 1
           m == nodeMap[t[2]]
           fs == << [node |-> n, pos |-> 1, val |-> "0", rep |-> 0],
                    [node |-> n, pos |-> 1, val |-> "1", rep |-> 0] >>
<1>1. ProperSource(source) /\ All(source) \in Nat
  BY AnyMade, SourceFacts
<1>2. Wired(node, conn) /\ node \in Seq(NodeRecs) /\ conn \in Seq(Nat \X Nat) /\ Maps(nodeMap, Made, node)
      /\ Faulted(node, fault) /\ Made = All(source)
  BY DEF Building, Wired, Made, MakeTerminalNode
<1>3. /\ node' = Append(node, [type |-> t[1], fanin |-> <<m>>, nfo |-> 0])
      /\ conn' = Append(conn, <<m, n>>) /\ fault' = fault \o fs /\ nodeMap' = nodeMap
  BY Zenon DEF MakeTerminalNode
<1>4. t[1] \in TerminalTypes /\ t[2] \in 1 .. All(source)
  <2>1. Terminals(source) \in Seq(TerminalTypes \X (1 .. All(source))) /\ i \in DOMAIN Terminals(source)
    BY <1>1, TerminalsType DEF MakeTerminalNode
  <2>2. t \in TerminalTypes \X (1 .. All(source))
    BY <2>1
  <2> HIDE DEF t
  <2> QED BY <2>2
<1> HIDE DEF t
<1>5. m \in Nat /\ Drives(node, m)
  <2>1. DOMAIN nodeMap = 1 .. All(source) /\ \A s \in DOMAIN nodeMap : nodeMap[s] \in Nat
    BY <1>1, <1>2 DEF Maps
  <2> QED BY <1>2, <1>4, <2>1 DEF Maps
<1> HIDE DEF m
<1>6. Fits(node, t[1], <<m>>, 0)
  <2>1. <<m>> \in Seq(Nat) /\ DOMAIN <<m>> = {1} /\ <<m>>[1] = m /\ <<m>> # << >> /\ Len(<<m>>) = 1
    BY <1>5
  <2>2. t[1] \in C!NodeTypes /\ t[1] \notin C!NoFanin
    BY <1>4 DEF TerminalTypes, C!NodeTypes, C!GateTypes, C!PpoTypes, C!ControlTypes, C!NoFanin, C!PpiTypes
  <2> QED BY <1>5, <2>1, <2>2 DEF Fits, Fed, Arity
<1>7. /\ Wired(node', conn \o NewConns(<<m>>, Len(node) + 1)) /\ Grown(node, node')
      /\ Len(node') = Len(node) + 1 /\ Len(node) \in Nat
  <2> DEFINE o == node'
  <2>1. o = Append(node, NewNode(t[1], <<m>>, 0))
    BY <1>3 DEF NewNode
  <2> HIDE DEF o
  <2>2. Wired(o, conn \o NewConns(<<m>>, Len(node) + 1)) /\ Grown(node, o)
    BY <1>2, <1>6, <2>1, NodeAppended
  <2>3. Len(o) = Len(node) + 1 /\ Len(node) \in Nat
    BY <1>2, <1>6, <2>1, NodeAppended
  <2> QED BY <2>2, <2>3 DEF o
<1>8. Wired(node', conn')
  <2>1. NewConns(<<m>>, n) = << <<m, n>> >>
    BY DEF NewConns
  <2>2. conn \o << <<m, n>> >> = Append(conn, <<m, n>>)
    <3>1. conn \in Seq(Nat \X Nat) /\ <<m, n>> \in Nat \X Nat
      BY <1>2, <1>5, <1>7
    <3> DEFINE e == <<m, n>>
    <3>2. conn \in Seq(Nat \X Nat) /\ e \in Nat \X Nat
      BY <3>1
    <3> HIDE DEF e
    <3>3. conn \o <<e>> = Append(conn, e)
      BY <3>2
    <3> QED BY <3>3 DEF e
  <2> QED BY <1>3, <1>7, <2>1, <2>2
<1>9. node' \in Seq(NodeRecs) /\ n \in 1 .. Len(node') /\ Len(node') \in Nat
  BY <1>7, <1>8 DEF Wired
<1>10. Maps(nodeMap', Made, node')
  BY <1>2, <1>3, <1>7, <1>9, MapKept
<1>11. Faulted(node', fault')
  <2> DEFINE A == FaultRecs(Len(node'), Len(fault) + 2)
             x == [node |-> n, pos |-> 1, val |-> "0", rep |-> 0]
             y == [node |-> n, pos |-> 1, val |-> "1", rep |-> 0]
  <2>1. Len(fault) + 2 \in Nat
    BY <1>2 DEF Faulted
  <2>2. x \in A /\ y \in A
    <3> HIDE DEF n
    <3> QED BY <1>9, <2>1 DEF FaultRecs
  <2>3. fs = <<x, y>>
    OBVIOUS
  <2> HIDE DEF A, x, y, fs
  <2>4. fs \in Seq(A) /\ Len(fs) >= 2
    BY <2>2, <2>3
  <2>5. fs \in Seq(FaultRecs(Len(node'), Len(fault) + 2)) /\ Len(fs) >= 2
    BY <2>4 DEF A
  <2> QED BY <1>2, <1>3, <1>7, <1>9, <2>5, FaultsAdded
<1> QED BY <1>8, <1>10, <1>11

\* New representatives for the faults of S.
Relabel(of, S, rep) == [f \in DOMAIN of |-> IF f \in S THEN [of[f] EXCEPT !.rep = rep[f]] ELSE of[f]]
SameSites(old, new) ==
  /\ Len(new) = Len(old) /\ DOMAIN new = DOMAIN old
  /\ \A f \in DOMAIN old : new[f].node = old[f].node /\ new[f].pos = old[f].pos
LEMMA RelabelFacts ==
  ASSUME NEW n, NEW m, NEW of \in Seq(FaultRecs(n, m)), NEW S, NEW rep,
         \A f \in S \cap DOMAIN of : rep[f] \in 0 .. m
  PROVE  /\ Relabel(of, S, rep) \in Seq(FaultRecs(n, m)) /\ SameSites(of, Relabel(of, S, rep))
         /\ \A f \in DOMAIN of : Relabel(of, S, rep)[f].val = of[f].val
<1> DEFINE A == FaultRecs(n, m)
           new == Relabel(of, S, rep)
           l == Len(of)
<1>1. l \in Nat /\ DOMAIN of = 1 .. l /\ \A f \in 1 .. l : of[f] \in A
  <2> HIDE DEF A
  <2> QED BY DEF A
<1>2. ASSUME NEW f \in 1 .. l
      PROVE  new[f] \in A /\ new[f].node = of[f].node /\ new[f].pos = of[f].pos /\ new[f].val = of[f].val
  <2>1. of[f] \in A
    BY <1>1
  <2>2. CASE f \in S
    <3>1. new[f] = [of[f] EXCEPT !.rep = rep[f]] /\ rep[f] \in 0 .. m
      BY <1>1, <2>2 DEF Relabel
    <3> HIDE DEF new
    <3> QED BY <2>1, <3>1 DEF FaultRecs
  <2>3. CASE f \notin S
    BY <1>1, <2>1, <2>3 DEF Relabel
  <2> QED BY <2>2, <2>3
<1>3. new = [f \in 1 .. l |-> new[f]]
  BY <1>1 DEF Relabel
<1> HIDE DEF new, A, l
<1>4. new \in Seq(A) /\ Len(new) = l /\ DOMAIN new = 1 .. l
  BY <1>1, <1>2, <1>3, IndexedType
<1> QED BY <1>1, <1>2, <1>4 DEF SameSites, new, A, l

LEMMA LinkedType ==
  ASSUME Faulted(node, fault), NEW n, NEW f \in DOMAIN fault
  PROVE  Linked(n, f) \in 0 .. Len(fault)
<1>1. fault \in Seq(FaultRecs(Len(node), Len(fault)))
  BY DEF Faulted
<1>2. fault[f].rep \in 0 .. Len(fault)
  <2> DEFINE A == FaultRecs(Len(node), Len(fault))
  <2>1. fault[f] \in A
    <3>1. fault \in Seq(A)
      BY <1>1
    <3> HIDE DEF A
    <3> QED BY <3>1
  <2> QED BY <2>1 DEF FaultRecs
<1>3. \A m, p, v : FaultAt(m, p, v) \in 0 .. Len(fault)
  BY <1>1, FaultAtFacts
<1> QED BY <1>2, <1>3, Zenon DEF Linked, BranchOf

LEMMA RepFaultsKeep ==
  ASSUME Building, ListsAre, SetRepFaults
  PROVE  Faulted(node, fault') /\ SameSites(fault, fault') /\ ListsAre'
<1> DEFINE n == FromLast
           l == Len(fault)
           A == FaultRecs(Len(node), l)
           D == DOMAIN fault
<1>1. Faulted(node, fault) /\ fault \in Seq(A) /\ node \in Seq(NodeRecs) /\ node' = node
  BY DEF Building, Wired, Faulted, SetRepFaults
<1>2. l \in Nat /\ D = 1 .. l
  BY <1>1
<1>3. CASE n \notin C!DataNodes
  <2>1. fault' = fault /\ repList' = repList
    BY <1>3 DEF SetRepFaults
  <2>2. SameSites(fault, fault)
    BY DEF SameSites
  <2>3. ListsAre'
    BY <1>1, <2>1 DEF ListsAre
  <2> QED BY <1>1, <2>1, <2>2, <2>3
<1>4. CASE n \in C!DataNodes
  <2> DEFINE here == {f \in D : fault[f].node = n}
             Rep(f, of) == IF Linked(n, f) = 0 THEN f ELSE of[Linked(n, f)].rep
             S == {f \in here : fault[f].pos = 0}
             T == {f \in here : fault[f].pos > 0}
             none == {f \in here : Linked(n, f) = 0}
             rep1 == [f \in D |-> Rep(f, fault)]
             fault1 == Relabel(fault, S, rep1)
             rep2 == [f \in D |-> Rep(f, fault1)]
             fault2 == Relabel(fault1, T, rep2)
             list == Within(FaultsOf(n), none)
  <2>1. \A f \in D : Linked(n, f) \in 0 .. l
    BY <1>1, LinkedType
  <2>2. n \in DOMAIN node
    BY DEF SetRepFaults
  <2>3. ASSUME NEW of \in Seq(A), Len(of) = l, NEW f \in D PROVE Rep(f, of) \in 0 .. l
    <3>1. DOMAIN of = D
      BY <1>2, <2>3
    <3>2. CASE Linked(n, f) = 0
      BY <1>2, <3>2
    <3>3. CASE Linked(n, f) # 0
      <4>1. Linked(n, f) \in D
        BY <1>2, <2>1, <3>3
      <4>2. of[Linked(n, f)] \in A
        <5> HIDE DEF A, D, n
        <5> QED BY <2>3, <3>1, <4>1
      <4> QED BY <3>3, <4>2 DEF FaultRecs
    <3> QED BY <3>2, <3>3
  <2>4. fault1 \in Seq(A) /\ SameSites(fault, fault1)
    <3>1. \A f \in S \cap DOMAIN fault : rep1[f] \in 0 .. l
      BY <1>1, <2>3
    <3> HIDE DEF S, rep1, l
    <3> QED BY <1>1, <3>1, RelabelFacts
  <2>5. DOMAIN fault1 = D /\ Len(fault1) = l
    BY <2>4 DEF SameSites
  <2>6. fault2 \in Seq(A) /\ SameSites(fault1, fault2)
    <3>1. \A f \in T \cap DOMAIN fault1 : rep2[f] \in 0 .. l
      BY SMTT(40), <2>3, <2>4, <2>5
    <3> HIDE DEF fault1, T, rep2, l
    <3> QED BY <2>4, <3>1, RelabelFacts
  <2>7. SameSites(fault, fault2)
    BY Zenon, <2>4, <2>6 DEF SameSites
  <2>8. fault1 = [f \in D |-> IF f \in S THEN [fault[f] EXCEPT !.rep = Rep(f, fault)] ELSE fault[f]]
    <3> DEFINE rhs == [f \in D |-> IF f \in S THEN [fault[f] EXCEPT !.rep = Rep(f, fault)] ELSE fault[f]]
    <3>1. fault1 = [f \in D |-> IF f \in S THEN [fault[f] EXCEPT !.rep = rep1[f]] ELSE fault[f]]
      BY Zenon DEF Relabel
    <3>2. \A f \in D : rep1[f] = Rep(f, fault)
      OBVIOUS
    <3> QED BY <3>1, <3>2, Zenon
  <2>9. fault' = fault2 /\ repList' = [repList EXCEPT ![n] = list]
    <3>1. fault2 = [f \in DOMAIN fault1 |-> IF f \in T THEN [fault1[f] EXCEPT !.rep = Rep(f, fault1)] ELSE fault1[f]]
      <4>1. fault2 = [f \in DOMAIN fault1 |-> IF f \in T THEN [fault1[f] EXCEPT !.rep = rep2[f]] ELSE fault1[f]]
        BY Zenon DEF Relabel
      <4>2. \A f \in DOMAIN fault1 : rep2[f] = Rep(f, fault1)
        BY SMTT(40), <2>5
      <4> HIDE DEF fault1, rep2
      <4> QED BY <4>1, <4>2, Zenon
    <3> HIDE DEF fault1, fault2
    <3> QED BY <1>4, <2>8, <3>1, Zenon DEF SetRepFaults
  <2>10. Faulted(node, fault')
    BY Zenon, <2>5, <2>6, <2>9 DEF SameSites, Faulted
  <2>11. \A f \in ToSet(list) : f \in D /\ fault[f].node = n /\ fault[f].pos \in 0 .. Len(node[n].fanin)
    <3>1. Len(node[n].fanin) \in Nat
      BY <1>1, <2>2 DEF NodeRecs
    <3>2. /\ FaultsOf(n) \in Seq(0 .. l)
          /\ \A f \in ToSet(FaultsOf(n)) : f \in D /\ fault[f].node = n /\ fault[f].pos \in 0 .. Len(node[n].fanin)
      BY <1>1, <2>2, <3>1, FaultsOfFacts
    <3>3. list \in Seq(0 .. l) /\ ToSet(list) = ToSet(FaultsOf(n)) \cap none
      <4> HIDE DEF none
      <4> QED BY <3>2, WithinFacts
    <3> QED BY <3>2, <3>3
  <2>12. list \in Seq(Nat)
    <3>1. Len(node[n].fanin) \in Nat
      BY <1>1, <2>2 DEF NodeRecs
    <3>2. FaultsOf(n) \in Seq(0 .. l)
      BY <1>1, <2>2, <3>1, FaultsOfFacts
    <3>3. 0 .. l \subseteq Nat
      OBVIOUS
    <3>4. FaultsOf(n) \in Seq(Nat)
      <4> DEFINE Q == 0 .. l
      <4>1. FaultsOf(n) \in Seq(Q) /\ Q \subseteq Nat
        BY <3>2, <3>3
      <4> DEFINE s == FaultsOf(n)
      <4>2. s \in Seq(Q)
        BY <4>1
      <4>3. s = [k \in 1 .. Len(s) |-> s[k]] /\ Len(s) \in Nat /\ \A k \in 1 .. Len(s) : s[k] \in Nat
        <5> HIDE DEF s, Q
        <5> QED BY <4>1, <4>2
      <4> HIDE DEF s
      <4>4. s \in Seq(Nat)
        BY <4>3, IndexedType
      <4> QED BY <4>4 DEF s
    <3> HIDE DEF none
    <3> QED BY <3>4, WithinFacts
  <2>13. repList' \in [DOMAIN node' -> Seq(Nat)]
    <3> HIDE DEF list
    <3> QED BY <1>1, <2>2, <2>9, <2>12 DEF ListsAre
  <2>14. ASSUME NEW m \in DOMAIN node, NEW f \in ToSet(repList'[m])
         PROVE  f \in DOMAIN fault' /\ fault'[f].node = m /\ fault'[f].pos \in 0 .. Len(node[m].fanin)
    <3>1. f \in D /\ fault[f].node = m /\ fault[f].pos \in 0 .. Len(node[m].fanin)
      <4> HIDE DEF list
      <4>1. CASE m = n
        <5>1. repList'[m] = list
          BY <2>2, <2>9, <4>1 DEF ListsAre
        <5> QED BY <2>11, <4>1, <5>1
      <4>2. CASE m # n
        <5>1. repList'[m] = repList[m]
          BY <2>2, <2>9, <4>2 DEF ListsAre
        <5> QED BY <2>14, <5>1 DEF ListsAre
      <4> QED BY <4>1, <4>2
    <3> HIDE DEF fault2
    <3> QED BY <2>7, <2>9, <3>1 DEF SameSites
  <2> HIDE DEF fault2
  <2> QED BY <1>1, <2>7, <2>9, <2>10, <2>13, <2>14 DEF ListsAre
<1> QED BY <1>3, <1>4

LEMMA NetworkBuilt ==
  ASSUME Building, Analysed, ~ Early
  PROVE  Proper
BY FanoutsAreProper DEF Building, Analysed, Proper

-----------------------------------------------------------------------------
(* What the steps keep: the network.                                       *)

Making == MakeInputNode \/ MakeDffOutputNode \/ MakeLogicNode \/ MakeTerminalNode
Analysing == SetFanouts \/ SortOutputs \/ SetImmDom \/ BeginFfr \/ VisitFfr \/ BeginMffc \/ VisitMffc

LEMMA MakingKeeps ==
  ASSUME Building, Making
  PROVE  Building'
<1>1. source' = source /\ pc' = pc /\ i' = i + 1 /\ source \in Sources /\ pc \in DOMAIN Following \cup {"done"}
      /\ i \in Nat \ {0}
  BY Zenon DEF Making, MakeInputNode, MakeDffOutputNode, MakeLogicNode, MakeTerminalNode, MakePpi, Building
<1>2. /\ source.inputs \in Nat /\ Len(source.dff) \in Nat /\ Len(source.logic) \in Nat
      /\ DOMAIN source.dff = 1 .. Len(source.dff) /\ DOMAIN source.logic = 1 .. Len(source.logic)
  BY AnyMade, SourceFacts
<1>3. CASE MakeInputNode
  <2>1. pc = "inputs" /\ i <= source.inputs /\ MakePpi("Input")
    BY <1>3 DEF MakeInputNode
  <2>2. Wired(node', conn') /\ Maps(nodeMap', Made + 1, node') /\ Faulted(node', fault')
    BY <2>1, MakePpiKeeps
  <2>3. Made' = Made + 1 /\ i' <= Length' + 1
    BY <1>1, <1>2, <2>1 DEF Made, Length
  <2> QED BY <1>1, <2>2, <2>3 DEF Building
<1>4. CASE MakeDffOutputNode
  <2>1. pc = "dffs" /\ i <= Len(source.dff) /\ MakePpi("DffOutput")
    BY <1>2, <1>4 DEF MakeDffOutputNode
  <2>2. Wired(node', conn') /\ Maps(nodeMap', Made + 1, node') /\ Faulted(node', fault')
    BY <2>1, MakePpiKeeps
  <2>3. Made' = Made + 1 /\ i' <= Length' + 1
    BY <1>1, <1>2, <2>1 DEF Made, Length
  <2> QED BY <1>1, <2>2, <2>3 DEF Building
<1>5. CASE MakeLogicNode
  <2>1. pc = "logic" /\ i <= Len(source.logic)
    <3>1. pc = "logic" /\ i \in DOMAIN source.logic
      BY <1>5, Zenon DEF MakeLogicNode
    <3> QED BY <1>1, <1>2, <3>1
  <2>2. Wired(node', conn') /\ Maps(nodeMap', Made + 1, node') /\ Faulted(node', fault')
    BY <1>5, LogicKeeps
  <2>3. Made' = Made + 1 /\ i' <= Length' + 1
    BY SMTT(40), <1>1, <1>2, <2>1 DEF Made, Length
  <2> QED BY <1>1, <2>2, <2>3 DEF Building
<1>6. CASE MakeTerminalNode
  <2>1. pc = "terminals"
    BY <1>6 DEF MakeTerminalNode
  <2>2. Wired(node', conn') /\ Maps(nodeMap', Made, node') /\ Faulted(node', fault')
    BY <1>6, TerminalKeeps
  <2>3. Made' = Made
    BY <1>1, <2>1 DEF Made, All
  <2> QED BY <1>1, <2>1, <2>2, <2>3 DEF Building
<1> QED BY SMTT(40), <1>3, <1>4, <1>5, <1>6 DEF Making

LEMMA LoopsKeep ==
  ASSUME Building, NextLoop
  PROVE  Building'
<1>1. /\ pc # "done" /\ i > Length /\ pc' = Following[pc] /\ i' = 1
      /\ source' = source /\ node' = node /\ nodeMap' = nodeMap /\ conn' = conn /\ fault' = fault
  BY DEF NextLoop, built
<1>2. /\ source \in Sources /\ pc \in DOMAIN Following /\ i \in Nat \ {0}
      /\ pc \in {"inputs", "dffs", "logic"} => i <= Length + 1
  BY <1>1 DEF Building
<1>3. pc' \in DOMAIN Following \cup {"done"}
  BY <1>1, <1>2 DEF Following
<1>4. /\ source.inputs \in Nat /\ Len(source.dff) \in Nat /\ Len(source.logic) \in Nat
  BY AnyMade, SourceFacts
<1>5. Made' = Made
  <2>1. CASE pc = "inputs"
    <3>1. pc' = "dffs"
      BY <1>1, <2>1 DEF Following
    <3>2. i - 1 = source.inputs
      BY <1>1, <1>2, <1>4, <2>1 DEF Length
    <3> QED BY <1>1, <1>4, <2>1, <3>1, <3>2 DEF Made
  <2>2. CASE pc = "dffs"
    <3>1. pc' = "logic"
      BY <1>1, <2>2 DEF Following
    <3>2. i - 1 = Len(source.dff)
      BY <1>1, <1>2, <1>4, <2>2 DEF Length
    <3> QED BY <1>1, <1>4, <2>2, <3>1, <3>2 DEF Made
  <2>3. CASE pc = "logic"
    <3>1. pc' = "terminals"
      BY <1>1, <2>3 DEF Following
    <3>2. i - 1 = Len(source.logic)
      BY <1>1, <1>2, <1>4, <2>3 DEF Length
    <3> QED BY <1>1, <1>4, <2>3, <3>1, <3>2 DEF Made, All
  <2>4. CASE pc \notin {"inputs", "dffs", "logic"}
    <3>1. pc' \notin {"inputs", "dffs", "logic"}
      BY <1>1, <1>2, <2>4 DEF Following
    <3> QED BY <1>1, <2>4, <3>1 DEF Made, All
  <2> QED BY <2>1, <2>2, <2>3, <2>4
<1>6. pc' \in {"inputs", "dffs", "logic"} => i' <= Length' + 1
  <2>1. pc' = "dffs" => Length' = Len(source.dff)
    BY <1>1 DEF Length
  <2>2. pc' = "logic" => Length' = Len(source.logic)
    BY <1>1 DEF Length
  <2>3. pc' # "inputs"
    BY <1>1, <1>2 DEF Following
  <2> QED BY <1>1, <1>4, <2>1, <2>2, <2>3
<1>7. Wired(node, conn) /\ Maps(nodeMap, Made, node) /\ Faulted(node, fault)
  BY DEF Building
<1> QED BY <1>1, <1>2, <1>3, <1>5, <1>6, <1>7 DEF Building

LEMMA OthersKeep ==
  ASSUME Building, Analysing \/ UNCHANGED networkVars
  PROVE  Building'
<1>1. /\ source' = source /\ pc' = pc /\ node' = node /\ nodeMap' = nodeMap /\ conn' = conn /\ fault' = fault
      /\ i' = i + 1 \/ i' = i
      /\ pc \in {"inputs", "dffs", "logic"} => i' = i
  BY DEF Analysing, SetFanouts, SortOutputs, SetImmDom, BeginFfr, VisitFfr, BeginMffc, VisitMffc, networkVars, built
<1>2. /\ source \in Sources /\ pc \in DOMAIN Following \cup {"done"} /\ i \in Nat \ {0}
      /\ pc \in {"inputs", "dffs", "logic"} => i <= Length + 1
      /\ Wired(node, conn) /\ Maps(nodeMap, Made, node) /\ Faulted(node, fault)
  BY DEF Building
<1>3. Made' = Made
  BY <1>1 DEF Made, All
<1>4. pc \in {"inputs", "dffs", "logic"} => Length' = Length
  BY <1>1 DEF Length
<1> QED BY <1>1, <1>2, <1>3, <1>4 DEF Building

LEMMA RepFaultsBuilt ==
  ASSUME Building, ListsAre, SetRepFaults
  PROVE  Building'
<1>1. /\ source' = source /\ pc' = pc /\ node' = node /\ nodeMap' = nodeMap /\ conn' = conn /\ i' = i + 1
      /\ pc = "faults"
  BY DEF SetRepFaults
<1>2. /\ source \in Sources /\ pc \in DOMAIN Following \cup {"done"} /\ i \in Nat \ {0}
      /\ Wired(node, conn) /\ Maps(nodeMap, Made, node)
  BY DEF Building
<1>3. Made' = Made
  BY <1>1 DEF Made, All
<1>4. Faulted(node', fault')
  BY <1>1, RepFaultsKeep
<1> QED BY <1>1, <1>2, <1>3, <1>4 DEF Building

-----------------------------------------------------------------------------
(* What the steps keep: the fanouts, the lists, the dominators.            *)

\* Nothing that the fanouts and the lists are made of changes.
SameNetwork == UNCHANGED <<node, conn, fanout>>
LEMMA SameFanouts ==
  ASSUME node' = node, conn' = conn
  PROVE  [n \in DOMAIN node |-> FanoutsOf(n)]' = [n \in DOMAIN node |-> FanoutsOf(n)]
BY DEF FanoutsOf

LEMMA MakingAnalyses ==
  ASSUME Building, Analysed, Making
  PROVE  Analysed' /\ Early /\ Early' /\ UNCHANGED analysed /\ pc' = pc
<1>1. UNCHANGED analysed /\ pc' = pc /\ pc \in {"inputs", "dffs", "logic", "terminals"}
  BY Zenon DEF Making, MakeInputNode, MakeDffOutputNode, MakeLogicNode, MakeTerminalNode, MakePpi
<1>2. Early /\ Early'
  BY <1>1 DEF Early
<1> QED BY <1>1, <1>2 DEF Analysed, analysed

LEMMA FanoutsAnalysed ==
  ASSUME Building, Analysed, SetFanouts
  PROVE  Analysed' /\ Early /\ ~ Early' /\ UNCHANGED <<pc, ppo2, ffr, mffc, stack, mark>>
<1>1. /\ pc = "fanouts" /\ i = 1 /\ fanout' = [n \in DOMAIN node |-> FanoutsOf(n)]
      /\ repList' = [n \in DOMAIN node |-> << >>] /\ immDom' = [n \in DOMAIN node |-> 0]
      /\ pc' = pc /\ i' = 2 /\ node' = node /\ conn' = conn /\ fault' = fault
      /\ UNCHANGED <<pc, ppo2, ffr, mffc, stack, mark>>
  BY DEF SetFanouts, built
<1>2. Early /\ ~ Early'
  BY <1>1 DEF Early
<1>3. node \in Seq(NodeRecs)
  BY DEF Building, Wired
<1>4. ListsAre'
  <2>1. \A n \in DOMAIN node : repList'[n] = << >> /\ ToSet(repList'[n]) = {}
    BY <1>1 DEF ToSet
  <2> QED BY <1>1, <2>1 DEF ListsAre
<1>5. DomsUp'
  BY <1>1, <1>3 DEF DomsUp
<1>6. fanout' = [n \in DOMAIN node |-> FanoutsOf(n)]'
  BY <1>1, SameFanouts
<1> QED BY <1>1, <1>2, <1>4, <1>5, <1>6 DEF Analysed

LEMMA RepFaultsAnalysed ==
  ASSUME Building, Analysed, SetRepFaults
  PROVE  Analysed' /\ Building'
<1>1. /\ pc = "faults" /\ pc' = pc
      /\ node' = node /\ conn' = conn /\ fanout' = fanout /\ immDom' = immDom
  BY Zenon DEF SetRepFaults
<1>2. ~ Early /\ ~ Early'
  BY <1>1 DEF Early
<1>3. fanout = [n \in DOMAIN node |-> FanoutsOf(n)] /\ ListsAre /\ DomsUp
  BY <1>2 DEF Analysed
<1>4. Building' /\ ListsAre'
  BY <1>3, RepFaultsBuilt, RepFaultsKeep
<1>5. fanout' = [n \in DOMAIN node |-> FanoutsOf(n)]'
  BY <1>1, <1>3, SameFanouts
<1>6. DomsUp'
  BY <1>1, <1>3 DEF DomsUp
<1> QED BY <1>2, <1>4, <1>5, <1>6 DEF Analysed

\* The paths of the network do not depend on anything that changes later.
LEMMA SamePaths ==
  ASSUME node' = node, fanout' = fanout
  PROVE  \A n : Doms(n)' = Doms(n) /\ DomsOf(n)' = DomsOf(n)
BY DEF Doms, DomsOf, OnEveryPath

LEMMA SameChains ==
  ASSUME node' = node, fanout' = fanout, immDom' = immDom
  PROVE  \A n : Chained(n)' = Chained(n)
BY SamePaths DEF Chained

LEMMA DomsAnalysed ==
  ASSUME Building, Analysed, Dominators, SetImmDom
  PROVE  Analysed' /\ Dominators'
<1> DEFINE n == FromLast
           d == IF n \in C!PPOs \/ fanout[n] = << >> THEN 0 ELSE CommonDom(n)
<1>1. /\ pc = "doms" /\ pc' = pc /\ n \in DOMAIN node /\ immDom' = [immDom EXCEPT ![n] = d] /\ i' = i + 1
      /\ node' = node /\ conn' = conn /\ fanout' = fanout /\ repList' = repList /\ fault' = fault
  BY Zenon DEF SetImmDom, built
<1>2. ~ Early /\ ~ Early'
  BY <1>1 DEF Early
<1>3. fanout = [m \in DOMAIN node |-> FanoutsOf(m)] /\ ListsAre /\ DomsUp /\ Proper
  BY <1>2, NetworkBuilt DEF Analysed
<1>4. ChainedAbove(n)
  BY <1>1 DEF Dominators
<1> HIDE DEF d
<1>5. d \in 0 .. Len(node) /\ (d = 0 \/ n < d) /\ Doms(n) = {n} \cup DomsOf(d)
  BY <1>1, <1>3, <1>4, DomIs DEF d
<1>6. Len(node) \in Nat /\ DOMAIN node = 1 .. Len(node) /\ i \in Nat
  BY <1>3, NetworkFacts DEF Building
<1>7. n = Len(node) + 1 - i /\ (Len(node) + 1 - i)' = n - 1
  BY <1>1, <1>6 DEF FromLast
<1>8. immDom'[n] = d /\ \A m \in DOMAIN node : m # n => immDom'[m] = immDom[m]
  BY <1>1, <1>3 DEF DomsUp
<1>9. immDom' \in [DOMAIN node -> 0 .. Len(node)]
  <2> HIDE DEF n
  <2> QED BY <1>1, <1>3, <1>5 DEF DomsUp
<1> HIDE DEF n
<1>10. DomsUp'
  BY <1>1, <1>3, <1>5, <1>8, <1>9 DEF DomsUp
<1>11. fanout' = [m \in DOMAIN node |-> FanoutsOf(m)]'
  BY <1>1, <1>3, SameFanouts
<1>12. ListsAre'
  BY <1>1, <1>3 DEF ListsAre
<1>13. ASSUME NEW m \in DOMAIN node, n - 1 < m PROVE Chained(m)'
  <2>1. Doms(m)' = Doms(m) /\ \A k : DomsOf(k)' = DomsOf(k)
    BY <1>1, SamePaths
  <2>2. CASE m = n
    <3>1. DomsOf(immDom[m])' = DomsOf(d)
      <4>1. DomsOf(immDom[m])' = DomsOf(immDom'[m])
        BY <1>1 DEF DomsOf, Doms, OnEveryPath
      <4>2. immDom'[m] = d
        BY <1>8, <2>2
      <4> QED BY <4>1, <4>2
    <3> QED BY <1>5, <2>1, <2>2, <3>1 DEF Chained
  <2>3. CASE m # n
    <3>1. n < m
      BY <1>1, <1>6, <1>13, <2>3
    <3>2. Doms(m) = {m} \cup DomsOf(immDom[m])
      BY <1>4, <3>1 DEF ChainedAbove, Chained
    <3>3. DomsOf(immDom[m])' = DomsOf(immDom[m])
      BY <1>1, <1>8, <2>3 DEF DomsOf, Doms, OnEveryPath
    <3> QED BY <2>1, <3>2, <3>3 DEF Chained
  <2> QED BY <2>2, <2>3
<1>14. Dominators'
  <2>1. (i <= Len(node) + 1)'
    <3>1. i' = i + 1 /\ node' = node /\ n >= 1
      BY <1>1, <1>6
    <3> QED BY <1>6, <1>7, <3>1
  <2>2. ChainedAbove(FromLast)'
    <3>1. FromLast' = n - 1
      BY <1>7 DEF FromLast
    <3> QED BY <1>1, <1>13, <3>1 DEF ChainedAbove
  <2> QED BY <1>1, <2>1, <2>2 DEF Dominators
<1> QED BY <1>2, <1>10, <1>11, <1>12, <1>14 DEF Analysed

Collecting == BeginFfr \/ VisitFfr \/ BeginMffc \/ VisitMffc
LEMMA RestAnalysed ==
  ASSUME Building, Analysed, Dominators, SortOutputs \/ Collecting \/ NextLoop \/ UNCHANGED networkVars
  PROVE  Analysed' /\ Dominators'
<1>1. /\ UNCHANGED <<node, conn, fault, fanout, repList, immDom>>
  BY Zenon DEF Collecting, SortOutputs, BeginFfr, VisitFfr, BeginMffc, VisitMffc, NextLoop, networkVars, built, analysed
<1>2. \/ pc' = pc /\ i' = i
      \/ pc' = pc /\ pc \in {"sort", "ffrs", "mffcs"}
      \/ pc # "done" /\ i > Length /\ pc' = Following[pc] /\ i' = 1
  BY Zenon DEF Collecting, SortOutputs, BeginFfr, VisitFfr, BeginMffc, VisitMffc, NextLoop, networkVars
<1>3. pc \in DOMAIN Following \cup {"done"} /\ i \in Nat /\ node \in Seq(NodeRecs)
  BY DEF Building, Wired
<1>4. Early' <=> Early
  <2>1. CASE pc' = pc
    BY <1>2, <2>1 DEF Early, Following
  <2>2. CASE pc # "done" /\ i > Length /\ pc' = Following[pc] /\ i' = 1
    <3>1. pc = "fanouts" => i > 1
      BY <2>2 DEF Length
    <3> QED BY <1>3, <2>2, <3>1 DEF Early, Following
  <2> QED BY <1>2, <2>1, <2>2
<1>5. [n \in DOMAIN node |-> FanoutsOf(n)]' = [n \in DOMAIN node |-> FanoutsOf(n)]
  BY <1>1, SameFanouts
<1>6. ListsAre' <=> ListsAre
  BY <1>1 DEF ListsAre
<1>7. DomsUp' <=> DomsUp
  BY <1>1 DEF DomsUp
<1>8. Analysed'
  BY <1>1, <1>4, <1>5, <1>6, <1>7 DEF Analysed
<1>9. \A n : Chained(n)' = Chained(n)
  BY <1>1, SameChains
<1>10. Dominators'
  <2>1. CASE pc' = pc
    <3>1. pc = "doms" => i' = i
      BY <1>2, <2>1 DEF Following
    <3>2. pc = "doms" => FromLast' = FromLast
      BY <1>1, <3>1 DEF FromLast
    <3> QED BY <1>1, <1>9, <2>1, <3>1, <3>2 DEF Dominators, ChainedAbove
  <2>2. CASE pc # "done" /\ i > Length /\ pc' = Following[pc] /\ i' = 1
    <3>0. Len(node) \in Nat /\ DOMAIN node = 1 .. Len(node) /\ node' = node
      BY <1>1, <1>3
    <3>1. pc' = "doms" => i' <= Len(node') + 1 /\ ChainedAbove(FromLast)'
      <4>1. FromLast' = Len(node)
        BY <1>1, <2>2, <3>0 DEF FromLast
      <4> QED BY <2>2, <3>0, <4>1 DEF ChainedAbove
    <3>2. pc = "doms" => ChainedAbove(0)
      <4>1. ASSUME pc = "doms" PROVE FromLast = 0 /\ ChainedAbove(FromLast)
        <5>1. i > Len(node) /\ i <= Len(node) + 1 /\ ChainedAbove(FromLast)
          BY <2>2, <4>1 DEF Dominators, Length
        <5> QED BY <1>3, <3>0, <5>1 DEF FromLast
      <4> QED BY <4>1
    <3>3. pc' \in {"ffrs", "mffcs", "done"} => pc \in {"doms", "ffrs", "mffcs"}
      BY <1>3, <2>2 DEF Following
    <3>4. pc' \in {"ffrs", "mffcs", "done"} => ChainedAbove(0)'
      BY <1>9, <3>0, <3>2, <3>3 DEF Dominators, ChainedAbove
    <3> QED BY <3>1, <3>4 DEF Dominators
  <2> QED BY <1>2, <2>1, <2>2
<1> QED BY <1>8, <1>10

LEMMA OthersDominate ==
  ASSUME Building, Dominators, Making \/ SetFanouts \/ SetRepFaults
  PROVE  Dominators'
<1>1. pc' = pc /\ pc \in {"inputs", "dffs", "logic", "terminals", "fanouts", "faults"}
  BY Zenon DEF Making, MakeInputNode, MakeDffOutputNode, MakeLogicNode, MakeTerminalNode, MakePpi, SetFanouts,
               SetRepFaults
<1> QED BY <1>1 DEF Dominators

-----------------------------------------------------------------------------
(* What the steps keep: the regions.                                       *)

LEMMA SameRegions ==
  ASSUME node' = node, fanout' = fanout, fault' = fault
  PROVE  /\ \A n : C!FfrRoot(n)' = C!FfrRoot(n)
         /\ \A f, root : FaultOfRegion(f, root)' = FaultOfRegion(f, root)
<1>1. \A n : C!FfrRoot(n)' = C!FfrRoot(n)
  BY DEF C!FfrRoot
<1>2. ASSUME NEW f, NEW root PROVE FaultOfRegion(f, root)' = FaultOfRegion(f, root)
  <2>1. C!FfrRoot(fault[f].node)' = C!FfrRoot(fault[f].node)
    BY DEF C!FfrRoot
  <2> QED BY <2>1 DEF FaultOfRegion
<1> QED BY <1>1, <1>2

\* Before the regions there is nothing to collect.
LEMMA NoRegions ==
  ASSUME Building, Regions, Making \/ SetFanouts \/ SetRepFaults \/ SortOutputs \/ SetImmDom
  PROVE  Regions'
<1>1. /\ pc' = pc /\ pc \in {"inputs", "dffs", "logic", "terminals", "fanouts", "faults", "sort", "doms"}
      /\ stack' = stack /\ mark' = mark /\ ffr' = ffr
  BY Zenon DEF Making, MakeInputNode, MakeDffOutputNode, MakeLogicNode, MakeTerminalNode, MakePpi, SetFanouts,
               SetRepFaults, SortOutputs, SetImmDom, analysed
<1>2. stack = << >> /\ mark = {} /\ ffr = << >>
  BY <1>1 DEF Regions
<1>3. DOMAIN << >> = {} /\ \A S : << >> \in Seq(S)
  OBVIOUS
<1> QED BY <1>1, <1>2, <1>3 DEF Regions

LEMMA LoopsRegions ==
  ASSUME Building, Regions, NextLoop \/ UNCHANGED networkVars
  PROVE  Regions'
<1>1. UNCHANGED <<node, fanout, fault, stack, mark, ffr>>
  BY DEF NextLoop, networkVars, built, analysed
<1>2. pc' = pc \/ (pc # "done" /\ stack = << >> /\ pc' = Following[pc])
  BY DEF NextLoop, networkVars
<1>3. pc \in DOMAIN Following \cup {"done"}
  BY DEF Building
<1>4. \/ pc' = pc
      \/ /\ stack = << >>
         /\ pc' \notin {"mffcs", "done"} => pc \notin {"mffcs", "done"}
         /\ pc' \notin {"ffrs", "mffcs", "done"} => pc \notin {"ffrs", "mffcs", "done"}
  BY <1>2, <1>3 DEF Following
<1>5. /\ \A n : C!FfrRoot(n)' = C!FfrRoot(n)
      /\ \A f, root : FaultOfRegion(f, root)' = FaultOfRegion(f, root)
  BY <1>1, SameRegions
<1>6. /\ stack \in Seq(DOMAIN node) /\ mark \subseteq DOMAIN node
      /\ ffr \in Seq([root : DOMAIN node, faults : Seq(Nat)])
      /\ \A k \in DOMAIN ffr : \A f \in ToSet(ffr[k].faults) : FaultOfRegion(f, ffr[k].root)
  BY DEF Regions
<1>7. /\ (stack \in Seq(DOMAIN node))' /\ (mark \subseteq DOMAIN node)'
      /\ (ffr \in Seq([root : DOMAIN node, faults : Seq(Nat)]))'
  BY <1>1, <1>6
<1>8. (\A k \in DOMAIN ffr : \A f \in ToSet(ffr[k].faults) : FaultOfRegion(f, ffr[k].root))'
  <2>1. ASSUME NEW k \in DOMAIN ffr, NEW f \in ToSet(ffr[k].faults)
        PROVE  FaultOfRegion(f, ffr[k].root)'
    <3>1. FaultOfRegion(f, ffr[k].root)
      BY <1>6
    <3> DEFINE r == ffr[k].root
    <3>2. r' = r
      BY <1>1
    <3> QED BY <1>1, <3>1 DEF FaultOfRegion, C!FfrRoot
  <2> QED BY <1>1, <2>1
<1>9. (/\ stack # << >> => pc \in {"ffrs", "mffcs"}
       /\ pc \notin {"mffcs", "done"} => mark = {}
       /\ pc \notin {"ffrs", "mffcs", "done"} => ffr = << >>)'
  BY <1>1, <1>4 DEF Regions
<1>10. (pc = "ffrs" /\ stack # << >> =>
          ffr # << >> /\ \A n \in ToSet(stack) : C!FfrRoot(n) = ffr[Len(ffr)].root)'
  BY <1>1, <1>4, <1>5 DEF Regions
<1> QED BY <1>7, <1>8, <1>9, <1>10 DEF Regions

LEMMA LastFacts ==
  ASSUME NEW A, NEW s \in Seq(A), s # << >>
  PROVE  /\ Last(s) \in ToSet(s) /\ Last(s) \in A
         /\ Front(s) \in Seq(A) /\ ToSet(Front(s)) \subseteq ToSet(s)
<1>1. Len(s) \in Nat /\ Len(s) >= 1 /\ DOMAIN s = 1 .. Len(s) /\ \A k \in 1 .. Len(s) : s[k] \in A
  OBVIOUS
<1>2. Last(s) \in ToSet(s) /\ Last(s) \in A
  BY <1>1 DEF Last, ToSet
<1> DEFINE t == Front(s)
<1>3. t \in Seq(A) /\ DOMAIN t = 1 .. Len(s) - 1 /\ \A k \in 1 .. Len(s) - 1 : t[k] = s[k]
  BY <1>1 DEF Front
<1> HIDE DEF t
<1>4. ToSet(t) \subseteq ToSet(s)
  BY <1>1, <1>3 DEF ToSet
<1> QED BY <1>2, <1>3, <1>4 DEF t

LEMMA FfrRootsAre ==
  ASSUME Proper
  PROVE  FfrRoots \in Seq(DOMAIN node) /\ \A r \in ToSet(FfrRoots) : C!FfrRoot(r) = r /\ r \in DOMAIN node
<1> DEFINE ids == [n \in DOMAIN node |-> n]
           S == {n \in C!DataNodes : C!FfrRoot(n) = n}
<1>1. Len(node) \in Nat /\ DOMAIN node = 1 .. Len(node)
  BY NetworkFacts
<1>2. ids \in Seq(DOMAIN node)
  BY <1>1
<1>3. ToSet(ids) \subseteq DOMAIN node
  BY DEF ToSet
<1>4. FfrRoots = Within(ids, S)
  BY Zenon DEF FfrRoots
<1> HIDE DEF ids
<1>5. Within(ids, S) \in Seq(DOMAIN node) /\ ToSet(Within(ids, S)) = ToSet(ids) \cap S
  <2> HIDE DEF S
  <2> QED BY <1>2, WithinFacts
<1> QED BY <1>3, <1>4, <1>5

LEMMA MffcRootsAre ==
  ASSUME Proper
  PROVE  MffcRoots \in Seq(DOMAIN node)
<1>1. FfrRoots \in Seq(DOMAIN node)
  BY FfrRootsAre
<1> DEFINE S == {n \in DOMAIN node : immDom[n] = 0}
<1> HIDE DEF S
<1>2. Within(FfrRoots, S) \in Seq(DOMAIN node)
  BY <1>1, WithinFacts
<1> QED BY <1>2 DEF MffcRoots, S

LEMMA MffcFaninsAre ==
  ASSUME Proper, NEW n \in DOMAIN node
  PROVE  MffcFanins(n) \in Seq(DOMAIN node)
<1> DEFINE fanin == node[n].fanin
           Fresh(k) == /\ fanin[k] \notin mark /\ immDom[fanin[k]] # 0
                       /\ \A j \in 1 .. k - 1 : fanin[j] # fanin[k]
           S == {k \in DOMAIN fanin : Fresh(k)}
           D == DOMAIN fanin
           ids == [k \in D |-> k]
           fresh == Within(ids, S)
           new == [k \in DOMAIN fresh |-> fanin[fresh[k]]]
<1>1. /\ Len(fanin) \in Nat /\ D = 1 .. Len(fanin)
      /\ \A k \in D : fanin[k] \in DOMAIN node
  BY P!FaninFacts, SameOperators DEF P!Nodes
<1>2. ids \in Seq(D)
  BY <1>1
<1>3. fresh \in Seq(D)
  <2> HIDE DEF S, ids, D
  <2> QED BY <1>2, WithinFacts
<1>4. MffcFanins(n) = new
  BY Zenon DEF MffcFanins
<1> HIDE DEF fresh
<1>5. Len(fresh) \in Nat /\ DOMAIN fresh = 1 .. Len(fresh) /\ \A k \in 1 .. Len(fresh) : fresh[k] \in D
  <2> HIDE DEF D
  <2> QED BY <1>3
<1>6. new = [k \in 1 .. Len(fresh) |-> new[k]] /\ \A k \in 1 .. Len(fresh) : new[k] \in DOMAIN node
  BY <1>1, <1>5
<1> HIDE DEF new
<1>7. new \in Seq(DOMAIN node)
  BY <1>5, <1>6, IndexedType
<1> QED BY <1>4, <1>7

\* A fanin that is no root leads to the root of its only fanout.
LEMMA FaninOfRegion ==
  ASSUME Proper, NEW n \in DOMAIN node, NEW m \in ToSet(node[n].fanin), C!FfrRoot(m) # m
  PROVE  C!FfrRoot(m) = C!FfrRoot(n)
<1>1. P!Proper /\ n \in P!Nodes /\ \A k : P!FfrRoot(k) = C!FfrRoot(k)
  BY SameOperators
<1>2. m \in P!FaninSet(n) /\ m \in P!Nodes
  BY <1>1, P!FaninFacts DEF P!FaninSet, ToSet
<1>3. P!SingleFanout(m) /\ P!FfrRoot(m) = P!FfrRoot(fanout[m][1])
  BY <1>1, <1>2, P!FfrRootStep
<1>4. n \in P!FanoutSet(m)
  BY <1>1, <1>2, P!FanoutFacts
<1>5. P!FanoutSet(m) = {fanout[m][1]}
  BY <1>1, <1>2, <1>3, P!SingleFanoutIs
<1>6. n = fanout[m][1]
  BY <1>4, <1>5
<1> QED BY <1>1, <1>3, <1>6

RegionRecs == [root : DOMAIN node, faults : Seq(Nat)]
AllOfRegion(faults, root) == \A f \in ToSet(faults) : FaultOfRegion(f, root)
RegionsAre == ffr \in Seq(RegionRecs) /\ \A k \in DOMAIN ffr : AllOfRegion(ffr[k].faults, ffr[k].root)

LEMMA RegionsParts ==
  ASSUME Regions
  PROVE  RegionsAre /\ stack \in Seq(DOMAIN node) /\ mark \subseteq DOMAIN node
BY DEF Regions, RegionsAre, RegionRecs, AllOfRegion

LEMMA RegionsNext ==
  ASSUME node' = node, fanout' = fanout, fault' = fault, NEW all, ffr' = all,
         all \in Seq(RegionRecs), \A k \in DOMAIN all : AllOfRegion(all[k].faults, all[k].root)
  PROVE  (/\ ffr \in Seq([root : DOMAIN node, faults : Seq(Nat)])
          /\ \A k \in DOMAIN ffr : \A f \in ToSet(ffr[k].faults) : FaultOfRegion(f, ffr[k].root))'
<1>1. all \in Seq([root : DOMAIN node, faults : Seq(Nat)])
  BY DEF RegionRecs
<1>2. ASSUME NEW k \in DOMAIN all, NEW f \in ToSet(all[k].faults)
      PROVE  /\ f \in DOMAIN fault /\ fault[f].pos \in 0 .. Len(node[fault[f].node].fanin)
             /\ C!FfrRoot(fault[f].node) = all[k].root
  BY <1>2 DEF AllOfRegion, FaultOfRegion
<1>3. \A n : C!FfrRoot(n)' = C!FfrRoot(n)
  BY SameRegions
<1>4. ASSUME NEW k \in DOMAIN ffr', NEW f \in ToSet(ffr'[k].faults)
      PROVE  /\ f \in DOMAIN fault' /\ fault'[f].pos \in 0 .. Len(node'[fault'[f].node].fanin)
             /\ C!FfrRoot(fault[f].node)' = ffr'[k].root
  BY <1>2, <1>3, <1>4 DEF C!FfrRoot
<1> QED BY <1>1, <1>4 DEF FaultOfRegion

LEMMA BeginFfrRegions ==
  ASSUME Building, Regions, Proper, BeginFfr
  PROVE  Regions'
<1> DEFINE root == FfrRoots[i]
           new == [root |-> root, faults |-> << >>]
<1>1. /\ pc = "ffrs" /\ i \in DOMAIN FfrRoots /\ stack' = <<root>> /\ ffr' = Append(ffr, new)
      /\ pc' = pc /\ node' = node /\ fanout' = fanout /\ fault' = fault /\ mark' = mark
  BY Zenon DEF BeginFfr, built
<1>2. root \in DOMAIN node /\ C!FfrRoot(root) = root
  <2>1. root \in ToSet(FfrRoots)
    BY <1>1 DEF ToSet
  <2> QED BY <2>1, FfrRootsAre
<1>3. /\ ffr \in Seq(RegionRecs) /\ mark \subseteq DOMAIN node
      /\ \A k \in DOMAIN ffr : AllOfRegion(ffr[k].faults, ffr[k].root)
      /\ mark = {}
  BY <1>1, RegionsParts DEF Regions, RegionsAre
<1>4. new \in RegionRecs
  <2> HIDE DEF root
  <2> QED BY <1>2 DEF RegionRecs
<1>5. AllOfRegion(new.faults, new.root)
  <2>1. ToSet(new.faults) = {}
    BY DEF ToSet
  <2> QED BY <2>1 DEF AllOfRegion
<1>6. new.root = root
  OBVIOUS
<1> HIDE DEF new, root
<1> DEFINE all == Append(ffr, new)
<1>7. /\ all \in Seq(RegionRecs) /\ Len(all) = Len(ffr) + 1 /\ Len(ffr) \in Nat
      /\ DOMAIN all = 1 .. Len(ffr) + 1 /\ DOMAIN ffr = 1 .. Len(ffr)
      /\ \A k \in DOMAIN ffr : all[k] = ffr[k]
      /\ all[Len(ffr) + 1] = new
  BY <1>3, <1>4, AppendFacts
<1> HIDE DEF all
<1>8. \A k \in DOMAIN all : AllOfRegion(all[k].faults, all[k].root)
  <2>1. \A k \in DOMAIN all : k \in DOMAIN ffr \/ k = Len(ffr) + 1
    BY <1>7
  <2> QED BY <1>3, <1>5, <1>7, <2>1
<1>9. \A f, r : FaultOfRegion(f, r)' = FaultOfRegion(f, r)
  BY <1>1, SameRegions
<1>10. ffr' = all
  BY <1>1 DEF all
<1>11. (stack \in Seq(DOMAIN node))' /\ (mark \subseteq DOMAIN node)'
  BY <1>1, <1>2, <1>3
<1>12. (/\ ffr \in Seq([root : DOMAIN node, faults : Seq(Nat)])
        /\ \A k \in DOMAIN ffr : \A f \in ToSet(ffr[k].faults) : FaultOfRegion(f, ffr[k].root))'
  BY <1>1, <1>7, <1>8, <1>10, RegionsNext
<1>13. (\A n \in ToSet(stack) : C!FfrRoot(n) = ffr[Len(ffr)].root)' /\ ffr' # << >>
  <2>1. all # << >> /\ all[Len(all)].root = root
    BY <1>6, <1>7
  <2>2. ToSet(stack') = {root}
    BY <1>1 DEF ToSet
  <2>3. \A n : C!FfrRoot(n)' = C!FfrRoot(n)
    BY <1>1, SameRegions
  <2> QED BY <1>2, <1>10, <2>1, <2>2, <2>3
<1> QED BY <1>1, <1>3, <1>11, <1>12, <1>13 DEF Regions

LEMMA VisitFfrRegions ==
  ASSUME Building, Analysed, Regions, Proper, ~ Early, VisitFfr
  PROVE  Regions'
<1> DEFINE n == Last(stack)
           l == Len(ffr)
           S == {m \in DOMAIN node : C!FfrRoot(m) # m}
           below == Within(node[n].fanin, S)
           new == [ffr[l] EXCEPT !.faults = @ \o repList[n]]
           all == [ffr EXCEPT ![l] = new]
<1>1. /\ pc = "ffrs" /\ stack # << >> /\ stack' = Front(stack) \o below
      /\ pc' = pc /\ node' = node /\ fanout' = fanout /\ fault' = fault /\ mark' = mark
  BY Zenon DEF VisitFfr, built
<1>2. ffr' = all
  <2>1. ffr' = [ffr EXCEPT ![Len(ffr)].faults = @ \o repList[Last(stack)]]
    BY Zenon DEF VisitFfr
  <2> QED BY <2>1
<1>3. /\ ffr \in Seq(RegionRecs) /\ mark \subseteq DOMAIN node /\ stack \in Seq(DOMAIN node)
      /\ \A k \in DOMAIN ffr : AllOfRegion(ffr[k].faults, ffr[k].root)
      /\ mark = {} /\ ffr # << >> /\ \A m \in ToSet(stack) : C!FfrRoot(m) = ffr[l].root
  BY <1>1, RegionsParts DEF Regions, RegionsAre
<1> DEFINE root == ffr[l].root
<1>4. n \in DOMAIN node /\ n \in ToSet(stack) /\ C!FfrRoot(n) = root
      /\ Front(stack) \in Seq(DOMAIN node) /\ ToSet(Front(stack)) \subseteq ToSet(stack)
  BY <1>1, <1>3, LastFacts
<1>5. l \in DOMAIN ffr /\ l \in Nat /\ DOMAIN ffr = 1 .. l
  BY <1>3
<1>6. ffr[l] \in RegionRecs /\ AllOfRegion(ffr[l].faults, root)
  <2> HIDE DEF RegionRecs
  <2> QED BY <1>3, <1>5
<1>7. repList[n] \in Seq(Nat) /\ AllOfRegion(repList[n], root)
  <2>1. ListsAre
    BY DEF Analysed
  <2>2. repList[n] \in Seq(Nat)
    BY <1>4, <2>1 DEF ListsAre
  <2>3. \A f \in ToSet(repList[n]) :
          f \in DOMAIN fault /\ fault[f].node = n /\ fault[f].pos \in 0 .. Len(node[n].fanin)
    BY <1>4, <2>1 DEF ListsAre
  <2> QED BY <1>4, <2>2, <2>3 DEF AllOfRegion, FaultOfRegion
<1>8. new \in RegionRecs /\ new.root = root /\ AllOfRegion(new.faults, root)
  <2> DEFINE r == ffr[l]
             s == r.faults
             t == repList[n]
             st == s \o t
  <2>1. r.root \in DOMAIN node /\ s \in Seq(Nat) /\ r = [root |-> r.root, faults |-> s]
    BY <1>6 DEF RegionRecs
  <2>2. new = [r EXCEPT !.faults = st]
    OBVIOUS
  <2> HIDE DEF r, new
  <2>3. new.root = r.root /\ new.faults = st /\ new = [root |-> r.root, faults |-> st]
    BY <2>1, <2>2
  <2>4. t \in Seq(Nat)
    BY <1>7
  <2> HIDE DEF s, t
  <2>5. st \in Seq(Nat) /\ ToSet(st) = ToSet(s) \cup ToSet(t)
    BY <2>1, <2>4, ConcatFacts
  <2>6. AllOfRegion(s, root) /\ AllOfRegion(t, root)
    BY <1>6, <1>7 DEF s, t, r
  <2>7. AllOfRegion(st, root)
    <3> HIDE DEF st, root
    <3> QED BY <2>5, <2>6 DEF AllOfRegion
  <2>8. r.root = root
    BY DEF r
  <2> HIDE DEF st, root
  <2> QED BY <2>1, <2>3, <2>5, <2>7, <2>8 DEF RegionRecs
<1> HIDE DEF new
<1>9. all \in Seq(RegionRecs) /\ DOMAIN all = DOMAIN ffr /\ Len(all) = l /\ all[l] = new
      /\ \A k \in DOMAIN ffr : k # l => all[k] = ffr[k]
  <2> HIDE DEF RegionRecs
  <2> QED BY <1>3, <1>5, <1>8
<1>10. \A k \in DOMAIN all : AllOfRegion(all[k].faults, all[k].root)
  BY <1>3, <1>8, <1>9
<1>11. below \in Seq(DOMAIN node) /\ \A m \in ToSet(below) : C!FfrRoot(m) = root
  <2>1. node[n].fanin \in Seq(DOMAIN node)
    <3> DEFINE s == node[n].fanin
    <3>1. Len(s) \in Nat /\ DOMAIN s = 1 .. Len(s) /\ \A k \in DOMAIN s : s[k] \in DOMAIN node
      BY <1>4, P!FaninFacts, SameOperators DEF P!Nodes
    <3>2. s \in Seq(Nat)
      <4>1. node \in Seq(NodeRecs)
        BY DEF Building, Wired
      <4>2. node[n] \in NodeRecs
        <5> HIDE DEF NodeRecs, n
        <5> QED BY <1>4, <4>1
      <4> QED BY <4>2 DEF NodeRecs
    <3> HIDE DEF s
    <3>3. s = [k \in 1 .. Len(s) |-> s[k]]
      BY <3>1, <3>2
    <3>4. s \in Seq(DOMAIN node)
      BY <3>1, <3>3, IndexedType
    <3> QED BY <3>4 DEF s
  <2>2. below \in Seq(DOMAIN node) /\ ToSet(below) = ToSet(node[n].fanin) \cap S
    <3> HIDE DEF S
    <3> QED BY <2>1, WithinFacts
  <2> QED BY <1>4, <2>2, FaninOfRegion
<1> HIDE DEF below
<1>12. stack' \in Seq(DOMAIN node) /\ ToSet(stack') = ToSet(Front(stack)) \cup ToSet(below)
  BY <1>1, <1>4, <1>11, ConcatFacts
<1>13. \A m \in ToSet(stack') : C!FfrRoot(m) = root
  BY <1>3, <1>4, <1>11, <1>12
<1> HIDE DEF all
<1>14. (/\ ffr \in Seq([root : DOMAIN node, faults : Seq(Nat)])
        /\ \A k \in DOMAIN ffr : \A f \in ToSet(ffr[k].faults) : FaultOfRegion(f, ffr[k].root))'
  BY <1>1, <1>2, <1>9, <1>10, RegionsNext
<1>15. (\A m \in ToSet(stack) : C!FfrRoot(m) = ffr[Len(ffr)].root)' /\ ffr' # << >>
  <2>1. all # << >> /\ all[Len(all)].root = root
    BY <1>5, <1>8, <1>9
  <2>2. \A m : C!FfrRoot(m)' = C!FfrRoot(m)
    BY <1>1, SameRegions
  <2> QED BY <1>2, <1>13, <2>1, <2>2
<1> QED BY <1>1, <1>3, <1>12, <1>14, <1>15 DEF Regions

LEMMA MffcRegions ==
  ASSUME Building, Analysed, Regions, Proper, BeginMffc \/ VisitMffc
  PROVE  Regions'
<1>1. /\ pc = "mffcs" /\ pc' = pc /\ node' = node /\ fanout' = fanout /\ fault' = fault /\ ffr' = ffr
  BY Zenon DEF BeginMffc, VisitMffc, built
<1>2. RegionsAre /\ stack \in Seq(DOMAIN node) /\ mark \subseteq DOMAIN node
  BY RegionsParts
<1>3. stack' \in Seq(DOMAIN node) /\ mark' \subseteq DOMAIN node
  <2>1. CASE BeginMffc
    <3> DEFINE root == MffcRoots[i]
    <3>1. i \in DOMAIN MffcRoots /\ stack' = <<root>> /\ mark' = {root}
      BY <2>1, Zenon DEF BeginMffc
    <3>2. root \in DOMAIN node
      BY <3>1, MffcRootsAre
    <3> HIDE DEF root
    <3> QED BY <3>1, <3>2
  <2>2. CASE VisitMffc
    <3> DEFINE n == Last(stack)
               new == MffcFanins(n)
    <3>1. stack # << >> /\ stack' = Front(stack) \o new /\ mark' = mark \cup ToSet(new)
      BY <2>2, Zenon DEF VisitMffc
    <3>2. n \in DOMAIN node /\ Front(stack) \in Seq(DOMAIN node)
      BY <1>2, <3>1, LastFacts
    <3>3. new \in Seq(DOMAIN node)
      BY <3>2, MffcFaninsAre
    <3> HIDE DEF new
    <3>4. ToSet(new) \subseteq DOMAIN node
      BY <3>3 DEF ToSet
    <3> QED BY <1>2, <3>1, <3>2, <3>3, <3>4, ConcatFacts
  <2> QED BY <2>1, <2>2
<1>4. (/\ ffr \in Seq([root : DOMAIN node, faults : Seq(Nat)])
       /\ \A k \in DOMAIN ffr : \A f \in ToSet(ffr[k].faults) : FaultOfRegion(f, ffr[k].root))'
  <2>1. ffr \in Seq(RegionRecs) /\ \A k \in DOMAIN ffr : AllOfRegion(ffr[k].faults, ffr[k].root)
    BY <1>2 DEF RegionsAre
  <2> QED BY <1>1, <2>1, RegionsNext
<1> QED BY <1>1, <1>3, <1>4 DEF Regions

-----------------------------------------------------------------------------
(* The theorems.                                                           *)

LEMMA InitIsGood ==
  ASSUME Init
  PROVE  IInv
<1>1. /\ source \in Sources /\ pc = "inputs" /\ i = 1
      /\ node = << >> /\ nodeMap = << >> /\ conn = << >> /\ fault = << >>
      /\ fanout = << >> /\ repList = << >> /\ immDom = << >>
      /\ ffr = << >> /\ stack = << >> /\ mark = {}
  BY DEF Init
<1>2. DOMAIN << >> = {} /\ Len(<< >>) = 0 /\ \A S : << >> \in Seq(S)
  OBVIOUS
<1>3. ProperSource(source) /\ source.inputs \in Nat
  BY <1>1, SourcesAssumption DEF ProperSource
<1>4. Wired(node, conn)
  <2>1. PinsOf(node) = {}
    BY <1>1, <1>2 DEF PinsOf
  <2>2. [p \in {} |-> 0] \in [{} -> {}]
    OBVIOUS
  <2>3. \E at : Wires(at, node, conn)
    BY <1>1, <1>2, <2>1, <2>2 DEF Wires
  <2> QED BY <1>1, <1>2, <2>3 DEF Wired
<1>5. Made = 0 /\ Length = source.inputs
  BY <1>1 DEF Made, Length
<1>6. Maps(nodeMap, Made, node)
  BY <1>1, <1>2, <1>5 DEF Maps
<1>7. Faulted(node, fault)
  BY <1>1, <1>2 DEF Faulted
<1>8. Building
  BY <1>1, <1>3, <1>4, <1>5, <1>6, <1>7 DEF Building, Following
<1>9. Analysed
  BY <1>1 DEF Analysed, Early
<1>10. Regions
  BY <1>1, <1>2 DEF Regions
<1>11. Dominators
  BY <1>1 DEF Dominators
<1> QED BY <1>8, <1>9, <1>10, <1>11 DEF IInv

LEMMA StepsAreGood ==
  ASSUME IInv, [Next]_networkVars
  PROVE  IInv'
<1>0. Building /\ Analysed /\ Regions /\ Dominators
  BY DEF IInv
<1>1. CASE Making
  BY <1>0, <1>1, MakingKeeps, MakingAnalyses, NoRegions, OthersDominate DEF IInv
<1>2. CASE SetFanouts
  <2>1. Building'
    BY <1>0, <1>2, OthersKeep DEF Analysing
  <2> QED BY <1>0, <1>2, <2>1, FanoutsAnalysed, NoRegions, OthersDominate DEF IInv
<1>3. CASE SetRepFaults
  BY <1>0, <1>3, RepFaultsAnalysed, NoRegions, OthersDominate DEF IInv
<1>4. CASE SetImmDom
  <2>1. Building'
    BY <1>0, <1>4, OthersKeep DEF Analysing
  <2> QED BY <1>0, <1>4, <2>1, DomsAnalysed, NoRegions DEF IInv
<1>5. CASE SortOutputs
  <2>1. Building'
    BY <1>0, <1>5, OthersKeep DEF Analysing
  <2> QED BY <1>0, <1>5, <2>1, RestAnalysed, NoRegions DEF IInv
<1>6. CASE Collecting
  <2>1. Building' /\ Analysed' /\ Dominators'
    BY <1>0, <1>6, OthersKeep, RestAnalysed DEF Analysing, Collecting
  <2>2. ~ Early
    <3>1. pc \in {"ffrs", "mffcs"}
      BY <1>6, Zenon DEF Collecting, BeginFfr, VisitFfr, BeginMffc, VisitMffc
    <3> QED BY <3>1 DEF Early
  <2>3. Proper
    BY <1>0, <2>2, NetworkBuilt
  <2>4. Regions'
    BY <1>0, <1>6, <2>2, <2>3, BeginFfrRegions, VisitFfrRegions, MffcRegions DEF Collecting
  <2> QED BY <2>1, <2>4 DEF IInv
<1>7. CASE NextLoop
  BY <1>0, <1>7, LoopsKeep, RestAnalysed, LoopsRegions DEF IInv
<1>8. CASE UNCHANGED networkVars
  BY <1>0, <1>8, OthersKeep, RestAnalysed, LoopsRegions DEF IInv
<1> QED BY <1>1, <1>2, <1>3, <1>4, <1>5, <1>6, <1>7, <1>8, Zenon DEF Next, Making, Collecting

\* The inductive invariant: what each loop of TpgNetworkImpl::set() has built, and what
\* the loops after it find of it, whatever the source and the order of its branches.
THEOREM InductiveInvariant == Spec => []IInv
<1>1. Init => IInv
  BY InitIsGood
<1>2. IInv /\ [Next]_networkVars => IInv'
  BY StepsAreGood
<1> QED BY <1>1, <1>2, PTL DEF Spec

LEMMA TypesFollow ==
  ASSUME IInv
  PROVE  TypeOK
<1>0. Building /\ Analysed /\ Regions
  BY DEF IInv
<1>1. pc \in DOMAIN Following \cup {"done"}
  BY <1>0 DEF Building
<1>2. /\ Wired(node, conn) /\ node \in Seq(NodeRecs) /\ DOMAIN node = 1 .. Len(node) /\ Len(node) \in Nat
  BY <1>0 DEF Building, Wired
<1>3. \A n \in DOMAIN node : /\ node[n].type \in C!NodeTypes
                             /\ ToSet(node[n].fanin) \subseteq 1 .. n - 1
                             /\ node[n].nfo \in Nat
  <2>1. \A n \in DOMAIN node : node[n] \in NodeRecs
    <3> HIDE DEF NodeRecs
    <3> QED BY <1>2
  <2>2. \A n \in DOMAIN node : \A k \in DOMAIN node[n].fanin : node[n].fanin[k] \in 1 .. n - 1
    BY <1>2 DEF Wired
  <2>3. \A n \in DOMAIN node : ToSet(node[n].fanin) \subseteq 1 .. n - 1
    <3> USE DEF ToSet
    <3> QED BY <2>2
  <2>4. \A n \in DOMAIN node : node[n].type \in C!NodeTypes /\ node[n].nfo \in Nat
    BY <2>1 DEF NodeRecs
  <2> QED BY <2>3, <2>4
<1>4. \A f \in DOMAIN fault : /\ fault[f].node \in DOMAIN node
                              /\ fault[f].val \in {"0", "1"}
                              /\ fault[f].rep \in 0 .. Len(fault)
  <2> DEFINE A == FaultRecs(Len(node), Len(fault))
  <2>1. \A f \in DOMAIN fault : fault[f] \in A
    <3>1. fault \in Seq(A)
      BY <1>0 DEF Building, Faulted
    <3> HIDE DEF A
    <3> QED BY <3>1
  <2> QED BY <1>2, <2>1 DEF FaultRecs
<1>5. ToSet(nodeMap) \subseteq DOMAIN node
  BY <1>0 DEF Building, Maps, Drives, ToSet
<1>6. \A n \in DOMAIN immDom : immDom[n] = 0 \/ immDom[n] \in n + 1 .. Len(node)
  <2>1. CASE Early
    BY <1>0, <2>1 DEF Analysed
  <2>2. CASE ~ Early
    BY <1>0, <1>2, <2>2 DEF Analysed, DomsUp
  <2> QED BY <2>1, <2>2
<1>7. ToSet(stack) \subseteq DOMAIN node /\ mark \subseteq DOMAIN node
  BY <1>0, RegionsParts DEF ToSet
<1>8. pc = "done" => C!ProperNetwork(node, fanout)
  BY <1>0, NetworkBuilt DEF Early, Proper
<1> QED BY <1>1, <1>3, <1>4, <1>5, <1>6, <1>7, <1>8 DEF TypeOK

LEMMA DominatorsFollow ==
  ASSUME IInv
  PROVE  ImmDomIsFirst
<1> SUFFICES ASSUME pc = "ffrs" PROVE
      \A n \in DOMAIN node :
        LET doms == {d \in n + 1 .. Len(node) : OnEveryPath(d, n)}
        IN  IF doms = {} THEN immDom[n] = 0
            ELSE immDom[n] \in doms /\ \A d \in doms : immDom[n] <= d
  BY Zenon DEF ImmDomIsFirst
<1>1. Building /\ Analysed /\ Dominators /\ ~ Early
  BY DEF IInv, Early
<1>2. Proper /\ DomsUp
  BY <1>1, NetworkBuilt DEF Analysed
<1>3. \A n \in DOMAIN node : Chained(n)
  <2>1. \A n \in DOMAIN node : 0 < n
    BY <1>2, NetworkFacts
  <2> QED BY <1>1, <2>1 DEF Dominators, ChainedAbove
<1> QED BY <1>2, <1>3, FirstDominator

LEMMA ConditionsFollow ==
  ASSUME IInv
  PROVE  ConditionIsExact
<1> SUFFICES ASSUME pc = "done", NEW k \in DOMAIN ffr, NEW f \in ToSet(ffr[k].faults), NEW in \in C!Inputs
             PROVE  Holds(C!FfrCondition(fault[f], "SA"), C!Values(in))
                      <=> C!Values(in)[ffr[k].root] # C!ValuesUnder(in, fault[f])[ffr[k].root]
  BY Zenon DEF ConditionIsExact
<1> DEFINE g == fault[f]
           root == ffr[k].root
           v == C!Values(in)
           u == C!ValuesUnder(in, g)
           condition == C!FfrCondition(g, "SA")
<1>1. Building /\ Analysed /\ Regions /\ ~ Early
  BY DEF IInv, Early
<1>2. Proper
  BY <1>1, NetworkBuilt
<1>3. FaultOfRegion(f, root)
  BY <1>1 DEF Regions
<1>4. /\ P!Proper /\ P!Nodes = DOMAIN node /\ in \in P!Inputs /\ P!Values(in) = v /\ P!ValuesUnder(in, g) = u
      /\ P!FfrCondition(g, "SA") = condition /\ P!FfrRoot(g.node) = root
  BY <1>2, <1>3, SameOperators DEF FaultOfRegion
<1>5. P!IsFault(g)
  <2>1. g.node \in DOMAIN node /\ g.val \in {"0", "1"}
    BY TypesFollow, <1>3 DEF TypeOK, FaultOfRegion
  <2>2. DOMAIN node[g.node].fanin = 1 .. Len(node[g.node].fanin) /\ Len(node[g.node].fanin) \in Nat
    BY <1>4, <2>1, P!FaninFacts
  <2>3. g.pos \in 0 .. Len(node[g.node].fanin)
    BY <1>3 DEF FaultOfRegion
  <2> HIDE DEF g
  <2> QED BY <1>4, <2>1, <2>2, <2>3 DEF P!IsFault, P!Bin
<1> HIDE DEF g, root, v, u, condition
<1>6. root \in P!Nodes /\ root \in P!Beyond(root)
  <2>1. P!FfrRoot(g.node) \in P!Nodes
    BY <1>4, <1>5, P!FfrRootFacts DEF P!IsFault
  <2> QED BY <1>4, <2>1 DEF P!Beyond
<1>7. IF P!HoldsNow(condition, v)
      THEN u[root] = P!FlipOf(in, root)[root]
      ELSE u[root] = v[root]
  <2>1. \A x, w : x \in P!Inputs /\ P!IsFault(w) =>
          IF P!HoldsNow(P!FfrCondition(w, "SA"), P!Values(x))
          THEN \A m \in P!Beyond(P!FfrRoot(w.node)) : P!ValuesUnder(x, w)[m] = P!FlipOf(x, P!FfrRoot(w.node))[m]
          ELSE \A m \in P!Beyond(P!FfrRoot(w.node)) : P!ValuesUnder(x, w)[m] = P!Values(x)[m]
    BY <1>4, P!RegionExact
  <2>2. IF P!HoldsNow(P!FfrCondition(g, "SA"), P!Values(in))
        THEN \A m \in P!Beyond(P!FfrRoot(g.node)) : P!ValuesUnder(in, g)[m] = P!FlipOf(in, P!FfrRoot(g.node))[m]
        ELSE \A m \in P!Beyond(P!FfrRoot(g.node)) : P!ValuesUnder(in, g)[m] = P!Values(in)[m]
    BY <1>4, <1>5, <2>1, Zenon
  <2> QED BY <1>4, <1>6, <2>2
<1>8. P!FlipOf(in, root)[root] # v[root]
  <2>1. P!Sound(v) /\ P!Flipped(P!FlipOf(in, root), v, root)
    BY <1>4, <1>6, P!FlipOfIs
  <2>2. v[root] \in P!Bin /\ P!FlipOf(in, root)[root] = P!Complement(v[root])
    BY <1>6, <2>1 DEF P!Sound, P!Flipped
  <2> QED BY <2>2, P!BinFacts
<1>9. P!HoldsNow(condition, v) <=> Holds(condition, v)
  BY DEF P!HoldsNow, Holds
<1> QED BY <1>7, <1>8, <1>9 DEF g, root, v, u, condition

\* What is built has its types at every moment, and in the end it is a network that
\* the test generation can rely on.
THEOREM TypesAreKept == Spec => []TypeOK
<1>1. IInv => TypeOK
  BY TypesFollow
<1> QED BY <1>1, InductiveInvariant, PTL

\* imm_dom() of a node is the first node on all ways from it to an output, and there is
\* none exactly if there is no such node: merge() in AuxNodeInfo::set_imm_dom() is right.
THEOREM DominatorsAreFirst == Spec => []ImmDomIsFirst
<1>1. IInv => ImmDomIsFirst
  BY DominatorsFollow
<1> QED BY <1>1, InductiveInvariant, PTL

\* What ffr_propagate_condition() asks for a representative fault holds in exactly those
\* patterns in which the fault changes the root of its region.
THEOREM ConditionsAreExact == Spec => []ConditionIsExact
<1>1. IInv => ConditionIsExact
  BY ConditionsFollow
<1> QED BY <1>1, InductiveInvariant, PTL

-----------------------------------------------------------------------------
(* What is collected: every fault once.                                    *)

\* The faults of the nodes in V, once each.
Collects(faults, V) ==
  /\ faults \in Seq(Nat) /\ IsInjective(faults)
  /\ ToSet(faults) = UNION {ToSet(repList[n]) : n \in V}

\* The nodes of an FFR, and those of an MFFC: its root is the last dominator they have.
FfrNodes(root) == {n \in DOMAIN node : C!FfrRoot(n) = root}
MffcNodes(root) == IF immDom[root] = 0 THEN {n \in DOMAIN node : root \in Doms(n)} ELSE {}
RootsIn(V) == {n \in V : C!FfrRoot(n) = n}

\* The fanins that set_ffr() and set_mffc() may push.
FfrKin == [n \in DOMAIN node |-> {m \in ToSet(node[n].fanin) : C!FfrRoot(m) # m}]
MffcKin == [n \in DOMAIN node |-> {m \in ToSet(node[n].fanin) : immDom[m] # 0}]

\* From the root of R the nodes V have been visited, those of stk come next.
Visiting(V, stk, root, R, kin, faults) ==
  /\ V \subseteq R /\ ToSet(stk) \subseteq R /\ V \cap ToSet(stk) = {} /\ IsInjective(stk)
  /\ root \in V \cup ToSet(stk)
  /\ \A n \in V : kin[n] \subseteq V \cup ToSet(stk)
  /\ Collects(faults, V)

\* A node of an FFR other than its root is reached by its only fanout.
FfrOpen(r, stk) ==
  \E V \in SUBSET DOMAIN node :
    /\ Visiting(V, stk, r.root, FfrNodes(r.root), FfrKin, r.faults)
    /\ \A n \in (V \cup ToSet(stk)) \ {r.root} : fanout[n][1] \in V
FfrDone(r) == Collects(r.faults, FfrNodes(r.root))

MffcLists(r, V) == r.ffrs \in Seq(DOMAIN node) /\ IsInjective(r.ffrs) /\ ToSet(r.ffrs) = RootsIn(V)
MffcOpen(r, stk, mrk) ==
  /\ ToSet(stk) \subseteq mrk
  /\ Visiting(mrk \ ToSet(stk), stk, r.root, MffcNodes(r.root), MffcKin, r.faults)
  /\ MffcLists(r, mrk \ ToSet(stk))
MffcDone(r) == Collects(r.faults, MffcNodes(r.root)) /\ MffcLists(r, MffcNodes(r.root))

\* The lists of the nodes: nothing twice, and nothing on a node without an output.
ListsOnce ==
  \A n \in DOMAIN node : IsInjective(repList[n]) /\ (n \notin C!DataNodes => repList[n] = << >>)

\* One region after the other, in the order of the roots; the last one may be open.
MffcRecs == [root : DOMAIN node, ffrs : Seq(DOMAIN node), faults : Seq(Nat)]
FfrsAre(fs, stk, open) ==
  \A k \in DOMAIN fs :
    /\ fs[k].root = FfrRoots[k]
    /\ IF open /\ stk # << >> /\ k = Len(fs) THEN FfrOpen(fs[k], stk) ELSE FfrDone(fs[k])
MffcsAre(ms, stk, mrk, open) ==
  /\ ms \in Seq(MffcRecs)
  /\ \A k \in DOMAIN ms :
       /\ ms[k].root = MffcRoots[k]
       /\ IF open /\ stk # << >> /\ k = Len(ms) THEN MffcOpen(ms[k], stk, mrk) ELSE MffcDone(ms[k])
FfrsCollected ==
  /\ pc = "ffrs" => i <= Len(FfrRoots) + 1 /\ Len(ffr) = i - 1
  /\ pc \in {"mffcs", "done"} => Len(ffr) = Len(FfrRoots)
  /\ FfrsAre(ffr, stack, pc = "ffrs")
MffcsCollected ==
  /\ pc \notin {"mffcs", "done"} => mffc = << >>
  /\ pc = "mffcs" => i <= Len(MffcRoots) + 1 /\ Len(mffc) = i - 1
  /\ pc = "done" => Len(mffc) = Len(MffcRoots)
  /\ pc = "mffcs" /\ stack # << >> => mffc # << >>
  /\ MffcsAre(mffc, stack, mark, pc = "mffcs")

Collected == /\ ~ Early => ListsOnce
             /\ FfrsCollected /\ MffcsCollected

\* The network and its lists stay as they are while regions are collected.
Frame == UNCHANGED <<node, fanout, fault, repList, immDom>>

LEMMA SameOnce ==
  ASSUME node' = node, repList' = repList
  PROVE  C!DataNodes' = C!DataNodes /\ (ListsOnce' <=> ListsOnce)
<1>1. C!DataNodes' = C!DataNodes
  BY DEF C!DataNodes, C!Tfi, C!PPOs, C!FaninSet
<1> QED BY <1>1 DEF ListsOnce

LEMMA SameLists ==
  ASSUME Frame
  PROVE  /\ \A faults, V : Collects(faults, V)' <=> Collects(faults, V)
         /\ C!DataNodes' = C!DataNodes /\ FfrRoots' = FfrRoots /\ MffcRoots' = MffcRoots
         /\ \A root : FfrNodes(root)' = FfrNodes(root) /\ MffcNodes(root)' = MffcNodes(root)
         /\ \A V : RootsIn(V)' = RootsIn(V)
         /\ FfrKin' = FfrKin /\ MffcKin' = MffcKin
         /\ ListsOnce' <=> ListsOnce
         /\ \A fs, stk, open : FfrsAre(fs, stk, open)' <=> FfrsAre(fs, stk, open)
         /\ \A ms, stk, mrk, open : MffcsAre(ms, stk, mrk, open)' <=> MffcsAre(ms, stk, mrk, open)
<1>0. node' = node /\ fanout' = fanout /\ fault' = fault /\ repList' = repList /\ immDom' = immDom
  BY DEF Frame
<1>1. \A faults, V : Collects(faults, V)' <=> Collects(faults, V)
  BY <1>0 DEF Collects
<1>2. C!DataNodes' = C!DataNodes
  BY <1>0 DEF C!DataNodes, C!Tfi, C!PPOs, C!FaninSet
<1>3. \A n : C!FfrRoot(n)' = C!FfrRoot(n)
  BY <1>0, SameRegions
<1>4. FfrRoots' = FfrRoots
  BY <1>0, <1>2, <1>3 DEF FfrRoots, Within, C!FfrRoot
<1>5. MffcRoots' = MffcRoots
  BY <1>0, <1>4 DEF MffcRoots, Within
<1>6. \A root : FfrNodes(root)' = FfrNodes(root) /\ MffcNodes(root)' = MffcNodes(root)
  BY <1>0, <1>3 DEF FfrNodes, MffcNodes, Doms, OnEveryPath, C!FfrRoot
<1>7. \A V : RootsIn(V)' = RootsIn(V)
  BY <1>0 DEF RootsIn, C!FfrRoot
<1>8. FfrKin' = FfrKin /\ MffcKin' = MffcKin
  BY <1>0 DEF FfrKin, MffcKin, C!FfrRoot
<1>9. ListsOnce' <=> ListsOnce
  BY <1>0, <1>2 DEF ListsOnce
<1>10. \A V, stk, root, R, kin, faults :
         Visiting(V, stk, root, R, kin, faults)' <=> Visiting(V, stk, root, R, kin, faults)
  BY <1>1 DEF Visiting
<1>11. \A r, stk : FfrOpen(r, stk)' <=> FfrOpen(r, stk)
  BY <1>0, <1>6, <1>8, <1>10 DEF FfrOpen
<1>12. \A r : FfrDone(r)' <=> FfrDone(r)
  BY <1>1, <1>6 DEF FfrDone
<1>13. \A r, V : MffcLists(r, V)' <=> MffcLists(r, V)
  BY <1>0, <1>7 DEF MffcLists
<1>14. \A r, stk, mrk : MffcOpen(r, stk, mrk)' <=> MffcOpen(r, stk, mrk)
  BY <1>6, <1>8, <1>10, <1>13 DEF MffcOpen
<1>15. \A r : MffcDone(r)' <=> MffcDone(r)
  BY <1>1, <1>6, <1>13 DEF MffcDone
<1>16. \A fs, stk, open : FfrsAre(fs, stk, open)' <=> FfrsAre(fs, stk, open)
  BY <1>4, <1>11, <1>12 DEF FfrsAre
<1>17. \A ms, stk, mrk, open : MffcsAre(ms, stk, mrk, open)' <=> MffcsAre(ms, stk, mrk, open)
  BY <1>0, <1>5, <1>14, <1>15 DEF MffcsAre, MffcRecs
<1> QED BY <1>1, <1>2, <1>4, <1>5, <1>6, <1>7, <1>8, <1>9, <1>16, <1>17

\* A node more.
LEMMA CollectsNode ==
  ASSUME ListsAre, ListsOnce, NEW V, V \subseteq DOMAIN node, NEW n \in DOMAIN node \ V,
         NEW faults, Collects(faults, V)
  PROVE  Collects(faults \o repList[n], V \cup {n})
<1> DEFINE t == repList[n]
<1>1. faults \in Seq(Nat) /\ IsInjective(faults) /\ ToSet(faults) = UNION {ToSet(repList[m]) : m \in V}
  BY DEF Collects
<1>2. t \in Seq(Nat) /\ IsInjective(t)
  BY DEF ListsAre, ListsOnce
<1>3. ToSet(faults) \cap ToSet(t) = {}
  <2> SUFFICES ASSUME NEW f \in ToSet(faults), f \in ToSet(t) PROVE FALSE
    OBVIOUS
  <2>1. PICK m \in V : f \in ToSet(repList[m])
    BY <1>1
  <2>2. fault[f].node = m /\ fault[f].node = n
    BY <2>1 DEF ListsAre
  <2> QED BY <2>1, <2>2
<1>4. UNION {ToSet(repList[m]) : m \in V \cup {n}} = ToSet(faults) \cup ToSet(t)
  BY <1>1
<1> HIDE DEF t
<1>5. Once(faults, Nat) /\ Once(t, Nat)
  BY <1>1, <1>2, OnceIsInjective
<1>6. Once(faults \o t, Nat) /\ faults \o t \in Seq(Nat) /\ ToSet(faults \o t) = ToSet(faults) \cup ToSet(t)
  BY <1>1, <1>2, <1>3, <1>5, OnceJoined, ConcatFacts
<1>7. IsInjective(faults \o t)
  BY <1>6, OnceIsInjective
<1> QED BY <1>4, <1>6, <1>7 DEF Collects, t

\* Lists that collect sets of nodes with nothing in common.
LEMMA CollectsAll ==
  ASSUME ListsAre, NEW ss \in Seq(Seq(Nat)), NEW W, \A k \in DOMAIN ss : W[k] \subseteq DOMAIN node,
         \A k \in DOMAIN ss : Collects(ss[k], W[k]),
         \A j, k \in DOMAIN ss : j # k => W[j] \cap W[k] = {}
  PROVE  Collects(FlattenSeq(ss), UNION {W[k] : k \in DOMAIN ss})
<1>1. \A k \in DOMAIN ss : /\ ss[k] \in Seq(Nat) /\ IsInjective(ss[k])
                           /\ ToSet(ss[k]) = UNION {ToSet(repList[m]) : m \in W[k]}
  BY DEF Collects
<1>2. \A k \in DOMAIN ss : \A f \in ToSet(ss[k]) : fault[f].node \in W[k]
  <2> SUFFICES ASSUME NEW k \in DOMAIN ss, NEW f \in ToSet(ss[k]) PROVE fault[f].node \in W[k]
    OBVIOUS
  <2>1. PICK m \in W[k] : f \in ToSet(repList[m])
    BY <1>1
  <2>2. m \in DOMAIN node
    BY <2>1
  <2>3. fault[f].node = m
    BY <2>1, <2>2 DEF ListsAre
  <2> QED BY <2>1, <2>3
<1>3. \A k \in DOMAIN ss : Once(ss[k], Nat)
  BY <1>1, OnceIsInjective
<1>4. \A j, k \in DOMAIN ss : j # k => ToSet(ss[j]) \cap ToSet(ss[k]) \cap Nat = {}
  <2> SUFFICES ASSUME NEW j \in DOMAIN ss, NEW k \in DOMAIN ss, j # k,
                      NEW f \in ToSet(ss[j]), f \in ToSet(ss[k])
               PROVE  FALSE
    OBVIOUS
  <2>1. fault[f].node \in W[j] /\ fault[f].node \in W[k]
    BY <1>2
  <2> QED BY <2>1
<1>5. Once(FlattenSeq(ss), Nat)
  BY <1>3, <1>4, OnceFlat DEF Apart
<1>6. FlattenSeq(ss) \in Seq(Nat) /\ ToSet(FlattenSeq(ss)) = UNION {ToSet(ss[k]) : k \in DOMAIN ss}
  BY FlattenFacts
<1>7. IsInjective(FlattenSeq(ss))
  BY <1>5, <1>6, OnceIsInjective
<1>8. UNION {ToSet(ss[k]) : k \in DOMAIN ss}
        = UNION {ToSet(repList[m]) : m \in UNION {W[k] : k \in DOMAIN ss}}
  <2> DEFINE L(m) == ToSet(repList[m])
             Ws == UNION {W[k] : k \in DOMAIN ss}
  <2>1. \A k \in DOMAIN ss : ToSet(ss[k]) = UNION {L(m) : m \in W[k]}
    BY <1>1, Zenon
  <2> HIDE DEF L
  <2>2. ASSUME NEW k \in DOMAIN ss PROVE ToSet(ss[k]) \subseteq UNION {L(m) : m \in Ws}
    <3>1. W[k] \subseteq Ws
      OBVIOUS
    <3> HIDE DEF Ws
    <3> QED BY <2>1, <3>1
  <2>3. ASSUME NEW m \in Ws PROVE L(m) \subseteq UNION {ToSet(ss[k]) : k \in DOMAIN ss}
    <3>1. PICK k \in DOMAIN ss : m \in W[k]
      OBVIOUS
    <3>2. L(m) \subseteq ToSet(ss[k])
      BY <2>1, <3>1
    <3> QED BY <3>2
  <2> HIDE DEF Ws
  <2>4. UNION {ToSet(ss[k]) : k \in DOMAIN ss} = UNION {L(m) : m \in Ws}
    BY <2>2, <2>3
  <2> QED BY <2>4 DEF L, Ws
<1> QED BY <1>6, <1>7, <1>8 DEF Collects

LEMMA FrontFacts ==
  ASSUME NEW A, NEW s \in Seq(A), s # << >>, IsInjective(s)
  PROVE  ToSet(Front(s)) = ToSet(s) \ {Last(s)} /\ IsInjective(Front(s))
<1>1. Len(s) \in Nat /\ Len(s) >= 1 /\ DOMAIN s = 1 .. Len(s) /\ Len(s) \in DOMAIN s
  OBVIOUS
<1> DEFINE t == Front(s)
<1>2. DOMAIN t = 1 .. Len(s) - 1 /\ \A k \in 1 .. Len(s) - 1 : t[k] = s[k]
  BY SMTT(40), <1>1 DEF Front
<1> HIDE DEF t
<1>3. \A k \in 1 .. Len(s) - 1 : k \in DOMAIN s /\ k # Len(s)
  <2> DEFINE l == Len(s)
  <2>1. l \in Nat /\ DOMAIN s = 1 .. l
    BY <1>1
  <2> HIDE DEF l
  <2>2. \A k \in 1 .. l - 1 : k \in 1 .. l /\ k # l
    BY <2>1
  <2> QED BY Zenon, <2>1, <2>2 DEF l
<1>4. \A k \in DOMAIN s : k = Len(s) \/ k \in 1 .. Len(s) - 1
  BY <1>1
<1>5. \A j, k \in DOMAIN s : s[j] = s[k] => j = k
  BY DEF IsInjective
<1>6. ToSet(t) \subseteq ToSet(s) \ {s[Len(s)]}
  <2> SUFFICES ASSUME NEW x \in ToSet(t) PROVE x \in ToSet(s) /\ x # s[Len(s)]
    OBVIOUS
  <2>1. PICK k \in DOMAIN t : t[k] = x
    BY DEF ToSet
  <2>2. k \in DOMAIN s /\ s[k] = x /\ k # Len(s)
    BY <1>2, <1>3, <2>1
  <2> QED BY <1>1, <1>5, <2>2 DEF ToSet
<1>7. ToSet(s) \ {s[Len(s)]} \subseteq ToSet(t)
  <2> SUFFICES ASSUME NEW x \in ToSet(s), x # s[Len(s)] PROVE x \in ToSet(t)
    OBVIOUS
  <2>1. PICK k \in DOMAIN s : s[k] = x
    BY DEF ToSet
  <2>2. k \in DOMAIN t /\ t[k] = x
    BY <1>2, <1>4, <2>1
  <2> QED BY <2>2 DEF ToSet
<1>8. IsInjective(t)
  BY <1>2, <1>3, <1>5 DEF IsInjective
<1> QED BY <1>6, <1>7, <1>8 DEF Last, t

\* One turn of set_ffr() and set_mffc(): a node is taken from the list, and what leads to
\* it and is not known yet is put there.
Replaced(next, stk, new) == next = Front(stk) \o new
Added(all, faults, n) == all = faults \o repList[n]
Turn(V, stk, root, R, kin, faults, new, next, all) ==
  /\ stk \in Seq(DOMAIN node) /\ stk # << >> /\ R \subseteq DOMAIN node
  /\ Visiting(V, stk, root, R, kin, faults)
  /\ new \in Seq(DOMAIN node) /\ IsInjective(new) /\ ToSet(new) \subseteq R
  /\ ToSet(new) = kin[Last(stk)] \ (V \cup ToSet(stk))
  /\ Replaced(next, stk, new) /\ Added(all, faults, Last(stk))

LEMMA VisitOne ==
  ASSUME ListsAre, ListsOnce, NEW V, NEW stk, NEW root, NEW R, NEW kin, NEW faults,
         NEW new, NEW next, NEW all, Turn(V, stk, root, R, kin, faults, new, next, all)
  PROVE  /\ Visiting(V \cup {Last(stk)}, next, root, R, kin, all)
         /\ Last(stk) \in R \ V /\ ToSet(next) = (ToSet(stk) \ {Last(stk)}) \cup ToSet(new)
<1> DEFINE n == Last(stk)
<1>0. /\ stk \in Seq(DOMAIN node) /\ stk # << >> /\ R \subseteq DOMAIN node
      /\ Visiting(V, stk, root, R, kin, faults)
      /\ new \in Seq(DOMAIN node) /\ IsInjective(new) /\ ToSet(new) \subseteq R
      /\ ToSet(new) = kin[n] \ (V \cup ToSet(stk))
      /\ next = Front(stk) \o new /\ all = faults \o repList[n]
  BY DEF Turn, Replaced, Added
<1> DEFINE rest == Front(stk)
           D == DOMAIN node
<1>1. /\ V \subseteq R /\ ToSet(stk) \subseteq R /\ V \cap ToSet(stk) = {} /\ IsInjective(stk)
      /\ root \in V \cup ToSet(stk)
      /\ \A m \in V : kin[m] \subseteq V \cup ToSet(stk)
      /\ Collects(faults, V)
  BY <1>0 DEF Visiting
<1>2. n \in ToSet(stk) /\ rest \in Seq(D) /\ ToSet(rest) = ToSet(stk) \ {n} /\ IsInjective(rest)
  BY <1>0, <1>1, LastFacts, FrontFacts
<1>3. n \in R /\ n \notin V /\ n \in D
  BY <1>0, <1>1, <1>2
<1> HIDE DEF rest, D, n
<1>4. ToSet(next) = ToSet(rest) \cup ToSet(new)
  BY <1>0, <1>2, ConcatFacts DEF rest, D
<1>5. IsInjective(next)
  <2>1. Once(rest, D) /\ Once(new, D)
    BY <1>0, <1>2, OnceIsInjective DEF D
  <2>2. ToSet(rest) \cap ToSet(new) \cap D = {}
    BY <1>0, <1>2
  <2>3. Once(rest \o new, D) /\ rest \o new \in Seq(D)
    BY <1>0, <1>2, <2>1, <2>2, OnceJoined, ConcatFacts DEF D
  <2>4. IsInjective(rest \o new)
    BY <2>3, OnceIsInjective
  <2> QED BY <1>0, <2>4 DEF rest
<1>6. Collects(all, V \cup {n})
  BY <1>0, <1>1, <1>3, CollectsNode DEF D
<1>8. /\ V \cup {n} \subseteq R /\ ToSet(next) \subseteq R /\ (V \cup {n}) \cap ToSet(next) = {}
      /\ root \in (V \cup {n}) \cup ToSet(next)
  BY <1>0, <1>1, <1>2, <1>3, <1>4
<1>9. \A m \in V \cup {n} : kin[m] \subseteq (V \cup {n}) \cup ToSet(next)
  <2>1. \A m \in V : kin[m] \subseteq (V \cup {n}) \cup ToSet(next)
    BY <1>1, <1>2, <1>4
  <2>2. kin[n] \subseteq (V \cup {n}) \cup ToSet(next)
    BY <1>0, <1>2, <1>4
  <2> QED BY <2>1, <2>2
<1>10. Visiting(V \cup {n}, next, root, R, kin, all)
  BY <1>5, <1>6, <1>8, <1>9 DEF Visiting
<1> QED BY <1>2, <1>3, <1>4, <1>10 DEF n

\* At the end of the list all are visited from which the root can be reached.
LEMMA VisitedAll ==
  ASSUME Proper, NEW V, NEW root, NEW R, R \subseteq DOMAIN node, NEW kin, NEW faults,
         Visiting(V, << >>, root, R, kin, faults),
         \A n \in R : n = root \/ \E o \in R : n < o /\ n \in kin[o]
  PROVE  V = R
<1>1. Len(node) \in Nat /\ DOMAIN node = 1 .. Len(node)
  BY NetworkFacts
<1>2. ToSet(<< >>) = {}
  BY DEF ToSet
<1>3. V \subseteq R /\ root \in V /\ \A n \in V : kin[n] \subseteq V
  BY <1>2 DEF Visiting
<1> DEFINE N == Len(node)
           T == {n \in 1 .. N : n \in R => n \in V}
<1>4. ASSUME NEW n \in 1 .. N, \A j \in 1 .. N : n < j => j \in T PROVE n \in T
  <2> SUFFICES ASSUME n \in R PROVE n \in V
    OBVIOUS
  <2>1. CASE n = root
    BY <1>3, <2>1
  <2>2. CASE n # root
    <3>1. PICK o \in R : n < o /\ n \in kin[o]
      BY <2>2
    <3>2. o \in V
      BY <1>1, <1>4, <3>1
    <3> QED BY <1>3, <3>1, <3>2
  <2> QED BY <2>1, <2>2
<1>5. \A m \in Nat : \A U : (\A k \in 1 .. m : (\A j \in 1 .. m : k < j => j \in U) => k \in U) => 1 .. m \subseteq U
  BY P!DownInduction
<1> HIDE DEF T, N
<1>6. 1 .. N \subseteq T
  BY <1>1, <1>4, <1>5 DEF N
<1> QED BY <1>1, <1>3, <1>6 DEF T, N

-----------------------------------------------------------------------------
(* The FFRs.                                                               *)

LEMMA RegionRootsAre ==
  ASSUME Proper
  PROVE  /\ FfrRoots \in Seq(DOMAIN node) /\ IsInjective(FfrRoots)
         /\ ToSet(FfrRoots) = {n \in C!DataNodes : C!FfrRoot(n) = n}
         /\ MffcRoots \in Seq(DOMAIN node) /\ IsInjective(MffcRoots)
         /\ ToSet(MffcRoots) = {n \in C!DataNodes : C!FfrRoot(n) = n /\ immDom[n] = 0}
         /\ C!DataNodes \subseteq DOMAIN node
<1> DEFINE ids == [n \in DOMAIN node |-> n]
           D == DOMAIN node
           S == {n \in C!DataNodes : C!FfrRoot(n) = n}
           Z == {n \in D : immDom[n] = 0}
<1>1. Len(node) \in Nat /\ D = 1 .. Len(node)
  BY NetworkFacts
<1>2. C!DataNodes \subseteq D
  <2>1. P!DataNodes = C!DataNodes
    BY DEF P!DataNodes, C!DataNodes, P!Tfi, C!Tfi, P!PPOs, C!PPOs, P!FaninSet, C!FaninSet, P!PpoTypes, C!PpoTypes
  <2> QED BY <2>1, P!DataFacts, SameOperators
<1>3. ids \in Seq(D) /\ IsInjective(ids) /\ ToSet(ids) = D
  <2>1. ids \in Seq(D)
    BY <1>1
  <2>2. IsInjective(ids) /\ ToSet(ids) = D
    BY DEF ToSet, IsInjective
  <2> QED BY <2>1, <2>2
<1>4. FfrRoots = Within(ids, S) /\ MffcRoots = Within(FfrRoots, Z)
  BY Zenon DEF FfrRoots, MffcRoots
<1>5. S \subseteq D
  BY <1>2
<1>6. Z \subseteq D
  OBVIOUS
<1> DEFINE all == S \cap Z
<1>7. all = {n \in C!DataNodes : C!FfrRoot(n) = n /\ immDom[n] = 0}
  BY <1>2
<1> HIDE DEF ids, D, S, Z
<1>8. FfrRoots \in Seq(D) /\ ToSet(FfrRoots) = D \cap S /\ IsInjective(FfrRoots)
  BY <1>3, <1>4, WithinFacts
<1>9. MffcRoots \in Seq(D) /\ ToSet(MffcRoots) = D \cap S \cap Z /\ IsInjective(MffcRoots)
  BY <1>4, <1>8, WithinFacts
<1>10. D \cap S = S /\ D \cap S \cap Z = all
  BY <1>5, <1>6
<1> QED BY <1>2, <1>7, <1>8, <1>9, <1>10 DEF D, S

LEMMA FaninsAre ==
  ASSUME Proper, NEW n \in DOMAIN node
  PROVE  /\ node[n].fanin \in Seq(DOMAIN node) /\ n \in Nat
         /\ \A m \in ToSet(node[n].fanin) : m \in DOMAIN node /\ m < n
<1> DEFINE s == node[n].fanin
<1>1. Len(s) \in Nat /\ DOMAIN s = 1 .. Len(s) /\ n \in Nat
      /\ \A k \in DOMAIN s : s[k] \in DOMAIN node /\ s[k] < n
  BY P!FaninFacts, SameOperators DEF P!Nodes
<1>2. s \in Seq(1 .. n - 1)
  BY DEF Proper, C!ProperNetwork
<1> HIDE DEF s
<1>3. s = [k \in 1 .. Len(s) |-> s[k]]
  BY <1>1, <1>2
<1>4. s \in Seq(DOMAIN node)
  BY <1>1, <1>3, IndexedType
<1> QED BY <1>1, <1>4 DEF s, ToSet

\* A node that is no root has one fanout, in the same FFR, and is connected to it once.
LEMMA FfrReached ==
  ASSUME Proper, NEW m \in DOMAIN node, C!FfrRoot(m) # m
  PROVE  /\ fanout[m][1] \in DOMAIN node /\ m < fanout[m][1] /\ C!FfrRoot(fanout[m][1]) = C!FfrRoot(m)
         /\ m \in FfrKin[fanout[m][1]]
         /\ \A n \in DOMAIN node : m \in ToSet(node[n].fanin) => n = fanout[m][1]
         /\ \A n \in DOMAIN node : Once(node[n].fanin, {m})
<1> DEFINE o == fanout[m][1]
<1>1. P!Proper /\ m \in P!Nodes /\ P!Nodes = DOMAIN node /\ \A k : P!FfrRoot(k) = C!FfrRoot(k)
  BY SameOperators
<1>2. P!SingleFanout(m) /\ P!FfrRoot(m) = P!FfrRoot(o)
  BY <1>1, P!FfrRootStep
<1>3. /\ o \in P!Nodes /\ m < o /\ P!FanoutSet(m) = {o}
      /\ \E k \in DOMAIN node[o].fanin :
           /\ node[o].fanin[k] = m
           /\ \A j \in DOMAIN node[o].fanin : node[o].fanin[j] = m => j = k
  BY <1>1, <1>2, P!SingleFanoutIs
<1>4. \A n \in DOMAIN node : m \in ToSet(node[n].fanin) => n = o
  <2> SUFFICES ASSUME NEW n \in DOMAIN node, m \in ToSet(node[n].fanin) PROVE n = o
    OBVIOUS
  <2>1. m \in P!FaninSet(n)
    BY DEF P!FaninSet, ToSet
  <2>2. n \in P!FanoutSet(m)
    BY <1>1, <2>1, P!FanoutFacts
  <2> QED BY <1>3, <2>2
<1> HIDE DEF o
<1>5. m \in ToSet(node[o].fanin)
  BY <1>3 DEF ToSet
<1>6. ASSUME NEW n \in DOMAIN node PROVE Once(node[n].fanin, {m})
  <2>1. CASE n = o
    BY <1>3, <2>1 DEF Once
  <2>2. CASE n # o
    <3>1. \A k \in DOMAIN node[n].fanin : node[n].fanin[k] # m
      BY <1>4, <2>2 DEF ToSet
    <3> QED BY <3>1 DEF Once
  <2> QED BY <2>1, <2>2
<1>7. m \in FfrKin[o]
  BY <1>1, <1>3, <1>5 DEF FfrKin
<1> QED BY <1>1, <1>2, <1>3, <1>4, <1>6, <1>7 DEF o

Inner == {m \in DOMAIN node : C!FfrRoot(m) # m}
LEMMA FfrKinIs ==
  ASSUME Proper, NEW n \in DOMAIN node, NEW below, below = Within(node[n].fanin, Inner)
  PROVE  /\ below \in Seq(DOMAIN node) /\ IsInjective(below) /\ ToSet(below) = FfrKin[n]
         /\ \A m \in FfrKin[n] : m \in DOMAIN node /\ fanout[m][1] = n /\ C!FfrRoot(m) = C!FfrRoot(n)
                                 /\ C!FfrRoot(m) # m
<1> DEFINE s == node[n].fanin
           D == DOMAIN node
<1>1. s \in Seq(D) /\ \A m \in ToSet(s) : m \in D
  BY FaninsAre
<1>2. \A m \in FfrKin[n] : m \in D /\ fanout[m][1] = n /\ C!FfrRoot(m) = C!FfrRoot(n) /\ C!FfrRoot(m) # m
  <2> SUFFICES ASSUME NEW m \in FfrKin[n]
               PROVE  m \in D /\ fanout[m][1] = n /\ C!FfrRoot(m) = C!FfrRoot(n) /\ C!FfrRoot(m) # m
    OBVIOUS
  <2>1. m \in ToSet(s) /\ C!FfrRoot(m) # m /\ m \in D
    BY <1>1 DEF FfrKin
  <2> QED BY <2>1, FfrReached
<1>3. \A m \in Inner : Once(s, {m})
  BY FfrReached DEF Inner
<1>4. Once(s, Inner)
  BY <1>3 DEF Once
<1>5. ToSet(s) \cap Inner = FfrKin[n]
  BY <1>1 DEF FfrKin, Inner
<1> HIDE DEF s, D
<1>6. below = Within(s, Inner)
  BY DEF s
<1>7. Within(s, Inner) \in Seq(D) /\ ToSet(Within(s, Inner)) = ToSet(s) \cap Inner
  BY <1>1, WithinFacts
<1>8. IsInjective(Within(s, Inner))
  BY <1>1, <1>4, OnceWithin
<1> QED BY <1>2, <1>5, <1>6, <1>7, <1>8 DEF D

LEMMA FfrBegins ==
  ASSUME Proper, NEW root \in DOMAIN node, C!FfrRoot(root) = root, NEW r, r.root = root, r.faults = << >>
  PROVE  FfrOpen(r, <<root>>)
<1> DEFINE stk == <<root>>
<1>1. ToSet(stk) = {root} /\ IsInjective(stk)
  BY DEF ToSet, IsInjective
<1>2. Collects(<< >>, {})
  <2>1. ToSet(<< >>) = {} /\ IsInjective(<< >>) /\ << >> \in Seq(Nat)
    BY DEF ToSet, IsInjective
  <2> QED BY <2>1 DEF Collects
<1>3. root \in FfrNodes(root)
  BY DEF FfrNodes
<1> HIDE DEF stk
<1>4. Visiting({}, stk, root, FfrNodes(root), FfrKin, << >>)
  BY <1>1, <1>2, <1>3 DEF Visiting
<1>5. FfrOpen(r, stk)
  BY <1>1, <1>4 DEF FfrOpen
<1> QED BY <1>5 DEF stk

LEMMA FfrVisits ==
  ASSUME Proper, ListsAre, ListsOnce, NEW stk \in Seq(DOMAIN node), stk # << >>, NEW r, FfrOpen(r, stk),
         NEW n, n = Last(stk), NEW next, Replaced(next, stk, Within(node[n].fanin, Inner)),
         NEW q, q.root = r.root, Added(q.faults, r.faults, n)
  PROVE  FfrOpen(q, next) /\ (next = << >> => FfrDone(q))
<1> DEFINE R == FfrNodes(r.root)
           new == Within(node[n].fanin, Inner)
<1>1. PICK V \in SUBSET DOMAIN node :
        /\ Visiting(V, stk, r.root, R, FfrKin, r.faults)
        /\ \A m \in (V \cup ToSet(stk)) \ {r.root} : fanout[m][1] \in V
  BY DEF FfrOpen
<1>2. n \in ToSet(stk) /\ n \in DOMAIN node
  BY LastFacts
<1>3. V \subseteq R /\ ToSet(stk) \subseteq R /\ V \cap ToSet(stk) = {}
  BY <1>1 DEF Visiting
<1> HIDE DEF new
<1>0. new = Within(node[n].fanin, Inner)
  BY DEF new
<1>4. /\ new \in Seq(DOMAIN node) /\ IsInjective(new) /\ ToSet(new) = FfrKin[n]
      /\ \A m \in FfrKin[n] : m \in DOMAIN node /\ fanout[m][1] = n /\ C!FfrRoot(m) = C!FfrRoot(n)
                              /\ C!FfrRoot(m) # m
  BY <1>0, <1>2, FfrKinIs
<1>5. C!FfrRoot(n) = r.root /\ R \subseteq DOMAIN node
  BY <1>2, <1>3 DEF FfrNodes
<1>6. \A m \in FfrKin[n] : m \in R /\ m # r.root
  BY <1>4, <1>5 DEF FfrNodes
<1>7. \A m \in FfrKin[n] : m \notin V \cup ToSet(stk)
  <2> SUFFICES ASSUME NEW m \in FfrKin[n], m \in V \cup ToSet(stk) PROVE FALSE
    OBVIOUS
  <2>1. fanout[m][1] = n
    BY <1>4
  <2>2. n \in V
    BY <1>1, <1>6, <2>1
  <2> QED BY <1>2, <1>3, <2>2
<1>8. ToSet(new) = FfrKin[n] \ (V \cup ToSet(stk))
  BY <1>4, <1>7
<1> DEFINE all == q.faults
<1> HIDE DEF R, all
<1>9. Replaced(next, stk, new) /\ ToSet(new) \subseteq R
  BY <1>4, <1>6 DEF new
<1>10. /\ Visiting(V \cup {n}, next, r.root, R, FfrKin, all)
       /\ n \in R \ V /\ ToSet(next) = (ToSet(stk) \ {n}) \cup ToSet(new)
  <2>1. Turn(V, stk, r.root, R, FfrKin, r.faults, new, next, all)
    BY <1>1, <1>4, <1>5, <1>8, <1>9 DEF Turn, all
  <2>2. /\ Visiting(V \cup {Last(stk)}, next, r.root, R, FfrKin, all)
        /\ Last(stk) \in R \ V /\ ToSet(next) = (ToSet(stk) \ {Last(stk)}) \cup ToSet(new)
    BY <2>1, VisitOne
  <2> QED BY <2>2
<1>11. \A m \in ((V \cup {n}) \cup ToSet(next)) \ {r.root} : fanout[m][1] \in V \cup {n}
  BY <1>1, <1>2, <1>4, <1>10
<1>12. q.faults = all /\ R = FfrNodes(q.root)
  BY DEF all, R
<1>13. FfrOpen(q, next)
  BY <1>2, <1>10, <1>11, <1>12 DEF FfrOpen
<1>14. ASSUME next = << >> PROVE FfrDone(q)
  <2>1. \A m \in R : m = r.root \/ \E o \in R : m < o /\ m \in FfrKin[o]
    <3> SUFFICES ASSUME NEW m \in R, m # r.root PROVE \E o \in R : m < o /\ m \in FfrKin[o]
      OBVIOUS
    <3>1. m \in DOMAIN node /\ C!FfrRoot(m) = r.root
      BY DEF R, FfrNodes
    <3>2. fanout[m][1] \in R /\ m < fanout[m][1] /\ m \in FfrKin[fanout[m][1]]
      BY <3>1, FfrReached DEF R, FfrNodes
    <3> QED BY <3>2
  <2>2. Visiting(V \cup {n}, << >>, r.root, R, FfrKin, all)
    BY <1>10, <1>14
  <2>3. V \cup {n} = R
    BY <1>5, <2>1, <2>2, VisitedAll
  <2>4. Collects(all, R)
    BY <2>2, <2>3 DEF Visiting
  <2> QED BY <1>12, <2>4 DEF FfrDone
<1> QED BY <1>13, <1>14

-----------------------------------------------------------------------------
(* The MFFCs.                                                              *)

LEMMA FromLastNode ==
  ASSUME Proper, NEW T, \A n \in DOMAIN node : (\A j \in DOMAIN node : n < j => j \in T) => n \in T
  PROVE  DOMAIN node \subseteq T
<1> DEFINE N == Len(node)
<1>1. N \in Nat /\ DOMAIN node = 1 .. N
  BY NetworkFacts
<1>2. \A m \in Nat : \A U : (\A k \in 1 .. m : (\A j \in 1 .. m : k < j => j \in U) => k \in U) => 1 .. m \subseteq U
  BY P!DownInduction
<1> HIDE DEF N
<1> QED BY <1>1, <1>2

LEMMA RootStep ==
  ASSUME Proper, NEW n \in DOMAIN node
  PROVE  /\ C!FfrRoot(n) \in DOMAIN node /\ C!FfrRoot(C!FfrRoot(n)) = C!FfrRoot(n)
         /\ IF Len(fanout[n]) = 1
            THEN /\ DOMAIN fanout[n] = {1} /\ fanout[n] # << >>
                 /\ fanout[n][1] \in DOMAIN node /\ n < fanout[n][1] /\ C!FfrRoot(n) = C!FfrRoot(fanout[n][1])
            ELSE C!FfrRoot(n) = n
<1>1. P!Proper /\ n \in P!Nodes /\ P!Nodes = DOMAIN node /\ \A k : P!FfrRoot(k) = C!FfrRoot(k)
  BY SameOperators
<1>2. P!FfrRoot(n) \in P!Nodes /\ P!FfrRoot(P!FfrRoot(n)) = P!FfrRoot(n)
  BY <1>1, P!FfrRootFacts
<1>3. P!FfrRoot(n) = IF P!SingleFanout(n) THEN P!FfrRoot(fanout[n][1]) ELSE n
  BY <1>1, P!FfrRootStep
<1>4. P!SingleFanout(n) <=> Len(fanout[n]) = 1
  BY DEF P!SingleFanout
<1>5. Len(fanout[n]) = 1 =>
        /\ DOMAIN fanout[n] = {1} /\ fanout[n] # << >>
        /\ fanout[n][1] \in DOMAIN node /\ n < fanout[n][1]
  <2> DEFINE s == fanout[n]
  <2>1. /\ Len(s) \in Nat /\ DOMAIN s = 1 .. Len(s) /\ (s = << >> <=> Len(s) = 0)
        /\ \A k \in DOMAIN s : s[k] \in DOMAIN node /\ n < s[k]
    BY NetworkFacts
  <2> HIDE DEF s
  <2>2. Len(s) = 1 => DOMAIN s = {1} /\ s # << >> /\ s[1] \in DOMAIN node /\ n < s[1]
    BY <2>1
  <2> QED BY <2>2 DEF s
<1> QED BY <1>1, <1>2, <1>3, <1>4, <1>5

LEMMA DataAre ==
  ASSUME Proper
  PROVE  /\ C!DataNodes \subseteq DOMAIN node
         /\ \A n \in C!DataNodes : ToSet(node[n].fanin) \subseteq C!DataNodes
         /\ \A n \in C!DataNodes : fanout[n] # << >> => \E k \in DOMAIN fanout[n] : fanout[n][k] \in C!DataNodes
<1>1. P!DataNodes = C!DataNodes
  BY DEF P!DataNodes, C!DataNodes, P!Tfi, C!Tfi, P!PPOs, C!PPOs, P!FaninSet, C!FaninSet, P!PpoTypes, C!PpoTypes
<1>2. /\ C!DataNodes \subseteq DOMAIN node
      /\ \A n \in C!DataNodes : P!FaninSet(n) \subseteq C!DataNodes
      /\ \A n \in C!DataNodes : n \in C!PPOs \/ \E o \in P!FanoutSet(n) : o \in C!DataNodes
  BY <1>1, P!DataFacts, SameOperators
<1>3. \A n : ToSet(node[n].fanin) = P!FaninSet(n)
  BY DEF P!FaninSet, ToSet
<1>4. ASSUME NEW n \in C!DataNodes, fanout[n] # << >>
      PROVE  \E k \in DOMAIN fanout[n] : fanout[n][k] \in C!DataNodes
  <2>1. n \notin C!PPOs
    BY <1>2, <1>4, NetworkFacts
  <2> QED BY <1>2, <2>1 DEF P!FanoutSet
<1> QED BY <1>2, <1>3, <1>4

Chains == DomsUp /\ ChainedAbove(0)

\* A node with a dominator has what dominates all its fanouts.
LEMMA DomsStep ==
  ASSUME Proper, Chains, NEW n \in DOMAIN node
  PROVE  /\ n \in Doms(n) /\ Doms(n) \subseteq DOMAIN node
         /\ immDom[n] = 0 => Doms(n) = {n} /\ Len(fanout[n]) # 1
         /\ immDom[n] # 0 => /\ immDom[n] \in DOMAIN node /\ n < immDom[n]
                             /\ Doms(n) = {n} \cup Doms(immDom[n])
                             /\ fanout[n] # << >> /\ 1 \in DOMAIN fanout[n]
         /\ fanout[n] # << >> => \A d \in DOMAIN node :
              d \in Doms(n) <=> d = n \/ \A k \in DOMAIN fanout[n] : d \in Doms(fanout[n][k])
<1>1. /\ Len(node) \in Nat /\ DOMAIN node = 1 .. Len(node)
      /\ \A k \in DOMAIN fanout[n] : fanout[n][k] \in DOMAIN node /\ n < fanout[n][k]
  BY NetworkFacts
<1>2. Chained(n) /\ DomsUp
  BY <1>1 DEF Chains, ChainedAbove
<1>3. n \in Doms(n) /\ Doms(n) \subseteq DOMAIN node
  BY DomsAbove DEF Doms
<1>4. fanout[n] # << >> => \A d \in DOMAIN node :
        d \in Doms(n) <=> d = n \/ \A k \in DOMAIN fanout[n] : d \in Doms(fanout[n][k])
  BY <1>1, PathStep DEF Doms
<1>5. Doms(n) = {n} \cup DomsOf(immDom[n])
  BY <1>2 DEF Chained
<1>6. immDom[n] = 0 => Doms(n) = {n}
  BY <1>5 DEF DomsOf
<1>7. immDom[n] # 0 => immDom[n] \in DOMAIN node /\ n < immDom[n] /\ Doms(n) = {n} \cup Doms(immDom[n])
  BY <1>1, <1>2, <1>5 DEF DomsOf, DomsUp
<1>8. immDom[n] = 0 => Len(fanout[n]) # 1
  <2> SUFFICES ASSUME Len(fanout[n]) = 1 PROVE Doms(n) # {n}
    BY <1>6
  <2> DEFINE o == fanout[n][1]
  <2>1. DOMAIN fanout[n] = {1} /\ fanout[n] # << >> /\ o \in DOMAIN node /\ n < o
    BY RootStep
  <2>2. o \in Doms(o)
    BY <2>1, DomsAbove
  <2>3. o \in Doms(n)
    BY <1>4, <2>1, <2>2
  <2> QED BY <1>1, <2>1, <2>3
<1>9. immDom[n] # 0 => fanout[n] # << >>
  <2> SUFFICES ASSUME immDom[n] # 0, fanout[n] = << >> PROVE FALSE
    OBVIOUS
  <2>1. immDom[n] \in Doms(immDom[n]) /\ immDom[n] # n /\ immDom[n] \in DOMAIN node
    BY <1>1, <1>7, DomsAbove
  <2>2. OnEveryPath(immDom[n], n)
    BY <1>7, <2>1 DEF Doms
  <2> QED BY <2>1, <2>2, PathStep
<1>10. fanout[n] # << >> => 1 \in DOMAIN fanout[n]
  <2> DEFINE l == Len(fanout[n])
  <2>1. l \in Nat /\ DOMAIN fanout[n] = 1 .. l /\ (fanout[n] = << >> <=> l = 0)
    BY NetworkFacts
  <2> HIDE DEF l
  <2> QED BY <2>1
<1> QED BY <1>3, <1>4, <1>6, <1>7, <1>8, <1>9, <1>10

\* Every node has one last dominator.
LEMMA LastDominator ==
  ASSUME Proper, Chains, NEW n \in DOMAIN node
  PROVE  \E t \in Doms(n) : immDom[t] = 0 /\ \A r \in Doms(n) : immDom[r] = 0 => r = t
<1> DEFINE T == {k \in DOMAIN node :
                   \E t \in Doms(k) : immDom[t] = 0 /\ \A r \in Doms(k) : immDom[r] = 0 => r = t}
<1>1. ASSUME NEW k \in DOMAIN node, \A j \in DOMAIN node : k < j => j \in T PROVE k \in T
  <2>1. CASE immDom[k] = 0
    <3>1. Doms(k) = {k}
      BY <2>1, DomsStep
    <3> QED BY <2>1, <3>1
  <2>2. CASE immDom[k] # 0
    <3>1. immDom[k] \in T /\ Doms(k) = {k} \cup Doms(immDom[k])
      BY <1>1, <2>2, DomsStep
    <3> QED BY <2>2, <3>1
  <2> QED BY <2>1, <2>2
<1> HIDE DEF T
<1>2. DOMAIN node \subseteq T
  BY <1>1, FromLastNode
<1> QED BY <1>2 DEF T

LEMMA EdgesAre ==
  ASSUME Proper, NEW m \in DOMAIN node, NEW n \in DOMAIN node
  PROVE  m \in ToSet(node[n].fanin) <=> \E k \in DOMAIN fanout[m] : fanout[m][k] = n
<1>1. P!Proper /\ m \in P!Nodes /\ n \in P!Nodes
  BY SameOperators
<1>2. n \in P!FanoutSet(m) <=> m \in P!FaninSet(n)
  BY <1>1, P!FanoutFacts
<1> QED BY <1>2 DEF P!FanoutSet, P!FaninSet, ToSet

\* The cone of a root: what leads to it, and what leads there and has a dominator.
LEMMA ConeStep ==
  ASSUME Proper, Chains, NEW root \in DOMAIN node, immDom[root] = 0
  PROVE  /\ MffcNodes(root) \subseteq DOMAIN node /\ root \in MffcNodes(root)
         /\ \A n \in MffcNodes(root) \ {root} :
              /\ immDom[n] # 0 /\ fanout[n][1] \in MffcNodes(root)
              /\ n < fanout[n][1] /\ n \in MffcKin[fanout[n][1]]
         /\ \A n \in MffcNodes(root) : MffcKin[n] \subseteq MffcNodes(root) \ {root}
<1>1. \A n : n \in MffcNodes(root) <=> n \in DOMAIN node /\ root \in Doms(n)
  BY DEF MffcNodes
<1>2. root \in Doms(root)
  BY DomsStep
<1>3. ASSUME NEW n \in MffcNodes(root) \ {root}
      PROVE  /\ immDom[n] # 0 /\ fanout[n][1] \in MffcNodes(root)
             /\ n < fanout[n][1] /\ n \in MffcKin[fanout[n][1]]
  <2> DEFINE o == fanout[n][1]
  <2>1. n \in DOMAIN node /\ root \in Doms(n) /\ root # n
    BY <1>1
  <2>2. immDom[n] # 0
    BY <2>1, DomsStep
  <2>3. 1 \in DOMAIN fanout[n] /\ fanout[n] # << >>
    BY <2>1, <2>2, DomsStep
  <2>4. o \in DOMAIN node /\ n < o
    BY <2>1, <2>3, NetworkFacts
  <2>5. root \in Doms(o)
    BY <2>1, <2>3, DomsStep
  <2>6. n \in ToSet(node[o].fanin)
    BY <2>1, <2>3, <2>4, EdgesAre
  <2> HIDE DEF o
  <2>7. n \in MffcKin[o]
    BY <2>2, <2>4, <2>6 DEF MffcKin
  <2> QED BY <1>1, <2>2, <2>4, <2>5, <2>7 DEF o
<1>4. ASSUME NEW n \in MffcNodes(root), NEW m \in MffcKin[n] PROVE m \in MffcNodes(root) \ {root}
  <2>1. n \in DOMAIN node /\ root \in Doms(n)
    BY <1>1
  <2>2. m \in ToSet(node[n].fanin) /\ immDom[m] # 0
    BY <2>1 DEF MffcKin
  <2>3. m \in DOMAIN node
    BY <2>1, <2>2, FaninsAre
  <2>4. PICK k \in DOMAIN fanout[m] : fanout[m][k] = n
    BY <2>1, <2>2, <2>3, EdgesAre
  <2>5. PICK t \in Doms(m) : immDom[t] = 0
    BY <2>3, LastDominator
  <2>6. t # m /\ t \in DOMAIN node /\ fanout[m] # << >>
    BY <2>2, <2>3, <2>5, DomsStep
  <2>7. t \in Doms(n)
    BY <2>3, <2>4, <2>5, <2>6, DomsStep
  <2>8. t = root
    BY <2>1, <2>5, <2>7, LastDominator
  <2> QED BY <1>1, <2>2, <2>3, <2>5, <2>8
<1> QED BY <1>1, <1>2, <1>3, <1>4

\* A node and the root of its FFR have the same last dominator.
LEMMA RegionInCone ==
  ASSUME Proper, Chains, NEW root \in DOMAIN node, immDom[root] = 0, NEW n \in DOMAIN node
  PROVE  n \in MffcNodes(root) <=> C!FfrRoot(n) \in MffcNodes(root)
<1> DEFINE T == {k \in DOMAIN node : root \in Doms(k) <=> root \in Doms(C!FfrRoot(k))}
<1>1. ASSUME NEW k \in DOMAIN node, \A j \in DOMAIN node : k < j => j \in T PROVE k \in T
  <2>1. CASE Len(fanout[k]) = 1
    <3> DEFINE o == fanout[k][1]
    <3>1. DOMAIN fanout[k] = {1} /\ fanout[k] # << >> /\ o \in DOMAIN node /\ k < o /\ C!FfrRoot(k) = C!FfrRoot(o)
      BY <2>1, RootStep
    <3>2. immDom[k] # 0
      BY <2>1, DomsStep
    <3>3. root \in Doms(k) <=> \A j \in DOMAIN fanout[k] : root \in Doms(fanout[k][j])
      BY <3>1, <3>2, DomsStep
    <3>4. root \in Doms(k) <=> root \in Doms(o)
      BY <3>1, <3>3
    <3> HIDE DEF o
    <3>5. o \in T
      BY <1>1, <3>1
    <3> QED BY <3>1, <3>4, <3>5
  <2>2. CASE Len(fanout[k]) # 1
    BY <2>2, RootStep
  <2> QED BY <2>1, <2>2
<1> HIDE DEF T
<1>2. DOMAIN node \subseteq T
  BY <1>1, FromLastNode
<1>3. C!FfrRoot(n) \in DOMAIN node
  BY RootStep
<1> QED BY <1>2, <1>3 DEF T, MffcNodes

\* What leads to an output is in the region, and in the cone, of a root that does.
LEMMA DataRegion ==
  ASSUME Proper, NEW n \in C!DataNodes
  PROVE  C!FfrRoot(n) \in C!DataNodes
<1> DEFINE T == {k \in DOMAIN node : k \in C!DataNodes => C!FfrRoot(k) \in C!DataNodes}
<1>1. ASSUME NEW k \in DOMAIN node, \A j \in DOMAIN node : k < j => j \in T PROVE k \in T
  <2> SUFFICES ASSUME k \in C!DataNodes PROVE C!FfrRoot(k) \in C!DataNodes
    OBVIOUS
  <2>1. CASE Len(fanout[k]) = 1
    <3> DEFINE o == fanout[k][1]
    <3>1. DOMAIN fanout[k] = {1} /\ fanout[k] # << >> /\ o \in DOMAIN node /\ k < o /\ C!FfrRoot(k) = C!FfrRoot(o)
      BY <2>1, RootStep
    <3>2. o \in C!DataNodes
      BY <3>1, DataAre
    <3> HIDE DEF o
    <3> QED BY <1>1, <3>1, <3>2
  <2>2. CASE Len(fanout[k]) # 1
    BY <2>2, RootStep
  <2> QED BY <2>1, <2>2
<1> HIDE DEF T
<1>2. DOMAIN node \subseteq T
  BY <1>1, FromLastNode
<1> QED BY <1>2, DataAre DEF T

LEMMA DataCone ==
  ASSUME Proper, Chains, NEW n \in C!DataNodes
  PROVE  \E root \in C!DataNodes : C!FfrRoot(root) = root /\ immDom[root] = 0 /\ n \in MffcNodes(root)
<1> DEFINE T == {k \in DOMAIN node : k \in C!DataNodes =>
                   \E t \in C!DataNodes : C!FfrRoot(t) = t /\ immDom[t] = 0 /\ t \in Doms(k)}
<1>1. ASSUME NEW k \in DOMAIN node, \A j \in DOMAIN node : k < j => j \in T PROVE k \in T
  <2> SUFFICES ASSUME k \in C!DataNodes
               PROVE  \E t \in C!DataNodes : C!FfrRoot(t) = t /\ immDom[t] = 0 /\ t \in Doms(k)
    OBVIOUS
  <2>1. CASE immDom[k] = 0
    <3>1. k \in Doms(k) /\ Len(fanout[k]) # 1
      BY <2>1, DomsStep
    <3> QED BY <2>1, <3>1, RootStep
  <2>2. CASE immDom[k] # 0
    <3>1. fanout[k] # << >>
      BY <2>2, DomsStep
    <3>2. PICK e \in DOMAIN fanout[k] : fanout[k][e] \in C!DataNodes
      BY <3>1, DataAre
    <3> DEFINE o == fanout[k][e]
    <3>3. o \in DOMAIN node /\ k < o
      BY <3>2, NetworkFacts
    <3>4. PICK t \in C!DataNodes : C!FfrRoot(t) = t /\ immDom[t] = 0 /\ t \in Doms(o)
      BY <1>1, <3>2, <3>3
    <3>5. PICK u \in Doms(k) : immDom[u] = 0
      BY LastDominator
    <3>6. u # k /\ u \in DOMAIN node
      BY <2>2, <3>5, DomsStep
    <3>7. u \in Doms(o)
      BY <3>1, <3>2, <3>5, <3>6, DomsStep
    <3>8. u = t
      BY <3>3, <3>4, <3>5, <3>7, LastDominator
    <3> QED BY <3>4, <3>5, <3>8
  <2> QED BY <2>1, <2>2
<1> HIDE DEF T
<1>2. DOMAIN node \subseteq T
  BY <1>1, FromLastNode
<1>3. PICK t \in C!DataNodes : C!FfrRoot(t) = t /\ immDom[t] = 0 /\ t \in Doms(n)
  BY <1>2, DataAre DEF T
<1>4. n \in MffcNodes(t)
  BY <1>3, DataAre DEF MffcNodes
<1> QED BY <1>3, <1>4

LEMMA ConeOfData ==
  ASSUME Proper, Chains, NEW root \in C!DataNodes, immDom[root] = 0
  PROVE  MffcNodes(root) \subseteq C!DataNodes
<1> DEFINE T == {k \in DOMAIN node : k \in MffcNodes(root) => k \in C!DataNodes}
<1>0. root \in DOMAIN node
  BY DataAre
<1>1. ASSUME NEW k \in DOMAIN node, \A j \in DOMAIN node : k < j => j \in T PROVE k \in T
  <2> SUFFICES ASSUME k \in MffcNodes(root), k # root PROVE k \in C!DataNodes
    OBVIOUS
  <2> DEFINE o == fanout[k][1]
  <2>1. o \in MffcNodes(root) /\ k < o /\ k \in MffcKin[o] /\ o \in DOMAIN node
    BY <1>0, ConeStep
  <2> HIDE DEF o
  <2>2. o \in C!DataNodes
    BY <1>1, <2>1
  <2>3. k \in ToSet(node[o].fanin)
    BY <2>1 DEF MffcKin
  <2> QED BY <2>2, <2>3, DataAre
<1> HIDE DEF T
<1>2. DOMAIN node \subseteq T
  BY <1>1, FromLastNode
<1>3. MffcNodes(root) \subseteq DOMAIN node
  BY <1>0, ConeStep
<1> QED BY <1>2, <1>3 DEF T

LEMMA FirstPosition ==
  ASSUME NEW A, NEW s \in Seq(A), NEW x \in ToSet(s)
  PROVE  \E k \in DOMAIN s : s[k] = x /\ \A j \in 1 .. k - 1 : s[j] # x
<1> DEFINE l == Len(s)
           First(k) == s[k] = x /\ \A j \in 1 .. k - 1 : s[j] # x
           T == {k \in 0 .. l : (\E j \in 1 .. k : s[j] = x) => \E j \in 1 .. k : First(j)}
<1>1. l \in Nat /\ DOMAIN s = 1 .. l
  OBVIOUS
<1> HIDE DEF l
<1>2. ASSUME NEW k \in 1 .. l, k - 1 \in T PROVE k \in T
  <2>0. k \in Nat /\ k \in 0 .. l /\ \A j \in 1 .. (k - 1) : j \in 1 .. k
    BY <1>1
  <2>00. \A j \in 1 .. k : j \in 1 .. (k - 1) \/ j = k
    BY <1>1
  <2>1. CASE \E j \in 1 .. (k - 1) : s[j] = x
    BY <1>2, <2>0, <2>1
  <2>2. CASE ~ \E j \in 1 .. (k - 1) : s[j] = x
    <3> HIDE DEF T
    <3>1. (\E j \in 1 .. k : s[j] = x) => s[k] = x
      BY <2>00, <2>2
    <3>2. s[k] = x => First(k) /\ k \in 1 .. k
      BY <1>1, <2>2
    <3> HIDE DEF First
    <3> QED BY <2>0, <3>1, <3>2 DEF T
  <2> QED BY <2>1, <2>2
<1>3. 0 \in T
  BY <1>1
<1>4. \A m \in Nat : \A U : 0 \in U /\ (\A k \in 1 .. m : k - 1 \in U => k \in U) => 0 .. m \subseteq U
  BY P!InductionTo
<1> HIDE DEF T, First
<1>5. 0 .. l \subseteq T
  BY <1>1, <1>2, <1>3, <1>4
<1>6. l \in T
  BY <1>1, <1>5
<1>7. \E j \in 1 .. l : s[j] = x
  BY <1>1 DEF ToSet
<1>8. \E j \in 1 .. l : First(j)
  BY <1>6, <1>7 DEF T
<1> QED BY <1>1, <1>8 DEF First

\* set_mffc() pushes each fanin that has a dominator and is not marked yet, once.
LEMMA MffcKinIs ==
  ASSUME Proper, NEW n \in DOMAIN node
  PROVE  /\ MffcFanins(n) \in Seq(DOMAIN node) /\ IsInjective(MffcFanins(n))
         /\ ToSet(MffcFanins(n)) = MffcKin[n] \ mark
<1> DEFINE fanin == node[n].fanin
           Fresh(k) == /\ fanin[k] \notin mark /\ immDom[fanin[k]] # 0
                       /\ \A j \in 1 .. k - 1 : fanin[j] # fanin[k]
           S == {k \in DOMAIN fanin : Fresh(k)}
           D == DOMAIN fanin
           ids == [k \in D |-> k]
           fresh == Within(ids, S)
           new == [k \in DOMAIN fresh |-> fanin[fresh[k]]]
<1>1. fanin \in Seq(DOMAIN node) /\ Len(fanin) \in Nat /\ D = 1 .. Len(fanin)
  BY FaninsAre
<1>2. ids \in Seq(D) /\ IsInjective(ids) /\ ToSet(ids) = D
  <2>1. ids \in Seq(D)
    BY <1>1
  <2> HIDE DEF D
  <2> QED BY <2>1 DEF IsInjective, ToSet
<1>3. fresh \in Seq(D) /\ IsInjective(fresh) /\ ToSet(fresh) = S
  <2>1. S \subseteq D
    OBVIOUS
  <2> HIDE DEF S, ids, D
  <2>2. fresh \in Seq(D) /\ IsInjective(fresh) /\ ToSet(fresh) = D \cap S
    BY <1>2, WithinFacts
  <2> QED BY <2>1, <2>2
<1>4. MffcFanins(n) = new
  BY Zenon DEF MffcFanins
<1> HIDE DEF fresh
<1>5. DOMAIN new = DOMAIN fresh /\ \A k \in DOMAIN fresh : fresh[k] \in S /\ new[k] = fanin[fresh[k]]
  BY <1>3 DEF ToSet
<1>6. \A x \in S : \E k \in DOMAIN fresh : fresh[k] = x
  BY <1>3 DEF ToSet
<1>7. \A x \in S : x \in D /\ Fresh(x)
  OBVIOUS
<1>8. \A x, y \in S : fanin[x] = fanin[y] => x = y
  <2> SUFFICES ASSUME NEW x \in S, NEW y \in S, fanin[x] = fanin[y], x # y PROVE FALSE
    OBVIOUS
  <2>1. \A j \in 1 .. x - 1 : fanin[j] # fanin[x]
    BY <1>7
  <2>2. \A j \in 1 .. y - 1 : fanin[j] # fanin[y]
    BY <1>7
  <2>3. x \in 1 .. Len(fanin) /\ y \in 1 .. Len(fanin)
    BY <1>1, <1>7
  <2> HIDE DEF S, D, fanin
  <2>4. x \in 1 .. y - 1 \/ y \in 1 .. x - 1
    BY <1>1, <2>3
  <2> QED BY <2>1, <2>2, <2>4
<1>9. IsInjective(new)
  <2> HIDE DEF S, D, new, fanin
  <2>1. ASSUME NEW j \in DOMAIN new, NEW k \in DOMAIN new, new[j] = new[k] PROVE j = k
    <3>1. fresh[j] = fresh[k]
      BY <1>5, <1>8, <2>1
    <3> QED BY <1>3, <1>5, <3>1 DEF IsInjective
  <2> QED BY <2>1 DEF IsInjective
<1>10. ToSet(new) \subseteq MffcKin[n] \ mark
  <2> SUFFICES ASSUME NEW x \in ToSet(new) PROVE x \in MffcKin[n] \ mark
    OBVIOUS
  <2>1. PICK k \in DOMAIN fresh : x = fanin[fresh[k]] /\ fresh[k] \in S
    BY <1>5 DEF ToSet
  <2>2. fresh[k] \in D /\ x \notin mark /\ immDom[x] # 0
    BY <1>7, <2>1
  <2>3. x \in ToSet(fanin)
    BY <2>1, <2>2 DEF ToSet
  <2> HIDE DEF S, D, new
  <2> QED BY <2>2, <2>3 DEF MffcKin
<1>11. MffcKin[n] \ mark \subseteq ToSet(new)
  <2> SUFFICES ASSUME NEW x \in MffcKin[n], x \notin mark PROVE x \in ToSet(new)
    OBVIOUS
  <2>1. x \in ToSet(fanin) /\ immDom[x] # 0
    BY DEF MffcKin
  <2>2. PICK k \in DOMAIN fanin : fanin[k] = x /\ \A j \in 1 .. k - 1 : fanin[j] # x
    BY <1>1, <2>1, FirstPosition
  <2>3. k \in S
    BY <2>1, <2>2
  <2> HIDE DEF S, D, new, fanin
  <2>4. PICK j \in DOMAIN fresh : fresh[j] = k
    BY <1>6, <2>3
  <2>5. new[j] = x /\ j \in DOMAIN new
    BY <1>5, <2>2, <2>4
  <2> QED BY <2>5 DEF ToSet
<1> HIDE DEF new
<1>12. MffcFanins(n) \in Seq(DOMAIN node)
  BY MffcFaninsAre
<1> QED BY <1>4, <1>9, <1>10, <1>11, <1>12

LEMMA MffcBegins ==
  ASSUME Proper, Chains, NEW root \in DOMAIN node, immDom[root] = 0,
         NEW r, r.root = root, r.faults = << >>, r.ffrs = << >>
  PROVE  MffcOpen(r, <<root>>, {root})
<1> DEFINE stk == <<root>>
<1>1. ToSet(stk) = {root} /\ IsInjective(stk)
  BY DEF ToSet, IsInjective
<1>2. Collects(<< >>, {}) /\ ToSet(<< >>) = {} /\ IsInjective(<< >>)
  <2>1. ToSet(<< >>) = {} /\ IsInjective(<< >>) /\ << >> \in Seq(Nat)
    BY DEF ToSet, IsInjective
  <2> QED BY <2>1 DEF Collects
<1>3. root \in MffcNodes(root)
  BY ConeStep
<1> HIDE DEF stk
<1>4. Visiting({}, stk, root, MffcNodes(root), MffcKin, << >>)
  BY <1>1, <1>2, <1>3 DEF Visiting
<1>5. MffcLists(r, {})
  <2>1. RootsIn({}) = {} /\ << >> \in Seq(DOMAIN node)
    BY DEF RootsIn
  <2> QED BY <1>2, <2>1 DEF MffcLists
<1>6. {root} \ ToSet(stk) = {}
  BY <1>1
<1>7. MffcOpen(r, stk, {root})
  BY <1>1, <1>4, <1>5, <1>6 DEF MffcOpen
<1> QED BY <1>7 DEF stk

\* set_mffc() lists the roots among the nodes it visits.
Listed(ffrs, before, n) == ffrs = before \o (IF C!FfrRoot(n) = n THEN <<n>> ELSE << >>)

LEMMA RootListed ==
  ASSUME NEW r, NEW q, NEW V, NEW n \in DOMAIN node \ V, MffcLists(r, V), Listed(q.ffrs, r.ffrs, n)
  PROVE  MffcLists(q, V \cup {n})
<1> DEFINE s == r.ffrs
           t == IF C!FfrRoot(n) = n THEN <<n>> ELSE << >>
           D == DOMAIN node
<1>1. s \in Seq(D) /\ IsInjective(s) /\ ToSet(s) = RootsIn(V)
  BY DEF MffcLists
<1>2. t \in Seq(D) /\ IsInjective(t) /\ ToSet(t) = IF C!FfrRoot(n) = n THEN {n} ELSE {}
  <2>1. <<n>> \in Seq(D) /\ IsInjective(<<n>>) /\ ToSet(<<n>>) = {n}
    BY DEF ToSet, IsInjective
  <2>2. << >> \in Seq(D) /\ IsInjective(<< >>) /\ ToSet(<< >>) = {}
    BY DEF ToSet, IsInjective
  <2>3. CASE C!FfrRoot(n) = n
    <3>1. t = <<n>>
      BY <2>3
    <3> HIDE DEF t
    <3> QED BY <2>1, <2>3, <3>1
  <2>4. CASE C!FfrRoot(n) # n
    <3>1. t = << >>
      BY <2>4
    <3> HIDE DEF t
    <3> QED BY <2>2, <2>4, <3>1
  <2> QED BY <2>3, <2>4
<1>3. q.ffrs = s \o t
  BY DEF Listed
<1>4. ToSet(s) \cap ToSet(t) = {}
  BY <1>1, <1>2 DEF RootsIn
<1>5. RootsIn(V \cup {n}) = ToSet(s) \cup ToSet(t)
  BY <1>1, <1>2 DEF RootsIn
<1> HIDE DEF s, t, D
<1>6. Once(s, D) /\ Once(t, D)
  BY <1>1, <1>2, OnceIsInjective
<1>7. ToSet(s) \cap ToSet(t) \cap D = {}
  BY <1>4
<1>8. Once(s \o t, D) /\ s \o t \in Seq(D) /\ ToSet(s \o t) = ToSet(s) \cup ToSet(t)
  BY <1>1, <1>2, <1>6, <1>7, OnceJoined, ConcatFacts
<1>9. IsInjective(s \o t)
  BY <1>8, OnceIsInjective
<1> QED BY <1>3, <1>5, <1>8, <1>9 DEF MffcLists, D

LEMMA MffcVisits ==
  ASSUME Proper, Chains, ListsAre, ListsOnce, NEW stk \in Seq(DOMAIN node), stk # << >>, mark \subseteq DOMAIN node,
         NEW r, r.root \in DOMAIN node, immDom[r.root] = 0, MffcOpen(r, stk, mark),
         NEW n, n = Last(stk), NEW next, Replaced(next, stk, MffcFanins(n)),
         NEW mrk, mrk = mark \cup ToSet(MffcFanins(n)),
         NEW q, q.root = r.root, Added(q.faults, r.faults, n), Listed(q.ffrs, r.ffrs, n)
  PROVE  MffcOpen(q, next, mrk) /\ (next = << >> => MffcDone(q))
<1> DEFINE R == MffcNodes(r.root)
           new == MffcFanins(n)
           V == mark \ ToSet(stk)
           all == q.faults
<1>1. ToSet(stk) \subseteq mark /\ Visiting(V, stk, r.root, R, MffcKin, r.faults) /\ MffcLists(r, V)
  BY DEF MffcOpen
<1>2. n \in ToSet(stk) /\ n \in DOMAIN node
  BY LastFacts
<1>3. V \subseteq R /\ ToSet(stk) \subseteq R
  BY <1>1 DEF Visiting
<1>4. R \subseteq DOMAIN node /\ MffcKin[n] \subseteq R
      /\ \A m \in R \ {r.root} : fanout[m][1] \in R /\ m < fanout[m][1] /\ m \in MffcKin[fanout[m][1]]
  BY <1>2, <1>3, ConeStep
<1>5. new \in Seq(DOMAIN node) /\ IsInjective(new) /\ ToSet(new) = MffcKin[n] \ mark
  BY <1>2, MffcKinIs
<1>6. V \cup ToSet(stk) = mark /\ V \cap ToSet(stk) = {}
  BY <1>1
<1> HIDE DEF V, R, new, all
<1>7. Turn(V, stk, r.root, R, MffcKin, r.faults, new, next, all)
  BY <1>1, <1>4, <1>5, <1>6 DEF Turn, all, new
<1>8. /\ Visiting(V \cup {n}, next, r.root, R, MffcKin, all)
      /\ n \in R \ V /\ ToSet(next) = (ToSet(stk) \ {n}) \cup ToSet(new)
  <2>1. /\ Visiting(V \cup {Last(stk)}, next, r.root, R, MffcKin, all)
        /\ Last(stk) \in R \ V /\ ToSet(next) = (ToSet(stk) \ {Last(stk)}) \cup ToSet(new)
    BY <1>7, VisitOne
  <2> QED BY <2>1
<1>9. mrk \ ToSet(next) = V \cup {n} /\ ToSet(next) \subseteq mrk
  BY <1>1, <1>2, <1>5, <1>6, <1>8 DEF new
<1>10. MffcLists(q, V \cup {n})
  BY <1>1, <1>2, <1>8, RootListed
<1>11. MffcOpen(q, next, mrk)
  BY <1>8, <1>9, <1>10 DEF MffcOpen, all, R
<1>12. ASSUME next = << >> PROVE MffcDone(q)
  <2>1. \A m \in R : m = r.root \/ \E o \in R : m < o /\ m \in MffcKin[o]
    BY <1>4
  <2>2. Visiting(V \cup {n}, << >>, r.root, R, MffcKin, all)
    BY <1>8, <1>12
  <2>3. V \cup {n} = R
    BY <1>4, <2>1, <2>2, VisitedAll
  <2>4. Collects(all, R)
    BY <2>2, <2>3 DEF Visiting
  <2> QED BY <1>10, <2>3, <2>4 DEF MffcDone, R, all
<1> QED BY <1>11, <1>12

-----------------------------------------------------------------------------
(* What the steps keep: what is collected.                                 *)

LEMMA FfrBegun ==
  ASSUME Proper, BeginFfr, ffr \in Seq(RegionRecs), FfrsAre(ffr, stack, TRUE), Len(ffr) = i - 1, i \in Nat
  PROVE  FfrsAre(ffr', stack', TRUE) /\ Len(ffr') = i' - 1 /\ i' <= Len(FfrRoots) + 1
<1> DEFINE root == FfrRoots[i]
           new == [root |-> root, faults |-> << >>]
           all == Append(ffr, new)
<1>1. /\ i \in DOMAIN FfrRoots /\ stack' = <<root>> /\ ffr' = all /\ stack = << >> /\ i' = i + 1
  BY Zenon DEF BeginFfr
<1>2. root \in DOMAIN node /\ C!FfrRoot(root) = root /\ i <= Len(FfrRoots) /\ Len(FfrRoots) \in Nat
  <2>1. FfrRoots \in Seq(DOMAIN node)
    BY FfrRootsAre
  <2>2. root \in ToSet(FfrRoots) /\ i <= Len(FfrRoots) /\ Len(FfrRoots) \in Nat
    BY <1>1, <2>1 DEF ToSet
  <2> QED BY <2>2, FfrRootsAre
<1>3. FfrOpen(new, <<root>>)
  <2>1. new.root = root /\ new.faults = << >>
    OBVIOUS
  <2> HIDE DEF new, root
  <2> QED BY <1>2, <2>1, FfrBegins
<1>4. new \in RegionRecs /\ new.root = root
  <2> HIDE DEF root
  <2> QED BY <1>2 DEF RegionRecs
<1> HIDE DEF new, root
<1>5. /\ Len(all) = Len(ffr) + 1 /\ Len(ffr) \in Nat
      /\ DOMAIN all = 1 .. Len(ffr) + 1 /\ DOMAIN ffr = 1 .. Len(ffr)
      /\ \A k \in DOMAIN ffr : all[k] = ffr[k]
      /\ all[Len(ffr) + 1] = new
  BY <1>4, AppendFacts
<1> HIDE DEF all
<1>6. \A k \in DOMAIN all : k \in DOMAIN ffr \/ k = Len(ffr) + 1
  BY <1>5
<1>7. \A k \in DOMAIN ffr : k # Len(all)
  BY <1>5
<1>8. \A k \in DOMAIN ffr : all[k].root = FfrRoots[k] /\ FfrDone(all[k])
  BY <1>1, <1>5 DEF FfrsAre
<1>9. Len(ffr) + 1 = i
  BY <1>5
<1>10. all[Len(all)].root = FfrRoots[Len(all)] /\ FfrOpen(all[Len(all)], <<root>>)
  BY <1>3, <1>4, <1>5, <1>9 DEF root
<1>11. FfrsAre(all, <<root>>, TRUE)
  <2> DEFINE s == <<root>>
  <2>1. s # << >>
    OBVIOUS
  <2> HIDE DEF s
  <2> SUFFICES FfrsAre(all, s, TRUE)
    BY DEF s
  <2>2. \A k \in DOMAIN all : k \in DOMAIN ffr \/ k = Len(all)
    BY <1>5, <1>6
  <2> QED BY <1>7, <1>8, <1>10, <2>1, <2>2 DEF FfrsAre, s
<1>12. FfrsAre(ffr', stack', TRUE)
  BY <1>1, <1>11, Zenon
<1>13. Len(ffr') = i' - 1 /\ i' <= Len(FfrRoots) + 1
  <2>1. i' = i + 1 /\ ffr' = all
    BY <1>1
  <2> QED BY <1>2, <1>5, <1>9, <2>1
<1> QED BY <1>12, <1>13

LEMMA FfrVisited ==
  ASSUME Proper, ListsAre, ListsOnce, VisitFfr, ffr \in Seq(RegionRecs), ffr # << >>, FfrsAre(ffr, stack, TRUE),
         stack \in Seq(DOMAIN node)
  PROVE  FfrsAre(ffr', stack', TRUE) /\ Len(ffr') = Len(ffr) /\ UNCHANGED i
<1> DEFINE n == Last(stack)
           l == Len(ffr)
           new == [ffr[l] EXCEPT !.faults = @ \o repList[n]]
           all == [ffr EXCEPT ![l] = new]
           next == Front(stack) \o Within(node[n].fanin, Inner)
<1>1. ffr' = [ffr EXCEPT ![l].faults = @ \o repList[n]] /\ stack # << >> /\ stack' = next /\ UNCHANGED i
  BY Zenon DEF VisitFfr, Inner
<1>2. l \in Nat /\ l \in DOMAIN ffr /\ DOMAIN ffr = 1 .. l /\ ffr[l] \in RegionRecs
  <2>1. l \in Nat /\ DOMAIN ffr = 1 .. l /\ l # 0
    OBVIOUS
  <2> HIDE DEF l
  <2> QED BY <2>1
<1>3. ffr' = all
  BY <1>1
<1>4. new.root = ffr[l].root /\ Added(new.faults, ffr[l].faults, n)
  BY <1>2 DEF RegionRecs, Added
<1>5. Replaced(next, stack, Within(node[n].fanin, Inner))
  BY DEF Replaced
<1> HIDE DEF new, next, n
<1>6. FfrOpen(ffr[l], stack)
  BY <1>1, <1>2 DEF FfrsAre
<1>7. FfrOpen(new, next) /\ (next = << >> => FfrDone(new))
  BY <1>1, <1>4, <1>5, <1>6, FfrVisits DEF n
<1>8. /\ DOMAIN all = DOMAIN ffr /\ Len(all) = l /\ all[l] = new
      /\ \A k \in DOMAIN ffr \ {l} : all[k] = ffr[k]
  BY <1>2
<1> HIDE DEF all, l
<1>9. \A k \in DOMAIN ffr \ {l} : all[k].root = FfrRoots[k] /\ FfrDone(all[k])
  BY <1>8 DEF FfrsAre, l
<1>10. all[l].root = FfrRoots[l]
  BY <1>2, <1>4, <1>8 DEF FfrsAre
<1>11. FfrsAre(all, next, TRUE)
  BY <1>7, <1>8, <1>9, <1>10 DEF FfrsAre
<1> QED BY <1>1, <1>3, <1>8, <1>11 DEF l

LEMMA MffcRoot ==
  ASSUME Proper, NEW k \in DOMAIN MffcRoots
  PROVE  /\ MffcRoots[k] \in DOMAIN node /\ immDom[MffcRoots[k]] = 0
         /\ MffcRoots[k] \in C!DataNodes /\ C!FfrRoot(MffcRoots[k]) = MffcRoots[k]
<1>1. MffcRoots[k] \in ToSet(MffcRoots)
  BY DEF ToSet
<1> QED BY <1>1, RegionRootsAre

LEMMA MffcBegun ==
  ASSUME Proper, Chains, BeginMffc, MffcsAre(mffc, stack, mark, TRUE), Len(mffc) = i - 1, i \in Nat
  PROVE  MffcsAre(mffc', stack', mark', TRUE) /\ Len(mffc') = i' - 1 /\ i' <= Len(MffcRoots) + 1
<1> DEFINE root == MffcRoots[i]
           new == [root |-> root, ffrs |-> << >>, faults |-> << >>]
           all == Append(mffc, new)
<1>1. /\ i \in DOMAIN MffcRoots /\ stack' = <<root>> /\ mark' = {root} /\ mffc' = all /\ stack = << >> /\ i' = i + 1
  BY Zenon DEF BeginMffc
<1>2. root \in DOMAIN node /\ immDom[root] = 0
  BY <1>1, MffcRoot
<1>3. i <= Len(MffcRoots) /\ Len(MffcRoots) \in Nat
  BY <1>1, MffcRootsAre
<1>4. MffcOpen(new, <<root>>, {root})
  <2>1. new.root = root /\ new.faults = << >> /\ new.ffrs = << >>
    OBVIOUS
  <2> HIDE DEF new, root
  <2> QED BY <1>2, <2>1, MffcBegins
<1>5. new \in MffcRecs /\ new.root = root
  <2> HIDE DEF root
  <2> QED BY <1>2 DEF MffcRecs
<1>6. mffc \in Seq(MffcRecs)
  BY DEF MffcsAre
<1> HIDE DEF new, root
<1>7. /\ Len(all) = Len(mffc) + 1 /\ Len(mffc) \in Nat /\ all \in Seq(MffcRecs)
      /\ DOMAIN all = 1 .. Len(mffc) + 1 /\ DOMAIN mffc = 1 .. Len(mffc)
      /\ \A k \in DOMAIN mffc : all[k] = mffc[k]
      /\ all[Len(mffc) + 1] = new
  BY <1>5, <1>6, AppendFacts
<1> HIDE DEF all
<1>8. \A k \in DOMAIN all : k \in DOMAIN mffc \/ k = Len(all)
  BY <1>7
<1>9. \A k \in DOMAIN mffc : k # Len(all)
  BY <1>7
<1>10. \A k \in DOMAIN mffc : all[k].root = MffcRoots[k] /\ MffcDone(all[k])
  BY <1>1, <1>7 DEF MffcsAre
<1>11. Len(mffc) + 1 = i
  BY <1>7
<1>12. all[Len(all)].root = MffcRoots[Len(all)] /\ MffcOpen(all[Len(all)], <<root>>, {root})
  BY <1>4, <1>5, <1>7, <1>11 DEF root
<1>13. MffcsAre(all, <<root>>, {root}, TRUE)
  <2> DEFINE s == <<root>>
  <2>1. s # << >>
    OBVIOUS
  <2> HIDE DEF s
  <2> SUFFICES MffcsAre(all, s, {root}, TRUE)
    BY DEF s
  <2> QED BY <1>7, <1>8, <1>9, <1>10, <1>12, <2>1 DEF MffcsAre, s
<1>14. MffcsAre(mffc', stack', mark', TRUE)
  BY <1>1, <1>13, Zenon
<1>15. Len(mffc') = i' - 1 /\ i' <= Len(MffcRoots) + 1
  <2>1. i' = i + 1 /\ mffc' = all
    BY <1>1
  <2> QED BY <1>3, <1>7, <1>11, <2>1
<1> QED BY <1>14, <1>15

LEMMA RecordUpdated ==
  ASSUME NEW m, m = [root |-> m.root, ffrs |-> m.ffrs, faults |-> m.faults], NEW x, NEW y
  PROVE  [m EXCEPT !.ffrs = x, !.faults = y] = [root |-> m.root, ffrs |-> x, faults |-> y]
<1> DEFINE u == [m EXCEPT !.ffrs = x]
           v == [u EXCEPT !.faults = y]
<1>1. m = [root |-> m.root, ffrs |-> m.ffrs, faults |-> m.faults]
  OBVIOUS
<1>2. u = [root |-> m.root, ffrs |-> x, faults |-> m.faults]
  BY <1>1
<1>3. v = [root |-> m.root, ffrs |-> x, faults |-> y]
  <2> HIDE DEF u
  <2> QED BY <1>2
<1> QED BY <1>3

LEMMA UpdatedTwice ==
  ASSUME NEW ms, NEW l \in DOMAIN ms, NEW a, NEW b
  PROVE  [ms EXCEPT ![l].ffrs = @ \o a, ![l].faults = @ \o b]
           = [ms EXCEPT ![l] = [ms[l] EXCEPT !.ffrs = @ \o a, !.faults = @ \o b]]
<1> DEFINE x == [ms[l] EXCEPT !.ffrs = @ \o a]
           y == [x EXCEPT !.faults = ms[l].faults \o b]
           once == [ms EXCEPT ![l] = x]
<1>1. once[l] = x
  OBVIOUS
<1>2. [once EXCEPT ![l] = y] = [ms EXCEPT ![l] = y]
  <2> HIDE DEF x, y
  <2> QED OBVIOUS
<1> QED BY <1>1, <1>2

LEMMA MffcVisited ==
  ASSUME Proper, Chains, ListsAre, ListsOnce, VisitMffc, mffc # << >>, MffcsAre(mffc, stack, mark, TRUE),
         stack \in Seq(DOMAIN node), mark \subseteq DOMAIN node, Len(mffc) <= Len(MffcRoots)
  PROVE  MffcsAre(mffc', stack', mark', TRUE) /\ Len(mffc') = Len(mffc) /\ UNCHANGED i
<1> DEFINE n == Last(stack)
           l == Len(mffc)
           root == IF C!FfrRoot(n) = n THEN <<n>> ELSE << >>
           new == [root |-> mffc[l].root, ffrs |-> mffc[l].ffrs \o root, faults |-> mffc[l].faults \o repList[n]]
           all == [mffc EXCEPT ![l] = new]
           next == Front(stack) \o MffcFanins(n)
           mrk == mark \cup ToSet(MffcFanins(n))
<1>1. /\ mffc' = [mffc EXCEPT ![l].ffrs = @ \o root, ![l].faults = @ \o repList[n]]
      /\ stack # << >> /\ stack' = next /\ mark' = mrk /\ UNCHANGED i
  BY Zenon DEF VisitMffc
<1>2. mffc \in Seq(MffcRecs)
  BY DEF MffcsAre
<1>3. l \in Nat /\ l \in DOMAIN mffc /\ DOMAIN mffc = 1 .. l /\ mffc[l] \in MffcRecs
  <2>1. l \in Nat /\ DOMAIN mffc = 1 .. l /\ l # 0
    BY <1>2
  <2> HIDE DEF l
  <2> QED BY <1>2, <2>1
<1>4. mffc' = all
  <2> DEFINE m == mffc[l]
             y == [m EXCEPT !.ffrs = @ \o root, !.faults = @ \o repList[n]]
  <2>1. mffc' = [mffc EXCEPT ![l] = y]
    <3> HIDE DEF root, l, n
    <3> QED BY <1>1, <1>3, UpdatedTwice, Zenon
  <2>2. y = new
    <3>1. m \in MffcRecs
      BY <1>3
    <3> HIDE DEF root, m, n
    <3>2. m = [root |-> m.root, ffrs |-> m.ffrs, faults |-> m.faults]
      BY <3>1 DEF MffcRecs
    <3>3. \A a, b : [m EXCEPT !.ffrs = a, !.faults = b] = [root |-> m.root, ffrs |-> a, faults |-> b]
      BY <3>2, RecordUpdated
    <3>4. y = [root |-> m.root, ffrs |-> m.ffrs \o root, faults |-> m.faults \o repList[n]]
      BY <3>3, Zenon
    <3> QED BY <3>4 DEF m
  <2> QED BY <2>1, <2>2
<1>5. /\ new.root = mffc[l].root /\ Added(new.faults, mffc[l].faults, n) /\ Listed(new.ffrs, mffc[l].ffrs, n)
  BY <1>3 DEF MffcRecs, Added, Listed
<1>6. Replaced(next, stack, MffcFanins(n))
  BY DEF Replaced
<1>7. mffc[l].root = MffcRoots[l] /\ MffcOpen(mffc[l], stack, mark)
  BY <1>1, <1>3 DEF MffcsAre
<1>8. mffc[l].root \in DOMAIN node /\ immDom[mffc[l].root] = 0
  <2>1. l \in DOMAIN MffcRoots
    BY <1>3, MffcRootsAre
  <2> QED BY <1>7, <2>1, MffcRoot
<1> HIDE DEF new, next, n, root
<1>9. MffcOpen(new, next, mrk) /\ (next = << >> => MffcDone(new))
  BY <1>1, <1>5, <1>6, <1>7, <1>8, MffcVisits DEF n
<1>10. new \in MffcRecs
  <2>1. new = [root |-> new.root, ffrs |-> new.ffrs, faults |-> new.faults]
    BY DEF new
  <2>2. new.ffrs \in Seq(DOMAIN node) /\ new.faults \in Seq(Nat)
    BY <1>9 DEF MffcOpen, MffcLists, Visiting, Collects
  <2> QED BY <1>5, <1>8, <2>1, <2>2 DEF MffcRecs
<1>11. /\ DOMAIN all = DOMAIN mffc /\ Len(all) = l /\ all[l] = new /\ all \in Seq(MffcRecs)
       /\ \A k \in DOMAIN mffc \ {l} : all[k] = mffc[k]
  <2> DEFINE Q == MffcRecs
  <2> HIDE DEF Q, l
  <2> QED BY <1>2, <1>3, <1>10 DEF Q
<1> HIDE DEF all, l, mrk
<1>12. \A k \in DOMAIN mffc \ {l} : all[k].root = MffcRoots[k] /\ MffcDone(all[k])
  BY <1>11 DEF MffcsAre, l
<1>13. all[l].root = MffcRoots[l]
  BY <1>5, <1>7, <1>11
<1>14. MffcsAre(all, next, mrk, TRUE)
  BY <1>9, <1>11, <1>12, <1>13 DEF MffcsAre
<1> QED BY <1>1, <1>4, <1>11, <1>14 DEF l

\* A site has one fault of each value, so a node lists none of them twice.
LEMMA FaultsOfOnce ==
  ASSUME Faulted(node, fault), NEW n \in DOMAIN node, Len(node[n].fanin) \in Nat
  PROVE  IsInjective(FaultsOf(n))
<1> DEFINE l == Len(node[n].fanin)
           Q == 0 .. Len(fault)
           S == DOMAIN fault
           ss == [p \in 1 .. l + 1 |-> <<FaultAt(n, p - 1, "0"), FaultAt(n, p - 1, "1")>>]
<1>0. l \in Nat /\ l + 1 \in Nat /\ fault \in Seq(FaultRecs(Len(node), Len(fault)))
  BY DEF Faulted
<1>1. FaultsOf(n) = Within(FlattenSeq(ss), S)
  BY Zenon DEF FaultsOf
<1> HIDE DEF l, S
<1>2. ASSUME NEW p \in 1 .. l + 1
      PROVE  /\ ss[p] \in Seq(Q) /\ Once(ss[p], S)
             /\ \A f \in ToSet(ss[p]) : f \in S => fault[f].pos = p - 1
  <2> DEFINE a == FaultAt(n, p - 1, "0")
             b == FaultAt(n, p - 1, "1")
  <2>1. /\ a \in Q /\ (a \in S => fault[a].pos = p - 1 /\ fault[a].val = "0")
        /\ b \in Q /\ (b \in S => fault[b].pos = p - 1 /\ fault[b].val = "1")
    BY <1>0, FaultAtFacts DEF S
  <2>2. ss[p] = <<a, b>>
    OBVIOUS
  <2> HIDE DEF a, b, ss, Q
  <2>3. a \in S => a # b
    BY <2>1
  <2> DEFINE s == <<a, b>>
  <2>4. s \in Seq(Q) /\ DOMAIN s = {1, 2} /\ s[1] = a /\ s[2] = b
    BY <2>1
  <2> HIDE DEF s
  <2>5. Once(s, S) /\ ToSet(s) = {a, b}
    BY <2>3, <2>4 DEF Once, ToSet
  <2> QED BY <2>1, <2>2, <2>4, <2>5 DEF s
<1>3. ss \in Seq(Seq(Q)) /\ DOMAIN ss = 1 .. l + 1
  <2>1. ss = [p \in 1 .. l + 1 |-> ss[p]]
    OBVIOUS
  <2> HIDE DEF ss, Q
  <2> QED BY <1>0, <1>2, <2>1, IndexedType
<1> HIDE DEF ss, Q
<1>4. \A j, k \in DOMAIN ss : j # k => ToSet(ss[j]) \cap ToSet(ss[k]) \cap S = {}
  <2> SUFFICES ASSUME NEW j \in 1 .. l + 1, NEW k \in 1 .. l + 1, j # k,
                      NEW f \in ToSet(ss[j]), f \in ToSet(ss[k]), f \in S
               PROVE  FALSE
    BY <1>3
  <2>1. fault[f].pos = j - 1 /\ fault[f].pos = k - 1
    BY <1>2
  <2>2. j - 1 = k - 1
    BY <2>1
  <2> QED BY <1>0, <2>2
<1>5. Apart(ss, S)
  BY <1>2, <1>3, <1>4 DEF Apart
<1>6. Once(FlattenSeq(ss), S) /\ FlattenSeq(ss) \in Seq(Q)
  BY <1>3, <1>5, OnceFlat, FlattenFacts
<1>7. IsInjective(Within(FlattenSeq(ss), S))
  BY <1>6, OnceWithin
<1> QED BY <1>1, <1>7

LEMMA ListsKept ==
  ASSUME IInv, ~ Early => ListsOnce, [Next]_networkVars
  PROVE  (~ Early => ListsOnce)'
<1>0. Building /\ Analysed /\ Regions /\ Dominators
  BY DEF IInv
<1>1. CASE Making
  <2>1. Early'
    BY <1>0, <1>1, MakingAnalyses
  <2> QED BY <2>1
<1>2. CASE SetFanouts
  <2>1. repList' = [n \in DOMAIN node |-> << >>] /\ node' = node
    BY <1>2 DEF SetFanouts, built
  <2>2. IsInjective(<< >>)
    BY DEF IsInjective
  <2> QED BY <2>1, <2>2 DEF ListsOnce
<1>3. CASE SetRepFaults
  <2> DEFINE n == FromLast
             S == {f \in {f \in DOMAIN fault : fault[f].node = n} : Linked(n, f) = 0}
             list == Within(FaultsOf(n), S)
  <2>1. /\ n \in DOMAIN node /\ node' = node /\ pc = "faults"
        /\ repList' = IF n \notin C!DataNodes THEN repList ELSE [repList EXCEPT ![n] = list]
    BY <1>3, Zenon DEF SetRepFaults
  <2>2. ListsAre /\ ListsOnce /\ Proper
    <3>1. ~ Early
      BY <2>1 DEF Early
    <3> QED BY <1>0, <3>1, NetworkBuilt DEF Analysed
  <2>3. Faulted(node, fault) /\ Len(node[n].fanin) \in Nat
    BY <1>0, <2>1, <2>2, FaninsAre DEF Building
  <2>4. FaultsOf(n) \in Seq(0 .. Len(fault)) /\ IsInjective(FaultsOf(n))
    BY <2>1, <2>3, FaultsOfFacts, FaultsOfOnce
  <2> HIDE DEF n, S
  <2>5. IsInjective(list)
    BY <2>4, WithinFacts
  <2> HIDE DEF list
  <2>6. C!DataNodes' = C!DataNodes
    BY <2>1 DEF C!DataNodes, C!Tfi, C!PPOs, C!FaninSet
  <2>7. repList \in [DOMAIN node -> Seq(Nat)]
    BY <2>2 DEF ListsAre
  <2>8. \A m \in DOMAIN node : IsInjective(repList'[m]) /\ (m \notin C!DataNodes => repList'[m] = << >>)
    BY <2>1, <2>2, <2>5, <2>7 DEF ListsOnce
  <2> QED BY <2>1, <2>6, <2>8 DEF ListsOnce
<1>4. CASE SetImmDom \/ SortOutputs \/ Collecting \/ NextLoop \/ UNCHANGED networkVars
  <2>1. node' = node /\ repList' = repList
    BY <1>4, Zenon DEF Collecting, SetImmDom, SortOutputs, BeginFfr, VisitFfr, BeginMffc, VisitMffc, NextLoop, networkVars,
                       built, analysed
  <2>2. ListsOnce' <=> ListsOnce
    BY <2>1, SameOnce
  <2>3. Early => Early'
    <3>1. \/ pc' = pc /\ i' = i
          \/ pc' = pc /\ pc \in {"sort", "doms", "ffrs", "mffcs"}
          \/ pc # "done" /\ i > Length /\ pc' = Following[pc] /\ i' = 1
      BY <1>4, Zenon DEF Collecting, SetImmDom, SortOutputs, BeginFfr, VisitFfr, BeginMffc, VisitMffc, NextLoop, networkVars
    <3>2. pc = "fanouts" => Length = 1
      BY DEF Length
    <3> QED BY <3>1, <3>2 DEF Early, Following
  <2> QED BY <2>2, <2>3
<1> QED BY <1>1, <1>2, <1>3, <1>4, Zenon DEF Next, Making, Collecting

\* Before the regions, and when the loop over them changes.
LEMMA NoneCollected ==
  ASSUME Regions, Collected, pc \notin {"ffrs", "mffcs", "done"}, ffr' = ffr, mffc' = mffc, stack' = stack,
         pc' \notin {"ffrs", "mffcs", "done"}
  PROVE  FfrsCollected' /\ MffcsCollected'
<1>1. ffr' = << >> /\ mffc' = << >>
  BY DEF Regions, Collected, MffcsCollected
<1>2. DOMAIN << >> = {} /\ << >> \in Seq(MffcRecs')
  OBVIOUS
<1>3. FfrsAre(ffr, stack, pc = "ffrs")'
  BY <1>1, <1>2 DEF FfrsAre
<1>4. MffcsAre(mffc, stack, mark, pc = "mffcs")'
  BY <1>1, <1>2 DEF MffcsAre
<1> QED BY <1>1, <1>3, <1>4 DEF FfrsCollected, MffcsCollected

LEMMA CollectedBefore ==
  ASSUME Regions, Collected, Making \/ SetFanouts \/ SetRepFaults \/ SortOutputs \/ SetImmDom
  PROVE  FfrsCollected' /\ MffcsCollected'
<1>1. /\ pc' = pc /\ pc \in {"inputs", "dffs", "logic", "terminals", "fanouts", "faults", "sort", "doms"}
      /\ stack' = stack /\ ffr' = ffr /\ mffc' = mffc
  BY Zenon DEF Making, MakeInputNode, MakeDffOutputNode, MakeLogicNode, MakeTerminalNode, MakePpi, SetFanouts,
               SetRepFaults, SortOutputs, SetImmDom, analysed
<1>2. pc \notin {"ffrs", "mffcs", "done"}
  BY <1>1
<1> QED BY <1>1, <1>2, NoneCollected

LEMMA FfrStep ==
  ASSUME Proper, ListsAre, ListsOnce, Regions, FfrsCollected, MffcsCollected, Frame, i \in Nat,
         BeginFfr \/ VisitFfr
  PROVE  FfrsCollected' /\ MffcsCollected'
<1>1. pc = "ffrs" /\ pc' = pc /\ mffc' = mffc /\ mark' = mark
  BY Zenon DEF BeginFfr, VisitFfr
<1>2. ffr \in Seq(RegionRecs) /\ stack \in Seq(DOMAIN node) /\ (stack # << >> => ffr # << >>)
  BY <1>1, RegionsParts DEF Regions, RegionsAre
<1>3. FfrsAre(ffr, stack, TRUE) /\ Len(ffr) = i - 1 /\ i <= Len(FfrRoots) + 1
  BY <1>1 DEF FfrsCollected
<1>4. FfrsAre(ffr', stack', TRUE) /\ Len(ffr') = i' - 1 /\ i' <= Len(FfrRoots) + 1
  <2>1. CASE BeginFfr
    BY <1>2, <1>3, <2>1, FfrBegun
  <2>2. CASE VisitFfr
    <3>1. stack # << >>
      BY <2>2 DEF VisitFfr
    <3> QED BY <1>2, <1>3, <2>2, <3>1, FfrVisited
  <2> QED BY <2>1, <2>2
<1>5. FfrRoots' = FfrRoots /\ FfrsAre(ffr, stack, TRUE)'
  BY <1>4, SameLists
<1>6. FfrsCollected'
  BY <1>1, <1>4, <1>5 DEF FfrsCollected
<1>7. mffc' = << >> /\ DOMAIN << >> = {} /\ << >> \in Seq(MffcRecs')
  BY <1>1 DEF MffcsCollected
<1>8. MffcsCollected'
  BY <1>1, <1>7 DEF MffcsCollected, MffcsAre
<1> QED BY <1>6, <1>8

LEMMA MffcStep ==
  ASSUME Proper, Chains, ListsAre, ListsOnce, Regions, FfrsCollected, MffcsCollected, Frame, i \in Nat,
         BeginMffc \/ VisitMffc
  PROVE  FfrsCollected' /\ MffcsCollected'
<1>1. pc = "mffcs" /\ pc' = pc /\ ffr' = ffr
  BY Zenon DEF BeginMffc, VisitMffc
<1>2. stack \in Seq(DOMAIN node) /\ mark \subseteq DOMAIN node
  BY RegionsParts
<1>3. MffcsAre(mffc, stack, mark, TRUE) /\ Len(mffc) = i - 1 /\ i <= Len(MffcRoots) + 1 /\ (stack # << >> => mffc # << >>)
  BY <1>1 DEF MffcsCollected
<1>4. Len(MffcRoots) \in Nat /\ mffc \in Seq(MffcRecs)
  BY <1>3, MffcRootsAre DEF MffcsAre
<1>5. MffcsAre(mffc', stack', mark', TRUE) /\ Len(mffc') = i' - 1 /\ i' <= Len(MffcRoots) + 1 /\ Len(mffc') # 0
  <2>1. CASE BeginMffc
    <3>1. i # 0 /\ i' = i + 1
      BY <2>1, RegionRootsAre DEF BeginMffc
    <3>2. MffcsAre(mffc', stack', mark', TRUE) /\ Len(mffc') = i' - 1 /\ i' <= Len(MffcRoots) + 1
      BY <1>3, <2>1, MffcBegun
    <3>3. i' - 1 # 0
      BY <3>1
    <3> QED BY <3>2, <3>3
  <2>2. CASE VisitMffc
    <3>1. stack # << >>
      BY <2>2 DEF VisitMffc
    <3>2. Len(mffc) <= Len(MffcRoots) /\ Len(mffc) # 0
      BY <1>3, <1>4, <3>1
    <3> QED BY <1>2, <1>3, <2>2, <3>1, <3>2, MffcVisited
  <2> QED BY <2>1, <2>2
<1>6. MffcRoots' = MffcRoots /\ MffcsAre(mffc, stack, mark, TRUE)'
  BY <1>5, SameLists
<1>7. mffc' # << >>
  <2>1. Len(<< >>) = 0
    OBVIOUS
  <2> QED BY <1>5, <2>1
<1>8. MffcsCollected'
  BY <1>1, <1>5, <1>6, <1>7 DEF MffcsCollected
<1>9. FfrRoots' = FfrRoots /\ (FfrsAre(ffr, stack, FALSE)' <=> FfrsAre(ffr, stack', FALSE))
  BY <1>1, SameLists
<1>10. FfrsAre(ffr, stack, FALSE) /\ Len(ffr) = Len(FfrRoots)
  BY <1>1 DEF FfrsCollected
<1>11. FfrsAre(ffr, stack', FALSE)
  BY <1>10 DEF FfrsAre
<1>12. FfrsCollected'
  BY <1>1, <1>9, <1>10, <1>11 DEF FfrsCollected
<1> QED BY <1>8, <1>12

LEMMA LoopCollected ==
  ASSUME Proper, Building, Regions, Collected, NextLoop, pc \in {"doms", "ffrs", "mffcs"}
  PROVE  FfrsCollected' /\ MffcsCollected'
<1>1. /\ i > Length /\ stack = << >> /\ stack' = stack /\ mark' = mark /\ i' = 1 /\ pc' = Following[pc]
      /\ ffr' = ffr /\ mffc' = mffc /\ Frame
  BY DEF NextLoop, built, analysed, Frame
<1>2. i \in Nat /\ Len(FfrRoots) \in Nat /\ Len(MffcRoots) \in Nat
  BY FfrRootsAre, MffcRootsAre DEF Building
<1>3. FfrsCollected /\ MffcsCollected
  BY DEF Collected
<1>4. /\ FfrRoots' = FfrRoots /\ MffcRoots' = MffcRoots
      /\ \A open : FfrsAre(ffr, stack, open)' <=> FfrsAre(ffr, stack, open)
      /\ \A open : MffcsAre(mffc, stack, mark, open)' <=> MffcsAre(mffc, stack, mark, open)
  <2>1. /\ \A fs, stk, open : FfrsAre(fs, stk, open)' <=> FfrsAre(fs, stk, open)
        /\ \A ms, stk, mrk, open : MffcsAre(ms, stk, mrk, open)' <=> MffcsAre(ms, stk, mrk, open)
    BY <1>1, SameLists
  <2>2. FfrRoots' = FfrRoots /\ MffcRoots' = MffcRoots
    BY <1>1, SameLists
  <2> QED BY <1>1, <2>1, <2>2
<1>5. \A open \in BOOLEAN : FfrsAre(ffr, stack, open) /\ MffcsAre(mffc, stack, mark, open)
  BY <1>1, <1>3 DEF FfrsCollected, MffcsCollected, FfrsAre, MffcsAre
<1>6. FfrsAre(ffr, stack, pc = "ffrs")' /\ MffcsAre(mffc, stack, mark, pc = "mffcs")'
  <2>1. \A open \in BOOLEAN : FfrsAre(ffr, stack, open)' /\ MffcsAre(mffc, stack, mark, open)'
    BY <1>4, <1>5
  <2>2. (pc = "ffrs")' \in BOOLEAN /\ (pc = "mffcs")' \in BOOLEAN
    OBVIOUS
  <2> QED BY <1>1, <2>1, <2>2
<1>7. Len(<< >>) = 0
  OBVIOUS
<1>8. CASE pc = "doms"
  <2>1. pc' = "ffrs" /\ ffr = << >> /\ mffc = << >>
    BY <1>1, <1>3, <1>8 DEF Following, Regions, MffcsCollected
  <2>2. 1 <= Len(FfrRoots) + 1
    BY <1>2
  <2> QED BY <1>1, <1>4, <1>6, <1>7, <2>1, <2>2 DEF FfrsCollected, MffcsCollected
<1>9. CASE pc = "ffrs"
  <2>1. pc' = "mffcs" /\ mffc = << >> /\ i > Len(FfrRoots)
    BY <1>1, <1>3, <1>9 DEF Following, MffcsCollected, Length
  <2>2. Len(ffr) = Len(FfrRoots)
    BY <1>2, <1>3, <1>9, <2>1 DEF FfrsCollected
  <2>3. 1 <= Len(MffcRoots) + 1
    BY <1>2
  <2> QED BY <1>1, <1>4, <1>6, <1>7, <2>1, <2>2, <2>3 DEF FfrsCollected, MffcsCollected
<1>10. CASE pc = "mffcs"
  <2>1. pc' = "done" /\ i > Len(MffcRoots) /\ Len(ffr) = Len(FfrRoots)
    BY <1>1, <1>3, <1>10 DEF Following, FfrsCollected, Length
  <2>2. Len(mffc) = Len(MffcRoots)
    BY <1>2, <1>3, <1>10, <2>1 DEF MffcsCollected
  <2> QED BY <1>1, <1>4, <1>6, <2>1, <2>2 DEF FfrsCollected, MffcsCollected
<1> QED BY <1>8, <1>9, <1>10

LEMMA CollectedKept ==
  ASSUME IInv, Collected, [Next]_networkVars
  PROVE  Collected'
<1>0. Building /\ Analysed /\ Regions /\ Dominators
  BY DEF IInv
<1>1. (~ Early => ListsOnce)'
  BY ListsKept DEF Collected
<1>2. FfrsCollected /\ MffcsCollected
  BY DEF Collected
<1>3. pc \in {"doms", "ffrs", "mffcs", "done"} => Proper /\ ListsAre /\ ListsOnce /\ DomsUp
  <2>1. pc \in {"doms", "ffrs", "mffcs", "done"} => ~ Early
    BY DEF Early
  <2> QED BY <1>0, <2>1, NetworkBuilt DEF Collected, Analysed
<1>4. i \in Nat /\ pc \in DOMAIN Following \cup {"done"}
  BY <1>0 DEF Building
<1>5. CASE Making \/ SetFanouts \/ SetRepFaults \/ SortOutputs \/ SetImmDom
  BY <1>0, <1>1, <1>5, CollectedBefore DEF Collected
<1>6. CASE Collecting
  <2>1. Frame /\ pc \in {"ffrs", "mffcs"}
    BY <1>6, Zenon DEF Collecting, BeginFfr, VisitFfr, BeginMffc, VisitMffc, built, Frame
  <2>2. Chains /\ Proper /\ ListsAre /\ ListsOnce
    BY <1>0, <1>3, <2>1 DEF Chains, Dominators
  <2>3. FfrsCollected' /\ MffcsCollected'
    BY <1>0, <1>2, <1>4, <1>6, <2>1, <2>2, FfrStep, MffcStep DEF Collecting
  <2> QED BY <1>1, <2>3 DEF Collected
<1>7. CASE NextLoop
  <2>1. CASE pc \in {"doms", "ffrs", "mffcs"}
    BY <1>0, <1>1, <1>3, <1>7, <2>1, LoopCollected DEF Collected
  <2>2. CASE pc \notin {"doms", "ffrs", "mffcs"}
    <3>1. pc # "done" /\ pc' = Following[pc] /\ stack' = stack /\ ffr' = ffr /\ mffc' = mffc
      BY <1>7 DEF NextLoop, analysed
    <3>2. pc \notin {"ffrs", "mffcs", "done"} /\ pc' \notin {"ffrs", "mffcs", "done"}
      BY <1>4, <2>2, <3>1 DEF Following
    <3> QED BY <1>0, <1>1, <3>1, <3>2, NoneCollected DEF Collected
  <2> QED BY <2>1, <2>2
<1>8. CASE UNCHANGED networkVars
  <2>1. Frame /\ UNCHANGED <<pc, i, ffr, mffc, stack, mark>>
    BY <1>8 DEF networkVars, Frame
  <2>2. FfrRoots' = FfrRoots /\ MffcRoots' = MffcRoots
    BY <2>1, SameLists
  <2>3. /\ \A fs, stk, open : FfrsAre(fs, stk, open)' <=> FfrsAre(fs, stk, open)
        /\ \A ms, stk, mrk, open : MffcsAre(ms, stk, mrk, open)' <=> MffcsAre(ms, stk, mrk, open)
    BY <2>1, SameLists
  <2>4. /\ FfrsAre(ffr, stack, pc = "ffrs")' <=> FfrsAre(ffr, stack, pc = "ffrs")
        /\ MffcsAre(mffc, stack, mark, pc = "mffcs")' <=> MffcsAre(mffc, stack, mark, pc = "mffcs")
    BY <2>1, <2>3
  <2>5. FfrsCollected' /\ MffcsCollected'
    BY <1>2, <2>1, <2>2, <2>4 DEF FfrsCollected, MffcsCollected
  <2> QED BY <1>1, <2>5 DEF Collected
<1> QED BY <1>5, <1>6, <1>7, <1>8, Zenon DEF Next, Making, Collecting

LEMMA NothingCollected ==
  ASSUME Init
  PROVE  Collected
<1>1. pc = "inputs" /\ ffr = << >> /\ mffc = << >>
  BY DEF Init
<1>2. DOMAIN << >> = {} /\ << >> \in Seq(MffcRecs)
  OBVIOUS
<1>3. FfrsAre(ffr, stack, pc = "ffrs")
  BY <1>1, <1>2 DEF FfrsAre
<1>4. MffcsAre(mffc, stack, mark, pc = "mffcs")
  BY <1>1, <1>2 DEF MffcsAre
<1> QED BY <1>1, <1>3, <1>4 DEF Collected, FfrsCollected, MffcsCollected, Early

\* Together with the invariant above, inductive: the regions so far have the faults of
\* their nodes, once each, and the one on the way has those of the nodes visited.
THEOREM CollectionInvariant == Spec => [](IInv /\ Collected)
<1>1. Init => IInv /\ Collected
  BY InitIsGood, NothingCollected
<1>2. (IInv /\ Collected) /\ [Next]_networkVars => (IInv /\ Collected)'
  BY StepsAreGood, CollectedKept
<1> QED BY <1>1, <1>2, PTL DEF Spec

-----------------------------------------------------------------------------
(* What is collected at the end.                                           *)

\* Only what leads to an output has faults.
LEMMA CollectsData ==
  ASSUME ListsOnce, NEW V, V \subseteq DOMAIN node, NEW W, W \subseteq DOMAIN node,
         V \cap C!DataNodes = W \cap C!DataNodes, NEW faults, Collects(faults, V)
  PROVE  Collects(faults, W)
<1>1. \A n \in DOMAIN node : n \in C!DataNodes \/ ToSet(repList[n]) = {}
  BY DEF ListsOnce, ToSet
<1>2. UNION {ToSet(repList[n]) : n \in V} = UNION {ToSet(repList[n]) : n \in W}
  <2> DEFINE L(n) == ToSet(repList[n])
  <2>1. \A n \in DOMAIN node : n \in C!DataNodes \/ L(n) = {}
    BY <1>1
  <2> HIDE DEF L
  <2>2. UNION {L(n) : n \in V} = UNION {L(n) : n \in W}
    BY <2>1
  <2> QED BY <2>2 DEF L
<1> QED BY <1>2 DEF Collects

LEMMA SameCollected ==
  ASSUME NEW V, NEW s, NEW t, Collects(s, V), Collects(t, V)
  PROVE  SameElements(s, t)
<1>1. s \in Seq(Nat) /\ IsInjective(s) /\ t \in Seq(Nat) /\ IsInjective(t) /\ ToSet(s) = ToSet(t)
  BY DEF Collects
<1> QED BY <1>1, SameLength DEF SameElements

\* At the end all is done.
LEMMA RegionsDone ==
  ASSUME IInv, Collected, pc = "done"
  PROVE  /\ Proper /\ Chains /\ ListsAre /\ ListsOnce
         /\ Len(ffr) = Len(FfrRoots) /\ \A k \in DOMAIN ffr : ffr[k].root = FfrRoots[k] /\ FfrDone(ffr[k])
         /\ Len(mffc) = Len(MffcRoots) /\ \A k \in DOMAIN mffc : mffc[k].root = MffcRoots[k] /\ MffcDone(mffc[k])
         /\ ffr \in Seq(RegionRecs) /\ mffc \in Seq(MffcRecs)
<1>1. Building /\ Analysed /\ Regions /\ Dominators /\ ~ Early
  BY DEF IInv, Early
<1>2. Proper /\ Chains /\ ListsAre /\ ListsOnce
  BY <1>1, NetworkBuilt DEF Analysed, Dominators, Chains, Collected
<1>3. FfrsAre(ffr, stack, FALSE) /\ Len(ffr) = Len(FfrRoots) /\ MffcsAre(mffc, stack, mark, FALSE) /\ Len(mffc) = Len(MffcRoots)
  BY DEF Collected, FfrsCollected, MffcsCollected
<1> QED BY <1>1, <1>2, <1>3, RegionsParts DEF FfrsAre, MffcsAre, RegionsAre

LEMMA AllRepresentatives ==
  ASSUME Proper, ListsAre, ListsOnce
  PROVE  Collects(Representatives, DOMAIN node)
<1> DEFINE W == [n \in DOMAIN node |-> {n}]
<1>1. DOMAIN node = 1 .. Len(node) /\ Len(node) \in Nat
  BY NetworkFacts
<1>2. repList \in Seq(Seq(Nat)) /\ DOMAIN repList = DOMAIN node
  <2>1. repList = [n \in 1 .. Len(node) |-> repList[n]] /\ \A n \in 1 .. Len(node) : repList[n] \in Seq(Nat)
    BY <1>1 DEF ListsAre
  <2> QED BY <1>1, <2>1, IndexedType DEF ListsAre
<1>3. \A n \in DOMAIN repList : W[n] = {n} /\ W[n] \subseteq DOMAIN node /\ Collects(repList[n], {n})
  BY <1>2 DEF ListsAre, ListsOnce, Collects
<1>4. UNION {W[n] : n \in DOMAIN repList} = DOMAIN node
  BY <1>2
<1> HIDE DEF W
<1>5. Collects(FlattenSeq(repList), UNION {W[n] : n \in DOMAIN repList})
  <2>1. \A j, k \in DOMAIN repList : j # k => W[j] \cap W[k] = {}
    BY <1>3
  <2>2. \A n \in DOMAIN repList : W[n] \subseteq DOMAIN node /\ Collects(repList[n], W[n])
    BY <1>3
  <2> QED BY <1>2, <2>1, <2>2, CollectsAll
<1> QED BY <1>4, <1>5 DEF Representatives, AllOf

\* One FFR after the other: every node that leads to an output is in the one of its root.
LEMMA AllOfFfrs ==
  ASSUME Proper, ListsAre, ListsOnce, ffr \in Seq(RegionRecs), Len(ffr) = Len(FfrRoots),
         \A k \in DOMAIN ffr : ffr[k].root = FfrRoots[k] /\ FfrDone(ffr[k])
  PROVE  Collects(AllOf([k \in DOMAIN ffr |-> ffr[k].faults]), DOMAIN node)
<1> DEFINE ss == [k \in DOMAIN ffr |-> ffr[k].faults]
           W == [k \in DOMAIN ffr |-> FfrNodes(FfrRoots[k])]
           U == UNION {W[k] : k \in DOMAIN ss}
<1>1. DOMAIN ffr = 1 .. Len(ffr) /\ Len(ffr) \in Nat /\ DOMAIN FfrRoots = DOMAIN ffr
  BY RegionRootsAre
<1>2. \A k \in DOMAIN ffr : ss[k] = ffr[k].faults /\ W[k] = FfrNodes(FfrRoots[k]) /\ DOMAIN ss = DOMAIN ffr
  OBVIOUS
<1>3. \A k \in DOMAIN ffr : ss[k] \in Seq(Nat) /\ Collects(ss[k], W[k]) /\ W[k] \subseteq DOMAIN node
  <2>1. \A k \in DOMAIN ffr : Collects(ffr[k].faults, FfrNodes(FfrRoots[k]))
    BY DEF FfrDone
  <2>2. \A faults, V : Collects(faults, V) => faults \in Seq(Nat)
    BY DEF Collects
  <2>3. \A root : FfrNodes(root) \subseteq DOMAIN node
    BY DEF FfrNodes
  <2> HIDE DEF ss, W
  <2> QED BY <1>2, <2>1, <2>2, <2>3
<1>4. ss \in Seq(Seq(Nat)) /\ DOMAIN ss = DOMAIN ffr
  <2>1. ss = [k \in 1 .. Len(ffr) |-> ss[k]] /\ \A k \in 1 .. Len(ffr) : ss[k] \in Seq(Nat)
    BY <1>1, <1>3
  <2> QED BY <1>1, <2>1, IndexedType
<1>5. \A j, k \in DOMAIN ffr : j # k => W[j] \cap W[k] = {}
  <2> SUFFICES ASSUME NEW j \in DOMAIN ffr, NEW k \in DOMAIN ffr, j # k, NEW n \in W[j], n \in W[k] PROVE FALSE
    OBVIOUS
  <2>1. FfrRoots[j] = FfrRoots[k]
    BY <1>2 DEF FfrNodes
  <2> QED BY <1>1, <2>1, RegionRootsAre DEF IsInjective
<1>6. C!DataNodes \subseteq U
  <2> SUFFICES ASSUME NEW n \in C!DataNodes PROVE n \in U
    OBVIOUS
  <2>1. n \in DOMAIN node /\ C!FfrRoot(n) \in C!DataNodes
    BY DataAre, DataRegion
  <2>2. C!FfrRoot(n) \in ToSet(FfrRoots)
    BY <2>1, RootStep, RegionRootsAre
  <2>3. PICK k \in DOMAIN ffr : FfrRoots[k] = C!FfrRoot(n)
    BY <1>1, <2>2 DEF ToSet
  <2>4. n \in W[k]
    BY <1>2, <2>1, <2>3 DEF FfrNodes
  <2> QED BY <1>4, <2>4
<1>7. U \subseteq DOMAIN node
  BY <1>3, <1>4
<1> HIDE DEF W, ss
<1>8. Collects(FlattenSeq(ss), U)
  BY ZenonT(60), <1>3, <1>4, <1>5, CollectsAll
<1> HIDE DEF U
<1>9. Collects(FlattenSeq(ss), DOMAIN node)
  <2>1. U \cap C!DataNodes = DOMAIN node \cap C!DataNodes
    BY <1>6, <1>7
  <2> QED BY <1>7, <1>8, <2>1, CollectsData
<1> QED BY <1>9 DEF AllOf, ss

\* Likewise the MFFCs: a node is in that of its last dominator only.
LEMMA AllOfMffcs ==
  ASSUME Proper, Chains, ListsAre, ListsOnce, mffc \in Seq(MffcRecs), Len(mffc) = Len(MffcRoots),
         \A k \in DOMAIN mffc : mffc[k].root = MffcRoots[k] /\ MffcDone(mffc[k])
  PROVE  Collects(AllOf([k \in DOMAIN mffc |-> mffc[k].faults]), DOMAIN node)
<1> DEFINE ss == [k \in DOMAIN mffc |-> mffc[k].faults]
           W == [k \in DOMAIN mffc |-> MffcNodes(MffcRoots[k])]
           U == UNION {W[k] : k \in DOMAIN ss}
<1>1. DOMAIN mffc = 1 .. Len(mffc) /\ Len(mffc) \in Nat /\ DOMAIN MffcRoots = DOMAIN mffc
  BY RegionRootsAre
<1>2. \A k \in DOMAIN mffc : ss[k] = mffc[k].faults /\ W[k] = MffcNodes(MffcRoots[k]) /\ DOMAIN ss = DOMAIN mffc
  OBVIOUS
<1>3. \A k \in DOMAIN mffc : ss[k] \in Seq(Nat) /\ Collects(ss[k], W[k]) /\ W[k] \subseteq DOMAIN node
  BY ZenonT(60), <1>2 DEF MffcDone, Collects, MffcNodes
<1>4. ss \in Seq(Seq(Nat)) /\ DOMAIN ss = DOMAIN mffc
  <2>1. ss = [k \in 1 .. Len(mffc) |-> ss[k]] /\ \A k \in 1 .. Len(mffc) : ss[k] \in Seq(Nat)
    BY <1>1, <1>3
  <2> QED BY <1>1, <2>1, IndexedType
<1>5. \A j, k \in DOMAIN mffc : j # k => W[j] \cap W[k] = {}
  <2> SUFFICES ASSUME NEW j \in DOMAIN mffc, NEW k \in DOMAIN mffc, j # k, NEW n \in W[j], n \in W[k] PROVE FALSE
    OBVIOUS
  <2>1. /\ immDom[MffcRoots[j]] = 0 /\ immDom[MffcRoots[k]] = 0 /\ n \in DOMAIN node
        /\ MffcRoots[j] \in Doms(n) /\ MffcRoots[k] \in Doms(n)
    BY <1>1, <1>2, MffcRoot DEF MffcNodes
  <2>2. MffcRoots[j] = MffcRoots[k]
    BY <2>1, LastDominator
  <2> QED BY <1>1, <2>2, RegionRootsAre DEF IsInjective
<1>6. C!DataNodes \subseteq U
  <2> SUFFICES ASSUME NEW n \in C!DataNodes PROVE n \in U
    OBVIOUS
  <2>1. PICK root \in C!DataNodes : C!FfrRoot(root) = root /\ immDom[root] = 0 /\ n \in MffcNodes(root)
    BY DataCone
  <2>2. root \in ToSet(MffcRoots)
    BY <2>1, RegionRootsAre
  <2>3. PICK k \in DOMAIN mffc : MffcRoots[k] = root
    BY <1>1, <2>2 DEF ToSet
  <2>4. n \in W[k]
    BY <1>2, <2>1, <2>3
  <2> QED BY <1>4, <2>4
<1>7. U \subseteq DOMAIN node
  BY <1>3, <1>4
<1> HIDE DEF W, ss
<1>8. Collects(FlattenSeq(ss), U)
  BY ZenonT(60), <1>3, <1>4, <1>5, CollectsAll
<1> HIDE DEF U
<1>9. Collects(FlattenSeq(ss), DOMAIN node)
  <2>1. U \cap C!DataNodes = DOMAIN node \cap C!DataNodes
    BY <1>6, <1>7
  <2> QED BY <1>7, <1>8, <2>1, CollectsData
<1> QED BY <1>9 DEF AllOf, ss

\* An MFFC consists of the FFRs of the roots it lists.
LEMMA FfrsOfMffc ==
  ASSUME Proper, Chains, ListsAre, ListsOnce, ffr \in Seq(RegionRecs), Len(ffr) = Len(FfrRoots),
         \A k \in DOMAIN ffr : ffr[k].root = FfrRoots[k] /\ FfrDone(ffr[k]),
         NEW m, m.root \in C!DataNodes, immDom[m.root] = 0, MffcDone(m)
  PROVE  SameElements(m.faults, AllOf([k \in DOMAIN m.ffrs |-> FfrOf(m.ffrs[k]).faults]))
<1> DEFINE M == MffcNodes(m.root)
           roots == m.ffrs
           ss == [k \in DOMAIN roots |-> FfrOf(roots[k]).faults]
           W == [k \in DOMAIN roots |-> FfrNodes(roots[k])]
           U == UNION {W[k] : k \in DOMAIN ss}
<1>1. /\ Collects(m.faults, M) /\ roots \in Seq(DOMAIN node) /\ IsInjective(roots)
      /\ ToSet(roots) = {n \in M : C!FfrRoot(n) = n}
  BY DEF MffcDone, MffcLists, RootsIn
<1>2. M \subseteq C!DataNodes /\ M \subseteq DOMAIN node /\ m.root \in DOMAIN node
  BY ConeOfData, DataAre
<1>3. \A n \in DOMAIN node : n \in M <=> C!FfrRoot(n) \in M
  BY <1>2, RegionInCone
<1> HIDE DEF M
<1>4. \A k \in DOMAIN roots : roots[k] \in M /\ C!FfrRoot(roots[k]) = roots[k]
  BY <1>1 DEF ToSet
<1>5. ASSUME NEW root \in M, C!FfrRoot(root) = root
      PROVE  FfrOf(root).faults \in Seq(Nat) /\ Collects(FfrOf(root).faults, FfrNodes(root))
  <2>1. root \in ToSet(FfrRoots)
    BY <1>2, <1>5, RegionRootsAre
  <2>2. DOMAIN FfrRoots = DOMAIN ffr
    BY RegionRootsAre
  <2>3. PICK k \in DOMAIN ffr : ffr[k].root = root
    BY <2>1, <2>2 DEF ToSet
  <2>4. ffr[k] \in ToSet(ffr)
    BY DEF ToSet
  <2>5. FfrOf(root) \in ToSet(ffr) /\ FfrOf(root).root = root
    BY <2>3, <2>4 DEF FfrOf
  <2>6. PICK j \in DOMAIN ffr : ffr[j] = FfrOf(root)
    BY <2>5 DEF ToSet
  <2> QED BY <2>5, <2>6 DEF FfrDone, Collects
<1> HIDE DEF roots
<1>6. \A k \in DOMAIN roots : ss[k] = FfrOf(roots[k]).faults /\ W[k] = FfrNodes(roots[k]) /\ DOMAIN ss = DOMAIN roots
  OBVIOUS
<1>7. \A k \in DOMAIN roots : ss[k] \in Seq(Nat) /\ Collects(ss[k], W[k]) /\ W[k] \subseteq DOMAIN node
  BY <1>4, <1>5, <1>6 DEF FfrNodes
<1>8. ss \in Seq(Seq(Nat)) /\ DOMAIN ss = DOMAIN roots
  <2>1. DOMAIN roots = 1 .. Len(roots) /\ Len(roots) \in Nat
    BY <1>1
  <2>2. ss = [k \in 1 .. Len(roots) |-> ss[k]] /\ \A k \in 1 .. Len(roots) : ss[k] \in Seq(Nat)
    BY <1>7, <2>1
  <2> QED BY <2>1, <2>2, IndexedType
<1>9. \A j, k \in DOMAIN roots : j # k => W[j] \cap W[k] = {}
  <2> SUFFICES ASSUME NEW j \in DOMAIN roots, NEW k \in DOMAIN roots, j # k, NEW n \in W[j], n \in W[k] PROVE FALSE
    OBVIOUS
  <2>1. roots[j] = roots[k]
    BY <1>6 DEF FfrNodes
  <2> QED BY <1>1, <2>1 DEF IsInjective
<1>10. U = M
  <2>1. ASSUME NEW n \in M PROVE n \in U
    <3>1. C!FfrRoot(n) \in ToSet(roots)
      BY <1>1, <1>2, <1>3, RootStep
    <3>2. PICK k \in DOMAIN roots : roots[k] = C!FfrRoot(n)
      BY <3>1 DEF ToSet
    <3>3. n \in W[k]
      BY <1>2, <1>6, <3>2 DEF FfrNodes
    <3> QED BY <1>8, <3>3
  <2>2. ASSUME NEW k \in DOMAIN roots, NEW n \in W[k] PROVE n \in M
    <3>1. n \in DOMAIN node /\ C!FfrRoot(n) = roots[k]
      BY <1>6 DEF FfrNodes
    <3> QED BY <1>3, <1>4, <3>1
  <2> HIDE DEF W
  <2> QED BY <1>8, <2>1, <2>2
<1> HIDE DEF W, ss
<1>11. Collects(FlattenSeq(ss), U)
  BY ZenonT(60), <1>7, <1>8, <1>9, CollectsAll
<1> HIDE DEF U
<1>12. SameElements(m.faults, FlattenSeq(ss))
  BY <1>1, <1>10, <1>11, SameCollected
<1> QED BY <1>12 DEF AllOf, ss, roots

LEMMA PartitionFollows ==
  ASSUME IInv, Collected
  PROVE  FaultsPartitioned
<1> SUFFICES ASSUME pc = "done"
             PROVE  /\ IsInjective(Representatives)
                    /\ SameElements(AllOf([k \in DOMAIN ffr |-> ffr[k].faults]), Representatives)
                    /\ SameElements(AllOf([k \in DOMAIN mffc |-> mffc[k].faults]), Representatives)
                    /\ \A m \in ToSet(mffc) :
                         SameElements(m.faults, AllOf([k \in DOMAIN m.ffrs |-> FfrOf(m.ffrs[k]).faults]))
  BY Zenon DEF FaultsPartitioned
<1>1. /\ Proper /\ Chains /\ ListsAre /\ ListsOnce
      /\ Len(ffr) = Len(FfrRoots) /\ \A k \in DOMAIN ffr : ffr[k].root = FfrRoots[k] /\ FfrDone(ffr[k])
      /\ Len(mffc) = Len(MffcRoots) /\ \A k \in DOMAIN mffc : mffc[k].root = MffcRoots[k] /\ MffcDone(mffc[k])
      /\ ffr \in Seq(RegionRecs) /\ mffc \in Seq(MffcRecs)
  BY RegionsDone
<1>2. Collects(Representatives, DOMAIN node) /\ IsInjective(Representatives)
  BY <1>1, AllRepresentatives DEF Collects
<1>3. SameElements(AllOf([k \in DOMAIN ffr |-> ffr[k].faults]), Representatives)
  BY <1>1, <1>2, AllOfFfrs, SameCollected
<1>4. SameElements(AllOf([k \in DOMAIN mffc |-> mffc[k].faults]), Representatives)
  BY <1>1, <1>2, AllOfMffcs, SameCollected
<1>5. ASSUME NEW m \in ToSet(mffc)
      PROVE  SameElements(m.faults, AllOf([k \in DOMAIN m.ffrs |-> FfrOf(m.ffrs[k]).faults]))
  <2>1. PICK k \in DOMAIN mffc : mffc[k] = m
    BY DEF ToSet
  <2>2. k \in DOMAIN MffcRoots
    BY <1>1, RegionRootsAre
  <2>3. m.root \in C!DataNodes /\ immDom[m.root] = 0 /\ MffcDone(m)
    BY <1>1, <2>1, <2>2, MffcRoot
  <2> QED BY <1>1, <2>3, FfrsOfMffc
<1> QED BY <1>2, <1>3, <1>4, <1>5

\* Every representative fault is in one FFR and in one MFFC, once, and an MFFC has the
\* faults of the FFRs it lists: what set_ffr() and set_mffc() collect is a partition.
THEOREM FaultsArePartitioned == Spec => []FaultsPartitioned
<1>1. IInv /\ Collected => FaultsPartitioned
  BY PartitionFollows
<1> QED BY <1>1, CollectionInvariant, PTL

-----------------------------------------------------------------------------
(* Regions: the nodes lo .. q made for one gate.  Others see only the last  *)
(* of them, so a line in the region that forces the last one is stuck in    *)
(* effect where the last one is.                                            *)

InnerTypes == GateTypes \ {"Input"}
Region(nodes, map, lo, q) ==
  /\ q \in DOMAIN nodes
  /\ \A m \in lo .. q : nodes[m].type \in InnerTypes
  /\ \A n \in DOMAIN nodes : n \notin lo .. q =>
       \A k \in DOMAIN nodes[n].fanin : nodes[n].fanin[k] \notin lo .. q - 1
  /\ \A s \in DOMAIN map : map[s] \notin lo .. q - 1
PinValues(nodes, m, n, p, v, val) ==
  [k \in DOMAIN nodes[m].fanin |-> IF m = n /\ k = p THEN v ELSE val[nodes[m].fanin[k]]]
Solves(nodes, lo, q, n, p, v, val) ==
  /\ \A m \in 1 .. q : val[m] \in {"0", "1"}
  /\ \A m \in lo .. q : val[m] = GateFunction(nodes[m].type, PinValues(nodes, m, n, p, v, val))
Forces(nodes, lo, q, n, p, v, w) == \A val : Solves(nodes, lo, q, n, p, v, val) => val[q] = w

LEMMA FaultyIs ==
  ASSUME Proper, NEW in \in C!Inputs, NEW f, P!IsFault(f)
  PROVE  P!Evaluation(in, f, C!ValuesUnder(in, f))
<1>1. P!Proper /\ in \in [P!PPIs -> P!Bin] /\ f.val \in P!Bin /\ C!ValuesUnder(in, f) = P!ValuesUnder(in, f)
  BY SameOperators, P!InputsAre DEF P!IsFault
<1> QED BY <1>1, P!ValuesSolve

LEMMA SameTests ==
  ASSUME NEW f, NEW h,
         \A in \in C!Inputs : \A n \in C!PPOs : C!ValuesUnder(in, f)[n] = C!ValuesUnder(in, h)[n]
  PROVE  C!TestsOf(f) = C!TestsOf(h)
<1>1. \A in \in C!Inputs : C!Shows(in, f) <=> C!Shows(in, h)
  BY DEF C!Shows
<1> QED BY <1>1 DEF C!TestsOf

LEMMA SiteDecides ==
  ASSUME Proper, NEW f, P!IsFault(f), NEW h, h.node = f.node, h.pos = f.pos, h.val = f.val
  PROVE  C!TestsOf(f) = C!TestsOf(h)
<1> SUFFICES ASSUME NEW in \in C!Inputs PROVE C!ValuesUnder(in, f) = C!ValuesUnder(in, h)
  BY SameTests
<1>1. P!IsFault(h)
  BY DEF P!IsFault
<1>2. P!Evaluation(in, f, C!ValuesUnder(in, f)) /\ P!Evaluation(in, h, C!ValuesUnder(in, h))
  BY <1>1, FaultyIs
<1>3. \A n, v : P!NodeValue(in, f, n, v) = P!NodeValue(in, h, n, v)
  BY DEF P!NodeValue, P!FaninValues
<1>4. P!Evaluation(in, f, C!ValuesUnder(in, h))
  BY <1>2, <1>3 DEF P!Evaluation
<1>5. P!Proper
  BY SameOperators
<1> QED BY <1>2, <1>4, <1>5, P!EvaluationUnique

LEMMA GateComputes ==
  ASSUME NEW type \in InnerTypes, NEW ins
  PROVE  P!Output(type, ins) = GateFunction(type, ins)
<1>1. type \in P!GateTypes /\ type # "Const0" /\ type # "Const1"
  BY DEF InnerTypes, GateTypes, P!GateTypes
<1>2. P!Output(type, ins) = P!GateFunction(type, ins)
  BY <1>1 DEF P!Output
<1>3. \A s, x : P!Some(s, x) <=> Some(s, x)
  BY Zenon DEF P!Some, Some
<1>3a. P!AndOf(ins) = AndOf(ins) /\ P!OrOf(ins) = OrOf(ins)
  BY <1>3 DEF P!AndOf, AndOf, P!OrOf, OrOf
<1>3b. P!XorOf(ins) = XorOf(ins)
  BY Zenon, <1>3 DEF P!XorOf, XorOf, P!Cardinality, Cardinality
<1>4. \A v : P!Complement(v) = Complement(v)
  BY Zenon DEF P!Complement, Complement
<1>5. P!GateFunction(type, ins) = GateFunction(type, ins)
  BY <1>3a, <1>3b, <1>4 DEF P!GateFunction, GateFunction
<1> QED BY <1>2, <1>5

\* A line inside a region that forces the last node of the region has the tests of
\* the stuck output of this node.
LEMMA RegionEquivalent ==
  ASSUME Proper, NEW f, P!IsFault(f), f.pos # 0, NEW r, P!IsFault(r), r.pos = 0, NEW map, NEW lo \in Nat \ {0},
         lo <= f.node, f.node <= r.node, Region(node, map, lo, r.node),
         Forces(node, lo, r.node, f.node, f.pos, f.val, r.val)
  PROVE  C!TestsOf(f) = C!TestsOf(r)
<1> DEFINE q == r.node
<1>1. SUFFICES ASSUME NEW in \in C!Inputs PROVE \A n \in C!PPOs : C!ValuesUnder(in, f)[n] = C!ValuesUnder(in, r)[n]
  BY SameTests
<1>2. PICK u : u = C!ValuesUnder(in, f)
  OBVIOUS
<1>3. PICK w : w = C!ValuesUnder(in, r)
  OBVIOUS
<1>4. P!Evaluation(in, f, u) /\ P!Evaluation(in, r, w)
  BY <1>2, <1>3, FaultyIs
<1>5. P!Proper /\ P!Nodes = DOMAIN node /\ Len(node) \in Nat /\ DOMAIN node = 1 .. Len(node)
  BY SameOperators, P!NodesAre
<1>6. /\ \A n \in DOMAIN node : u[n] \in {"0", "1"} /\ u[n] = P!NodeValue(in, f, n, u)
      /\ \A n \in DOMAIN node : w[n] \in {"0", "1"} /\ w[n] = P!NodeValue(in, r, n, w)
  BY <1>4, <1>5 DEF P!Evaluation, P!Bin
<1>7. /\ f.node \in DOMAIN node /\ q \in DOMAIN node /\ q \in Nat /\ \A m \in 1 .. q : m \in DOMAIN node
      /\ \A m \in lo .. q : m \in 1 .. q
  BY <1>5 DEF P!IsFault
<1>8. Solves(node, lo, q, f.node, f.pos, f.val, u)
  <2>1. ASSUME NEW m \in lo .. q PROVE u[m] = GateFunction(node[m].type, PinValues(node, m, f.node, f.pos, f.val, u))
    <3>1. node[m].type \in InnerTypes
      BY DEF Region
    <3>2. P!FaninValues(f, m, u) = PinValues(node, m, f.node, f.pos, f.val, u)
      BY DEF P!FaninValues, PinValues
    <3>3. node[m].type \notin P!PpiTypes
      BY <3>1 DEF InnerTypes, P!PpiTypes, GateTypes
    <3>4. u[m] = P!Output(node[m].type, P!FaninValues(f, m, u))
      BY <1>6, <1>7, <3>3 DEF P!NodeValue
    <3> QED BY <3>1, <3>2, <3>4, GateComputes
  <2> QED BY <1>6, <1>7, <2>1 DEF Solves
<1>9. u[q] = r.val /\ w[q] = r.val
  <2>1. u[q] = r.val
    BY <1>8 DEF Forces
  <2> QED BY <1>6, <1>7, <2>1 DEF P!NodeValue
<1> DEFINE T == {n \in DOMAIN node : n \notin lo .. q - 1 => u[n] = w[n]}
<1>10. ASSUME NEW n \in DOMAIN node, \A m \in DOMAIN node : m < n => m \in T PROVE n \in T
  <2>1. CASE n \in lo .. q - 1
    BY <2>1
  <2>2. CASE n = q
    BY <1>9, <2>2
  <2>3. CASE n \notin lo .. q
    <3>1. \A k \in DOMAIN node[n].fanin : node[n].fanin[k] \in DOMAIN node /\ node[n].fanin[k] < n
      BY <1>5, P!FaninFacts
    <3>2. \A m \in P!FaninSet(n) : u[m] = w[m]
      BY <1>10, <2>3, <3>1 DEF P!FaninSet, Region
    <3>3. n # f.node /\ n # r.node
      BY <1>5, <1>7, <2>3 DEF P!IsFault
    <3>4. P!NodeValue(in, f, n, u) = P!NodeValue(in, r, n, u)
      BY <3>3 DEF P!NodeValue, P!FaninValues
    <3>5. P!NodeValue(in, r, n, u) = P!NodeValue(in, r, n, w)
      BY <3>2, P!NodeValueDepends
    <3> QED BY <1>6, <3>4, <3>5
  <2>4. n \in lo .. q - 1 \/ n = q \/ n \notin lo .. q
    BY <1>5, <1>7
  <2> QED BY <2>1, <2>2, <2>3, <2>4
<1>11. DOMAIN node \subseteq T
  <2> HIDE DEF T
  <2> QED BY <1>5, <1>10, P!UpInduction
<1>12. ASSUME NEW n \in C!PPOs PROVE u[n] = w[n]
  <2>1. n \in DOMAIN node /\ node[n].type \in C!PpoTypes
    BY DEF C!PPOs
  <2>2. n \notin lo .. q - 1
    BY <1>7, <2>1 DEF Region, InnerTypes, C!PpoTypes, GateTypes
  <2> QED BY <1>11, <2>1, <2>2
<1> QED BY <1>2, <1>3, <1>12

\* The output of a node with one fanout is the line at this fanout.
LEMMA BranchEquivalent ==
  ASSUME Proper, NEW n \in DOMAIN node, Len(fanout[n]) = 1, NEW f, P!IsFault(f), f.node = n, f.pos = 0,
         NEW g, P!IsFault(g), g.node = fanout[n][1], g.pos # 0, node[g.node].fanin[g.pos] = n, g.val = f.val
  PROVE  C!TestsOf(f) = C!TestsOf(g)
<1>1. SUFFICES ASSUME NEW in \in C!Inputs PROVE \A m \in C!PPOs : C!ValuesUnder(in, f)[m] = C!ValuesUnder(in, g)[m]
  BY SameTests
<1>2. PICK u : u = C!ValuesUnder(in, f)
  OBVIOUS
<1>3. PICK w : w = C!ValuesUnder(in, g)
  OBVIOUS
<1>4. P!Evaluation(in, f, u) /\ P!Evaluation(in, g, w)
  BY <1>2, <1>3, FaultyIs
<1>5. P!Proper /\ P!Nodes = DOMAIN node /\ Len(node) \in Nat /\ DOMAIN node = 1 .. Len(node)
  BY SameOperators, P!NodesAre
<1>6. /\ \A m \in DOMAIN node : u[m] = P!NodeValue(in, f, m, u)
      /\ \A m \in DOMAIN node : w[m] = P!NodeValue(in, g, m, w)
  BY <1>4, <1>5 DEF P!Evaluation
<1> DEFINE o == fanout[n][1]
<1>7. /\ o \in DOMAIN node /\ n < o /\ n \notin C!PPOs
      /\ g.pos \in DOMAIN node[o].fanin /\ \A j \in DOMAIN node[o].fanin : node[o].fanin[j] = n => j = g.pos
  <2>1. P!SingleFanout(n)
    BY DEF P!SingleFanout
  <2>2. o \in P!Nodes /\ n < o /\ n \notin P!PPOs
    BY <1>5, <2>1, P!SingleFanoutIs
  <2>3. \E k \in DOMAIN node[o].fanin : \A j \in DOMAIN node[o].fanin : node[o].fanin[j] = n => j = k
    BY <1>5, <2>1, P!SingleFanoutIs
  <2>4. g.pos \in DOMAIN node[o].fanin
    BY DEF P!IsFault
  <2> QED BY <1>5, <2>2, <2>3, <2>4, SameOperators
<1>8. \A m \in DOMAIN node : m # o => n \notin P!FaninSet(m)
  BY <1>5, P!FanoutFacts, P!SingleFanoutIs DEF P!SingleFanout
<1> HIDE DEF o
<1>9. g.node = o
  BY DEF o
<1> DEFINE T == {m \in DOMAIN node : m # n => u[m] = w[m]}
<1>10. ASSUME NEW m \in DOMAIN node, \A l \in DOMAIN node : l < m => l \in T PROVE m \in T
  <2>1. \A k \in DOMAIN node[m].fanin : node[m].fanin[k] \in DOMAIN node /\ node[m].fanin[k] < m
    BY <1>5, P!FaninFacts
  <2>2. CASE m # n /\ m # o
    <3>1. \A l \in P!FaninSet(m) : u[l] = w[l]
      BY <1>8, <1>10, <2>1, <2>2 DEF P!FaninSet
    <3>2. P!NodeValue(in, f, m, u) = P!NodeValue(in, g, m, u)
      BY <1>9, <2>2 DEF P!NodeValue, P!FaninValues
    <3>3. P!NodeValue(in, g, m, u) = P!NodeValue(in, g, m, w)
      BY <3>1, P!NodeValueDepends
    <3> QED BY <1>6, <3>2, <3>3
  <2>3. CASE m = o
    <3>1. u[n] = f.val
      BY <1>6 DEF P!NodeValue
    <3>2. \A k \in DOMAIN node[o].fanin : k # g.pos => u[node[o].fanin[k]] = w[node[o].fanin[k]]
      BY <1>7, <1>10, <2>1, <2>3
    <3>3. P!FaninValues(f, o, u) = P!FaninValues(g, o, w)
      <4>1. f.node # o /\ g.node = o /\ node[o].fanin[g.pos] = n
        BY <1>5, <1>7, <1>9
      <4>2. \A k \in DOMAIN node[o].fanin :
              (IF f.node = o /\ f.pos = k THEN f.val ELSE u[node[o].fanin[k]])
                = (IF g.node = o /\ g.pos = k THEN g.val ELSE w[node[o].fanin[k]])
        BY <3>1, <3>2, <4>1
      <4> QED BY <4>2 DEF P!FaninValues
    <3>4. node[o].type \notin P!PpiTypes
      BY <1>5, <1>7, P!FaninFacts DEF P!NoFanin
    <3> QED BY <1>6, <1>7, <1>9, <2>3, <3>3, <3>4, <1>5 DEF P!NodeValue
  <2> QED BY <2>2, <2>3
<1>11. DOMAIN node \subseteq T
  <2> HIDE DEF T
  <2> QED BY <1>5, <1>10, P!UpInduction
<1> QED BY <1>2, <1>3, <1>7, <1>11 DEF C!PPOs

-----------------------------------------------------------------------------
(* The representatives: the faults of a node and what they are linked to.   *)

\* A fault a at an input of a gate that forces its output, at which the fault b is.
Covers(nodes, map, a, b) ==
  \E lo \in Nat \ {0} :
    /\ lo <= a.node /\ a.node <= b.node /\ a.pos \in DOMAIN nodes[a.node].fanin
    /\ Region(nodes, map, lo, b.node)
    /\ Forces(nodes, lo, b.node, a.node, a.pos, a.val, b.val)

SitesOnce(faults) ==
  \A f, g \in DOMAIN faults :
    faults[f].node = faults[g].node /\ faults[f].pos = faults[g].pos /\ faults[f].val = faults[g].val => f = g
PinExists(nodes, a) == a.pos = 0 \/ a.pos \in DOMAIN nodes[a.node].fanin
\* A fault that is made with a representative is one that forces the output of its gate.
Original(nodes, map, faults, f) ==
  /\ PinExists(nodes, faults[f])
  /\ faults[f].pos = 0 => faults[f].rep = 0
  /\ faults[f].rep # 0 => /\ faults[faults[f].rep].pos = 0
                          /\ Covers(nodes, map, faults[f], faults[faults[f].rep])

\* There is one fault at a site at most.
LEMMA FaultAtIs ==
  ASSUME SitesOnce(fault), NEW f \in DOMAIN fault
  PROVE  FaultAt(fault[f].node, fault[f].pos, fault[f].val) = f
<1> DEFINE here == {g \in DOMAIN fault : /\ fault[g].node = fault[f].node /\ fault[g].pos = fault[f].pos
                                         /\ fault[g].val = fault[f].val}
<1>1. here = {f}
  BY DEF SitesOnce
<1>2. FaultAt(fault[f].node, fault[f].pos, fault[f].val) = IF here = {} THEN 0 ELSE CHOOSE g \in here : TRUE
  BY DEF FaultAt
<1> HIDE DEF here
<1>3. (CHOOSE g \in here : TRUE) \in here
  BY <1>1, Zenon
<1> QED BY <1>1, <1>2, <1>3

\* set_rep_faults() comes across every fault of a node.
LEMMA FaultsOfAll ==
  ASSUME Faulted(node, fault), SitesOnce(fault), NEW f \in DOMAIN fault, PinExists(node, fault[f]),
         node \in Seq(NodeRecs), fault[f].node \in DOMAIN node
  PROVE  f \in ToSet(FaultsOf(fault[f].node))
<1> DEFINE n == fault[f].node
           l == Len(node[n].fanin)
           q == fault[f].pos + 1
           Q == 0 .. Len(fault)
           ss == [p \in 1 .. l + 1 |-> <<FaultAt(n, p - 1, "0"), FaultAt(n, p - 1, "1")>>]
           S == DOMAIN fault
<1>1. /\ fault \in Seq(FaultRecs(Len(node), Len(fault))) /\ l \in Nat /\ DOMAIN node[n].fanin = 1 .. l
      /\ fault[f].pos \in Nat /\ fault[f].val \in {"0", "1"}
  <2>1. node[n] \in NodeRecs
    OBVIOUS
  <2>2. node[n].fanin \in Seq(Nat)
    BY <2>1 DEF NodeRecs
  <2>3. fault \in Seq(FaultRecs(Len(node), Len(fault)))
    BY DEF Faulted
  <2>4. fault[f] \in FaultRecs(Len(node), Len(fault))
    BY <2>3
  <2> QED BY <2>2, <2>3, <2>4 DEF FaultRecs
<1>2. FaultsOf(n) = Within(FlattenSeq(ss), S)
  BY Zenon DEF FaultsOf
<1>3. q \in 1 .. l + 1 /\ q - 1 = fault[f].pos
  <2>1. fault[f].pos = 0 \/ fault[f].pos \in 1 .. l
    BY <1>1 DEF PinExists
  <2> QED BY <1>1, <2>1
<1>4. ss[q] = <<FaultAt(n, fault[f].pos, "0"), FaultAt(n, fault[f].pos, "1")>>
  BY <1>3
<1> HIDE DEF l, S
<1>5. \A p \in 1 .. l + 1 : ss[p] \in Seq(Q)
  <2> TAKE p \in 1 .. l + 1
  <2> DEFINE a == FaultAt(n, p - 1, "0")
             b == FaultAt(n, p - 1, "1")
  <2>1. a \in Q /\ b \in Q
    BY <1>1, FaultAtFacts
  <2>2. ss[p] = <<a, b>>
    OBVIOUS
  <2> HIDE DEF a, b, ss, Q
  <2> QED BY <2>1, <2>2
<1>6. ss \in Seq(Seq(Q)) /\ DOMAIN ss = 1 .. l + 1
  <2>1. ss = [p \in 1 .. l + 1 |-> ss[p]] /\ l + 1 \in Nat
    BY <1>1
  <2> HIDE DEF ss, Q
  <2> QED BY <1>5, <2>1, IndexedType
<1>7. f \in ToSet(ss[q])
  <2>1. FaultAt(n, fault[f].pos, fault[f].val) = f
    BY FaultAtIs
  <2> DEFINE a == FaultAt(n, fault[f].pos, "0")
             b == FaultAt(n, fault[f].pos, "1")
  <2>2. a = f \/ b = f
    BY <1>1, <2>1
  <2>3. ss[q] = <<a, b>>
    BY <1>4
  <2> HIDE DEF a, b, ss, q
  <2>4. ToSet(ss[q]) = {a, b}
    BY <2>3 DEF ToSet
  <2> QED BY <2>2, <2>4
<1> HIDE DEF ss, Q, q
<1>8. FlattenSeq(ss) \in Seq(Q) /\ ToSet(FlattenSeq(ss)) = UNION {ToSet(ss[k]) : k \in DOMAIN ss}
  BY <1>6, FlattenFacts
<1>9. ToSet(Within(FlattenSeq(ss), S)) = ToSet(FlattenSeq(ss)) \cap S
  BY <1>8, WithinFacts
<1>10. f \in ToSet(FlattenSeq(ss))
  BY <1>3, <1>6, <1>7, <1>8
<1> QED BY <1>2, <1>9, <1>10 DEF S

\* The fault of the branch, if there is one, is at a pin that the node feeds.
LEMMA BranchOfFacts ==
  ASSUME Proper, fault \in Seq(FaultRecs(Len(node), Len(fault))), NEW n \in DOMAIN node, Len(fanout[n]) = 1,
         NEW v, NEW g, g = BranchOf(n, v), g # 0
  PROVE  /\ g \in DOMAIN fault /\ fault[g].node = fanout[n][1] /\ fault[g].val = v
         /\ fault[g].pos # 0 /\ fault[g].pos \in DOMAIN node[fanout[n][1]].fanin
         /\ node[fanout[n][1]].fanin[fault[g].pos] = n
<1> DEFINE o == fanout[n][1]
           s == node[o].fanin
           I == {k \in 1 .. Len(s) : s[k] = n}
           p == SelectInSeq(s, LAMBDA m : m = n)
<1>1. DOMAIN fanout[n] = {1} /\ o \in DOMAIN node
  BY NetworkFacts
<1>2. \E k \in DOMAIN s : s[k] = n
  <2>1. \E k \in DOMAIN fanout[n] : fanout[n][k] = o
    BY <1>1
  <2> HIDE DEF o
  <2> QED BY <1>1, <2>1 DEF Proper, C!ProperNetwork
<1>3. s \in Seq(1 .. o - 1)
  BY <1>1 DEF Proper, C!ProperNetwork
<1>4. DOMAIN s = 1 .. Len(s) /\ Len(s) \in Nat
  BY <1>3
<1>5. p = IF I # {} THEN Min(I) ELSE 0
  BY DEF SelectInSeq
<1>6. Min(I) = CHOOSE x \in I : \A y \in I : x <= y
  BY DEF Min
<1>7. I # {} /\ I \subseteq Nat
  BY <1>2, <1>4
<1>8. \E x \in I : \A y \in I : x <= y
  <2> HIDE DEF I
  <2>1. \A T : T \subseteq Nat /\ T # {} => \E x \in T : \A y \in T : x <= y
    BY P!NatLeast
  <2> QED BY <1>7, <2>1
<1>9. p \in I
  <2> HIDE DEF I, p
  <2> QED BY <1>5, <1>6, <1>7, <1>8
<1>10. p \in DOMAIN s /\ s[p] = n /\ p # 0
  BY <1>4, <1>9
<1>11. g = FaultAt(o, p, v)
  BY Zenon DEF BranchOf
<1> HIDE DEF p, s, o
<1>12. g \in DOMAIN fault /\ fault[g].node = o /\ fault[g].pos = p /\ fault[g].val = v
  <2>1. g \in 0 .. Len(fault) /\ DOMAIN fault = 1 .. Len(fault) /\ Len(fault) \in Nat
    BY <1>11, FaultAtFacts
  <2>2. g \in DOMAIN fault
    BY <2>1
  <2> QED BY <1>11, <2>2, FaultAtFacts
<1> QED BY <1>10, <1>12 DEF s, o

LEMMA RelabelAt ==
  ASSUME NEW n, NEW m, NEW of \in Seq(FaultRecs(n, m)), NEW S, NEW rep, NEW f \in DOMAIN of
  PROVE  /\ f \notin S => Relabel(of, S, rep)[f] = of[f]
         /\ f \in S => Relabel(of, S, rep)[f].rep = rep[f]
<1>1. Relabel(of, S, rep)[f] = IF f \in S THEN [of[f] EXCEPT !.rep = rep[f]] ELSE of[f]
  BY DEF Relabel
<1>2. of[f] \in FaultRecs(n, m)
  <2> DEFINE A == FaultRecs(n, m)
  <2>1. of \in Seq(A)
    OBVIOUS
  <2> HIDE DEF A
  <2> QED BY <2>1 DEF A
<1> QED BY <1>1, <1>2 DEF FaultRecs

\* What the step of node n does to the faults: those of other nodes stay, those linked to
\* none represent themselves, others have the representative of the one they are linked to.
Representing(n, old, new, lists) ==
  /\ DOMAIN new = DOMAIN old
  /\ \A f \in DOMAIN old : new[f].node = old[f].node /\ new[f].pos = old[f].pos /\ new[f].val = old[f].val
  /\ \A f \in DOMAIN old : old[f].node # n => new[f] = old[f]
  /\ \A f \in DOMAIN old : old[f].node = n =>
       LET l == Linked(n, f)
       IN  /\ l = 0 => new[f].rep = f /\ (f \in ToSet(FaultsOf(n)) => f \in ToSet(lists[n]))
           /\ l # 0 /\ l \in DOMAIN old /\ (old[l].node # n \/ (old[f].pos # 0 /\ old[l].pos = 0)) => new[f].rep = new[l].rep
LEMMA RepFaultsAre ==
  ASSUME Building, ListsAre, SetRepFaults, FromLast \in C!DataNodes
  PROVE  /\ Representing(FromLast, fault, fault', repList')
         /\ \A m \in DOMAIN node : m # FromLast => repList'[m] = repList[m]
<1> DEFINE n == FromLast
           l == Len(fault)
           A == FaultRecs(Len(node), l)
           D == DOMAIN fault
           here == {f \in D : fault[f].node = n}
           Rep(f, of) == IF Linked(n, f) = 0 THEN f ELSE of[Linked(n, f)].rep
           S == {f \in here : fault[f].pos = 0}
           T == {f \in here : fault[f].pos > 0}
           none == {f \in here : Linked(n, f) = 0}
           rep1 == [f \in D |-> Rep(f, fault)]
           fault1 == Relabel(fault, S, rep1)
           rep2 == [f \in D |-> Rep(f, fault1)]
           fault2 == Relabel(fault1, T, rep2)
           list == Within(FaultsOf(n), none)
<1>1. Faulted(node, fault) /\ fault \in Seq(A) /\ node \in Seq(NodeRecs)
  BY DEF Building, Wired, Faulted
<1>2. l \in Nat /\ D = 1 .. l /\ \A f \in D : fault[f].pos \in Nat
  <2>1. l \in Nat /\ D = 1 .. l /\ \A f \in D : fault[f] \in A
    <3> HIDE DEF A
    <3> QED BY <1>1
  <2> QED BY <2>1 DEF FaultRecs
<1>3. n \in DOMAIN node
  BY DEF SetRepFaults
<1>4. \A f \in D : Linked(n, f) \in 0 .. l
  BY <1>1, LinkedType
<1>5. ASSUME NEW of \in Seq(A), Len(of) = l, NEW f \in D PROVE Rep(f, of) \in 0 .. l
  <2>1. DOMAIN of = D
    BY <1>2, <1>5
  <2>2. CASE Linked(n, f) = 0
    BY <1>2, <2>2
  <2>3. CASE Linked(n, f) # 0
    <3>1. Linked(n, f) \in D
      BY <1>2, <1>4, <2>3
    <3>2. of[Linked(n, f)] \in A
      <4> HIDE DEF A, D, n
      <4> QED BY <1>5, <2>1, <3>1
    <3> QED BY <2>3, <3>2 DEF FaultRecs
  <2> QED BY <2>2, <2>3
<1>6. fault1 \in Seq(A) /\ SameSites(fault, fault1) /\ \A f \in D : fault1[f].val = fault[f].val
  <2>1. \A f \in S \cap DOMAIN fault : rep1[f] \in 0 .. l
    BY <1>1, <1>5
  <2> HIDE DEF S, rep1, l
  <2> QED BY <1>1, <2>1, RelabelFacts
<1>7. DOMAIN fault1 = D /\ Len(fault1) = l
  BY <1>6 DEF SameSites
<1>8. SameSites(fault1, fault2) /\ \A f \in D : fault2[f].val = fault1[f].val
  <2>1. \A f \in T \cap DOMAIN fault1 : rep2[f] \in 0 .. l
    BY SMTT(40), <1>5, <1>6, <1>7
  <2> HIDE DEF fault1, T, rep2, l, D
  <2> QED BY <1>6, <1>7, <2>1, RelabelFacts
<1>9. \A f \in D : /\ f \notin S => fault1[f] = fault[f]
                   /\ f \in S => fault1[f].rep = rep1[f]
  <2> HIDE DEF S, rep1, l, A
  <2> QED BY <1>1, RelabelAt DEF A
<1>10. \A f \in D : /\ f \notin T => fault2[f] = fault1[f]
                    /\ f \in T => fault2[f].rep = rep2[f]
  <2> HIDE DEF T, rep2, l, A, fault1, D
  <2> QED BY <1>6, <1>7, RelabelAt DEF A
<1>11. fault1 = [f \in D |-> IF f \in S THEN [fault[f] EXCEPT !.rep = Rep(f, fault)] ELSE fault[f]]
  <2> DEFINE rhs == [f \in D |-> IF f \in S THEN [fault[f] EXCEPT !.rep = Rep(f, fault)] ELSE fault[f]]
  <2>1. fault1 = [f \in D |-> IF f \in S THEN [fault[f] EXCEPT !.rep = rep1[f]] ELSE fault[f]]
    BY Zenon DEF Relabel
  <2>2. \A f \in D : rep1[f] = Rep(f, fault)
    OBVIOUS
  <2> QED BY <2>1, <2>2, Zenon
<1>12. fault' = fault2 /\ repList' = [repList EXCEPT ![n] = list]
  <2>1. fault2 = [f \in DOMAIN fault1 |-> IF f \in T THEN [fault1[f] EXCEPT !.rep = Rep(f, fault1)] ELSE fault1[f]]
    <3>1. fault2 = [f \in DOMAIN fault1 |-> IF f \in T THEN [fault1[f] EXCEPT !.rep = rep2[f]] ELSE fault1[f]]
      BY Zenon DEF Relabel
    <3>2. \A f \in DOMAIN fault1 : rep2[f] = Rep(f, fault1)
      BY SMTT(40), <1>7
    <3> HIDE DEF fault1, rep2
    <3> QED BY <3>1, <3>2, Zenon
  <2> HIDE DEF fault1, fault2
  <2> QED BY <1>11, <2>1, Zenon DEF SetRepFaults
<1>13. repList'[n] = list /\ \A m \in DOMAIN node : m # n => repList'[m] = repList[m]
  <2> HIDE DEF list, n
  <2> QED BY <1>3, <1>12 DEF ListsAre
<1>14. ToSet(list) = ToSet(FaultsOf(n)) \cap none
  <2>1. Len(node[n].fanin) \in Nat
    BY <1>1, <1>3 DEF NodeRecs
  <2>2. FaultsOf(n) \in Seq(0 .. l)
    BY <1>1, <1>3, <2>1, FaultsOfFacts
  <2> HIDE DEF none
  <2> QED BY <2>2, WithinFacts
<1>15. \A f \in D : rep1[f] = Rep(f, fault) /\ rep2[f] = Rep(f, fault1)
  <2> HIDE DEF fault1
  <2> QED OBVIOUS
<1> DEFINE New == fault'
           K == repList'
<1>16. New = fault2 /\ K[n] = list
  BY <1>12, <1>13
<1>17. DOMAIN fault2 = D /\ \A f \in D : /\ fault2[f].node = fault[f].node /\ fault2[f].pos = fault[f].pos
                                          /\ fault2[f].val = fault[f].val
  <2> HIDE DEF fault1, fault2
  <2> QED BY <1>6, <1>7, <1>8 DEF SameSites
<1> HIDE DEF fault2, fault1, New, K, list, rep1, rep2, n
<1>18. ASSUME NEW f \in D, fault[f].node = n, NEW k, k = Linked(n, f), k = 0
       PROVE  New[f].rep = f /\ (f \in ToSet(FaultsOf(n)) => f \in ToSet(K[n]))
  <2>1. f \in S \/ f \in T
    BY <1>2, <1>18
  <2>2. f \in S => f \notin T
    OBVIOUS
  <2>3. rep1[f] = f /\ rep2[f] = f
    BY <1>15, <1>18
  <2>4. f \in none
    BY <1>18
  <2> QED BY <1>9, <1>10, <1>14, <1>16, <2>1, <2>2, <2>3, <2>4
<1>19. ASSUME NEW f \in D, fault[f].node = n, NEW k, k = Linked(n, f), k # 0, k \in D,
              fault[k].node # n \/ (fault[f].pos # 0 /\ fault[k].pos = 0)
       PROVE  New[f].rep = New[k].rep
  <2>1. k \notin T
    BY <1>19
  <2>2. New[k] = fault1[k]
    BY <1>10, <1>16, <1>19, <2>1
  <2>3. CASE fault[f].pos = 0
    <3>1. f \in S /\ f \notin T /\ k \notin S
      BY <1>19, <2>3
    <3>2. rep1[f] = fault[k].rep
      BY <1>15, <1>19
    <3> QED BY <1>9, <1>10, <1>16, <1>19, <2>2, <3>1, <3>2
  <2>4. CASE fault[f].pos # 0
    <3>1. f \in T
      BY <1>2, <1>19, <2>4
    <3>2. rep2[f] = fault1[k].rep
      BY <1>15, <1>19
    <3> QED BY <1>10, <1>16, <2>2, <3>1, <3>2
  <2> QED BY <2>3, <2>4
<1>20. \A f \in D : fault[f].node # n => New[f] = fault[f]
  <2>1. \A f \in D : fault[f].node # n => f \notin S /\ f \notin T
    OBVIOUS
  <2> QED BY <1>9, <1>10, <1>16, <2>1
<1>21. Representing(n, fault, New, K)
  BY <1>16, <1>17, <1>18, <1>19, <1>20, Zenon DEF Representing
<1> QED BY <1>13, <1>21, Zenon DEF New, K, n

-----------------------------------------------------------------------------
(* Every fault whose node is done has a representative.                    *)

RepresentedIn(faults, lists, f) ==
  LET r == faults[f].rep
  IN  /\ r \in DOMAIN faults /\ faults[r].rep = r /\ r \in ToSet(lists[faults[r].node])
      /\ faults[f].node <= faults[r].node
      /\ C!TestsOf(faults[r]) = C!TestsOf(faults[f])

LEMMA DataLeads ==
  ASSUME Proper
  PROVE  /\ C!DataNodes \subseteq DOMAIN node
         /\ \A m \in C!DataNodes : m \in C!PPOs \/ \E o \in P!FanoutSet(m) : o \in C!DataNodes
<1>1. P!DataNodes = C!DataNodes
  BY DEF P!DataNodes, C!DataNodes, P!Tfi, C!Tfi, P!PPOs, C!PPOs, P!FaninSet, C!FaninSet, P!PpoTypes, C!PpoTypes
<1> QED BY <1>1, P!DataFacts, SameOperators

\* From a node of a gate's region that leads to an output, the way is through its root.
LEMMA RootIsData ==
  ASSUME Proper, NEW map, NEW lo \in Nat \ {0}, NEW q, Region(node, map, lo, q),
         NEW n \in C!DataNodes, lo <= n, n <= q
  PROVE  q \in C!DataNodes
<1>1. P!Proper /\ P!Nodes = DOMAIN node /\ DOMAIN node = 1 .. Len(node) /\ Len(node) \in Nat
  BY SameOperators, NetworkFacts
<1>2. /\ C!DataNodes \subseteq DOMAIN node
      /\ \A m \in C!DataNodes : m \in C!PPOs \/ \E o \in P!FanoutSet(m) : o \in C!DataNodes
  BY DataLeads
<1>3. q \in DOMAIN node
  BY DEF Region
<1> DEFINE Q == C!DataNodes \cap lo .. q
<1>4. Q \subseteq P!Nodes /\ n \in Q
  BY <1>1, <1>2, <1>3
<1>5. PICK x \in Q : \A y \in Q : ~ (x < y)
  <2> HIDE DEF Q
  <2>1. Q # {}
    BY <1>4
  <2> QED BY <1>1, <1>4, <2>1, P!Greatest
<1>6. x \in Nat /\ q \in Nat /\ x \in C!DataNodes /\ x \in lo .. q /\ x \in DOMAIN node
  BY <1>1, <1>2, <1>3, <1>5
<1>7. CASE x = q
  BY <1>6, <1>7
<1>8. CASE x # q
  <2>1. x \in lo .. q - 1
    BY <1>6, <1>8
  <2>2. x \notin C!PPOs
    <3>1. node[x].type \in InnerTypes
      BY <1>6 DEF Region
    <3> QED BY <3>1 DEF InnerTypes, GateTypes, C!PPOs, C!PpoTypes
  <2>3. PICK o \in P!FanoutSet(x) : o \in C!DataNodes
    BY <1>2, <1>6, <2>2
  <2>4. PICK k \in DOMAIN fanout[x] : o = fanout[x][k]
    BY <2>3 DEF P!FanoutSet
  <2>5. o \in DOMAIN node /\ x < o
    BY <1>6, <2>4, NetworkFacts
  <2>6. \E j \in DOMAIN node[o].fanin : node[o].fanin[j] = x
    <3>1. \E j \in DOMAIN fanout[x] : fanout[x][j] = o
      BY <2>4
    <3> HIDE DEF Q
    <3> QED BY <1>6, <2>5, <3>1 DEF Proper, C!ProperNetwork
  <2>7. o \in lo .. q
    BY <2>1, <2>5, <2>6 DEF Region
  <2>8. o \in Q
    BY <2>3, <2>7
  <2> QED BY <1>5, <2>5, <2>8
<1> QED BY <1>7, <1>8

LEMMA FaultsAreFaults ==
  ASSUME Proper, Faulted(node, fault), NEW f \in DOMAIN fault, PinExists(node, fault[f])
  PROVE  P!IsFault(fault[f]) /\ fault[f].node \in DOMAIN node /\ fault[f].node \in Nat /\ fault[f].rep \in 0 .. Len(fault)
<1> DEFINE A == FaultRecs(Len(node), Len(fault))
<1>1. fault \in Seq(A)
  BY DEF Faulted
<1>2. fault[f] \in A
  <2> HIDE DEF A
  <2> QED BY <1>1
<1>3. P!Nodes = DOMAIN node /\ DOMAIN node = 1 .. Len(node) /\ Len(node) \in Nat
  BY SameOperators, NetworkFacts
<1> QED BY <1>2, <1>3 DEF FaultRecs, P!IsFault, P!Bin, PinExists

\* What set_rep_faults() relies on when it comes to node n, and what it leaves.
Awaiting(n) ==
  /\ Proper /\ Faulted(node, fault) /\ node \in Seq(NodeRecs) /\ SitesOnce(fault)
  /\ \A f \in DOMAIN fault : PinExists(node, fault[f])
  /\ \A f \in DOMAIN fault : fault[f].node = n => Original(node, nodeMap, fault, f)
  /\ \A f \in DOMAIN fault : fault[f].node \in C!DataNodes /\ fault[f].node > n => RepresentedIn(fault, repList, f)
LEMMA RepsGiven ==
  ASSUME NEW n \in C!DataNodes, Awaiting(n),
         NEW new, NEW lists, Representing(n, fault, new, lists),
         \A m \in DOMAIN node : m # n => lists[m] = repList[m]
  PROVE  \A f \in DOMAIN fault : fault[f].node \in C!DataNodes /\ fault[f].node >= n => RepresentedIn(new, lists, f)
<1>1. Proper /\ Faulted(node, fault) /\ node \in Seq(NodeRecs) /\ SitesOnce(fault)
  BY Zenon DEF Awaiting
<1>2. \A f \in DOMAIN fault : /\ P!IsFault(fault[f]) /\ fault[f].node \in DOMAIN node /\ fault[f].node \in Nat
                              /\ fault[f].rep \in 0 .. Len(fault)
  BY <1>1, FaultsAreFaults DEF Awaiting
<1>3. P!Proper /\ P!Nodes = DOMAIN node /\ DOMAIN node = 1 .. Len(node) /\ Len(node) \in Nat
  BY <1>1, SameOperators, NetworkFacts
<1>4. /\ C!DataNodes \subseteq DOMAIN node
      /\ \A m \in C!DataNodes : m \in C!PPOs \/ \E o \in P!FanoutSet(m) : o \in C!DataNodes
  BY <1>1, DataLeads
<1>5. n \in DOMAIN node /\ n \in Nat
  BY <1>3, <1>4
<1>6. /\ DOMAIN new = DOMAIN fault
      /\ \A f \in DOMAIN fault : new[f].node = fault[f].node /\ new[f].pos = fault[f].pos /\ new[f].val = fault[f].val
      /\ \A f \in DOMAIN fault : fault[f].node # n => new[f] = fault[f]
  BY Zenon DEF Representing
<1>7. \A f \in DOMAIN fault : C!TestsOf(new[f]) = C!TestsOf(fault[f])
  <2> TAKE f \in DOMAIN fault
  <2>1. PICK a : a = fault[f]
    OBVIOUS
  <2>2. PICK b : b = new[f]
    OBVIOUS
  <2>3. P!IsFault(a) /\ b.node = a.node /\ b.pos = a.pos /\ b.val = a.val
    BY <1>2, <1>6, <2>1, <2>2
  <2>4. C!TestsOf(a) = C!TestsOf(b)
    BY <1>1, <2>3, SiteDecides
  <2> QED BY <2>1, <2>2, <2>4
<1>8. \A f \in DOMAIN fault : fault[f].node = n => Original(node, nodeMap, fault, f)
  BY Zenon DEF Awaiting
<1>9. ASSUME NEW f \in DOMAIN fault, fault[f].node = n, NEW k, k = Linked(n, f)
      PROVE  /\ k = 0 => new[f].rep = f /\ (f \in ToSet(FaultsOf(n)) => f \in ToSet(lists[n]))
             /\ k # 0 /\ k \in DOMAIN fault /\ (fault[k].node # n \/ (fault[f].pos # 0 /\ fault[k].pos = 0)) => new[f].rep = new[k].rep
  BY Zenon, <1>9 DEF Representing
<1>10. ASSUME NEW f \in DOMAIN fault, fault[f].node \in C!DataNodes, fault[f].node > n
       PROVE  RepresentedIn(new, lists, f)
  <2>1. RepresentedIn(fault, repList, f)
    BY <1>10 DEF Awaiting
  <2>2. PICK r : r = fault[f].rep
    OBVIOUS
  <2>3. /\ r \in DOMAIN fault /\ fault[r].rep = r /\ r \in ToSet(repList[fault[r].node])
        /\ fault[f].node <= fault[r].node /\ C!TestsOf(fault[r]) = C!TestsOf(fault[f])
    BY <2>1, <2>2, Zenon DEF RepresentedIn
  <2>4. fault[r].node # n /\ fault[f].node # n
    BY <1>2, <1>5, <1>10, <2>3
  <2>5. new[r] = fault[r] /\ new[f] = fault[f]
    BY <1>6, <2>3, <2>4
  <2>6. lists[fault[r].node] = repList[fault[r].node]
    BY <1>2, <2>3, <2>4
  <2>7. /\ new[f].rep = r /\ r \in DOMAIN new /\ new[r].rep = r /\ r \in ToSet(lists[new[r].node])
        /\ new[f].node <= new[r].node /\ C!TestsOf(new[r]) = C!TestsOf(new[f])
    BY <1>6, <2>2, <2>3, <2>5, <2>6
  <2> QED BY <2>7, Zenon DEF RepresentedIn
<1>11. ASSUME NEW f \in DOMAIN fault, NEW k \in DOMAIN fault, RepresentedIn(new, lists, k), new[f].rep = new[k].rep,
              fault[f].node <= fault[k].node, C!TestsOf(fault[f]) = C!TestsOf(fault[k])
       PROVE  RepresentedIn(new, lists, f)
  <2>1. PICK r : r = new[k].rep
    OBVIOUS
  <2>2. /\ r \in DOMAIN new /\ new[r].rep = r /\ r \in ToSet(lists[new[r].node])
        /\ new[k].node <= new[r].node /\ C!TestsOf(new[r]) = C!TestsOf(new[k])
    BY <1>11, <2>1, Zenon DEF RepresentedIn
  <2>3. new[f].node <= new[r].node
    BY <1>2, <1>6, <1>11, <2>2
  <2>4. C!TestsOf(new[r]) = C!TestsOf(new[f])
    BY <1>7, <1>11, <2>2
  <2>5. new[f].rep = r
    BY <1>11, <2>1
  <2> QED BY <2>2, <2>3, <2>4, <2>5, Zenon DEF RepresentedIn
<1>12. ASSUME NEW f \in DOMAIN fault, fault[f].node = n, Linked(n, f) = 0
       PROVE  RepresentedIn(new, lists, f)
  <2>1. f \in ToSet(FaultsOf(n))
    <3>1. PinExists(node, fault[f])
      BY DEF Awaiting
    <3> QED BY <1>1, <1>5, <1>12, <3>1, FaultsOfAll
  <2>2. new[f].rep = f /\ f \in ToSet(lists[n])
    BY <1>9, <1>12, <2>1
  <2>3. f \in DOMAIN new /\ new[f].node = n
    BY <1>6, <1>12
  <2>4. new[f].node <= new[f].node
    BY <1>5, <2>3
  <2> QED BY <2>2, <2>3, <2>4 DEF RepresentedIn
<1>13. ASSUME NEW f \in DOMAIN fault, fault[f].node = n, fault[f].pos = 0
       PROVE  RepresentedIn(new, lists, f)
  <2>1. PICK k : k = Linked(n, f)
    OBVIOUS
  <2>2. CASE k = 0
    BY <1>12, <1>13, <2>1, <2>2
  <2>3. CASE k # 0
    <3>1. fault[f].rep = 0
      BY <1>8, <1>13 DEF Original
    <3>2. Len(fanout[n]) = 1 /\ k = BranchOf(n, fault[f].val)
      BY <1>13, <2>1, <2>3, <3>1, Zenon DEF Linked
    <3>3. fault \in Seq(FaultRecs(Len(node), Len(fault)))
      BY <1>1 DEF Faulted
    <3>4. /\ k \in DOMAIN fault /\ fault[k].node = fanout[n][1] /\ fault[k].val = fault[f].val
          /\ fault[k].pos # 0 /\ fault[k].pos \in DOMAIN node[fanout[n][1]].fanin
          /\ node[fanout[n][1]].fanin[fault[k].pos] = n
      BY <1>1, <1>5, <2>3, <3>2, <3>3, BranchOfFacts
    <3>5. DOMAIN fanout[n] = {1} /\ fanout[n] # << >> /\ n < fanout[n][1] /\ n \notin C!PPOs
      BY <1>1, <1>5, <3>2, NetworkFacts
    <3>6. fault[k].node \in C!DataNodes
      BY <1>4, <3>4, <3>5 DEF P!FanoutSet
    <3>7. fault[k].node > n
      BY <1>2, <1>5, <3>4, <3>5
    <3>8. RepresentedIn(new, lists, k)
      BY <1>10, <3>4, <3>6, <3>7
    <3>9. new[f].rep = new[k].rep
      BY <1>2, <1>5, <1>9, <1>13, <2>1, <2>3, <3>4, <3>7
    <3>10. C!TestsOf(fault[f]) = C!TestsOf(fault[k])
      <4>1. PICK a : a = fault[f]
        OBVIOUS
      <4>2. PICK b : b = fault[k]
        OBVIOUS
      <4>3. P!IsFault(a) /\ P!IsFault(b)
        BY <1>2, <3>4, <4>1, <4>2
      <4>4. C!TestsOf(a) = C!TestsOf(b)
        BY <1>1, <1>5, <1>13, <3>2, <3>4, <4>1, <4>2, <4>3, BranchEquivalent
      <4> QED BY <4>1, <4>2, <4>4
    <3>11. fault[f].node <= fault[k].node
      BY <1>2, <1>5, <1>13, <3>4, <3>7
    <3> QED BY <1>11, <3>4, <3>8, <3>9, <3>10, <3>11
  <2> QED BY <2>2, <2>3
<1>14. ASSUME NEW f \in DOMAIN fault, fault[f].node = n, fault[f].pos # 0
       PROVE  RepresentedIn(new, lists, f)
  <2>1. PICK k : k = Linked(n, f)
    OBVIOUS
  <2>2. CASE k = 0
    BY <1>12, <1>14, <2>1, <2>2
  <2>3. CASE k # 0
    <3>1. k = fault[f].rep
      BY <1>14, <2>1, Zenon DEF Linked
    <3>2. k \in DOMAIN fault
      <4>1. k \in 0 .. Len(fault) /\ Len(fault) \in Nat /\ DOMAIN fault = 1 .. Len(fault)
        BY <1>1, <1>2, <3>1 DEF Faulted
      <4> QED BY <2>3, <4>1
    <3>3. fault[k].pos = 0 /\ Covers(node, nodeMap, fault[f], fault[k])
      BY <1>8, <1>14, <2>3, <3>1 DEF Original
    <3>4. PICK lo \in Nat \ {0} :
            /\ lo <= fault[f].node /\ fault[f].node <= fault[k].node
            /\ Region(node, nodeMap, lo, fault[k].node)
            /\ Forces(node, lo, fault[k].node, fault[f].node, fault[f].pos, fault[f].val, fault[k].val)
      BY <3>3, Zenon DEF Covers
    <3>5. fault[k].node \in C!DataNodes
      BY <1>1, <1>14, <3>4, RootIsData
    <3>6. C!TestsOf(fault[f]) = C!TestsOf(fault[k])
      <4>1. PICK a : a = fault[f]
        OBVIOUS
      <4>2. PICK b : b = fault[k]
        OBVIOUS
      <4>3. P!IsFault(a) /\ P!IsFault(b) /\ a.pos # 0 /\ b.pos = 0
        BY <1>2, <1>14, <3>2, <3>3, <4>1, <4>2
      <4>4. C!TestsOf(a) = C!TestsOf(b)
        BY <1>1, <3>4, <4>1, <4>2, <4>3, RegionEquivalent
      <4> QED BY <4>1, <4>2, <4>4
    <3>7. new[f].rep = new[k].rep
      BY <1>9, <1>14, <2>1, <2>3, <3>2, <3>3
    <3>8. RepresentedIn(new, lists, k)
      <4>1. CASE fault[k].node = n
        BY <1>13, <3>2, <3>3, <4>1
      <4>2. CASE fault[k].node # n
        <5>1. fault[k].node > n
          BY <1>2, <1>5, <1>14, <3>2, <3>4, <4>2
        <5> QED BY <1>10, <3>2, <3>5, <5>1
      <4> QED BY <4>1, <4>2
    <3> QED BY <1>11, <3>2, <3>4, <3>6, <3>7, <3>8
  <2> QED BY <2>2, <2>3
<1> TAKE f \in DOMAIN fault
<1>15. CASE fault[f].node = n
  BY <1>13, <1>14, <1>15
<1>16. CASE fault[f].node # n
  <2> HAVE fault[f].node \in C!DataNodes /\ fault[f].node >= n
  <2>1. fault[f].node > n
    BY <1>2, <1>5, <1>16
  <2> QED BY <1>10, <2>1
<1> QED BY <1>15, <1>16

-----------------------------------------------------------------------------
(* The invariant: above the node that is next everything is represented,   *)
(* below it the faults have the representatives they were made with.       *)

Open == {"inputs", "dffs", "logic", "terminals", "fanouts"}
Todo == IF pc \in Open THEN Len(node) ELSE IF pc = "faults" THEN FromLast ELSE 0
Ready ==
  /\ SitesOnce(fault) /\ \A f \in DOMAIN fault : PinExists(node, fault[f])
  /\ \A f \in DOMAIN fault : fault[f].node <= Todo => Original(node, nodeMap, fault, f)
  /\ \A f \in DOMAIN fault :
       fault[f].node \in C!DataNodes /\ fault[f].node > Todo => RepresentedIn(fault, repList, f)

LEMMA SameTestsOf ==
  ASSUME node' = node, fanout' = fanout, NEW g
  PROVE  C!TestsOf(fault[g])' = C!TestsOf(fault'[g])
<1>1. C!Inputs' = C!Inputs /\ C!PPOs' = C!PPOs
  BY DEF C!Inputs, C!PPIs, C!PPOs
<1>2. ASSUME NEW in PROVE C!Values(in)' = C!Values(in)
  BY SMTT(30) DEF C!Values, C!ValuesUnder, C!NoFault, C!PpiTypes, C!Output
<1>3. ASSUME NEW in PROVE C!ValuesUnder(in, fault[g])' = C!ValuesUnder(in, fault'[g])
  BY SMTT(30) DEF C!ValuesUnder, C!PpiTypes, C!Output
<1>4. ASSUME NEW in PROVE C!Shows(in, fault[g])' <=> C!Shows(in, fault'[g])
  BY <1>1, <1>2, <1>3 DEF C!Shows
<1> QED BY <1>1, <1>4 DEF C!TestsOf

LEMMA SameReps ==
  ASSUME node' = node, fanout' = fanout, NEW f
  PROVE  RepresentedIn(fault, repList, f)' <=> RepresentedIn(fault', repList', f)
<1>1. \A g : C!TestsOf(fault[g])' = C!TestsOf(fault'[g])
  BY SameTestsOf
<1> QED BY <1>1 DEF RepresentedIn

LEMMA NodesOfFaults ==
  ASSUME Faulted(node, fault)
  PROVE  /\ Len(node) \in Nat /\ Len(fault) \in Nat /\ DOMAIN fault = 1 .. Len(fault)
         /\ \A f \in DOMAIN fault : /\ fault[f].node \in 1 .. Len(node) /\ fault[f].node \in Nat /\ fault[f].node # 0
                                    /\ fault[f].rep \in 0 .. Len(fault)
<1> DEFINE A == FaultRecs(Len(node), Len(fault))
<1>1. fault \in Seq(A)
  BY DEF Faulted
<1>2. Len(fault) \in Nat /\ DOMAIN fault = 1 .. Len(fault) /\ \A f \in DOMAIN fault : fault[f] \in A
  <2> HIDE DEF A
  <2> QED BY <1>1
<1> QED BY <1>2 DEF FaultRecs
=============================================================================
