---------------------------- MODULE EventQProofs ----------------------------
(***************************************************************************)
(* What TLAPS proves about the event queue, for every network, every       *)
(* number of lanes and every value of the constants.                       *)
(*                                                                         *)
(* The properties of EventQ hold together: that a node is entered in the   *)
(* clear list once needs that events move up, that needs the levels of the *)
(* queued nodes, and that the values are put back needs the clear list.    *)
(* IInv is the conjunction that is inductive.                              *)
(*                                                                         *)
(* That the queue computes what its callers are promised needs the values, *)
(* too: ValuesInv says that a node that is not waiting agrees with its     *)
(* fanins in every lane not yet observed.                                  *)
(***************************************************************************)
EXTENDS EventQ, NetworkLemmas

Listed == {clearList[i].node : i \in DOMAIN clearList}
ToPut == {fanouts[i] : i \in DOMAIN fanouts}
Remembered == {maskList[i] : i \in DOMAIN maskList}

\* Only gates are queued: an input is nobody's fanout.
GatesQueued == \A n \in inQueue \cup ToPut : GateType[n] # "Input"

\* A changed gate lies below what is still to be put and not above what is
\* queued.  (A changed input is at level 0 and is never queued.)
ListedBelow ==
  \A c \in Listed : GateType[c] # "Input" =>
    /\ \A n \in inQueue : c # n /\ Level[c] <= Level[n]
    /\ \A n \in ToPut : Level[c] < Level[n]

\* What the triggers leave behind before simulate() is called.
TriggerPhase ==
  /\ flipped = Remembered
  /\ Remembered \subseteq Triggered
  /\ ~running => Listed \subseteq Triggered \ flipped
  /\ Cardinality(Triggered) <= MaskLimit
  /\ Triggered = {} =>
       ~running /\ fanouts = << >> /\ inQueue = {} /\ clearList = << >> /\ maskList = << >>

\* No node is entered twice.
ListedOnce ==
  \A i, j \in DOMAIN clearList : clearList[i].node = clearList[j].node => i = j
RememberedOnce ==
  \A i, j \in DOMAIN maskList : maskList[i] = maskList[j] => i = j

\* A node carries its fault-free value, or the clear list does.
OldValuesKept ==
  /\ \A i \in DOMAIN clearList : clearList[i].val = gval[clearList[i].node]
  /\ \A n \in Node \ Listed : val[n] = gval[n]

IInv ==
  /\ TypeOK
  /\ ListsMatchMarks
  /\ NothingBelowCurLevel
  /\ GatesQueued
  /\ ListedBelow
  /\ TriggerPhase
  /\ ListedOnce
  /\ RememberedOnce
  /\ OldValuesKept

-----------------------------------------------------------------------------
(* The values that a gate computes.                                        *)

LEMMA CalcValType ==
  ASSUME NEW v \in Valuation, NEW n \in Node, GateType[n] # "Input"
  PROVE  CalcVal(n, v) \in Word
<1>1. Vals \in ValueSets /\ v \in [Node -> [Lane -> Vals]]
  BY LaneAssumption DEF ValueSets, Valuation, Word
<1> QED BY <1>1, CalcWordType DEF Word

LEMMA FlipType ==
  ASSUME NEW w \in Word, NEW mask
  PROVE  Flip(w, mask) \in Word
<1>1. Vals \in ValueSets
  BY LaneAssumption DEF ValueSets
<1> QED BY <1>1, FlipWordType DEF Word

LEMMA NewValueType ==
  ASSUME val \in Valuation, flipMask \in [Node -> SUBSET Lane],
         NEW n \in Node, GateType[n] # "Input"
  PROVE  NewValue(n) \in Word
<1> DEFINE calc == SetWithMask(val[n], CalcVal(n, val), Lane \ obs)
<1>1. val[n] \in Word
  BY DEF Valuation
<1>2. CalcVal(n, val) \in Word
  BY CalcValType
<1>3. calc \in Word
  BY <1>1, <1>2 DEF SetWithMask, Word
<1>4. QED
  BY <1>3, FlipType DEF NewValue

-----------------------------------------------------------------------------
(* The queue: put() and get() keep the lists, the marks, the count and the *)
(* level together.                                                         *)

QueueInv ==
  /\ inQueue \subseteq Node
  /\ bucket \in [Slot -> Seq(Node)]
  /\ curLevel \in Nat
  /\ num \in Nat
  /\ ListsMatchMarks
  /\ NothingBelowCurLevel

LEMMA SlotType == Slot \subseteq Nat /\ \A n \in Node : Level[n] \in Slot /\ 0 .. Level[n] \subseteq Slot
  BY LevelAssumption, SizeAssumption DEF Slot

\* put() adds the node, and nothing else, to the queue.
LEMMA PutKeepsQueue ==
  ASSUME QueueInv, NEW n \in Node, Put(n)
  PROVE  QueueInv' /\ inQueue' = inQueue \cup {n}
<1>1. CASE n \in inQueue
  <2>1. UNCHANGED queueVars
    BY <1>1 DEF Put
  <2>2. QED
    BY <1>1, <2>1 DEF queueVars, QueueInv, ListsMatchMarks, NothingBelowCurLevel
<1>2. CASE n \notin inQueue
  <2> DEFINE l0 == Level[n]
             old == bucket[l0]
             new == <<n>> \o old
  <2>1. /\ inQueue' = inQueue \cup {n}
        /\ bucket' = [bucket EXCEPT ![l0] = new]
        /\ curLevel' = CurLevelAfter(n)
        /\ num' = num + 1
    BY <1>2 DEF Put
  <2>2. l0 \in Nat /\ l0 \in Slot /\ old \in Seq(Node)
    BY SlotType DEF QueueInv
  <2>3. /\ new \in Seq(Node) /\ Len(new) = Len(old) + 1 /\ new[1] = n
        /\ \A i \in 1 .. Len(old) : new[i + 1] = old[i]
    BY <2>2, ConsProperties
  <2>4. /\ Len(old) \in Nat /\ DOMAIN old = 1 .. Len(old) /\ DOMAIN new = 1 .. Len(old) + 1
        /\ \A i \in DOMAIN new : \/ i = 1 /\ new[i] = n
                                 \/ i - 1 \in DOMAIN old /\ new[i] = old[i - 1]
    BY <2>2, <2>3
  <2>5. bucket' \in [Slot -> Seq(Node)] /\ bucket'[l0] = new
        /\ \A l \in Slot \ {l0} : bucket'[l] = bucket[l]
    BY <2>1, <2>2, <2>3 DEF QueueInv
  <2>6. inQueue' \subseteq Node /\ num' \in Nat
    BY <2>1 DEF QueueInv
  <2>7. curLevel' \in Nat /\ \A m \in inQueue' : curLevel' <= Level[m]
    <3>1. curLevel' \in Nat /\ curLevel' <= Level[n]
      BY <2>1, <2>2 DEF CurLevelAfter, QueueInv
    <3>2. ASSUME NEW m \in inQueue PROVE curLevel' <= Level[m]
      <4>1. IsFiniteSet(inQueue) /\ num # 0
        BY NetAssumption, FS_Subset, FS_EmptySet DEF QueueInv, ListsMatchMarks
      <4>2. curLevel <= Level[m] /\ Level[m] \in Nat
        BY SlotType DEF QueueInv, NothingBelowCurLevel
      <4>3. QED
        BY <2>1, <2>2, <4>1, <4>2 DEF CurLevelAfter, QueueInv
    <3>3. QED
      BY <2>1, <3>1, <3>2
  <2>8. ASSUME NEW l \in Slot, NEW i \in DOMAIN bucket'[l]
        PROVE  bucket'[l][i] \in inQueue' /\ Level[bucket'[l][i]] = l
    BY <2>1, <2>4, <2>5, <2>8 DEF QueueInv, ListsMatchMarks
  <2>9. ASSUME NEW l \in Slot, NEW i \in DOMAIN bucket'[l], NEW j \in DOMAIN bucket'[l],
               bucket'[l][i] = bucket'[l][j]
        PROVE  i = j
    <3>1. CASE l # l0
      BY <2>5, <2>9, <3>1 DEF QueueInv, ListsMatchMarks
    <3>2. CASE l = l0
      <4>1. \A k \in DOMAIN old : old[k] # n
        BY <1>2, <2>2 DEF QueueInv, ListsMatchMarks
      <4>2. \A k, m \in DOMAIN old : old[k] = old[m] => k = m
        BY <2>2 DEF QueueInv, ListsMatchMarks
      <4>3. bucket'[l] = new
        BY <2>5, <3>2
      <4>4. i \in DOMAIN new /\ j \in DOMAIN new /\ new[i] = new[j]
        BY <2>9, <4>3
      <4>5. QED
        BY <2>4, <4>1, <4>2, <4>4
    <3>3. QED
      BY <3>1, <3>2
  <2>10. ASSUME NEW m \in inQueue'
         PROVE  \E i \in DOMAIN bucket'[Level[m]] : bucket'[Level[m]][i] = m
    <3>1. CASE m = n
      BY <2>3, <2>4, <2>5, <3>1
    <3>2. CASE m \in inQueue /\ m # n
      <4>1. PICK i \in DOMAIN bucket[Level[m]] : bucket[Level[m]][i] = m
        BY <3>2 DEF QueueInv, ListsMatchMarks
      <4>2. Level[m] \in Slot
        BY <3>2, SlotType DEF QueueInv
      <4>3. CASE Level[m] # l0
        BY <2>5, <4>1, <4>2, <4>3
      <4>4. CASE Level[m] = l0
        <5>1. i + 1 \in DOMAIN new /\ new[i + 1] = m
          BY <2>3, <2>4, <4>1, <4>4
        <5>2. QED
          BY <2>5, <4>4, <5>1
      <4>5. QED
        BY <4>3, <4>4
    <3>3. QED
      BY <2>1, <3>1, <3>2
  <2>11. num' = Cardinality(inQueue')
    <3>1. IsFiniteSet(inQueue)
      BY NetAssumption, FS_Subset DEF QueueInv
    <3>2. Cardinality(inQueue \cup {n}) = Cardinality(inQueue) + 1
      BY <1>2, <3>1, FS_AddElement
    <3>3. QED
      BY <2>1, <3>2 DEF QueueInv, ListsMatchMarks
  <2>12. QED
    BY <2>1, <2>5, <2>6, <2>7, <2>8, <2>9, <2>10, <2>11
       DEF QueueInv, ListsMatchMarks, NothingBelowCurLevel
<1>3. QED
  BY <1>1, <1>2

\* get() takes a queued node of the lowest level, and nothing else.
LEMMA TakeKeepsQueue ==
  ASSUME QueueInv, num > 0, NEW n \in Node, Take(n)
  PROVE  /\ QueueInv'
         /\ n \in inQueue /\ Level[n] = curLevel
         /\ inQueue' = inQueue \ {n}
<1> DEFINE old == bucket[curLevel]
<1>1. /\ old # << >> /\ n = Head(old)
      /\ inQueue' = inQueue \ {n}
      /\ bucket' = [bucket EXCEPT ![curLevel] = Tail(old)]
      /\ num' = num - 1
      /\ curLevel' = curLevel
  BY DEF Take
<1>2. curLevel \in Slot
  <2>1. PICK m : m \in inQueue
    <3>1. Cardinality(inQueue) # 0 /\ Cardinality({}) = 0
      BY FS_EmptySet DEF QueueInv, ListsMatchMarks
    <3>2. QED
      BY <3>1
  <2>2. m \in Node /\ curLevel <= Level[m] /\ Level[m] \in Nat
    BY <2>1, LevelAssumption DEF QueueInv, NothingBelowCurLevel
  <2>3. QED
    BY <2>2, SlotType DEF QueueInv
<1>3. old \in Seq(Node)
  BY <1>2 DEF QueueInv
<1>4. /\ Tail(old) \in Seq(Node)
      /\ Len(Tail(old)) = Len(old) - 1 /\ Len(old) \in Nat \ {0}
      /\ n = old[1]
      /\ DOMAIN old = 1 .. Len(old) /\ DOMAIN Tail(old) = 1 .. Len(old) - 1
      /\ \A i \in 1 .. Len(old) - 1 : Tail(old)[i] = old[i + 1]
  BY <1>1, <1>3, TailProperties
<1>5. n \in inQueue /\ Level[n] = curLevel
  BY <1>2, <1>4 DEF QueueInv, ListsMatchMarks
<1>6. /\ bucket' \in [Slot -> Seq(Node)] /\ bucket'[curLevel] = Tail(old)
      /\ \A l \in Slot \ {curLevel} : bucket'[l] = bucket[l]
  BY <1>1, <1>2, <1>4 DEF QueueInv
<1>7. ASSUME NEW l \in Slot, NEW i \in DOMAIN bucket'[l]
      PROVE  bucket'[l][i] \in inQueue' /\ Level[bucket'[l][i]] = l
  <2>1. CASE l # curLevel
    BY <1>1, <1>5, <1>6, <1>7, <2>1 DEF QueueInv, ListsMatchMarks
  <2>2. CASE l = curLevel
    <3>1. i \in 1 .. Len(old) - 1 /\ bucket'[l][i] = old[i + 1]
      BY <1>4, <1>6, <1>7, <2>2
    <3>2. i + 1 \in DOMAIN old /\ 1 \in DOMAIN old /\ i + 1 # 1
      BY <1>4, <3>1
    <3>3. old[i + 1] # n
      BY <1>2, <1>4, <3>2 DEF QueueInv, ListsMatchMarks
    <3>4. QED
      BY <1>1, <1>2, <2>2, <3>1, <3>2, <3>3 DEF QueueInv, ListsMatchMarks
  <2>3. QED
    BY <2>1, <2>2
<1>8. ASSUME NEW l \in Slot, NEW i \in DOMAIN bucket'[l], NEW j \in DOMAIN bucket'[l],
             bucket'[l][i] = bucket'[l][j]
      PROVE  i = j
  <2>1. CASE l # curLevel
    BY <1>6, <1>8, <2>1 DEF QueueInv, ListsMatchMarks
  <2>2. CASE l = curLevel
    <3>1. /\ i \in 1 .. Len(old) - 1 /\ j \in 1 .. Len(old) - 1
          /\ Tail(old)[i] = Tail(old)[j]
      <4>1. bucket'[l] = Tail(old)
        BY <1>6, <2>2
      <4>2. QED
        BY <1>4, <1>8, <4>1
    <3>2. i + 1 \in DOMAIN old /\ j + 1 \in DOMAIN old /\ old[i + 1] = old[j + 1]
      BY <1>4, <3>1
    <3>3. i + 1 = j + 1
      BY <1>2, <3>2 DEF QueueInv, ListsMatchMarks
    <3>4. QED
      BY <1>4, <3>1, <3>3
  <2>3. QED
    BY <2>1, <2>2
<1>9. ASSUME NEW m \in inQueue'
      PROVE  \E i \in DOMAIN bucket'[Level[m]] : bucket'[Level[m]][i] = m
  <2>1. m \in inQueue /\ m # n /\ Level[m] \in Slot
    BY <1>1, SlotType DEF QueueInv
  <2>2. PICK i \in DOMAIN bucket[Level[m]] : bucket[Level[m]][i] = m
    BY <2>1 DEF QueueInv, ListsMatchMarks
  <2>3. CASE Level[m] # curLevel
    BY <1>6, <2>1, <2>2, <2>3
  <2>4. CASE Level[m] = curLevel
    <3>1. i \in 1 .. Len(old) /\ i # 1 /\ old[i] = m
      BY <1>4, <2>1, <2>2, <2>4
    <3>2. i - 1 \in DOMAIN Tail(old) /\ Tail(old)[i - 1] = m
      BY <1>4, <3>1
    <3>3. QED
      BY <1>6, <2>4, <3>2
  <2>5. QED
    BY <2>3, <2>4
<1>10. num' = Cardinality(inQueue')
  <2>1. IsFiniteSet(inQueue)
    BY NetAssumption, FS_Subset DEF QueueInv
  <2>2. Cardinality(inQueue \ {n}) = Cardinality(inQueue) - 1
    BY <1>5, <2>1, FS_RemoveElement
  <2>3. QED
    BY <1>1, <2>2 DEF QueueInv, ListsMatchMarks
<1>11. inQueue' \subseteq Node /\ curLevel' \in Nat /\ num' \in Nat /\ NothingBelowCurLevel'
  BY <1>1 DEF QueueInv, NothingBelowCurLevel
<1>12. ListsMatchMarks'
  BY <1>7, <1>8, <1>9, <1>10 DEF ListsMatchMarks
<1>13. QED
  BY <1>1, <1>5, <1>6, <1>11, <1>12 DEF QueueInv

-----------------------------------------------------------------------------
(* The clear list.                                                         *)

\* A node that is not on the clear list is changed and entered with the value
\* it had: the list and the other nodes still carry the fault-free values.
LEMMA EnterNode ==
  ASSUME TypeOK, ListedOnce, OldValuesKept,
         NEW n \in Node, n \notin Listed, NEW w \in Word,
         val' = [val EXCEPT ![n] = w], AddToClearList(n, val[n]), gval' = gval
  PROVE  /\ val' \in Valuation
         /\ clearList' \in Seq(Restore)
         /\ Listed' = Listed \cup {n}
         /\ ListedOnce'
         /\ OldValuesKept'
<1> DEFINE e == [node |-> n, val |-> val[n]]
<1>1. e \in Restore /\ clearList \in Seq(Restore) /\ clearList' = Append(clearList, e)
  BY DEF TypeOK, Valuation, Restore, AddToClearList
<1>2. /\ clearList' \in Seq(Restore)
      /\ Len(clearList) \in Nat
      /\ DOMAIN clearList = 1 .. Len(clearList)
      /\ DOMAIN clearList' = 1 .. Len(clearList) + 1
      /\ \A i \in 1 .. Len(clearList) : clearList'[i] = clearList[i]
      /\ clearList'[Len(clearList) + 1] = e
  BY <1>1, AppendProperties
<1>3. val' \in Valuation
  BY DEF TypeOK, Valuation
<1>4. Listed' = Listed \cup {n}
  <2>1. ASSUME NEW m \in Listed' PROVE m \in Listed \cup {n}
    <3>1. PICK i \in DOMAIN clearList' : m = clearList'[i].node
      BY <2>1 DEF Listed
    <3>2. CASE i = Len(clearList) + 1
      BY <1>2, <3>1, <3>2
    <3>3. CASE i \in DOMAIN clearList
      BY <1>2, <3>1, <3>3 DEF Listed
    <3>4. QED
      BY <1>2, <3>2, <3>3
  <2>2. ASSUME NEW m \in Listed PROVE m \in Listed'
    <3>1. PICK i \in DOMAIN clearList : m = clearList[i].node
      BY <2>2 DEF Listed
    <3>2. i \in DOMAIN clearList' /\ clearList'[i] = clearList[i]
      BY <1>2
    <3>3. QED
      BY <3>1, <3>2 DEF Listed
  <2>3. n \in Listed'
    <3>1. Len(clearList) + 1 \in DOMAIN clearList' /\ clearList'[Len(clearList) + 1].node = n
      BY <1>2
    <3>2. QED
      BY <3>1 DEF Listed
  <2>4. QED
    BY <2>1, <2>2, <2>3
<1>5. ListedOnce'
  <2> SUFFICES ASSUME NEW i \in DOMAIN clearList', NEW j \in DOMAIN clearList',
                      clearList'[i].node = clearList'[j].node
               PROVE  i = j
    BY DEF ListedOnce
  <2>1. \A k \in DOMAIN clearList : clearList[k].node # n
    BY DEF Listed
  <2>2. QED
    BY <1>2, <2>1 DEF ListedOnce
<1>6. OldValuesKept'
  <2>1. val[n] = gval[n]
    BY DEF OldValuesKept
  <2>2. ASSUME NEW i \in DOMAIN clearList'
        PROVE  clearList'[i].val = gval'[clearList'[i].node]
    BY <1>2, <2>1 DEF OldValuesKept
  <2>3. ASSUME NEW m \in Node, m \notin Listed'
        PROVE  val'[m] = gval'[m]
    BY <1>4, <2>3 DEF OldValuesKept, TypeOK, Valuation
  <2>4. QED
    BY <2>2, <2>3 DEF OldValuesKept
<1>7. QED
  BY <1>2, <1>3, <1>4, <1>5, <1>6

\* The restore loop of simulate() puts the fault-free values back.
LEMMA RestoredIsGood ==
  ASSUME TypeOK, ListedOnce, OldValuesKept, NEW n \in Node
  PROVE  Restored(n) = gval[n]
<1> DEFINE entries == {i \in DOMAIN clearList : clearList[i].node = n}
           last == CHOOSE i \in entries : \A j \in entries : j <= i
<1>1. CASE entries = {}
  <2>1. n \notin Listed
    BY <1>1 DEF Listed
  <2>2. QED
    BY <1>1, <2>1 DEF Restored, OldValuesKept
<1>2. CASE entries # {}
  <2>1. PICK i \in DOMAIN clearList : clearList[i].node = n
    BY <1>2
  <2>2. i \in Nat /\ \A j \in entries : j = i
    BY <2>1 DEF ListedOnce, TypeOK
  <2>3. \A j \in entries : j <= i
    BY <2>2
  <2>4. last \in entries
    BY <2>1, <2>3
  <2>5. clearList[last].val = gval[n]
    BY <2>4 DEF OldValuesKept
  <2>6. QED
    BY <1>2, <2>5 DEF Restored
<1>3. QED
  BY <1>1, <1>2

\* fanouts of a node: gates above it.
LEMMA FanoutsAbove ==
  ASSUME NEW n \in Node, NEW i \in DOMAIN Fanout[n]
  PROVE  /\ Fanout[n][i] \in Node
         /\ GateType[Fanout[n][i]] # "Input"
         /\ Level[n] < Level[Fanout[n][i]]
<1> DEFINE m == Fanout[n][i]
<1>1. Fanout[n] \in Seq(Node) /\ m \in Node
  BY NetAssumption
<1>2. PICK j \in DOMAIN Fanin[m] : Fanin[m][j] = n
  BY <1>1, FanoutAssumption
<1>3. Fanin[m] # << >>
  BY <1>2
<1>4. QED
  BY <1>1, <1>2, <1>3, NetAssumption, LevelAssumption

-----------------------------------------------------------------------------
(* Every step keeps the invariant.                                         *)

LEMMA QueueInvFromIInv == IInv => QueueInv
  BY DEF IInv, TypeOK, QueueInv

LEMMA ListedType ==
  ASSUME TypeOK
  PROVE  Listed \subseteq Node
<1> SUFFICES ASSUME NEW i \in DOMAIN clearList PROVE clearList[i].node \in Node
  BY DEF Listed
<1>1. clearList \in Seq(Restore) /\ clearList[i] \in Restore
  BY DEF TypeOK
<1>2. QED
  BY <1>1 DEF Restore

LEMMA EmptyQueue ==
  ASSUME QueueInv, num = 0
  PROVE  inQueue = {}
<1>1. IsFiniteSet(inQueue) /\ Cardinality(inQueue) = 0
  BY NetAssumption, FS_Subset DEF QueueInv, ListsMatchMarks
<1>2. QED
  BY <1>1, FS_EmptySet

LEMMA InitIInv == Init => IInv
<1> SUFFICES ASSUME Init PROVE IInv
  OBVIOUS
<1>1. TypeOK
  <2>1. val \in Valuation /\ gval \in Valuation
    BY GoodAssumption DEF Init
  <2>2. bucket \in [Slot -> Seq(Node)] /\ << >> \in Seq(Restore) /\ << >> \in Seq(Node)
    BY DEF Init
  <2>3. flipMask \in [Node -> SUBSET Lane] /\ trig \in [Node -> SUBSET Lane]
    BY DEF Init, NoTrigger
  <2>4. QED
    BY <2>1, <2>2, <2>3 DEF Init, TypeOK
<1>2. ListsMatchMarks
  BY FS_EmptySet DEF Init, ListsMatchMarks
<1>3. NothingBelowCurLevel /\ GatesQueued
  BY DEF Init, NothingBelowCurLevel, GatesQueued, ToPut
<1>4. Listed = {} /\ Remembered = {} /\ Triggered = {}
  BY DEF Init, Listed, Remembered, Triggered, NoTrigger
<1>5. ListedBelow
  BY <1>4 DEF ListedBelow
<1>6. TriggerPhase
  BY <1>4, FS_EmptySet, SizeAssumption DEF Init, TriggerPhase
<1>7. ListedOnce /\ RememberedOnce /\ OldValuesKept
  BY DEF Init, ListedOnce, RememberedOnce, OldValuesKept
<1>8. QED
  BY <1>1, <1>2, <1>3, <1>5, <1>6, <1>7 DEF IInv

LEMMA LoadValuesKeeps ==
  ASSUME IInv, Quiet, NEW v \in GoodValues, LoadValues(v)
  PROVE  IInv'
<1> USE DEF queueVars, flipVars
<1>1. /\ v \in Valuation /\ val' = v /\ gval' = v
      /\ UNCHANGED <<queueVars, clearList, flipVars, fanouts, running, obs, trig>>
  BY GoodAssumption DEF LoadValues
<1>2. clearList = << >> /\ Listed' = {}
  BY <1>1 DEF IInv, TriggerPhase, Quiet, Listed
<1>3. TypeOK'
  BY <1>1 DEF IInv, TypeOK
<1>4. ListsMatchMarks' /\ NothingBelowCurLevel' /\ GatesQueued'
  BY <1>1 DEF IInv, ListsMatchMarks, NothingBelowCurLevel, GatesQueued, ToPut
<1>5. ListedBelow' /\ OldValuesKept'
  BY <1>1, <1>2 DEF ListedBelow, OldValuesKept
<1>6. TriggerPhase'
  BY <1>1 DEF IInv, TriggerPhase, Triggered, Listed, Remembered
<1>7. ListedOnce' /\ RememberedOnce'
  BY <1>1 DEF IInv, ListedOnce, RememberedOnce
<1>8. QED
  BY <1>3, <1>4, <1>5, <1>6, <1>7 DEF IInv

\* The node that a caller triggers is new, and where it is not the only one,
\* all nodes changed so far are inputs.
LEMMA TriggerFacts ==
  ASSUME IInv, NEW n \in Node, NEW mask \in SUBSET Lane, NEW immediate \in BOOLEAN,
         MayTrigger(n, mask, immediate), PutTrigger(n, mask, immediate)
  PROVE  /\ n \notin Triggered /\ n \notin Listed /\ n \notin flipped
         /\ \A c \in Listed : GateType[c] = "Input"
         /\ trig' \in [Node -> SUBSET Lane]
         /\ Triggered' = Triggered \cup {n}
         /\ Cardinality(Triggered') <= MaskLimit
<1>1. /\ n \notin Triggered /\ mask # {} /\ ~running
      /\ \A m \in Triggered : m \in flipped \/ GateType[m] = "Input"
      /\ Cardinality(Triggered) < MaskLimit
      /\ trig' = [trig EXCEPT ![n] = mask]
  BY DEF MayTrigger, PutTrigger
<1>2. Listed \subseteq Triggered \ flipped /\ flipped \subseteq Triggered
  BY <1>1 DEF IInv, TriggerPhase
<1>3. trig' \in [Node -> SUBSET Lane] /\ Triggered' = Triggered \cup {n}
  BY <1>1 DEF IInv, TypeOK, Triggered
<1>4. Cardinality(Triggered') <= MaskLimit
  <2>1. IsFiniteSet(Triggered)
    BY NetAssumption, FS_Subset DEF Triggered
  <2>2. Cardinality(Triggered \cup {n}) = Cardinality(Triggered) + 1
    BY <1>1, <2>1, FS_AddElement
  <2>3. QED
    BY <1>1, <1>3, <2>1, <2>2, FS_CardinalityType, SizeAssumption
<1>5. QED
  BY <1>1, <1>2, <1>3, <1>4

LEMMA TriggerNowKeeps ==
  ASSUME IInv, NEW n \in Node, NEW mask \in SUBSET Lane, NEW immediate \in BOOLEAN,
         MayTrigger(n, mask, immediate), PutTrigger(n, mask, immediate),
         immediate \/ GateType[n] = "Input"
  PROVE  IInv'
<1> USE DEF queueVars, flipVars
<1>1. /\ ~running /\ fanouts = << >>
      /\ val' = [val EXCEPT ![n] = Flip(val[n], mask)]
      /\ AddToClearList(n, val[n])
      /\ fanouts' = Fanout[n]
      /\ UNCHANGED <<queueVars, flipVars>>
      /\ UNCHANGED <<running, obs, gval>>
  BY DEF PutTrigger, TriggerNow
<1>2. /\ n \notin Triggered /\ n \notin Listed /\ n \notin flipped
      /\ \A c \in Listed : GateType[c] = "Input"
      /\ trig' \in [Node -> SUBSET Lane]
      /\ Triggered' = Triggered \cup {n}
      /\ Cardinality(Triggered') <= MaskLimit
  BY TriggerFacts
<1>3. Flip(val[n], mask) \in Word
  BY FlipType DEF IInv, TypeOK, Valuation
<1>4. /\ val' \in Valuation /\ clearList' \in Seq(Restore)
      /\ Listed' = Listed \cup {n} /\ ListedOnce' /\ OldValuesKept'
  BY <1>1, <1>2, <1>3, EnterNode DEF IInv
<1>5. TypeOK'
  BY <1>1, <1>2, <1>4, NetAssumption DEF IInv, TypeOK
<1>6. ListsMatchMarks' /\ NothingBelowCurLevel'
  BY <1>1 DEF IInv, ListsMatchMarks, NothingBelowCurLevel
<1>7. \A m \in ToPut' : GateType[m] # "Input" /\ Level[n] < Level[m]
  BY <1>1, FanoutsAbove DEF ToPut
<1>8. GatesQueued'
  BY <1>1, <1>7 DEF IInv, GatesQueued
<1>9. ListedBelow'
  <2>1. ASSUME GateType[n] # "Input" PROVE inQueue = {}
    BY <2>1 DEF MayTrigger, IInv, TriggerPhase
  <2>2. QED
    BY <1>1, <1>2, <1>4, <1>7, <2>1 DEF ListedBelow
<1>10. TriggerPhase' /\ RememberedOnce'
  BY <1>1, <1>2, <1>4 DEF IInv, TriggerPhase, Remembered, RememberedOnce
<1>11. QED
  BY <1>4, <1>5, <1>6, <1>8, <1>9, <1>10 DEF IInv

LEMMA TriggerLaterKeeps ==
  ASSUME IInv, NEW n \in Node, NEW mask \in SUBSET Lane, NEW immediate \in BOOLEAN,
         MayTrigger(n, mask, immediate), PutTrigger(n, mask, immediate),
         ~(immediate \/ GateType[n] = "Input")
  PROVE  IInv'
<1>1. /\ ~running /\ fanouts = << >>
      /\ flipped' = flipped \cup {n}
      /\ flipMask' = [flipMask EXCEPT ![n] = mask]
      /\ maskList' = Append(maskList, n)
      /\ Put(n)
      /\ UNCHANGED <<val, clearList, fanouts>>
      /\ UNCHANGED <<running, obs, gval>>
  BY DEF PutTrigger, TriggerLater
<1>2. /\ n \notin Triggered /\ n \notin Listed /\ n \notin flipped
      /\ \A c \in Listed : GateType[c] = "Input"
      /\ trig' \in [Node -> SUBSET Lane]
      /\ Triggered' = Triggered \cup {n}
      /\ Cardinality(Triggered') <= MaskLimit
  BY TriggerFacts
<1>3. QueueInv' /\ inQueue' = inQueue \cup {n}
  BY <1>1, PutKeepsQueue, QueueInvFromIInv
<1>4. /\ maskList \in Seq(Node) /\ maskList' \in Seq(Node)
      /\ Len(maskList) \in Nat
      /\ DOMAIN maskList = 1 .. Len(maskList)
      /\ DOMAIN maskList' = 1 .. Len(maskList) + 1
      /\ \A i \in 1 .. Len(maskList) : maskList'[i] = maskList[i]
      /\ maskList'[Len(maskList) + 1] = n
  BY <1>1, AppendProperties DEF IInv, TypeOK
<1>5. Remembered' = Remembered \cup {n}
  <2>1. Remembered' \subseteq Remembered \cup {n}
    BY <1>4 DEF Remembered
  <2>2. ASSUME NEW m \in Remembered PROVE m \in Remembered'
    <3>1. PICK i \in 1 .. Len(maskList) : m = maskList[i]
      BY <1>4 DEF Remembered
    <3>2. i \in DOMAIN maskList' /\ maskList'[i] = m
      BY <1>4, <3>1
    <3>3. QED
      BY <3>2 DEF Remembered
  <2>3. n \in Remembered'
    <3>1. Len(maskList) + 1 \in DOMAIN maskList'
      BY <1>4
    <3>2. QED
      BY <1>4, <3>1 DEF Remembered
  <2>4. QED
    BY <2>1, <2>2, <2>3
<1>6. TypeOK'
  BY <1>1, <1>2, <1>3, <1>4 DEF IInv, TypeOK, QueueInv
<1>7. ListsMatchMarks' /\ NothingBelowCurLevel'
  BY <1>3 DEF QueueInv
<1>8. GatesQueued'
  BY <1>1, <1>3 DEF IInv, GatesQueued, ToPut
<1>9. Listed' = Listed
  BY <1>1 DEF Listed
<1>10. ListedBelow'
  BY <1>2, <1>9 DEF ListedBelow
<1>11. TriggerPhase'
  <2>1. flipped' = Remembered' /\ Remembered' \subseteq Triggered'
    BY <1>1, <1>2, <1>5 DEF IInv, TriggerPhase
  <2>2. Listed' \subseteq Triggered' \ flipped'
    BY <1>1, <1>2, <1>9 DEF IInv, TriggerPhase
  <2>3. QED
    BY <1>2, <2>1, <2>2 DEF TriggerPhase
<1>12. RememberedOnce'
  <2> SUFFICES ASSUME NEW i \in DOMAIN maskList', NEW j \in DOMAIN maskList',
                      maskList'[i] = maskList'[j]
               PROVE  i = j
    BY DEF RememberedOnce
  <2>1. \A k \in DOMAIN maskList : maskList[k] # n
    BY <1>2 DEF IInv, TriggerPhase, Remembered
  <2>2. QED
    BY <1>4, <2>1 DEF IInv, RememberedOnce
<1>13. ListedOnce' /\ OldValuesKept'
  BY <1>1, <1>9 DEF IInv, ListedOnce, OldValuesKept
<1>14. QED
  BY <1>6, <1>7, <1>8, <1>10, <1>11, <1>12, <1>13 DEF IInv

LEMMA StartSimulateKeeps ==
  ASSUME IInv, StartSimulate
  PROVE  IInv'
<1> USE DEF queueVars, flipVars, historyVars
<1>1. /\ Triggered # {} /\ running' = TRUE /\ obs' = {}
      /\ UNCHANGED <<val, queueVars, clearList, flipVars, fanouts, historyVars>>
  BY DEF StartSimulate
<1>2. TypeOK'
  BY <1>1 DEF IInv, TypeOK
<1>3. ListsMatchMarks' /\ NothingBelowCurLevel' /\ GatesQueued' /\ ListedBelow'
  BY <1>1 DEF IInv, ListsMatchMarks, NothingBelowCurLevel, GatesQueued, ListedBelow,
              ToPut, Listed
<1>4. TriggerPhase'
  BY <1>1 DEF IInv, TriggerPhase, Triggered, Remembered, Listed
<1>5. ListedOnce' /\ RememberedOnce' /\ OldValuesKept'
  BY <1>1 DEF IInv, ListedOnce, RememberedOnce, OldValuesKept, Listed
<1>6. QED
  BY <1>2, <1>3, <1>4, <1>5 DEF IInv

LEMMA PutFanoutKeeps ==
  ASSUME IInv, PutFanout
  PROVE  IInv'
<1> DEFINE n == Head(fanouts)
<1> USE DEF flipVars, historyVars
<1>1. /\ fanouts # << >> /\ Put(n) /\ fanouts' = Tail(fanouts)
      /\ UNCHANGED <<val, clearList, flipVars, running, obs, historyVars>>
  BY DEF PutFanout
<1>2. /\ n \in Node /\ n \in ToPut /\ ToPut' \subseteq ToPut
      /\ fanouts' \in Seq(Node)
  <2>1. /\ fanouts \in Seq(Node) /\ Len(fanouts) \in Nat \ {0}
        /\ DOMAIN fanouts = 1 .. Len(fanouts)
        /\ fanouts' \in Seq(Node) /\ Len(fanouts') = Len(fanouts) - 1
        /\ DOMAIN fanouts' = 1 .. Len(fanouts) - 1
        /\ n = fanouts[1]
        /\ \A i \in 1 .. Len(fanouts) - 1 : fanouts'[i] = fanouts[i + 1]
    BY <1>1, TailProperties DEF IInv, TypeOK
  <2>2. ASSUME NEW m \in ToPut' PROVE m \in ToPut
    <3>1. PICK i \in DOMAIN fanouts' : m = fanouts'[i]
      BY <2>2 DEF ToPut
    <3>2. i + 1 \in DOMAIN fanouts /\ m = fanouts[i + 1]
      BY <2>1, <3>1
    <3>3. QED
      BY <3>2 DEF ToPut
  <2>3. 1 \in DOMAIN fanouts
    BY <2>1
  <2>4. QED
    BY <2>1, <2>2, <2>3 DEF ToPut
<1>3. QueueInv' /\ inQueue' = inQueue \cup {n}
  BY <1>1, <1>2, PutKeepsQueue, QueueInvFromIInv
<1>4. TypeOK'
  BY <1>1, <1>2, <1>3 DEF IInv, TypeOK, QueueInv
<1>5. ListsMatchMarks' /\ NothingBelowCurLevel'
  BY <1>3 DEF QueueInv
<1>6. GatesQueued'
  BY <1>2, <1>3 DEF IInv, GatesQueued
<1>7. Listed' = Listed /\ Listed \subseteq Node
  BY <1>1, ListedType DEF Listed, IInv
<1>8. ListedBelow'
  <2> SUFFICES ASSUME NEW c \in Listed, GateType[c] # "Input"
               PROVE  /\ \A m \in inQueue' : c # m /\ Level[c] <= Level[m]
                      /\ \A m \in ToPut' : Level[c] < Level[m]
    BY <1>7 DEF ListedBelow
  <2>1. /\ \A m \in inQueue : c # m /\ Level[c] <= Level[m]
        /\ \A m \in ToPut : Level[c] < Level[m]
    BY DEF IInv, ListedBelow
  <2>2. Level[c] < Level[n] /\ Level[c] \in Nat /\ Level[n] \in Nat
    BY <1>2, <1>7, <2>1, LevelAssumption
  <2>3. QED
    BY <1>2, <1>3, <2>1, <2>2
<1>9. TriggerPhase'
  BY <1>1 DEF IInv, TriggerPhase, Triggered, Remembered, Listed
<1>10. ListedOnce' /\ RememberedOnce' /\ OldValuesKept'
  BY <1>1 DEF IInv, ListedOnce, RememberedOnce, OldValuesKept, Listed
<1>11. QED
  BY <1>4, <1>5, <1>6, <1>8, <1>9, <1>10 DEF IInv

LEMMA NextLevelKeeps ==
  ASSUME IInv, NextLevel
  PROVE  IInv'
<1> USE DEF flipVars, historyVars
<1>1. /\ bucket[curLevel] = << >> /\ curLevel' = curLevel + 1
      /\ UNCHANGED <<val, inQueue, bucket, num, clearList, flipVars, fanouts, running,
                     obs, historyVars>>
  BY DEF NextLevel
<1>2. TypeOK'
  BY <1>1 DEF IInv, TypeOK
<1>3. NothingBelowCurLevel'
  <2> SUFFICES ASSUME NEW n \in inQueue PROVE curLevel + 1 <= Level[n]
    BY <1>1 DEF NothingBelowCurLevel
  <2>1. curLevel <= Level[n] /\ curLevel \in Nat /\ Level[n] \in Nat
    BY LevelAssumption DEF IInv, TypeOK, NothingBelowCurLevel
  <2>2. bucket[Level[n]] # << >>
    BY DEF IInv, ListsMatchMarks
  <2>3. QED
    BY <1>1, <2>1, <2>2
<1>4. ListsMatchMarks' /\ GatesQueued' /\ ListedBelow'
  BY <1>1 DEF IInv, ListsMatchMarks, GatesQueued, ListedBelow, ToPut, Listed
<1>5. TriggerPhase'
  BY <1>1 DEF IInv, TriggerPhase, Triggered, Remembered, Listed
<1>6. ListedOnce' /\ RememberedOnce' /\ OldValuesKept'
  BY <1>1 DEF IInv, ListedOnce, RememberedOnce, OldValuesKept, Listed
<1>7. QED
  BY <1>2, <1>3, <1>4, <1>5, <1>6 DEF IInv

LEMMA EvaluateKeeps ==
  ASSUME IInv, NEW n \in Node, Evaluate(n)
  PROVE  IInv'
<1> USE DEF flipVars, historyVars
<1>1. /\ running /\ fanouts = << >> /\ num > 0 /\ Take(n)
      /\ val' = [val EXCEPT ![n] = NewValue(n)]
      /\ UNCHANGED <<flipVars, running, historyVars>>
  BY DEF Evaluate
<1>2. /\ QueueInv' /\ n \in inQueue /\ Level[n] = curLevel
      /\ inQueue' = inQueue \ {n}
  BY <1>1, TakeKeepsQueue, QueueInvFromIInv
<1>3. GateType[n] # "Input"
  BY <1>2 DEF IInv, GatesQueued
<1>4. n \notin Listed /\ Listed \subseteq Node
  BY <1>2, <1>3, ListedType DEF IInv, ListedBelow
<1>5. NewValue(n) \in Word
  BY <1>3, NewValueType DEF IInv, TypeOK
<1>6. TriggerPhase' /\ RememberedOnce'
  BY <1>1 DEF IInv, TriggerPhase, Triggered, Remembered, RememberedOnce
<1>7. ListsMatchMarks' /\ NothingBelowCurLevel'
  BY <1>2 DEF QueueInv
<1>8. CASE NewValue(n) = val[n]
  <2>1. UNCHANGED <<val, clearList, obs, fanouts>>
    BY <1>1, <1>8 DEF Evaluate, IInv, TypeOK, Valuation
  <2>2. TypeOK'
    BY <1>1, <1>2, <2>1 DEF IInv, TypeOK, QueueInv
  <2>3. GatesQueued' /\ ListedBelow'
    BY <1>2, <2>1 DEF IInv, GatesQueued, ListedBelow, ToPut, Listed
  <2>4. ListedOnce' /\ OldValuesKept'
    BY <1>1, <2>1 DEF IInv, ListedOnce, OldValuesKept, Listed
  <2>5. QED
    BY <1>6, <1>7, <2>2, <2>3, <2>4 DEF IInv
<1>9. CASE NewValue(n) # val[n]
  <2>1. /\ AddToClearList(n, val[n])
        /\ \/ obs' = obs \cup Diff(NewValue(n), val[n]) /\ fanouts' = << >>
           \/ fanouts' = Fanout[n] /\ obs' = obs
    BY <1>1, <1>9 DEF Evaluate
  <2>2. /\ val' \in Valuation /\ clearList' \in Seq(Restore)
        /\ Listed' = Listed \cup {n} /\ ListedOnce' /\ OldValuesKept'
    BY <1>1, <1>4, <1>5, <2>1, EnterNode DEF IInv
  <2>3. obs' \subseteq Lane
    BY <2>1 DEF IInv, TypeOK, Diff
  <2>4. fanouts' \in Seq(Node)
    <3>1. << >> \in Seq(Node) /\ Fanout[n] \in Seq(Node)
      BY NetAssumption
    <3>2. QED
      BY <2>1, <3>1
  <2>5. TypeOK'
    BY <1>1, <1>2, <2>2, <2>3, <2>4 DEF IInv, TypeOK, QueueInv
  <2>6. ASSUME NEW m \in ToPut'
        PROVE  m \in Node /\ GateType[m] # "Input" /\ Level[n] < Level[m]
    BY <2>1, <2>6, FanoutsAbove DEF ToPut
  <2>7. GatesQueued'
    BY <1>2, <2>6 DEF IInv, GatesQueued
  <2>8. ListedBelow'
    <3> SUFFICES ASSUME NEW c \in Listed \cup {n}, GateType[c] # "Input"
                 PROVE  /\ \A m \in inQueue' : c # m /\ Level[c] <= Level[m]
                        /\ \A m \in ToPut' : Level[c] < Level[m]
      BY <2>2 DEF ListedBelow
    <3>1. c \in Node /\ Level[c] \in Nat /\ Level[n] \in Nat /\ Level[c] <= Level[n]
      BY <1>2, <1>4, LevelAssumption DEF IInv, ListedBelow
    <3>2. \A m \in inQueue' : c # m /\ Level[c] <= Level[m]
      BY <1>2 DEF IInv, ListedBelow, NothingBelowCurLevel
    <3>3. \A m \in ToPut' : Level[m] \in Nat
      BY <2>6, LevelAssumption
    <3>4. QED
      BY <2>6, <3>1, <3>2, <3>3
  <2>9. QED
    BY <1>6, <1>7, <2>2, <2>5, <2>7, <2>8 DEF IInv
<1>10. QED
  BY <1>8, <1>9

LEMMA FinishKeeps ==
  ASSUME IInv, Finish
  PROVE  IInv'
<1> USE DEF queueVars
<1>1. /\ running /\ fanouts = << >> /\ num = 0
      /\ val' = [n \in Node |-> Restored(n)]
      /\ clearList' = << >>
      /\ flipped' = FlippedAfter
      /\ maskList' = << >>
      /\ running' = FALSE
      /\ trig' = NoTrigger
      /\ UNCHANGED <<queueVars, flipMask, fanouts, obs, gval>>
  BY DEF Finish
<1>2. inQueue = {}
  BY <1>1, EmptyQueue, QueueInvFromIInv
<1>3. flipped' = {}
  BY <1>1 DEF FlippedAfter, IInv, TriggerPhase, Remembered
<1>4. val' = gval
  <2>1. \A n \in Node : Restored(n) = gval[n]
    BY RestoredIsGood DEF IInv
  <2>2. QED
    BY <1>1, <2>1 DEF IInv, TypeOK, Valuation
<1>5. trig' \in [Node -> SUBSET Lane] /\ Triggered' = {}
  BY <1>1 DEF NoTrigger, Triggered
<1>6. Listed' = {} /\ Remembered' = {} /\ ToPut' = {}
  BY <1>1 DEF Listed, Remembered, ToPut
<1>7. TypeOK'
  <2>1. << >> \in Seq(Node) /\ << >> \in Seq(Restore)
    OBVIOUS
  <2>2. QED
    BY <1>1, <1>3, <1>4, <1>5, <2>1 DEF IInv, TypeOK
<1>8. ListsMatchMarks' /\ NothingBelowCurLevel' /\ GatesQueued' /\ ListedBelow'
  BY <1>1, <1>6 DEF IInv, ListsMatchMarks, NothingBelowCurLevel, GatesQueued, ListedBelow
<1>9. TriggerPhase'
  BY <1>1, <1>2, <1>3, <1>5, <1>6, FS_EmptySet, SizeAssumption DEF TriggerPhase
<1>10. ListedOnce' /\ RememberedOnce' /\ OldValuesKept'
  BY <1>1, <1>4, <1>6 DEF ListedOnce, RememberedOnce, OldValuesKept
<1>11. QED
  BY <1>7, <1>8, <1>9, <1>10 DEF IInv

LEMMA NextIInv == IInv /\ [Next]_eventQVars => IInv'
<1> SUFFICES ASSUME IInv, [Next]_eventQVars PROVE IInv'
  OBVIOUS
<1>1. ASSUME Quiet, NEW v \in GoodValues, LoadValues(v) PROVE IInv'
  BY <1>1, LoadValuesKeeps
<1>2. ASSUME NEW n \in Node, NEW mask \in SUBSET Lane, NEW immediate \in BOOLEAN,
             MayTrigger(n, mask, immediate), PutTrigger(n, mask, immediate)
      PROVE  IInv'
  BY <1>2, TriggerNowKeeps, TriggerLaterKeeps
<1>3. CASE StartSimulate
  BY <1>3, StartSimulateKeeps
<1>4. CASE PutFanout
  BY <1>4, PutFanoutKeeps
<1>5. CASE NextLevel
  BY <1>5, NextLevelKeeps
<1>6. ASSUME NEW n \in Node, Evaluate(n) PROVE IInv'
  BY <1>6, EvaluateKeeps
<1>7. CASE Finish
  BY <1>7, FinishKeeps
<1>8. CASE UNCHANGED eventQVars
  BY <1>8 DEF eventQVars, queueVars, flipVars, historyVars, IInv, TypeOK, ListsMatchMarks,
              NothingBelowCurLevel, GatesQueued, ListedBelow, TriggerPhase, ListedOnce,
              RememberedOnce, OldValuesKept, ToPut, Listed, Remembered, Triggered
<1>9. QED
  BY <1>1, <1>2, <1>3, <1>4, <1>5, <1>6, <1>7, <1>8 DEF Next, CallerStep, QueueStep

LEMMA Invariance == Spec => []IInv
<1>1. QED
  BY InitIInv, NextIInv, PTL DEF Spec

-----------------------------------------------------------------------------
(* The levels of a finite network have a highest one.                      *)

-----------------------------------------------------------------------------
(* The theorems.                                                           *)

\* Type correctness: whatever is triggered in whatever order, the arrays and
\* the marks of EventQ keep their types, and no gate without fanins, whose
\* _calc_val() has no value, is ever evaluated.
THEOREM TypeCorrect == Spec => []TypeOK
<1>1. IInv => TypeOK
  BY DEF IInv
<1>2. QED
  BY <1>1, Invariance, PTL

\* put() and get() keep the queue marks, the node lists and mNum together
\* (EventQ.h:183-220).
THEOREM QueueIsSound == Spec => []ListsMatchMarks
<1>1. IInv => ListsMatchMarks
  BY DEF IInv
<1>2. QED
  BY <1>1, Invariance, PTL

\* No queued node lies below mCurLevel: get(), which only looks upwards, finds
\* every node that put() was given, also when the fanouts of one trigger lie
\* below those of the trigger before it.
THEOREM NoEventIsMissed == Spec => []NothingBelowCurLevel
<1>1. IInv => NothingBelowCurLevel
  BY DEF IInv
<1>2. QED
  BY <1>1, Invariance, PTL

\* A node that drives nothing must lie within mArray.  Then get() stays inside
\* it.  The buffers of control terminals above the highest (pseudo) primary
\* output do not satisfy the premise.
THEOREM LevelsFit ==
  ASSUME \A n \in Node : Fanout[n] = << >> => Level[n] < ArraySize
  PROVE  Spec => []LevelInArray
<1>1. \A n \in Node : Level[n] < ArraySize
  <2> SUFFICES ASSUME NEW n \in Node, ~ (Level[n] < ArraySize) PROVE FALSE
    OBVIOUS
  <2> DEFINE Above == {m \in Node : ~ (Level[m] < ArraySize)}
  <2>1. Above \subseteq Node /\ Above # {}
    OBVIOUS
  <2>2. PICK t \in Above : \A m \in Above : Level[m] <= Level[t]
    <3> HIDE DEF Above
    <3>1. QED
      BY <2>1, HighestNode
  <2>3. Fanout[t] \in Seq(Node) /\ Fanout[t] # << >>
    BY NetAssumption
  <2>4. 1 \in DOMAIN Fanout[t]
    BY <2>3
  <2>5. Fanout[t][1] \in Node /\ Level[t] < Level[Fanout[t][1]]
    BY <2>4, FanoutsAbove
  <2>6. QED
    BY <2>2, <2>5, LevelAssumption, SizeAssumption
<1>2. IInv => LevelInArray
  <2> SUFFICES ASSUME IInv, num > 0 PROVE curLevel < ArraySize
    BY DEF LevelInArray
  <2>1. Cardinality(inQueue) # 0 /\ Cardinality({}) = 0
    BY FS_EmptySet DEF IInv, ListsMatchMarks, TypeOK
  <2>2. PICK n : n \in inQueue
    BY <2>1
  <2>3. n \in Node /\ curLevel \in Nat /\ curLevel <= Level[n]
    BY <2>2 DEF IInv, TypeOK, NothingBelowCurLevel
  <2>4. QED
    BY <1>1, <2>3, LevelAssumption, SizeAssumption
<1>3. QED
  BY <1>2, Invariance, PTL

\* An injective sequence is not longer than the set of its elements.
LEMMA DistinctLength ==
  ASSUME NEW S, IsFiniteSet(S), NEW f, NEW k \in Nat, f \in [1 .. k -> S],
         \A i, j \in 1 .. k : f[i] = f[j] => i = j
  PROVE  k <= Cardinality(S)
<1>1. f \in Injection(1 .. k, S)
  BY DEF Injection, IsInjective
<1>2. Cardinality(1 .. k) <= Cardinality(S)
  BY <1>1, FS_Injection
<1>3. Cardinality(1 .. k) = k
  BY FS_Interval
<1>4. QED
  BY <1>2, <1>3

\* mClearArray and mMaskList never overflow, and no node is entered twice in
\* them: what put_trigger() and simulate() write before the restore loop.
THEOREM ArraysSuffice == Spec => []EnteredOnce
<1>1. ASSUME IInv PROVE EnteredOnce
  <2>1. Len(clearList) <= Cardinality(Node)
    <3> DEFINE k == Len(clearList)
               f == [i \in 1 .. k |-> clearList[i].node]
    <3>1. /\ clearList \in Seq(Restore) /\ k \in Nat /\ DOMAIN clearList = 1 .. k
          /\ \A i \in 1 .. k : clearList[i] \in Restore
      BY <1>1 DEF IInv, TypeOK
    <3>2. f \in [1 .. k -> Node]
      BY <3>1 DEF Restore
    <3>3. \A i, j \in 1 .. k : f[i] = f[j] => i = j
      BY <1>1, <3>1 DEF IInv, ListedOnce
    <3>4. IsFiniteSet(Node)
      BY NetAssumption
    <3> HIDE DEF f
    <3>5. QED
      BY <3>1, <3>2, <3>3, <3>4, DistinctLength
  <2>2. Len(maskList) <= MaskLimit
    <3>1. /\ maskList \in Seq(Node) /\ Len(maskList) \in Nat
          /\ DOMAIN maskList = 1 .. Len(maskList)
      BY <1>1 DEF IInv, TypeOK
    <3>2. maskList \in [1 .. Len(maskList) -> Triggered]
      BY <1>1, <3>1 DEF IInv, TriggerPhase, Remembered
    <3>3. \A i, j \in 1 .. Len(maskList) : maskList[i] = maskList[j] => i = j
      BY <1>1, <3>1 DEF IInv, RememberedOnce
    <3>4. IsFiniteSet(Triggered)
      BY NetAssumption, FS_Subset DEF Triggered
    <3>5. Len(maskList) <= Cardinality(Triggered)
      BY <3>1, <3>2, <3>3, <3>4, DistinctLength
    <3>6. Cardinality(Triggered) <= MaskLimit /\ Cardinality(Triggered) \in Nat
      BY <1>1, <3>4, FS_CardinalityType DEF IInv, TriggerPhase
    <3>7. QED
      BY <3>1, <3>5, <3>6, SizeAssumption
  <2>3. QED
    BY <1>1, <2>1, <2>2 DEF IInv, ListedOnce, RememberedOnce, EnteredOnce
<1>2. QED
  BY <1>1, Invariance, PTL

\* At every moment the clear list, put back from the front (EventQ.cc:135-139),
\* would restore the fault-free value of every node.
THEOREM AlwaysUndoable == Spec => []Undoable
<1>1. IInv => Undoable
  BY RestoredIsGood DEF IInv, Undoable
<1>2. QED
  BY <1>1, Invariance, PTL

\* Between two simulations the queue is empty and the values are the old ones.
LEMMA QuietClean ==
  ASSUME IInv, Quiet
  PROVE  inQueue = {} /\ flipped = {} /\ clearList = << >> /\ val = gval
<1>1. inQueue = {} /\ clearList = << >> /\ maskList = << >>
  BY DEF IInv, TriggerPhase, Quiet
<1>2. flipped = {} /\ Listed = {}
  BY <1>1 DEF IInv, TriggerPhase, Remembered, Listed
<1>3. val = gval
  BY <1>2 DEF IInv, OldValuesKept, TypeOK, Valuation
<1> QED BY <1>1, <1>2, <1>3

\* simulate() leaves nothing behind: no queued node, no mark, no value.
THEOREM NothingIsLeft == Spec => []CleanWhenQuiet
<1>1. IInv => CleanWhenQuiet
  BY QuietClean DEF CleanWhenQuiet
<1> QED BY <1>1, Invariance, PTL

\* Inside simulate() events only move up: what put() adds to the queue lies
\* above every node that has changed, so no node is evaluated twice.
THEOREM EventsRise == Spec => EventsMoveUp
<1> DEFINE Rising == running => \A n \in inQueue' \ inQueue : \A i \in DOMAIN clearList :
                                  Level[clearList[i].node] < Level[n]
<1>1. ASSUME IInv, [Next]_eventQVars, running PROVE Rising
  <2>1. ASSUME NEW v \in GoodValues, LoadValues(v) PROVE Rising
    BY <2>1 DEF LoadValues, queueVars
  <2>2. ASSUME NEW n \in Node, NEW mask \in SUBSET Lane, NEW immediate \in BOOLEAN,
               PutTrigger(n, mask, immediate)
        PROVE  Rising
    BY <1>1, <2>2 DEF PutTrigger
  <2>3. CASE StartSimulate
    BY <1>1, <2>3 DEF StartSimulate
  <2>4. CASE PutFanout
    <3> DEFINE n == Head(fanouts)
    <3>1. fanouts # << >> /\ Put(n) /\ fanouts \in Seq(Node)
      BY <1>1, <2>4 DEF PutFanout, IInv, TypeOK
    <3>2. n = fanouts[1] /\ 1 \in DOMAIN fanouts
      BY <3>1, TailProperties
    <3>3. n \in Node /\ n \in ToPut /\ GateType[n] # "Input"
      BY <1>1, <3>1, <3>2 DEF ToPut, IInv, GatesQueued
    <3>4. inQueue' \ inQueue \subseteq {n}
      BY <3>1 DEF Put, queueVars
    <3>5. Level[n] > 0
      <4>1. Fanin[n] \in Seq(Node) /\ Fanin[n] # << >>
        BY <3>3, NetAssumption
      <4>2. 1 \in DOMAIN Fanin[n] /\ Fanin[n][1] \in Node
        BY <4>1
      <4>3. QED
        BY <3>3, <4>2, LevelAssumption
    <3>6. \A c \in Listed : Level[c] < Level[n]
      BY <1>1, <3>3, <3>5, ListedType, LevelAssumption DEF IInv, ListedBelow
    <3>7. QED
      BY <3>4, <3>6 DEF Listed
  <2>5. CASE NextLevel
    BY <2>5 DEF NextLevel
  <2>6. ASSUME NEW n \in Node, Evaluate(n) PROVE Rising
    BY <2>6 DEF Evaluate, Take
  <2>7. CASE Finish
    BY <2>7 DEF Finish, queueVars
  <2>8. CASE UNCHANGED eventQVars
    BY <2>8 DEF eventQVars, queueVars
  <2>9. QED
    BY <1>1, <2>1, <2>2, <2>3, <2>4, <2>5, <2>6, <2>7, <2>8
       DEF Next, CallerStep, QueueStep
<1>2. IInv /\ [Next]_eventQVars => [Rising]_eventQVars
  BY <1>1
<1>3. QED
  BY <1>2, Invariance, PTL DEF Spec, EventsMoveUp

-----------------------------------------------------------------------------
(* Direct evaluation: FaultyValue() solves its equation.                   *)

LEMMA NoFlip ==
  ASSUME NEW w \in Word
  PROVE  Flip(w, {}) = w
  BY DEF Flip, Word

LEMMA FaultySolves ==
  ASSUME NEW g \in Valuation, NEW t
  PROVE  FaultyValue(g, t) \in Valuation /\ FaultyValue(g, t) = Evaluated(g, t, FaultyValue(g, t))
<1>1. \A n \in Node : IsInput(n) => g[n] \in [Lane -> Vals]
  BY DEF Valuation, Word
<1>2. Vals \in ValueSets
  BY LaneAssumption DEF ValueSets
<1>3. ValuesWith(g, t) \in [Node -> [Lane -> Vals]]
      /\ ValuesWith(g, t) = Evaluated(g, t, ValuesWith(g, t))
  BY <1>1, <1>2, DirectSolves
<1> QED BY <1>3 DEF FaultyValue, Valuation, Word

-----------------------------------------------------------------------------
(* What the nodes carry while simulate() runs.                             *)

\* The lanes that are still simulated: calc_val(~obs).
Live == IF running THEN Lane \ obs ELSE Lane

\* The value that node n has with the values v of its fanins and its trigger.
Local(v, n) == Flip(IF IsInput(n) THEN gval[n] ELSE CalcVal(n, v), trig[n])

\* A node that is not waiting agrees with its fanins and its trigger.
Settled ==
  \A n \in Node \ (inQueue \cup ToPut) : \A b \in Live : val[n][b] = Local(val, n)[b]

FlipMasks == \A n \in flipped : flipMask[n] = trig[n]
TriggeredListed == Triggered \ flipped \subseteq Listed
TriggersInside == Triggered \cap Output = {}

\* What an output has changed is in obs, and obs holds nothing else.
ChangesObserved == running => \A n \in Output : Diff(gval[n], val[n]) \subseteq obs
ObservedRightly == running => obs \subseteq Observed(gval, FaultyValue(gval, trig))

ValuesInv ==
  /\ gval \in GoodValues
  /\ Settled
  /\ FlipMasks
  /\ TriggeredListed
  /\ TriggersInside
  /\ ChangesObserved
  /\ ObservedRightly

(* Below the lowest waiting node every node has its final value.            *)
LEMMA FinalBelow ==
  ASSUME IInv, NEW b \in Lane, NEW k \in Nat,
         \A n \in Node : Level[n] < k => val[n][b] = Local(val, n)[b]
  PROVE  \A n \in Node : Level[n] < k => val[n][b] = FaultyValue(gval, trig)[n][b]
<1> DEFINE F == FaultyValue(gval, trig)
           T == {n \in Node : Level[n] < k => val[n][b] = F[n][b]}
<1>1. F = Evaluated(gval, trig, F)
  BY FaultySolves DEF IInv, TypeOK
<1> HIDE DEF F
<1>2. ASSUME NEW n \in Node, \A m \in Node : Level[m] < Level[n] => m \in T
      PROVE  n \in T
  <2> SUFFICES ASSUME Level[n] < k PROVE val[n][b] = F[n][b]
    OBVIOUS
  <2>1. \A m \in Node : Level[m] < Level[n] => val[m][b] = F[m][b]
    <3> SUFFICES ASSUME NEW m \in Node, Level[m] < Level[n] PROVE val[m][b] = F[m][b]
      OBVIOUS
    <3>1. Level[m] < k
      BY LevelAssumption
    <3> QED BY <1>2, <3>1
  <2>2. CalcVal(n, val)[b] = CalcVal(n, F)[b]
    BY <2>1, CalcLane
  <2>3. Local(val, n)[b] = Flip(IF IsInput(n) THEN gval[n] ELSE CalcVal(n, F), trig[n])[b]
    BY <2>2, FlipLane DEF Local
  <2>4. F[n] = Flip(IF IsInput(n) THEN gval[n] ELSE CalcVal(n, F), trig[n])
    BY <1>1 DEF Evaluated
  <2> QED BY <2>3, <2>4
<1>3. Node \subseteq T
  <2> HIDE DEF T
  <2> QED BY <1>2, RankInduction, LevelAssumption
<1> QED BY <1>3 DEF F

\* Between two simulations the values are those of the fault-free circuit.
LEMMA QuietValues ==
  val \in GoodValues /\ gval = val /\ Triggered = {} /\ flipped = {} /\ ~ running => ValuesInv
<1> SUFFICES ASSUME val \in GoodValues, gval = val, Triggered = {}, flipped = {}, ~ running
             PROVE  ValuesInv
  OBVIOUS
<1>1. val \in Valuation /\ Consistent(val)
  BY GoodAssumption
<1>2. \A n \in Node : trig[n] = {}
  BY DEF Triggered
<1>3. \A n \in Node : val[n] \in Word /\ Local(val, n) = val[n]
  BY <1>1, <1>2, NoFlip DEF Local, Consistent, Valuation, IsInput
<1> QED BY <1>3 DEF ValuesInv, Settled, FlipMasks, TriggeredListed, TriggersInside,
                    ChangesObserved, ObservedRightly

LEMMA InitValues == Init => ValuesInv
<1>1. Init => val \in GoodValues /\ gval = val /\ Triggered = {} /\ flipped = {} /\ ~ running
  BY DEF Init, Triggered, NoTrigger
<1> QED BY <1>1, QuietValues

\* A step that changes no value, no trigger and no observation.
LEMMA SameValues ==
  ASSUME ValuesInv, UNCHANGED <<val, gval, trig, running, obs, flipped, flipMask>>,
         Listed \subseteq Listed', inQueue \cup ToPut \subseteq inQueue' \cup ToPut'
  PROVE  ValuesInv'
<1>1. Triggered' = Triggered /\ Live' = Live /\ \A n : Local(val, n)' = Local(val, n)
  BY DEF Triggered, Live, Local
<1>2. Settled'
  BY <1>1 DEF ValuesInv, Settled
<1> QED BY <1>1, <1>2 DEF ValuesInv, FlipMasks, TriggeredListed, TriggersInside,
                          ChangesObserved, ObservedRightly

\* When the value of one node changes, only its fanouts are unsettled: no gate
\* is its own fanin.
LEMMA OthersSettled ==
  ASSUME NEW n \in Node, NEW u, \A k \in Node : k # n => u[k] = val[k],
         NEW m \in Node, m = n \/ \A i \in DOMAIN Fanout[n] : Fanout[n][i] # m
  PROVE  CalcVal(m, u) = CalcVal(m, val)
<1>1. ASSUME NEW i \in DOMAIN Fanin[m] PROVE Fanin[m][i] # n /\ Fanin[m][i] \in Node
  <2>1. Fanin[m][i] \in Node /\ Level[Fanin[m][i]] < Level[m] /\ Level[m] \in Nat
    BY NetAssumption, LevelAssumption
  <2>2. Fanin[m][i] # m
    BY <2>1
  <2> QED BY <2>1, <2>2, FanoutAssumption
<1>2. \A b : FaninVals(m, u, b) = FaninVals(m, val, b)
  BY <1>1 DEF FaninVals
<1> QED BY <1>2 DEF CalcVal

LEMMA ListedGrows ==
  ASSUME TypeOK, NEW n \in Node, NEW w \in Word, AddToClearList(n, w)
  PROVE  Listed \subseteq Listed'
<1>1. [node |-> n, val |-> w] \in Restore /\ clearList \in Seq(Restore)
  BY DEF Restore, TypeOK
<1>2. \A i \in DOMAIN clearList : i \in DOMAIN clearList' /\ clearList'[i] = clearList[i]
  BY <1>1, AppendProperties DEF AddToClearList
<1> QED BY <1>2 DEF Listed

LEMMA LoadValuesValues ==
  ASSUME IInv, Quiet, NEW v \in GoodValues, LoadValues(v)
  PROVE  ValuesInv'
<1>1. (val \in GoodValues /\ gval = val /\ Triggered = {} /\ flipped = {} /\ ~ running => ValuesInv)'
  BY QuietValues, PTL
<1>2. val' \in GoodValues /\ gval' = val' /\ Triggered' = {} /\ flipped' = {} /\ ~ running'
  BY QuietClean DEF LoadValues, flipVars, Quiet, Triggered
<1> QED BY <1>1, <1>2

LEMMA FinishValues ==
  ASSUME IInv, ValuesInv, Finish
  PROVE  ValuesInv'
<1>1. (val \in GoodValues /\ gval = val /\ Triggered = {} /\ flipped = {} /\ ~ running => ValuesInv)'
  BY QuietValues, PTL
<1>2. Triggered' = {} /\ ~ running' /\ gval' = gval
  BY DEF Finish, Triggered, NoTrigger
<1>3. flipped' = {}
  BY DEF Finish, FlippedAfter, IInv, TriggerPhase, Remembered
<1>4. val' = gval
  BY RestoredIsGood DEF Finish, IInv, TypeOK, Valuation
<1> QED BY <1>1, <1>2, <1>3, <1>4 DEF ValuesInv

LEMMA TriggerNowValues ==
  ASSUME IInv, ValuesInv, NEW n \in Node, NEW mask \in SUBSET Lane, NEW immediate \in BOOLEAN,
         MayTrigger(n, mask, immediate), PutTrigger(n, mask, immediate),
         immediate \/ GateType[n] = "Input"
  PROVE  ValuesInv'
<1> DEFINE w == Flip(val[n], mask)
<1>1. /\ ~running /\ ~running' /\ fanouts = << >> /\ ToPut = {}
      /\ val' = [val EXCEPT ![n] = w]
      /\ AddToClearList(n, val[n])
      /\ fanouts' = Fanout[n]
      /\ UNCHANGED <<inQueue, flipped, flipMask, gval>>
      /\ trig' = [trig EXCEPT ![n] = mask]
      /\ n \notin Output /\ (immediate => Triggered = {})
  BY DEF MayTrigger, PutTrigger, TriggerNow, queueVars, flipVars, ToPut
<1>2. n \notin Triggered /\ n \notin Listed /\ n \notin flipped /\ Triggered' = Triggered \cup {n}
  BY TriggerFacts
<1>3. val[n] \in Word /\ trig[n] = {} /\ trig'[n] = mask
      /\ \A m \in Node : m # n => trig'[m] = trig[m]
  BY <1>1, <1>2 DEF IInv, TypeOK, Valuation, Triggered
<1>4. Listed' = Listed \cup {n}
  <2>1. w \in Word
    BY <1>3, FlipType
  <2> HIDE DEF w
  <2> QED BY <1>1, <1>2, <2>1, EnterNode DEF IInv
<1>5. n \notin inQueue
  <2>1. CASE immediate
    BY <1>1, <2>1 DEF IInv, TriggerPhase
  <2>2. CASE GateType[n] = "Input"
    BY <2>2 DEF IInv, GatesQueued
  <2> QED BY <2>1, <2>2
<1>6. Live = Lane /\ Live' = Lane
  BY <1>1 DEF Live
<1>7. \A k \in Node : k # n => val'[k] = val[k]
  BY <1>1 DEF IInv, TypeOK, Valuation
<1>8. \A b \in Lane : val'[n][b] = Local(val, n)'[b]
  <2> DEFINE base == IF IsInput(n) THEN gval[n] ELSE CalcVal(n, val)
  <2>1. (IF IsInput(n) THEN gval'[n] ELSE CalcVal(n, val')) = base
    BY <1>1, <1>7, OthersSettled
  <2>2. \A b \in Lane : val[n][b] = Flip(base, {})[b]
    <3>1. n \in Node \ (inQueue \cup ToPut)
      BY <1>1, <1>5
    <3>2. Local(val, n) = Flip(base, {})
      BY <1>3 DEF Local
    <3> HIDE DEF base
    <3> QED BY <1>6, <3>1, <3>2 DEF ValuesInv, Settled
  <2>3. \A b \in Lane : val[n][b] = base[b]
    <3> HIDE DEF base
    <3> QED BY <2>2 DEF Flip
  <2>4. val'[n] = Flip(val[n], mask)
    BY <1>1 DEF IInv, TypeOK, Valuation
  <2>5. Local(val, n)' = Flip(base, mask)
    BY <1>3, <2>1 DEF Local
  <2> HIDE DEF base
  <2> QED BY <2>3, <2>4, <2>5, FlipLane
<1>9. ASSUME NEW m \in Node \ (inQueue' \cup ToPut'), NEW b \in Lane, m # n
      PROVE  val'[m][b] = Local(val, m)'[b]
  <2>1. \A i \in DOMAIN Fanout[n] : Fanout[n][i] # m
    BY <1>1 DEF ToPut
  <2>2. val'[m] = val[m] /\ CalcVal(m, val') = CalcVal(m, val)
    BY <1>9, <1>7, <2>1, OthersSettled
  <2>3. Local(val, m)' = Local(val, m)
    BY <1>1, <1>3, <1>9, <2>2 DEF Local
  <2>4. m \in Node \ (inQueue \cup ToPut)
    BY <1>1
  <2>5. val[m][b] = Local(val, m)[b]
    BY <1>6, <2>4 DEF ValuesInv, Settled
  <2> QED BY <2>2, <2>3, <2>5
<1>10. Settled'
  BY <1>6, <1>8, <1>9 DEF Settled
<1>11. FlipMasks'
  <2>1. flipped \subseteq Node
    BY DEF IInv, TypeOK
  <2> QED BY <1>1, <1>2, <1>3, <2>1 DEF ValuesInv, FlipMasks
<1>12. TriggeredListed' /\ TriggersInside'
  BY <1>1, <1>2, <1>4 DEF ValuesInv, TriggeredListed, TriggersInside
<1> QED BY <1>1, <1>10, <1>11, <1>12 DEF ValuesInv, ChangesObserved, ObservedRightly

LEMMA TriggerLaterValues ==
  ASSUME IInv, ValuesInv, NEW n \in Node, NEW mask \in SUBSET Lane, NEW immediate \in BOOLEAN,
         MayTrigger(n, mask, immediate), PutTrigger(n, mask, immediate),
         ~ (immediate \/ GateType[n] = "Input")
  PROVE  ValuesInv'
<1>1. /\ ~running /\ ~running' /\ n \notin Output
      /\ flipped' = flipped \cup {n}
      /\ flipMask' = [flipMask EXCEPT ![n] = mask]
      /\ Put(n)
      /\ UNCHANGED <<val, clearList, fanouts, gval>>
      /\ trig' = [trig EXCEPT ![n] = mask]
  BY DEF MayTrigger, PutTrigger, TriggerLater
<1>2. n \notin Triggered /\ n \notin flipped /\ Triggered' = Triggered \cup {n}
  BY TriggerFacts
<1>3. inQueue' = inQueue \cup {n}
  BY <1>1, PutKeepsQueue, QueueInvFromIInv
<1>4. trig'[n] = mask /\ \A m \in Node : m # n => trig'[m] = trig[m]
  BY <1>1 DEF IInv, TypeOK
<1>5. Live = Lane /\ Live' = Lane
  BY <1>1 DEF Live
<1>6. Settled'
  <2> SUFFICES ASSUME NEW m \in Node \ (inQueue' \cup ToPut'), NEW b \in Lane
               PROVE  val'[m][b] = Local(val, m)'[b]
    BY <1>5 DEF Settled
  <2>1. m # n /\ m \in Node \ (inQueue \cup ToPut)
    BY <1>1, <1>3 DEF ToPut
  <2>2. val' = val /\ Local(val, m)' = Local(val, m)
    BY <1>1, <1>4, <2>1 DEF Local
  <2> QED BY <1>5, <2>1, <2>2 DEF ValuesInv, Settled
<1>7. FlipMasks'
  <2>1. flipped \subseteq Node /\ flipMask'[n] = mask
        /\ \A m \in Node : m # n => flipMask'[m] = flipMask[m]
    BY <1>1 DEF IInv, TypeOK
  <2> QED BY <1>1, <1>2, <1>4, <2>1 DEF ValuesInv, FlipMasks
<1>8. TriggeredListed' /\ TriggersInside'
  BY <1>1, <1>2 DEF ValuesInv, TriggeredListed, TriggersInside, Listed
<1> QED BY <1>1, <1>6, <1>7, <1>8 DEF ValuesInv, ChangesObserved, ObservedRightly

LEMMA StartValues ==
  ASSUME IInv, ValuesInv, StartSimulate
  PROVE  ValuesInv'
<1>1. /\ ~running /\ running' /\ obs' = {}
      /\ UNCHANGED <<val, inQueue, clearList, flipped, flipMask, fanouts, gval, trig>>
  BY DEF StartSimulate, queueVars, flipVars, historyVars
<1>2. Live = Lane /\ Live' = Lane /\ \A m : Local(val, m)' = Local(val, m)
  BY <1>1 DEF Live, Local
<1>3. Settled'
  BY <1>1, <1>2 DEF ValuesInv, Settled, ToPut
<1>4. \A n \in Output : val[n] = gval[n]
  BY <1>1, NetAssumption DEF IInv, TriggerPhase, OldValuesKept, ValuesInv, TriggersInside
<1>5. ChangesObserved'
  BY <1>1, <1>4 DEF ChangesObserved, Diff
<1>6. FlipMasks' /\ TriggeredListed' /\ TriggersInside'
  BY <1>1 DEF ValuesInv, FlipMasks, TriggeredListed, TriggersInside, Triggered, Listed
<1> QED BY <1>1, <1>3, <1>5, <1>6 DEF ValuesInv, ObservedRightly

LEMMA PutFanoutValues ==
  ASSUME IInv, ValuesInv, PutFanout
  PROVE  ValuesInv'
<1>1. /\ fanouts # << >> /\ Put(Head(fanouts)) /\ fanouts' = Tail(fanouts)
      /\ UNCHANGED <<val, clearList, flipped, flipMask, running, obs, gval, trig>>
  BY DEF PutFanout, flipVars, historyVars
<1>2. /\ fanouts \in Seq(Node) /\ Len(fanouts) \in Nat \ {0}
      /\ Head(fanouts) = fanouts[1] /\ Head(fanouts) \in Node
      /\ DOMAIN fanouts = 1 .. Len(fanouts) /\ DOMAIN fanouts' = 1 .. Len(fanouts) - 1
      /\ \A i \in 1 .. Len(fanouts) - 1 : fanouts'[i] = fanouts[i + 1]
  BY <1>1, TailProperties DEF IInv, TypeOK
<1>3. inQueue' = inQueue \cup {Head(fanouts)}
  BY <1>1, <1>2, PutKeepsQueue, QueueInvFromIInv
<1>4. ToPut \subseteq {Head(fanouts)} \cup ToPut'
  <2> SUFFICES ASSUME NEW i \in DOMAIN fanouts PROVE fanouts[i] \in {Head(fanouts)} \cup ToPut'
    BY DEF ToPut
  <2>1. CASE i = 1
    BY <1>2, <2>1
  <2>2. CASE i # 1
    <3>1. i - 1 \in DOMAIN fanouts' /\ fanouts'[i - 1] = fanouts[i]
      BY <1>2, <2>2
    <3> QED BY <3>1 DEF ToPut
  <2> QED BY <2>1, <2>2
<1>5. Listed' = Listed
  BY <1>1 DEF Listed
<1> QED BY <1>1, <1>3, <1>4, <1>5, SameValues DEF ToPut

LEMMA NextLevelValues ==
  ASSUME ValuesInv, NextLevel
  PROVE  ValuesInv'
<1>1. UNCHANGED <<val, gval, trig, running, obs, flipped, flipMask, inQueue, fanouts, clearList>>
  BY DEF NextLevel, flipVars, historyVars
<1> QED BY <1>1, SameValues DEF Listed, ToPut

LEMMA EvaluateValues ==
  ASSUME IInv, ValuesInv, NEW n \in Node, Evaluate(n)
  PROVE  ValuesInv'
<1> DEFINE w == NewValue(n)
           F == FaultyValue(gval, trig)
<1>1. /\ running /\ running' /\ fanouts = << >> /\ ToPut = {} /\ num > 0 /\ Take(n)
      /\ val' = [val EXCEPT ![n] = w]
      /\ UNCHANGED <<flipped, flipMask, gval, trig>>
  BY DEF Evaluate, flipVars, historyVars, ToPut
<1>2. n \in inQueue /\ Level[n] = curLevel /\ inQueue' = inQueue \ {n} /\ curLevel \in Nat
  BY <1>1, TakeKeepsQueue, QueueInvFromIInv DEF IInv, TypeOK
<1>3. ~ IsInput(n) /\ n \notin Listed /\ val[n] = gval[n]
  BY <1>2 DEF IInv, GatesQueued, ListedBelow, OldValuesKept, IsInput
<1>4. (n \in flipped => flipMask[n] = trig[n]) /\ (n \notin flipped => trig[n] = {})
  BY <1>3 DEF ValuesInv, FlipMasks, TriggeredListed, Triggered
<1>5. \A b \in Lane \ obs : w[b] = Local(val, n)[b]
  <2> DEFINE calc == SetWithMask(val[n], CalcVal(n, val), Lane \ obs)
  <2>1. \A b \in Lane \ obs : calc[b] = CalcVal(n, val)[b]
    BY DEF SetWithMask
  <2> HIDE DEF calc
  <2>2. \A b \in Lane \ obs : Flip(calc, trig[n])[b] = Local(val, n)[b]
    BY <1>3, <2>1, FlipLane DEF Local
  <2>3. CASE n \in flipped
    BY <1>4, <2>2, <2>3 DEF NewValue, calc
  <2>4. CASE n \notin flipped
    <3>1. w = calc
      BY <2>4 DEF NewValue, calc
    <3>2. \A b \in Lane : Flip(calc, {})[b] = calc[b]
      BY DEF Flip
    <3> QED BY <1>4, <2>2, <2>4, <3>1, <3>2
  <2> QED BY <2>3, <2>4
<1>6. F = Evaluated(gval, trig, F)
  BY FaultySolves DEF IInv, TypeOK
<1>7. ASSUME NEW b \in Lane \ obs PROVE w[b] = F[n][b]
  <2>1. \A m \in Node : Level[m] < curLevel => val[m][b] = Local(val, m)[b]
    <3> SUFFICES ASSUME NEW m \in Node, Level[m] < curLevel PROVE val[m][b] = Local(val, m)[b]
      OBVIOUS
    <3>1. m \notin inQueue
      BY <1>2, LevelAssumption DEF IInv, NothingBelowCurLevel
    <3> QED BY <1>1, <3>1 DEF ValuesInv, Settled, Live
  <2>2. \A m \in Node : Level[m] < curLevel => val[m][b] = F[m][b]
    BY <1>2, <2>1, FinalBelow
  <2> HIDE DEF F
  <2>3. CalcVal(n, val)[b] = CalcVal(n, F)[b]
    BY <1>2, <2>2, CalcLane
  <2>4. Local(val, n)[b] = Flip(CalcVal(n, F), trig[n])[b]
    BY <1>3, <2>3, FlipLane DEF Local
  <2>5. F[n] = Flip(CalcVal(n, F), trig[n])
    BY <1>3, <1>6 DEF Evaluated
  <2> QED BY <1>5, <2>4, <2>5
<1>8. val'[n] = w /\ \A m \in Node : m # n => val'[m] = val[m]
  BY <1>1 DEF IInv, TypeOK, Valuation
<1>9. TypeOK /\ val[n] \in Word
  BY DEF IInv, TypeOK, Valuation
<1>10. /\ w = val[n] => obs' = obs /\ clearList' = clearList
       /\ w # val[n] => ToPut' = {Fanout[n][i] : i \in DOMAIN Fanout[n]}
       /\ w # val[n] /\ n \in Output => obs' = obs \cup Diff(w, val[n])
       /\ n \notin Output => obs' = obs
       /\ Listed \subseteq Listed'
  <2>1. CASE w = val[n]
    BY <2>1 DEF Evaluate, Listed
  <2>2. CASE w # val[n] /\ n \in Output
    <3>1. fanouts' = fanouts /\ obs' = obs \cup Diff(w, val[n]) /\ Fanout[n] = << >>
          /\ AddToClearList(n, val[n])
      BY <2>2, FanoutAssumption DEF Evaluate
    <3> QED BY <1>1, <1>9, <2>2, <3>1, ListedGrows DEF ToPut
  <2>3. CASE w # val[n] /\ n \notin Output
    <3>1. fanouts' = Fanout[n] /\ obs' = obs /\ AddToClearList(n, val[n])
      BY <2>3 DEF Evaluate
    <3> QED BY <1>9, <2>3, <3>1, ListedGrows DEF ToPut
  <2> QED BY <2>1, <2>2, <2>3
<1> HIDE DEF w, F
<1>11. obs \subseteq obs' /\ Live' \subseteq Live /\ Live = Lane \ obs
  BY <1>1, <1>10 DEF Live
<1>12. ASSUME NEW m \in Node \ (inQueue' \cup ToPut'), NEW b \in Live'
       PROVE  val'[m][b] = Local(val, m)'[b]
  <2>1. CASE m = n
    <3>1. CalcVal(n, val') = CalcVal(n, val)
      BY <1>8, OthersSettled
    <3>2. Local(val, n)' = Local(val, n)
      BY <1>1, <3>1 DEF Local
    <3> QED BY <1>5, <1>8, <1>11, <2>1, <3>2 DEF w
  <2>2. CASE m # n /\ w = val[n]
    <3>1. \A k \in Node : val'[k] = val[k]
      BY <1>8, <2>2
    <3>2. \A i \in DOMAIN Fanin[m] : Fanin[m][i] \in Node
      BY NetAssumption
    <3>3. \A c : FaninVals(m, val', c) = FaninVals(m, val, c)
      BY <3>1, <3>2 DEF FaninVals
    <3>4. Local(val, m)' = Local(val, m)
      BY <1>1, <3>3 DEF Local, CalcVal
    <3>5. m \in Node \ (inQueue \cup ToPut)
      BY <1>1, <1>2, <2>2
    <3> QED BY <1>11, <3>1, <3>4, <3>5 DEF ValuesInv, Settled
  <2>3. CASE m # n /\ w # val[n]
    <3>1. \A i \in DOMAIN Fanout[n] : Fanout[n][i] # m
      BY <1>10, <2>3
    <3>2. CalcVal(m, val') = CalcVal(m, val) /\ val'[m] = val[m]
      BY <1>8, <2>3, <3>1, OthersSettled
    <3>3. Local(val, m)' = Local(val, m)
      BY <1>1, <3>2 DEF Local
    <3>4. m \in Node \ (inQueue \cup ToPut)
      BY <1>1, <1>2, <2>3
    <3> QED BY <1>11, <3>2, <3>3, <3>4 DEF ValuesInv, Settled
  <2> QED BY <2>1, <2>2, <2>3
<1>13. Settled'
  BY <1>12 DEF Settled
<1>14. ChangesObserved'
  <2> SUFFICES ASSUME NEW o \in Output PROVE Diff(gval'[o], val'[o]) \subseteq obs'
    BY DEF ChangesObserved
  <2>1. CASE o # n
    BY <1>1, <1>8, <1>11, <2>1, NetAssumption DEF ValuesInv, ChangesObserved
  <2>2. CASE o = n /\ w = val[n]
    BY <1>1, <1>3, <1>8, <2>2 DEF Diff
  <2>3. CASE o = n /\ w # val[n]
    BY <1>1, <1>3, <1>8, <1>10, <2>3 DEF Diff
  <2> QED BY <2>1, <2>2, <2>3
<1>15. ObservedRightly'
  <2> SUFFICES ASSUME NEW b \in obs' PROVE b \in Observed(gval, F)
    BY <1>1 DEF ObservedRightly, F
  <2>1. CASE b \in obs
    BY <1>1, <2>1 DEF ValuesInv, ObservedRightly, F
  <2>2. CASE b \notin obs
    <3>1. n \in Output /\ b \in Diff(w, val[n])
      BY <1>10, <2>2
    <3>2. b \in Lane /\ w[b] = F[n][b]
      BY <1>7, <2>2, <3>1 DEF Diff
    <3>3. b \in Diff(gval[n], F[n])
      BY <1>3, <3>1, <3>2 DEF Diff
    <3> QED BY <3>1, <3>3 DEF Observed
  <2> QED BY <2>1, <2>2
<1>16. FlipMasks' /\ TriggeredListed' /\ TriggersInside'
  BY <1>1, <1>10 DEF ValuesInv, FlipMasks, TriggeredListed, TriggersInside, Triggered
<1> QED BY <1>1, <1>13, <1>14, <1>15, <1>16 DEF ValuesInv

LEMMA NextValues ==
  IInv /\ ValuesInv /\ [Next]_eventQVars => ValuesInv'
<1> SUFFICES ASSUME IInv, ValuesInv, [Next]_eventQVars PROVE ValuesInv'
  OBVIOUS
<1>1. ASSUME Quiet, NEW v \in GoodValues, LoadValues(v) PROVE ValuesInv'
  BY <1>1, LoadValuesValues
<1>2. ASSUME NEW n \in Node, NEW mask \in SUBSET Lane, NEW immediate \in BOOLEAN,
             MayTrigger(n, mask, immediate), PutTrigger(n, mask, immediate)
      PROVE  ValuesInv'
  BY <1>2, TriggerNowValues, TriggerLaterValues
<1>3. CASE StartSimulate
  BY <1>3, StartValues
<1>4. CASE PutFanout
  BY <1>4, PutFanoutValues
<1>5. CASE NextLevel
  BY <1>5, NextLevelValues
<1>6. ASSUME NEW n \in Node, Evaluate(n) PROVE ValuesInv'
  BY <1>6, EvaluateValues
<1>7. CASE Finish
  BY <1>7, FinishValues
<1>8. CASE UNCHANGED eventQVars
  BY <1>8, SameValues DEF eventQVars, queueVars, flipVars, historyVars, Listed, ToPut
<1> QED BY <1>1, <1>2, <1>3, <1>4, <1>5, <1>6, <1>7, <1>8 DEF Next, CallerStep, QueueStep

-----------------------------------------------------------------------------
(* The refinement: every step of the queue is a step of the promise or     *)
(* leaves it alone.                                                        *)

\* Putting the fault-free values back, simulate() has computed what direct
\* evaluation of the complemented network computes.
LEMMA ObservedAtEnd ==
  ASSUME IInv, ValuesInv, Finish
  PROVE  obs = Observed(gval, FaultyValue(gval, trig))
<1> DEFINE F == FaultyValue(gval, trig)
<1>1. running /\ fanouts = << >> /\ num = 0 /\ ToPut = {}
  BY DEF Finish, ToPut
<1>2. inQueue = {}
  BY <1>1, EmptyQueue, QueueInvFromIInv
<1>3. \A n \in Node : \A b \in Lane \ obs : val[n][b] = Local(val, n)[b]
  BY <1>1, <1>2 DEF ValuesInv, Settled, Live
<1>4. ASSUME NEW n \in Node, NEW b \in Lane \ obs PROVE val[n][b] = F[n][b]
  <2>1. Level[n] + 1 \in Nat /\ Level[n] < Level[n] + 1
    BY LevelAssumption
  <2>2. \A m \in Node : Level[m] < Level[n] + 1 => val[m][b] = F[m][b]
    BY <1>3, <2>1, FinalBelow
  <2> QED BY <2>1, <2>2
<1> HIDE DEF F
<1>5. ASSUME NEW n \in Output, NEW b \in Diff(gval[n], F[n]), b \notin obs PROVE FALSE
  <2>1. n \in Node /\ b \in Lane
    BY NetAssumption DEF Diff
  <2>2. b \in Diff(gval[n], val[n])
    BY <1>4, <1>5, <2>1 DEF Diff
  <2> QED BY <1>1, <1>5, <2>2 DEF ValuesInv, ChangesObserved
<1>6. Observed(gval, F) \subseteq obs
  BY <1>5 DEF Observed
<1>7. obs \subseteq Observed(gval, F)
  BY <1>1 DEF ValuesInv, ObservedRightly, F
<1> QED BY <1>6, <1>7 DEF F

LEMMA SameReference ==
  /\ \A type, ins : Promise!GateFunction(type, ins) = GateFunction(type, ins)
  /\ \A w, m : Promise!Flip(w, m) = Flip(w, m)
  /\ \A u, w : Promise!Diff(u, w) = Diff(u, w)
  /\ \A n, v : Promise!CalcVal(n, v) = CalcVal(n, v)
  /\ \A g, t : Promise!FaultyValue(g, t) = FaultyValue(g, t)
  /\ \A g, v : Promise!Observed(g, v) = Observed(g, v)
<1>1. \A ins, x : Promise!Some(ins, x) = Some(ins, x)
  BY DEF Promise!Some, Some
<1>2. \A v : Promise!Complement(v) = Complement(v)
  BY DEF Promise!Complement, Complement
<1>3. /\ \A ins : Promise!AndOf(ins) = AndOf(ins)
      /\ \A ins : Promise!OrOf(ins) = OrOf(ins)
      /\ \A ins : Promise!XorOf(ins) = XorOf(ins)
  <2>1. \A ins : Promise!AndOf(ins) = AndOf(ins)
    BY <1>1, Zenon DEF Promise!AndOf, AndOf
  <2>2. \A ins : Promise!OrOf(ins) = OrOf(ins)
    BY <1>1, Zenon DEF Promise!OrOf, OrOf
  <2>3. \A ins : Promise!XorOf(ins) = XorOf(ins)
    <3>1. ASSUME NEW ins PROVE Promise!XorOf(ins) = XorOf(ins)
      <4>1. Promise!Some(ins, "X") = Some(ins, "X")
        BY <1>1
      <4>2. \A S : Promise!Cardinality(S) = Cardinality(S)
        BY Zenon DEF Promise!Cardinality, Cardinality
      <4> QED BY <4>1, <4>2, Zenon DEF Promise!XorOf, XorOf
    <3> QED BY <3>1
  <2> QED BY <2>1, <2>2, <2>3
<1>4. \A type, ins : Promise!GateFunction(type, ins) = GateFunction(type, ins)
  BY <1>2, <1>3, Zenon DEF Promise!GateFunction, GateFunction
<1>5. \A w, m : Promise!Flip(w, m) = Flip(w, m)
  BY <1>2 DEF Promise!Flip, Flip
<1>6. \A u, w : Promise!Diff(u, w) = Diff(u, w)
  BY DEF Promise!Diff, Diff
<1>7. \A n, v : Promise!CalcVal(n, v) = CalcVal(n, v)
  BY <1>4 DEF Promise!CalcVal, CalcVal, Promise!FaninVals, FaninVals
<1>8. \A g, t : Promise!FaultyValue(g, t) = FaultyValue(g, t)
  <2>1. ASSUME NEW g, NEW t PROVE Promise!FaultyValue(g, t) = FaultyValue(g, t)
    <3> DEFINE E(f) == [m \in Node |-> Promise!Flip(IF Promise!IsInput(m) THEN g[m]
                                                    ELSE Promise!CalcVal(m, f), t[m])]
    <3>1. Promise!FaultyValue(g, t) = [n \in Node |-> (CHOOSE f : f = E(f))[n]]
      BY Zenon DEF Promise!FaultyValue, Promise!ValuesWith
    <3>2. FaultyValue(g, t) = [n \in Node |-> (CHOOSE f : f = Evaluated(g, t, f))[n]]
      BY Zenon DEF FaultyValue, ValuesWith, Evaluated
    <3>3. \A f : E(f) = Evaluated(g, t, f)
      BY <1>5, <1>7, Zenon DEF Promise!IsInput, IsInput, Evaluated
    <3> HIDE DEF E
    <3>4. (CHOOSE f : f = E(f)) = (CHOOSE f : f = Evaluated(g, t, f))
      BY <3>3
    <3> QED BY <3>1, <3>2, <3>4
  <2> QED BY <2>1
<1>9. \A g, v : Promise!Observed(g, v) = Observed(g, v)
  BY <1>6 DEF Promise!Observed, Observed
<1> QED BY <1>4, <1>5, <1>6, <1>7, <1>8, <1>9

\* Whoever looks at the network sees the fault-free values.
LEMMA FaultFreeSeen == IInv => (IF Quiet THEN val ELSE gval) = gval
  BY QuietClean

LEMMA InitPromise == Init => Promise!Init
<1> SUFFICES ASSUME Init PROVE Promise!Init
  OBVIOUS
<1>1. trig = Promise!NoMask /\ ~ running /\ obs = {} /\ val \in GoodValues /\ gval = val
  BY DEF Init, NoTrigger, Promise!NoMask
<1> QED BY <1>1 DEF Promise!Init

LEMMA NextPromise ==
  ASSUME IInv, IInv', ValuesInv, [Next]_eventQVars
  PROVE  [Promise!Next]_(Promise!propagationVars)
<1> DEFINE value == IF Quiet THEN val ELSE gval
           result == IF running THEN {} ELSE obs
           Stutter == UNCHANGED <<value, trig, running, result>>
           Goal == [Promise!Next]_(Promise!propagationVars)
<1>1. value = gval /\ value' = gval'
  <2>1. (IInv => value = gval)'
    BY FaultFreeSeen, PTL
  <2> QED BY <2>1, FaultFreeSeen
<1> HIDE DEF value
<1>2. ASSUME UNCHANGED <<gval, trig, running, result>> PROVE Goal
  BY <1>1, <1>2 DEF Promise!propagationVars, value
<1>3. Promise!Triggered = Triggered /\ Promise!NoMask = NoTrigger
  BY DEF Promise!Triggered, Triggered, Promise!NoMask, NoTrigger
<1>4. ASSUME Quiet, NEW v \in GoodValues, LoadValues(v) PROVE Goal
  <2>1. Promise!Load
    BY <1>1, <1>3, <1>4 DEF LoadValues, Quiet, Promise!Load, value
  <2> QED BY <2>1 DEF Promise!Next
<1>5. ASSUME NEW n \in Node, NEW m \in SUBSET Lane, NEW immediate \in BOOLEAN,
             MayTrigger(n, m, immediate), PutTrigger(n, m, immediate)
      PROVE  Goal
  <2>1. ~ running /\ trig' = [trig EXCEPT ![n] = m] /\ UNCHANGED <<running, obs, gval>>
    BY <1>5 DEF PutTrigger
  <2>2. n \in Node \ Output /\ m \in (SUBSET Lane) \ {{}} /\ trig[n] = {}
        /\ Cardinality(Triggered) < MaskLimit
    BY <1>5 DEF MayTrigger, Triggered
  <2>3. Promise!Cardinality(Triggered) = Cardinality(Triggered)
    BY Zenon DEF Promise!Cardinality, Cardinality
  <2>4. Promise!Trigger(n, m)
    BY <1>1, <1>3, <2>1, <2>2, <2>3 DEF Promise!Trigger, value
  <2> QED BY <2>2, <2>4 DEF Promise!Next
<1>6. CASE StartSimulate
  <2>1. Promise!Begin
    BY <1>1, <1>3, <1>6 DEF StartSimulate, historyVars, Promise!Begin, value
  <2> QED BY <2>1 DEF Promise!Next
<1>7. CASE PutFanout
  BY <1>2, <1>7 DEF PutFanout, historyVars
<1>8. CASE NextLevel
  BY <1>2, <1>8 DEF NextLevel, historyVars
<1>9. ASSUME NEW n \in Node, Evaluate(n) PROVE Goal
  BY <1>2, <1>9 DEF Evaluate, historyVars
<1>10. CASE Finish
  <2>1. running /\ ~ running' /\ trig' = NoTrigger /\ UNCHANGED <<obs, gval>>
    BY <1>10 DEF Finish
  <2>2. obs = Promise!Observed(gval, Promise!FaultyValue(gval, trig))
    BY <1>10, ObservedAtEnd, SameReference
  <2>3. Promise!Return
    BY <1>1, <1>3, <2>1, <2>2 DEF Promise!Return, value
  <2> QED BY <2>3 DEF Promise!Next
<1>11. CASE UNCHANGED eventQVars
  BY <1>2, <1>11 DEF eventQVars, historyVars
<1> QED BY <1>4, <1>5, <1>6, <1>7, <1>8, <1>9, <1>10, <1>11 DEF Next, CallerStep, QueueStep

\* simulate() returns exactly the lanes in which direct evaluation of the
\* network with the triggered nodes complemented differs at an output, each
\* lane as if it were alone, whatever the order in which the nodes are
\* evaluated, and leaves the network as it was (EventQ.cc:95-149).
THEOREM QueueImplementsPromise == Spec => ImplementsPropagation
<1>1. Init => IInv /\ ValuesInv
  BY InitIInv, InitValues
<1>2. IInv /\ ValuesInv /\ [Next]_eventQVars => (IInv /\ ValuesInv)'
  BY NextIInv, NextValues
<1>3. IInv /\ IInv' /\ ValuesInv /\ [Next]_eventQVars
        => [Promise!Next]_(Promise!propagationVars)
  BY NextPromise
<1> QED BY <1>1, <1>2, <1>3, InitPromise, PTL DEF Spec, ImplementsPropagation, Promise!Spec
=============================================================================
