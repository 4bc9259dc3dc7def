------------------------------- MODULE EventQ -------------------------------
(***************************************************************************)
(* The event queue of the fault simulator (fsim/EventQ): an event-driven   *)
(* re-evaluation of the network after some nodes have been complemented,   *)
(* level by level, that reports in which lanes an output changed and then  *)
(* puts every node back to the value it had.                               *)
(*                                                                         *)
(* The code is sequential.  An action here is one iteration of one of its  *)
(* loops: one put() of put_fanouts(), one ++mCurLevel of get(), one        *)
(* evaluation of simulate().  bucket[l] is the linked list that starts at  *)
(* mArray[l] and runs through SimNode::mLink, newest node first.           *)
(*                                                                         *)
(* The callers (FsimX) are the actions LoadValues and the choice of the    *)
(* arguments of PutTrigger: see MayTrigger.                                *)
(***************************************************************************)
EXTENDS SimNet

CONSTANTS
  ArraySize,  \* the size of mArray: max_level + 1
  MaskLimit,  \* the size of mMaskList: kPvBitLen
  GoodValues  \* the valuations that _calc_gval() may leave in the nodes

VARIABLES
  val,        \* SimNode::mVal of every node
  inQueue,    \* the nodes with the queue mark
  bucket,     \* the node lists of mArray, by level
  curLevel,   \* mCurLevel
  num,        \* mNum
  clearList,  \* mClearArray[0 .. mClearPos - 1]
  flipped,    \* the nodes with the flip mark
  flipMask,   \* mFlipMaskArray
  maskList,   \* mMaskList[0 .. mMaskPos - 1]
  fanouts,    \* the fanouts that the put_fanouts() under way has still to put
  running,    \* simulate() has been called and has not returned
  obs,        \* the local obs of simulate(), and its result
  gval,       \* history: the node values before the first trigger
  trig        \* history: the mask with which each node was triggered

queueVars == <<inQueue, bucket, curLevel, num>>
flipVars == <<flipped, flipMask, maskList>>
historyVars == <<gval, trig>>
eventQVars == <<val, queueVars, clearList, flipVars, fanouts, running, obs, historyVars>>

ASSUME SizeAssumption ==
  /\ ArraySize \in Nat \ {0}
  /\ MaskLimit \in Nat \ {0}

ASSUME GoodAssumption ==
  GoodValues \subseteq Valuation /\ \A v \in GoodValues : Consistent(v)

\* The levels a node list is kept for: those of mArray, and, where a node
\* lies above the highest output, the memory behind it.
Slot == 0 .. (ArraySize - 1) \cup UNION {0 .. Level[n] : n \in Node}

NoTrigger == [n \in Node |-> {}]
Triggered == {n \in Node : trig[n] # {}}

Restore == [node : Node, val : Word]

-----------------------------------------------------------------------------
(* The queue.                                                              *)

\* A new node may lie below the level that get() has reached.
CurLevelAfter_KeepLevel(n) == IF num = 0 THEN Level[n] ELSE curLevel
CurLevelAfter(n) == IF num = 0 \/ curLevel > Level[n] THEN Level[n] ELSE curLevel

\* put(): a node already in the queue is left where it is.
Put(n) ==
  IF n \in inQueue
  THEN UNCHANGED queueVars
  ELSE /\ inQueue' = inQueue \cup {n}
       /\ bucket' = [bucket EXCEPT ![Level[n]] = <<n>> \o @]
       /\ curLevel' = CurLevelAfter(n)
       /\ num' = num + 1

\* get(), once it has reached a level with a node: unlink the first one.
Take_KeepMark(n) ==
  /\ bucket[curLevel] # << >>
  /\ n = Head(bucket[curLevel])
  /\ bucket' = [bucket EXCEPT ![curLevel] = Tail(@)]
  /\ num' = num - 1
  /\ UNCHANGED <<inQueue, curLevel>>

Take(n) ==
  /\ bucket[curLevel] # << >>
  /\ n = Head(bucket[curLevel])
  /\ inQueue' = inQueue \ {n}
  /\ bucket' = [bucket EXCEPT ![curLevel] = Tail(@)]
  /\ num' = num - 1
  /\ UNCHANGED curLevel

AddToClearList_NotOutputs(n, old) ==
  clearList' = IF n \in Output THEN clearList ELSE Append(clearList, [node |-> n, val |-> old])
AddToClearList(n, old) == clearList' = Append(clearList, [node |-> n, val |-> old])

-----------------------------------------------------------------------------
(* put_trigger().                                                          *)

\* The event is applied at once and the fanouts are queued.
TriggerNow(n, mask) ==
  /\ val' = [val EXCEPT ![n] = Flip(@, mask)]
  /\ AddToClearList(n, val[n])
  /\ fanouts' = Fanout[n]
  /\ UNCHANGED <<queueVars, flipVars>>

\* The event is remembered in a flip mask and the node itself is queued.
TriggerLater(n, mask) ==
  /\ flipped' = flipped \cup {n}
  /\ flipMask' = [flipMask EXCEPT ![n] = mask]
  /\ maskList' = Append(maskList, n)
  /\ Put(n)
  /\ UNCHANGED <<val, clearList, fanouts>>

PutTrigger(n, mask, immediate) ==
  /\ ~running /\ fanouts = << >>
  /\ IF immediate \/ GateType[n] = "Input"
     THEN TriggerNow(n, mask)
     ELSE TriggerLater(n, mask)
  /\ trig' = [trig EXCEPT ![n] = mask]
  /\ UNCHANGED <<running, obs, gval>>

\* One turn of the loop of put_fanouts().
PutFanout_NoAdvance ==
  /\ fanouts # << >>
  /\ Put(Head(fanouts))
  /\ UNCHANGED <<val, clearList, flipVars, fanouts, running, obs, historyVars>>

PutFanout ==
  /\ fanouts # << >>
  /\ Put(Head(fanouts))
  /\ fanouts' = Tail(fanouts)
  /\ UNCHANGED <<val, clearList, flipVars, running, obs, historyVars>>

-----------------------------------------------------------------------------
(* simulate().  Every caller leaves its target at nullptr, so that a node  *)
(* ends the propagation only when it is an output.                         *)

StartSimulate ==
  /\ ~running /\ fanouts = << >>
  /\ Triggered # {}
  /\ running' = TRUE
  /\ obs' = {}
  /\ UNCHANGED <<val, queueVars, clearList, flipVars, fanouts, historyVars>>

\* The loop of get() over the levels without a node.
NextLevel ==
  /\ running /\ fanouts = << >>
  /\ num > 0
  /\ bucket[curLevel] = << >>
  /\ curLevel' = curLevel + 1
  /\ UNCHANGED <<val, inQueue, bucket, num, clearList, flipVars, fanouts, running,
                 obs, historyVars>>

\* calc_val(~obs), then the flip mask: a lane already observed is not updated.
NewValue_FlipOldValue(n) ==
  IF n \in flipped THEN Flip(val[n], flipMask[n])
  ELSE SetWithMask(val[n], CalcVal(n, val), Lane \ obs)

NewValue(n) ==
  LET calc == SetWithMask(val[n], CalcVal(n, val), Lane \ obs)
  IN  IF n \in flipped THEN Flip(calc, flipMask[n]) ELSE calc

Evaluate(n) ==
  /\ running /\ fanouts = << >>
  /\ num > 0
  /\ Take(n)
  /\ val' = [val EXCEPT ![n] = NewValue(n)]
  /\ IF NewValue(n) = val[n]
     THEN UNCHANGED <<clearList, obs, fanouts>>
     ELSE /\ AddToClearList(n, val[n])
          /\ IF n \in Output
             THEN obs' = obs \cup Diff(NewValue(n), val[n]) /\ UNCHANGED fanouts
             ELSE fanouts' = Fanout[n] /\ UNCHANGED obs
  /\ UNCHANGED <<flipVars, running, historyVars>>

\* The list is read from the front, so the last entry of a node decides.
Restored_SkipFirst(n) ==
  LET entries == {i \in DOMAIN clearList : i > 1 /\ clearList[i].node = n}
  IN  IF entries = {} THEN val[n] ELSE clearList[CHOOSE i \in entries : TRUE].val

Restored(n) ==
  LET entries == {i \in DOMAIN clearList : clearList[i].node = n}
      last == CHOOSE i \in entries : \A j \in entries : j <= i
  IN  IF entries = {} THEN val[n] ELSE clearList[last].val

\* The flip marks that the restore loop leaves.
FlippedAfter_Keep == flipped
FlippedAfter == flipped \ {maskList[i] : i \in DOMAIN maskList}

\* The queue is empty: put the values and the marks back and return obs.
Finish ==
  /\ running /\ fanouts = << >>
  /\ num = 0
  /\ val' = [n \in Node |-> Restored(n)]
  /\ clearList' = << >>
  /\ flipped' = FlippedAfter
  /\ maskList' = << >>
  /\ running' = FALSE
  /\ trig' = NoTrigger
  /\ UNCHANGED <<queueVars, flipMask, fanouts, obs, gval>>

-----------------------------------------------------------------------------
(* The callers.                                                            *)

Quiet == ~running /\ fanouts = << >> /\ Triggered = {}

\* FsimX::_calc_gval(): new fault-free values, between two simulations.
LoadValues(v) ==
  /\ Quiet
  /\ val' = v
  /\ gval' = v
  /\ UNCHANGED <<queueVars, clearList, flipVars, fanouts, running, obs, trig>>

\* What FsimX passes to put_trigger(): the root of a fanout-free region that
\* is no output, which is a node with no or with several fanouts; either alone
\* and immediate (_prop_sim), or one of at most kPvBitLen different nodes that
\* wait for the others (_sppfp).
MayTrigger_Twice(n, mask, immediate) ==
  /\ n \notin Output /\ Len(Fanout[n]) # 1
  /\ mask # {}
  /\ immediate => Triggered = {}
  /\ \A m \in Triggered : m \in flipped
  /\ Cardinality(Triggered) < MaskLimit

MayTrigger(n, mask, immediate) ==
  /\ n \notin Output /\ Len(Fanout[n]) # 1
  /\ mask # {}
  /\ n \notin Triggered
  /\ immediate => Triggered = {}
  /\ \A m \in Triggered : m \in flipped \/ GateType[m] = "Input"
  /\ Cardinality(Triggered) < MaskLimit

Init ==
  /\ val \in GoodValues
  /\ inQueue = {}
  /\ bucket = [l \in Slot |-> << >>]
  /\ curLevel = 0
  /\ num = 0
  /\ clearList = << >>
  /\ flipped = {}
  /\ flipMask = [n \in Node |-> {}]
  /\ maskList = << >>
  /\ fanouts = << >>
  /\ running = FALSE
  /\ obs = {}
  /\ gval = val
  /\ trig = NoTrigger

CallerStep ==
  \/ Quiet /\ \E v \in GoodValues : LoadValues(v)
  \/ \E n \in Node, mask \in SUBSET Lane, immediate \in BOOLEAN :
       MayTrigger(n, mask, immediate) /\ PutTrigger(n, mask, immediate)
  \/ StartSimulate

QueueStep ==
  \/ PutFanout
  \/ NextLevel
  \/ \E n \in Node : Evaluate(n)
  \/ Finish

Next == CallerStep \/ QueueStep

\* simulate() and put_fanouts() are straight-line code: once entered they run
\* on.  Nothing makes a caller trigger or simulate.
Spec == Init /\ [][Next]_eventQVars /\ WF_eventQVars(QueueStep)

-----------------------------------------------------------------------------
(* What the queue keeps.                                                   *)

TypeOK ==
  /\ val \in Valuation
  /\ inQueue \subseteq Node
  /\ bucket \in [Slot -> Seq(Node)]
  /\ curLevel \in Nat
  /\ num \in Nat
  /\ clearList \in Seq(Restore)
  /\ flipped \subseteq Node
  /\ flipMask \in [Node -> SUBSET Lane]
  /\ maskList \in Seq(Node)
  /\ fanouts \in Seq(Node)
  /\ running \in BOOLEAN
  /\ obs \subseteq Lane
  /\ gval \in Valuation
  /\ trig \in [Node -> SUBSET Lane]

\* The queue mark, the node lists and the count describe the same set of
\* nodes: a node is on the list of its level exactly when it is marked, once.
ListsMatchMarks ==
  /\ \A l \in Slot : \A i \in DOMAIN bucket[l] :
       bucket[l][i] \in inQueue /\ Level[bucket[l][i]] = l
  /\ \A l \in Slot : \A i, j \in DOMAIN bucket[l] :
       bucket[l][i] = bucket[l][j] => i = j
  /\ \A n \in inQueue : \E i \in DOMAIN bucket[Level[n]] : bucket[Level[n]][i] = n
  /\ num = Cardinality(inQueue)

\* get() looks for the next node from mCurLevel upwards only ("if mNum is
\* right mCurLevel does not overflow", EventQ.h:207): no queued node lies below.
NothingBelowCurLevel == \A n \in inQueue : curLevel <= Level[n]

\* mCurLevel stays inside mArray whenever get() is going to read it.
LevelInArray == num > 0 => curLevel < ArraySize

\* mClearArray has one entry for each node and mMaskList kPvBitLen entries:
\* no node is entered twice in one simulation, and neither array overflows.
EnteredOnce ==
  /\ \A i, j \in DOMAIN clearList : clearList[i].node = clearList[j].node => i = j
  /\ \A i, j \in DOMAIN maskList : maskList[i] = maskList[j] => i = j
  /\ Len(clearList) <= Cardinality(Node)
  /\ Len(maskList) <= MaskLimit

\* At every moment the clear list holds what is needed to undo the
\* simulation: put back, every node has its fault-free value.
Undoable == \A n \in Node : Restored(n) = gval[n]

\* Between two simulations nothing of the last one is left: no node is queued
\* or marked, and every node carries its fault-free value.
CleanWhenQuiet ==
  Quiet => inQueue = {} /\ flipped = {} /\ clearList = << >> /\ val = gval

\* Events only move to higher levels, so that a node is evaluated at most once
\* in a simulation: what simulate() queues lies above every node it has changed.
EventsMoveUp ==
  [][running => \A n \in inQueue' \ inQueue : \A i \in DOMAIN clearList :
                  Level[clearList[i].node] < Level[n]]_eventQVars

\* simulate() returns.
Returns == running ~> ~running

-----------------------------------------------------------------------------
(* What the callers rely on.                                               *)

\* simulate() computes what direct evaluation computes, in every lane and
\* whatever the other lanes carry, and undoes its changes (EventQ.cc:95-149).
Promise == INSTANCE FaultPropagation WITH
  value  <- IF Quiet THEN val ELSE gval,
  mask   <- trig,
  busy   <- running,
  result <- IF running THEN {} ELSE obs
ImplementsPropagation == Promise!Spec
=============================================================================
