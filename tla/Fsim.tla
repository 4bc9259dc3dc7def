-------------------------------- MODULE Fsim --------------------------------
(***************************************************************************)
(* The fault simulator (fsim/FsimX): fault simulation of one pattern for   *)
(* all faults (sppfp), of one pattern for one fault (spsfp) and of up to   *)
(* kPvBitLen patterns for all faults (ppsfp), for stuck-at and transition  *)
(* faults, with two or three values.                                       *)
(*                                                                         *)
(* The faults of a fanout-free region (FFR) are traced to its root, and    *)
(* only the roots are simulated, with the event queue.  ppsfp spends the   *)
(* lanes of a word on patterns; sppfp spends them on FFRs, collects up to  *)
(* kPvBitLen of them and simulates them together.                          *)
(*                                                                         *)
(* The event queue is used through what EventQ is shown to implement       *)
(* (FaultPropagation): trig is the mask of each put_trigger() since the    *)
(* last simulate().  One action is one call of the interface, one turn of  *)
(* the loop over the FFRs, or one simulate() with the sweep behind it.     *)
(***************************************************************************)
EXTENDS FaultModel, FsimState, SequencesExt

CONSTANTS
  FfrList,      \* the roots of the FFRs, in the order of mFFRArray
  FfrRoot,      \* node -> the root of its FFR (mFFRMap)
  FanoutIpos,   \* node -> SimNode::fanout_ipos()
  TestVectors   \* the test vectors a caller may pass

VARIABLES
  skip,      \* the faults whose mSkip is set
  obsMask,   \* SimFault::mObsMask
  patMap,    \* mPatMap
  patBuff,   \* mPatBuff
  detFault,  \* mDetFaultArray[0 .. mDetNum - 1]
  detPat,    \* mDetPatArray
  pc,        \* "idle", or the call that is running
  ffr,       \* the next FFR of the loop
  ffrBuff,   \* ffr_buff[0 .. bitpos - 1] of _sppfp()
  trig,      \* the triggers in the event queue
  found,     \* what spsfp() returned
  call       \* history: the last call and its arguments

bufferVars == <<patMap, patBuff>>
resultVars == <<detFault, detPat, found>>
loopVars == <<pc, ffr, ffrBuff, trig>>
fsimVars == <<kind, val, prevVal, skip, obsMask, bufferVars, resultVars, loopVars, call>>

PvBitLen == Cardinality(Lane)

ASSUME LaneNumbering == Lane = 1 .. PvBitLen

ASSUME FfrAssumption ==
  /\ \A n \in Node :
       FfrRoot[n] = IF n \in Output \/ Len(Fanout[n]) # 1 THEN n
                    ELSE FfrRoot[Fanout[n][1]]
  /\ FfrList \in Seq(Node)
  /\ {FfrList[i] : i \in DOMAIN FfrList} = {n \in Node : FfrRoot[n] = n}
  /\ \A i, j \in DOMAIN FfrList : FfrList[i] = FfrList[j] => i = j

\* A buffer and an inverter have one fanin.  set_network() counts an edge for
\* every fanin, so that a node with a single fanout feeds one input of it.
ASSUME EdgeAssumption ==
  /\ \A n \in Node : GateType[n] \in {"Buff", "Not"} => Len(Fanin[n]) = 1
  /\ \A n \in Node : Len(Fanout[n]) = 1 =>
       /\ FanoutIpos[n] \in DOMAIN Fanin[Fanout[n][1]]
       /\ \A i \in DOMAIN Fanin[Fanout[n][1]] :
            Fanin[Fanout[n][1]][i] = n <=> i = FanoutIpos[n]

NoTrigger == [n \in Node |-> {}]
Triggered == {n \in Node : trig[n] # {}}

-----------------------------------------------------------------------------
(* Fault-free values: _calc_gval(), with tvs the test vector of each lane. *)

InputWords(frame(_, _)) == [n \in PPI |-> [b \in Lane |-> frame(n, b)]]

FirstValues(tvs) == GoodValue(InputWords(LAMBDA n, b : AsVal(tvs[b].ppi[n])))

SecondValues(tvs, first) ==
  GoodValue(InputWords(
    LAMBDA n, b :
      IF n \in DffOutputs
      THEN first[(CHOOSE d \in {Dff[i] : i \in DOMAIN Dff} : d[1] = n)[2]][b]
      ELSE AsVal(tvs[b].aux[n])))

CalcGval(tvs) ==
  LET first == FirstValues(tvs)
  IN  IF kind.faults = "SA"
      THEN val' = first /\ UNCHANGED prevVal
      ELSE prevVal' = first /\ val' = SecondValues(tvs, first)

\* Tv2InputVals: a lane without a pattern carries that of the first one set.
BufferedVectors_OwnLane == [b \in Lane |-> patBuff[b]]
BufferedVectors ==
  LET first == CHOOSE b \in patMap : \A c \in patMap : b <= c
  IN  [b \in Lane |-> patBuff[IF b \in patMap THEN b ELSE first]]

-----------------------------------------------------------------------------
(* Inside an FFR: _fault_prop() and its parts.                             *)

LanesWith(word, x) == {b \in Lane : word[b] = x}

FaultCond(f) == LanesWith(val[InputNode(f)], Complement(f.val))
FaultPrevCond_None(f) == Lane
FaultPrevCond(f) == LanesWith(prevVal[InputNode(f)], f.val)

\* _calc_gobs(): the values of the other inputs that let a change through.
Transparent(type) ==
  IF type \in {"And", "Nand"} THEN {"1"}
  ELSE IF type \in {"Or", "Nor"} THEN {"0"}
  ELSE {"0", "1"}

CalcGobs(n, ipos) ==
  {b \in Lane : \A i \in DOMAIN Fanin[n] \ {ipos} :
                  val[Fanin[n][i]][b] \in Transparent(GateType[n])}

\* The lanes in which a change of node n reaches the root of its FFR.
RootObs ==
  LET obs[n \in Node] ==
        IF FfrRoot[n] = n THEN Lane
        ELSE CalcGobs(Fanout[n][1], FanoutIpos[n]) \cap obs[Fanout[n][1]]
  IN  obs

FfrProp(f) ==
  RootObs[f.node] \cap (IF f.pos = 0 THEN Lane ELSE CalcGobs(f.node, f.pos))

FaultProp(f) ==
  FaultCond(f) \cap FfrProp(f)
    \cap (IF kind.faults = "SA" THEN Lane ELSE FaultPrevCond(f))

FaultsOf_BothEnds(root) == {f \in Faults : root \in {FfrRoot[f.node], FfrRoot[InputNode(f)]}}
FaultsOf(root) == {f \in Faults : FfrRoot[f.node] = root}

\* _foreach_faults(): the new mObsMask of every fault, and their union.
ObsMaskAfter(root) ==
  [f \in Faults |-> IF f \in FaultsOf(root) \ skip THEN FaultProp(f) ELSE obsMask[f]]

FfrReq(root) == UNION {FaultProp(f) : f \in FaultsOf(root) \ skip}

\* The faults of S, one by one as the fault lists have them.
InOrder(S) ==
  LET upTo[i \in 0 .. Len(FaultList)] ==
        IF i = 0 THEN << >>
        ELSE IF FaultList[i] \in S THEN Append(upTo[i - 1], FaultList[i])
        ELSE upTo[i - 1]
  IN  upTo[Len(FaultList)]

\* _fault_sweep(): the faults of an FFR that are detected, in order, when its
\* root is observed in the lanes of mask.
Swept_All(root, masks, mask) ==
  InOrder({f \in FaultsOf(root) : masks[f] \cap mask # {}})
Swept(root, masks, mask) ==
  InOrder({f \in FaultsOf(root) \ skip : masks[f] \cap mask # {}})

\* EventQ::simulate() with the triggers t.
Simulate(t) == Observed(val, FaultyValue(val, t))

\* _prop_sim(): an output is always observed.
PropSim(root, mask) ==
  IF root \in Output THEN Lane ELSE Simulate([NoTrigger EXCEPT ![root] = mask])

-----------------------------------------------------------------------------
(* Skip marks and the pattern buffer.                                      *)

SetSkip(f) == skip' = skip \cup {f}
ClearSkip(f) == skip' = skip \ {f}
SetSkipAll == skip' = Faults
ClearSkipAll == skip' = {}

Skipping ==
  /\ pc = "idle"
  /\ \/ \E f \in Faults : SetSkip(f) \/ ClearSkip(f)
     \/ SetSkipAll
     \/ ClearSkipAll
  /\ UNCHANGED <<val, prevVal, obsMask, bufferVars, resultVars, loopVars, call>>

ClearPatterns ==
  /\ pc = "idle"
  /\ patMap' = {}
  /\ UNCHANGED <<val, prevVal, skip, obsMask, patBuff, resultVars, loopVars, call>>

SetPattern(b, tv) ==
  /\ pc = "idle"
  /\ patBuff' = [patBuff EXCEPT ![b] = tv]
  /\ patMap' = patMap \cup {b}
  /\ UNCHANGED <<val, prevVal, skip, obsMask, resultVars, loopVars, call>>

-----------------------------------------------------------------------------
(* spsfp(): it has no loop, and keeps off the results of the other two.    *)

\* _calc_gval() and what follows it, up to the return.
Spsfp(tv, f) ==
  /\ pc = "idle"
  /\ CalcGval([b \in Lane |-> tv])
  /\ pc' = "spsfp"
  /\ call' = [op |-> "spsfp", tv |-> tv, fault |-> f]
  /\ UNCHANGED <<skip, obsMask, bufferVars, resultVars, ffr, ffrBuff, trig>>

SpsfpReturn ==
  /\ pc = "spsfp"
  /\ found' = (/\ FaultProp(call.fault) # {}
               /\ PropSim(FfrRoot[call.fault.node], Lane) # {})
  /\ pc' = "idle"
  /\ UNCHANGED <<val, prevVal, skip, obsMask, bufferVars, detFault, detPat, ffr,
                 ffrBuff, trig, call>>

-----------------------------------------------------------------------------
(* sppfp() and ppsfp().                                                    *)

Begin(op, tvs) ==
  /\ pc = "idle"
  /\ CalcGval(tvs)
  /\ detFault' = << >>
  /\ ffr' = 1
  /\ ffrBuff' = << >>
  /\ pc' = op
  /\ UNCHANGED <<skip, obsMask, bufferVars, detPat, found, trig>>

Sppfp(tv) ==
  /\ Begin("sppfp", [b \in Lane |-> tv])
  /\ call' = [op |-> "sppfp", tv |-> tv]

\* Without a pattern nothing is simulated, and the previous values stay.
PpsfpEmpty ==
  /\ pc = "idle" /\ patMap = {}
  /\ detFault' = << >>
  /\ ffr' = Len(FfrList) + 1
  /\ pc' = "ppsfp"
  /\ UNCHANGED <<val, prevVal, skip, obsMask, bufferVars, detPat, found, ffrBuff, trig>>

Ppsfp ==
  /\ IF patMap = {} THEN PpsfpEmpty ELSE Begin("ppsfp", BufferedVectors)
  /\ call' = [op |-> "ppsfp"]

Return ==
  /\ pc \in {"sppfp", "ppsfp"}
  /\ ffr > Len(FfrList)
  /\ ffrBuff = << >>
  /\ pc' = "idle"
  /\ UNCHANGED <<val, prevVal, skip, obsMask, bufferVars, resultVars, ffr, ffrBuff,
                 trig, call>>

\* The lane of the next FFR (1ULL << bitpos), and whether there is none left.
FreeLane_First == 1
FreeLane == Len(ffrBuff) + 1

BuffFull_Late == Len(ffrBuff) > PvBitLen
BuffFull == Len(ffrBuff) = PvBitLen

\* One FFR of _sppfp(): detected at once, or put into the next free lane.
SppfpFfr ==
  /\ pc = "sppfp" /\ ffr <= Len(FfrList)
  /\ ~BuffFull
  /\ LET root == FfrList[ffr]
         masks == ObsMaskAfter(root)
     IN  /\ obsMask' = masks
         /\ ffr' = ffr + 1
         /\ IF FfrReq(root) = {}
            THEN UNCHANGED <<detFault, ffrBuff, trig>>
            ELSE IF root \in Output
            THEN /\ detFault' = detFault \o Swept(root, masks, Lane)
                 /\ UNCHANGED <<ffrBuff, trig>>
            ELSE /\ trig' = [trig EXCEPT ![root] = {FreeLane}]
                 /\ ffrBuff' = Append(ffrBuff, root)
                 /\ UNCHANGED detFault
  /\ UNCHANGED <<val, prevVal, skip, bufferVars, detPat, found, pc, call>>

\* _do_simulation(): when ffr_buff is full, and after the last FFR.
DoSimulation ==
  /\ pc = "sppfp"
  /\ \/ BuffFull
     \/ ffr > Len(FfrList) /\ ffrBuff # << >>
  /\ LET obs == Simulate(trig)
         sweeps == [i \in DOMAIN ffrBuff |->
                      IF i \in obs THEN Swept(ffrBuff[i], obsMask, Lane) ELSE << >>]
     IN  detFault' = detFault \o FlattenSeq(sweeps)
  /\ ffrBuff' = << >>
  /\ trig' = NoTrigger
  /\ UNCHANGED <<val, prevVal, skip, obsMask, bufferVars, detPat, found, pc, ffr, call>>

\* One FFR of _ppsfp().
PpsfpFfr ==
  /\ pc = "ppsfp" /\ ffr <= Len(FfrList)
  /\ LET root == FfrList[ffr]
         masks == ObsMaskAfter(root)
         req == FfrReq(root) \cap patMap
         obs == PropSim(root, req)
         swept == Swept(root, masks, obs)
     IN  /\ obsMask' = masks
         /\ ffr' = ffr + 1
         /\ IF req = {}
            THEN UNCHANGED <<detFault, detPat>>
            ELSE /\ detFault' = detFault \o swept
                 /\ detPat' = [i \in DOMAIN detPat |->
                      LET k == i - Len(detFault)
                      IN  IF k \in DOMAIN swept
                          THEN masks[swept[k]] \cap obs \cap patMap
                          ELSE detPat[i]]
  /\ UNCHANGED <<val, prevVal, skip, bufferVars, found, pc, ffrBuff, trig, call>>

-----------------------------------------------------------------------------
Zero == [b \in Lane |-> "0"]

\* set_network().  mVal, mPrevValArray, mObsMask, mPatBuff and mDetPatArray are
\* not initialised; nothing reads them before it writes them.
Init ==
  /\ kind \in Simulators
  /\ val = [n \in Node |-> Zero]
  /\ prevVal = [n \in Node |-> Zero]
  /\ skip = {}
  /\ \E garbage \in {{}, Lane} : obsMask = [f \in Faults |-> garbage]
  /\ patMap = {}
  /\ \E tv \in TestVectors : patBuff = [b \in Lane |-> tv]
  /\ detFault = << >>
  /\ detPat = [i \in DOMAIN FaultList |-> {}]
  /\ pc = "idle"
  /\ ffr = 1
  /\ ffrBuff = << >>
  /\ trig = NoTrigger
  /\ found = FALSE
  /\ call = [op |-> "none"]

Calls ==
  \/ Skipping
  \/ ClearPatterns
  \/ \E b \in Lane, tv \in TestVectors : SetPattern(b, tv)
  \/ \E tv \in TestVectors, f \in Faults : Spsfp(tv, f)
  \/ \E tv \in TestVectors : Sppfp(tv)
  \/ Ppsfp

Loops == SpsfpReturn \/ SppfpFfr \/ DoSimulation \/ PpsfpFfr \/ Return

Next == (Calls \/ Loops) /\ UNCHANGED kind

Spec == Init /\ [][Next]_fsimVars

-----------------------------------------------------------------------------
TypeOK ==
  /\ kind \in Simulators
  /\ \A v \in {val, prevVal} : v \in [Node -> [Lane -> kind.vals]]
  /\ skip \subseteq Faults
  /\ obsMask \in [Faults -> SUBSET Lane]
  /\ patMap \subseteq Lane
  /\ patBuff \in [Lane -> TestVectors]
  /\ detFault \in Seq(Faults)
  /\ detPat \in [DOMAIN FaultList -> SUBSET Lane]
  /\ pc \in {"idle", "spsfp", "sppfp", "ppsfp"}
  /\ ffr \in 1 .. Len(FfrList) + 1
  /\ ffrBuff \in Seq(Node)
  /\ trig \in [Node -> SUBSET Lane]
  /\ found \in BOOLEAN

\* mDetFaultArray has one entry per fault: no fault is reported twice by a
\* call, although an FFR is swept once per simulate() and faults of different
\* FFRs share a word, and so neither it nor mDetPatArray overflows.
ReportedOnce ==
  /\ \A i, j \in DOMAIN detFault : detFault[i] = detFault[j] => i = j
  /\ Len(detFault) <= Len(FaultList)

\* What the event queue asks of its callers (EventQ!MayTrigger): a triggered
\* node is the root of an FFR and no output, and waits in the queue once, with
\* less than kPvBitLen others, since mMaskList has no room for more.
QueueContract ==
  [][\A n \in Node : trig'[n] \notin {{}, trig[n]} =>
       /\ n \notin Output /\ Len(Fanout[n]) # 1
       /\ trig[n] = {} /\ Cardinality(Triggered) < PvBitLen]_fsimVars

-----------------------------------------------------------------------------
(* What the callers rely on.                                               *)

\* Each call reports exactly the faults its patterns detect, in the lanes of
\* those patterns, whatever the calls before it have left behind
\* (FsimX.cc:325-549; det_fault_list(), det_fault_pat() of Fsim.h).
Reported ==
  IF call.op = "spsfp"
  THEN {[fault |-> f, pat |-> {}] : f \in {g \in {call.fault} : found}}
  ELSE {[fault |-> detFault[i], pat |-> IF call.op = "ppsfp" THEN detPat[i] ELSE {}] :
          i \in DOMAIN detFault}

Promise == INSTANCE FaultSimulation WITH
  skipped  <- skip,
  patterns <- [b \in patMap |-> patBuff[b]],
  active   <- pc # "idle",
  report   <- IF pc # "idle" \/ call.op = "none" THEN {} ELSE Reported
ReportsExactly == Promise!Spec
=============================================================================
