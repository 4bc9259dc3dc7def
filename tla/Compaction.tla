----------------------------- MODULE Compaction -----------------------------
(***************************************************************************)
(* FaultReducer and MinPat as python/dtpg_test5.py composes them (and      *)
(* dtpg_test4.py, for one k).  The list of the stuck-at faults that have a *)
(* test is handed to MinPatMgr.fault_reduction(); then exec_one() marks    *)
(* the faults that are left, generates up to k tests for each, and hands   *)
(* the tests to MinPatMgr.coloring(), again and again with another k.      *)
(*                                                                         *)
(* All parts see the same circuit: a vector without X tests a fault when   *)
(* it agrees with one of its cubes.                                        *)
(***************************************************************************)
EXTENDS MinPat, FaultReducer

CONSTANT MaxK   \* the largest number of tests asked for

ASSUME MaxKAssumption == MaxK \in Nat

ASSUME SameCircuit ==
  /\ Fault = Row /\ Vector = [Bit -> Value]
  /\ Batches \subseteq SUBSET Vector
  /\ Steps \in Seq({"red1", "red2", "red3"})

VARIABLES
  program,    \* "reduction", "generation" or "coloring"
  walk,       \* the faults that k_ffr_mode() has still to visit
  faultMark,  \* Dtpg.__fault_mark
  faultList,  \* Dtpg.__fault_list
  tvList      \* Dtpg.__tv_list

generatorVars == <<walk, faultMark, faultList, tvList>>
compactionVars == <<minpatVars, reducerVars, program, generatorVars>>

\* The list of the first run of the generator; its vectors are not used.
CompactionInit ==
  /\ tv = << >> /\ cubes \in [Row -> SUBSET Vec]
  /\ ColoringOf({})
  /\ program = "reduction"
  /\ walk = {} /\ faultMark = {} /\ faultList = Row /\ tvList = << >>
  /\ launch = [f \in Fault |-> Vector]
  /\ show = [f \in Fault |-> {v \in Vector : Detects(v, f)}]
  /\ region \in [Fault -> Nat]
  /\ ReducerInit

\* exec_one(), up to k_ffr_mode().  What the reducer or the last coloring() had
\* goes with it.
ExecOne ==
  /\ \/ program = "reduction" /\ stage = "reduced"
     \/ program = "coloring" /\ phase = "merged"
  /\ program' = "generation"
  /\ walk' = Alive /\ faultMark' = Alive
  /\ faultList' = {} /\ tvList' = << >>
  /\ cand' = [f \in Fault |-> {}] /\ counted' = {} /\ seen' = {}
  /\ tv' = << >> /\ phase' = "matrix" /\ base' = 0
  /\ matrix' = {} /\ rows' = {} /\ cols' = Node' /\ lists' = GenConflictList'
  /\ pending' = {} /\ selected' = {} /\ group' = {} /\ choices' = {} /\ marked' = {}
  /\ colorNum' = 0 /\ colorMap' = [n \in Node' |-> 0] /\ newTv' = << >> /\ joined' = {}
  /\ UNCHANGED <<cubes, problemVars, stage, step, todo, deleted>>

\* What the engine may find: tests of the fault, each of them new.
TestLists(f) ==
  {tests \in UNION {[1 .. k -> {v \in Vec : Detects(v, f)}] : k \in 1 .. MaxK} :
     \A j \in DOMAIN tests : \A i \in 1 .. j - 1 : ~ Refines(tests[j], tests[i])}

\* When the engine gives up, the mark stays.
GiveUp_Unmarked(f) == faultMark' = faultMark \ {f} /\ UNCHANGED <<faultList, tvList>>
GiveUp(f) == UNCHANGED <<faultMark, faultList, tvList>>

\* __call_dtpg_k() for the next fault.
CallDtpg ==
  /\ program = "generation"
  /\ \E f \in FirstOf(walk) :
       /\ walk' = walk \ {f}
       /\ \/ /\ \E tests \in TestLists(f) : tvList' = tvList \o tests
             /\ faultList' = faultList \cup {f}
             /\ faultMark' = faultMark \ {f}
          \/ GiveUp(f)
  /\ UNCHANGED <<minpatVars, reducerVars, program>>

\* minpat() with "coloring2".
Coloring ==
  /\ program = "generation" /\ walk = {}
  /\ program' = "coloring"
  /\ tv' = tvList /\ rows' = faultList
  /\ cols' = Node' /\ lists' = GenConflictList' /\ colorMap' = [n \in Node' |-> 0]
  /\ UNCHANGED <<cubes, phase, base, matrix, pending, selected, groupVars, colorNum,
                 mergeVars, reducerVars, generatorVars>>

Reduction ==
  program = "reduction" /\ ReducerNext /\ UNCHANGED <<minpatVars, program, generatorVars>>
Colouring ==
  program = "coloring" /\ MinPatNext /\ UNCHANGED <<reducerVars, program, generatorVars>>

CompactionNext == Reduction \/ ExecOne \/ CallDtpg \/ Coloring \/ Colouring
CompactionFairness == WF_compactionVars(CompactionNext)
CompactionSpec == CompactionInit /\ [][CompactionNext]_compactionVars

-----------------------------------------------------------------------------
TypeOK ==
  /\ MinPatTypeOK /\ ReducerTypeOK
  /\ program \in {"reduction", "generation", "coloring"}
  /\ walk \subseteq Fault /\ faultMark \subseteq Fault /\ faultList \subseteq Fault
  /\ tvList \in Seq(Vec)

\* Unless the engine gave one up, whose mark is still there, the few merged
\* vectors detect every fault of the list that was handed to the reducer, with
\* any values in place of their X: the faults that were deleted, for which no
\* test was generated, and those whose vectors were dropped or merged.
EveryFaultDetected ==
  phase = "merged" /\ faultMark = {} =>
    \A f \in Row : \E k \in DOMAIN newTv :
      \A v \in Vector : Refines(v, newTv[k]) => Detects(v, f)

\* Reduction and colouring come to an end: the simulations of the reducer stop
\* when a block shortens no list, and each colour takes a vector at least.
Compacted == <>(phase = "merged")
=============================================================================
