----------------------------- MODULE FaultReducer ---------------------------
(***************************************************************************)
(* FaultReducer::fault_reduction(): the faults that every test of another  *)
(* fault detects are deleted from the list.  Simulation first proposes     *)
(* candidates, and SAT solvers then decide: one per fanout-free region     *)
(* (DtpgFFR), an UndetChecker or a DomChecker per fault.                   *)
(*                                                                         *)
(* A vector tests a fault when it meets the condition on the cycle before  *)
(* (launch, all vectors for stuck-at faults) and shows the stuck value at  *)
(* an output (show).  The solvers are external: a check is modelled by the *)
(* question it puts, and no check is aborted.                              *)
(***************************************************************************)
EXTENDS Integers, FiniteSets, Sequences

CONSTANTS
  Fault,    \* mFaultList
  Vector,   \* the vectors without X
  Batches,  \* the blocks of patterns that may be simulated: sets of vectors
  Steps     \* opt_list: a sequence of "red1", "red2", "red3"

VARIABLES
  launch,   \* fault -> the vectors with its activation in the cycle before
  show,     \* fault -> the vectors with which its stuck value shows
  region,   \* fault -> its fanout-free region
  stage,    \* "tests", "random", "ffr", "dom" or "reduced"
  step,     \* position in Steps
  todo,     \* the faults the running loop still has to visit
  seen,     \* history: the vectors simulated so far
  cand,     \* FaultInfo::mDomCandList
  counted,  \* the faults with mDetCount > 0
  deleted   \* FaultInfo::mDeleted

problemVars == <<launch, show, region>>
reducerVars == <<problemVars, stage, step, todo, seen, cand, counted, deleted>>

Tests(f) == launch[f] \cap show[f]
Alive == Fault \ deleted
SameRegion(f, g) == region[f] = region[g]

-----------------------------------------------------------------------------
(* Candidates.                                                             *)

\* do_fsim() with a batch of patterns: a fault detected for the first time
\* gets the faults that all of its patterns detect as candidates; others keep
\* those of which that is still true.
Detected(batch) == {f \in Fault : Tests(f) \cap batch # {}}
Superset(f, g, batch) == Tests(f) \cap batch \subseteq Tests(g)
CandidatesAfter_Undetected(batch) ==
  [f \in Fault |->
     IF f \notin Detected(batch) THEN cand[f]
     ELSE IF f \notin counted THEN {g \in Fault \ {f} : Superset(f, g, batch)}
     ELSE {g \in cand[f] : g \notin Detected(batch) \/ Superset(f, g, batch)}]
CandidatesAfter(batch) ==
  [f \in Fault |->
     IF f \notin Detected(batch) THEN cand[f]
     ELSE IF f \notin counted THEN {g \in Fault \ {f} : Superset(f, g, batch)}
     ELSE {g \in cand[f] : Superset(f, g, batch)}]

DoFsim(batch) ==
  /\ cand' = CandidatesAfter(batch)
  /\ counted' = counted \cup Detected(batch)
  /\ seen' = seen \cup batch

\* The tests the engine found in init(), X filled at random, one for each
\* fault; they are simulated in blocks.
SimulateTests ==
  /\ stage = "tests"
  /\ \E batch \in Batches : DoFsim(batch)
  /\ stage' = IF counted' = Fault THEN "random" ELSE "tests"
  /\ UNCHANGED <<problemVars, step, todo, deleted>>

\* Random patterns, until a block (loop_limit is 1) shortens no list that was
\* there before.
Shortened(batch) == \E f \in counted : CandidatesAfter(batch)[f] # cand[f]
SimulateRandom ==
  /\ stage = "random"
  /\ \E batch \in Batches :
       /\ DoFsim(batch)
       /\ stage' = IF Shortened(batch) THEN "random" ELSE "ffr"
  /\ todo' = Fault
  /\ UNCHANGED <<problemVars, step, deleted>>

-----------------------------------------------------------------------------
(* Dominance.                                                              *)

\* ffr_reduction(): the candidates of the same region whose own condition
\* follows when fault f is detected.  The condition includes the cycle before.
FfrImplied(f) ==
  {g \in cand[f] \ deleted : SameRegion(f, g) /\ Tests(f) \subseteq Tests(g)}

FfrReduction ==
  /\ stage = "ffr" /\ todo # {}
  /\ \E f \in todo :
       /\ todo' = todo \ {f}
       /\ IF f \in deleted THEN UNCHANGED <<cand, deleted>>
          ELSE /\ deleted' = deleted \cup FfrImplied(f)
               /\ cand' = [g \in Fault |-> IF g \in FfrImplied(f) THEN {} ELSE cand[g]]
  /\ UNCHANGED <<problemVars, stage, step, seen, counted>>

\* The faults of other regions that have f as a candidate: each of their tests
\* may be one of f.
Dominators(f) == {g \in Alive \ {f} : ~SameRegion(f, g) /\ f \in cand[g]}

\* DomChecker::check_detectable() is unsatisfiable: no vector detects g without
\* that f shows.  The constructor of DomChecker asks for equal outputs in the
\* last cycle only.
NeverHidden_Swapped(f, g) == Tests(f) \subseteq show[g]
NeverHidden(f, g) == Tests(g) \subseteq show[f]

\* UndetChecker::check() knows only conditions that are necessary for g (those
\* of its region, or mMandCond), and may miss what DomChecker finds.
MayMiss == {TRUE, FALSE}

DeletedBy(f, alg) ==
  LET proofs == {g \in Dominators(f) : NeverHidden(f, g)}
  IN  IF alg = "red1" THEN {proofs # {} /\ found : found \in MayMiss} ELSE {proofs # {}}

DomReduction ==
  /\ stage = "dom" /\ todo # {}
  /\ \E f \in todo :
       /\ todo' = todo \ {f}
       /\ \E now \in IF f \in deleted THEN {FALSE} ELSE DeletedBy(f, Steps[step]) :
            /\ deleted' = IF now THEN deleted \cup {f} ELSE deleted
            /\ cand' = IF now THEN [cand EXCEPT ![f] = {}] ELSE cand
  /\ UNCHANGED <<problemVars, stage, step, seen, counted>>

\* The next of the loops of fault_reduction().
LastStep_Late == step > Len(Steps)
LastStep == step = Len(Steps)
NextStep ==
  /\ stage \in {"ffr", "dom"} /\ todo = {}
  /\ IF LastStep
     THEN stage' = "reduced" /\ UNCHANGED <<step, todo>>
     ELSE stage' = "dom" /\ step' = step + 1 /\ todo' = Fault
  /\ UNCHANGED <<problemVars, seen, cand, counted, deleted>>

ReducerInit ==
  /\ stage = "tests" /\ step = 0 /\ todo = {}
  /\ seen = {} /\ cand = [f \in Fault |-> {}] /\ counted = {} /\ deleted = {}

ReducerNext == SimulateTests \/ SimulateRandom \/ FfrReduction \/ DomReduction \/ NextStep
ReducerSpec == ReducerInit /\ [][ReducerNext]_reducerVars

-----------------------------------------------------------------------------
ReducerTypeOK ==
  /\ stage \in {"tests", "random", "ffr", "dom", "reduced"}
  /\ step \in 0 .. Len(Steps)
  /\ todo \subseteq Fault /\ counted \subseteq Fault /\ deleted \subseteq Fault
  /\ seen \subseteq Vector
  /\ cand \in [Fault -> SUBSET Fault]

\* The candidates of a fault are the faults that all patterns simulated so far
\* detect along with it, and of deleted faults there are none: no block may
\* leave a list behind that an earlier one has refuted (FaultReducer.cc:280).
CandidatesExact ==
  \A f \in Fault :
    cand[f] = IF f \notin counted \/ f \in deleted THEN {}
              ELSE {g \in Fault \ {f} : Tests(f) \cap seen \subseteq Tests(g)}

\* "fault2 dominates fault1" (FaultReducer.cc:483-485): every test of some
\* fault that stays detects a fault that is deleted, however the deletions
\* follow from one another.
DeletedIsImplied ==
  \A f \in deleted : \E g \in Alive : Tests(g) \subseteq Tests(f)
=============================================================================
