-------------------------------- MODULE Atpg --------------------------------
(***************************************************************************)
(* The dtpg command (atpg_tclsh/DtpgCmd) and what it drives: a test        *)
(* generation engine that is asked about one fault after the other, the    *)
(* status of the faults (FaultStatusMgr), the operations run on every test *)
(* vector found (dop/) or on every fault without one (uop/), the list of   *)
(* test vectors (AtpgMgr) and the skip marks of the three-valued fault     *)
(* simulator.  The command may be given repeatedly, with other options and *)
(* another engine, and goes on with the faults that are still undetected.  *)
(*                                                                         *)
(* What a vector detects is data here: detects[f] is what the simulator    *)
(* says (Fsim shows that it is exact) and testable[f] the vectors that the *)
(* engine can find, which observes the primary outputs and the inputs of   *)
(* the flip-flops only.                                                    *)
(***************************************************************************)
EXTENDS Integers, Sequences, FiniteSets

CONSTANTS
  Fault,        \* the representative faults
  Vector,       \* the test vectors
  Orders,       \* the orders in which the FFR and the MFFC engines take faults
  CommandOptions,  \* the options of the command: sets of -drop, -verify, -nopat
  OnlyPpoObserved  \* TRUE where no control terminal of a flip-flop is observed

ASSUME AtpgAssumption ==
  /\ Fault # {} /\ Vector # {}
  /\ \A order \in Orders : order \in Seq(Fault)
  /\ \A order \in Orders : \A f \in Fault : \E i \in DOMAIN order : order[i] = f
  /\ CommandOptions \subseteq SUBSET {"drop", "verify", "nopat"}

VARIABLES
  detects,   \* fault -> the vectors with which the simulator detects it
  testable,  \* fault -> the vectors with which the engine detects it
  faultStatus,    \* FaultStatusMgr
  tvList,    \* the test vectors generated so far
  skip,      \* the faults that fsim3 skips
  errors,    \* DopVerifyResult: the faults not detected by their own vector
  pc,        \* "idle", "loop": between two faults, "dop": running dop_list
  order,     \* the faults in the order of the engine
  pos,       \* the next of them
  dopList,   \* dop_list of the command
  todo,      \* the operations of dop_list still to run
  target,    \* the fault of gen_pattern()
  tv         \* and the vector found for it

circuitVars == <<detects, testable>>
commandVars == <<order, dopList>>
atpgVars == <<circuitVars, faultStatus, tvList, skip, errors, pc, commandVars, pos, todo,
              target, tv>>

Dop == {"DopTvList", "DopBase", "DopDrop", "DopVerify"}
FaultStatus == {"Undetected", "Detected", "Untestable"}
WithStatus(s) == {f \in Fault : faultStatus[f] = s}

\* dop_list in the order in which cmd_proc() adds to it.
If(condition, dop) == IF condition THEN <<dop>> ELSE << >>

DopListOf_BaseFirst(options) ==
  <<"DopBase">> \o If("nopat" \notin options, "DopTvList")
    \o If("drop" \in options, "DopDrop") \o If("verify" \in options, "DopVerify")

DopListOf(options) ==
  If("nopat" \notin options, "DopTvList") \o <<"DopBase">>
    \o If("drop" \in options, "DopDrop") \o If("verify" \in options, "DopVerify")

\* cmd_proc(): only the undetected faults are simulated.
SkipAtStart_Old == skip \cup WithStatus("Detected") \cup WithStatus("Untestable")
SkipAtStart == Fault \ WithStatus("Undetected")

Command_Restart(options, o) ==
  /\ pc = "idle"
  /\ dopList' = DopListOf(options)
  /\ order' = o
  /\ skip' = SkipAtStart
  /\ errors' = {}
  /\ pos' = 1
  /\ pc' = "loop"
  /\ faultStatus' = [f \in Fault |-> "Undetected"]
  /\ UNCHANGED <<circuitVars, tvList, todo, target, tv>>

Command(options, o) ==
  /\ pc = "idle"
  /\ dopList' = DopListOf(options)
  /\ order' = o
  /\ skip' = SkipAtStart
  /\ errors' = {}
  /\ pos' = 1
  /\ pc' = "loop"
  /\ UNCHANGED <<circuitVars, faultStatus, tvList, todo, target, tv>>

-----------------------------------------------------------------------------
(* run_ffr(), run_mffc(), run_ffr_new(), run_mffc_new().                   *)

AtFault == pc = "loop" /\ pos <= Len(order)

\* The guard of the loop body.
Wanted_NotUntestable(f) == faultStatus[f] # "Untestable"
Wanted(f) == faultStatus[f] = "Undetected"

PassOver ==
  /\ AtFault /\ ~Wanted(order[pos])
  /\ pos' = pos + 1
  /\ UNCHANGED <<circuitVars, faultStatus, tvList, skip, errors, pc, commandVars, todo,
                 target, tv>>

\* gen_pattern() finds a vector.
Found(v) ==
  /\ AtFault /\ Wanted(order[pos])
  /\ v \in testable[order[pos]]
  /\ target' = order[pos]
  /\ tv' = v
  /\ todo' = dopList
  /\ pc' = "dop"
  /\ UNCHANGED <<circuitVars, faultStatus, tvList, skip, errors, commandVars, pos>>

\* gen_pattern() proves that there is none: UopBase.
ProvedUntestable ==
  /\ AtFault /\ Wanted(order[pos])
  /\ testable[order[pos]] = {}
  /\ faultStatus' = [faultStatus EXCEPT ![order[pos]] = "Untestable"]
  /\ pos' = pos + 1
  /\ UNCHANGED <<circuitVars, tvList, skip, errors, pc, commandVars, todo, target, tv>>

\* The SAT solver gives up: the fault stays undetected.
Aborted_AsUntestable ==
  /\ AtFault /\ Wanted(order[pos])
  /\ faultStatus' = [faultStatus EXCEPT ![order[pos]] = "Untestable"]
  /\ pos' = pos + 1
  /\ UNCHANGED <<circuitVars, tvList, skip, errors, pc, commandVars, todo, target, tv>>

Aborted_OwnStatus ==
  /\ AtFault /\ Wanted(order[pos])
  /\ faultStatus' = [faultStatus EXCEPT ![order[pos]] = "Aborted"]
  /\ pos' = pos + 1
  /\ UNCHANGED <<circuitVars, tvList, skip, errors, pc, commandVars, todo, target, tv>>

Aborted ==
  /\ AtFault /\ Wanted(order[pos])
  /\ pos' = pos + 1
  /\ UNCHANGED <<circuitVars, faultStatus, tvList, skip, errors, pc, commandVars, todo,
                 target, tv>>

Finish ==
  /\ pc = "loop" /\ pos > Len(order)
  /\ pc' = "idle"
  /\ UNCHANGED <<circuitVars, faultStatus, tvList, skip, errors, commandVars, pos, todo,
                 target, tv>>

-----------------------------------------------------------------------------
(* The operations of dop_list, one after the other.                        *)

NextDop(d) ==
  /\ pc = "dop" /\ todo # << >> /\ Head(todo) = d
  /\ todo' = Tail(todo)
  /\ UNCHANGED <<circuitVars, pc, commandVars, pos, target, tv>>

DopTvList ==
  /\ NextDop("DopTvList")
  /\ tvList' = Append(tvList, tv)
  /\ UNCHANGED <<faultStatus, skip, errors>>

DopBase ==
  /\ NextDop("DopBase")
  /\ faultStatus' = [faultStatus EXCEPT ![target] = "Detected"]
  /\ UNCHANGED <<tvList, skip, errors>>

\* det_fault_list() of sppfp(tv), after set_skip(target).
Dropped == {f \in Fault \ (skip \cup {target}) : tv \in detects[f]}

DopDrop ==
  /\ NextDop("DopDrop")
  /\ faultStatus' = [f \in Fault |-> IF f \in Dropped THEN "Detected" ELSE faultStatus[f]]
  /\ skip' = skip \cup {target} \cup Dropped
  /\ UNCHANGED <<tvList, errors>>

\* spsfp(tv, target): the skip marks do not matter.
DopVerify ==
  /\ NextDop("DopVerify")
  /\ errors' = IF tv \in detects[target] THEN errors ELSE errors \cup {target}
  /\ UNCHANGED <<faultStatus, tvList, skip>>

DopsDone ==
  /\ pc = "dop" /\ todo = << >>
  /\ pos' = pos + 1
  /\ pc' = "loop"
  /\ UNCHANGED <<circuitVars, faultStatus, tvList, skip, errors, commandVars, todo, target, tv>>

-----------------------------------------------------------------------------
\* after_set_network(): a new network with new managers.  The marks of fsim3
\* are whatever other commands have left.
AtpgInit ==
  /\ detects \in [Fault -> SUBSET Vector]
  /\ testable \in [Fault -> SUBSET Vector]
  /\ \A f \in Fault : testable[f] \subseteq detects[f]
  /\ OnlyPpoObserved => testable = detects
  /\ faultStatus = [f \in Fault |-> "Undetected"]
  /\ tvList = << >>
  /\ skip \in {{}, Fault}
  /\ errors = {}
  /\ pc = "idle"
  /\ order = << >>
  /\ pos = 1
  /\ dopList = << >>
  /\ todo = << >>
  /\ target \in {CHOOSE f \in Fault : TRUE}
  /\ tv \in {CHOOSE v \in Vector : TRUE}

AtpgNext ==
  \/ \E options \in CommandOptions, o \in Orders : Command(options, o)
  \/ PassOver
  \/ \E v \in Vector : Found(v)
  \/ ProvedUntestable
  \/ Aborted
  \/ Finish
  \/ DopTvList \/ DopBase \/ DopDrop \/ DopVerify \/ DopsDone

AtpgSpec == AtpgInit /\ [][AtpgNext]_atpgVars

-----------------------------------------------------------------------------
AtpgTypeOK ==
  /\ detects \in [Fault -> SUBSET Vector]
  /\ testable \in [Fault -> SUBSET Vector]
  /\ faultStatus \in [Fault -> FaultStatus]
  /\ tvList \in Seq(Vector)
  /\ skip \subseteq Fault
  /\ errors \subseteq Fault
  /\ pc \in {"idle", "loop", "dop"}
  /\ order \in Seq(Fault)
  /\ pos \in Nat \ {0}
  /\ dopList \in Seq(Dop)
  /\ todo \in Seq(Dop)
  /\ target \in Fault
  /\ tv \in Vector

\* A fault once classified keeps its class: DopDrop never detects a fault that
\* was proved untestable (the assertion DopDrop.cc:59), and the command, given
\* again, leaves the classified faults alone.
StatusFinal ==
  [][\A f \in Fault : faultStatus[f] # "Undetected" => faultStatus'[f] = faultStatus[f]]_atpgVars

\* The vectors kept cover the faults counted as detected, also while the
\* operations of dop_list run: with any engine and any options but -nopat,
\* which keeps no vector.
DetectedIsCovered ==
  \A f \in WithStatus("Detected") : \E i \in DOMAIN tvList : tvList[i] \in detects[f]

\* Only faults without a test are called untestable; an aborted search is not
\* a proof.
UntestableHasNoTest == \A f \in WithStatus("Untestable") : detects[f] = {}

\* No fault that still needs a test is skipped by the simulation, or dropping
\* would miss it.
SkipOnlyClassified ==
  pc # "idle" => \A f \in skip : faultStatus[f] # "Undetected"

\* With -drop, no vector is generated for a fault that one of the vectors
\* before it detects already: each adds to the coverage.
EveryVectorCounts ==
  \A j \in DOMAIN tvList :
    \E f \in Fault : /\ tvList[j] \in detects[f]
                     /\ \A i \in 1 .. j - 1 : tvList[i] \notin detects[f]
=============================================================================
