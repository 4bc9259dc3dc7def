--------------------------- MODULE FaultSimulation --------------------------
(***************************************************************************)
(* What the fault simulator promises its callers (include/Fsim.h): a call  *)
(* reports exactly the faults without a skip mark that its pattern, or     *)
(* each pattern of its buffer, detects, whatever was called before it.     *)
(***************************************************************************)
EXTENDS FaultModel

CONSTANT TestVectors

VARIABLES
  skipped,   \* the faults with a skip mark
  patterns,  \* the patterns set for ppsfp: a function from a set of lanes
  call,      \* the last call: its name and its arguments
  active,    \* the call has not returned
  report     \* what the last call reported: faults with their lanes

simulationVars == <<kind, skipped, patterns, call, active, report>>

NoCall == [op |-> "none"]

Init ==
  /\ kind \in Simulators
  /\ skipped = {}
  /\ patterns = << >>
  /\ call = NoCall
  /\ active = FALSE
  /\ report = {}

SetSkip ==
  /\ ~active
  /\ skipped' \in SUBSET Faults
  /\ UNCHANGED <<patterns, call, active, report>>

ClearPatterns ==
  /\ ~active
  /\ patterns' = << >>
  /\ UNCHANGED <<skipped, call, active, report>>

SetPattern ==
  /\ ~active
  /\ \E b \in Lane, tv \in TestVectors :
       patterns' = [c \in DOMAIN patterns \cup {b} |-> IF c = b THEN tv ELSE patterns[c]]
  /\ UNCHANGED <<skipped, call, active, report>>

Call ==
  /\ ~active
  /\ \/ call' = [op |-> "ppsfp"]
     \/ \E tv \in TestVectors : call' = [op |-> "sppfp", tv |-> tv]
     \/ \E tv \in TestVectors, f \in Faults :
          call' = [op |-> "spsfp", tv |-> tv, fault |-> f]
  /\ active' = TRUE
  /\ report' = {}
  /\ UNCHANGED <<skipped, patterns>>

\* The lanes whose patterns detect f.
DetectingLanes(f) == {b \in DOMAIN patterns : Detects(patterns[b], f)}

Answer ==
  CASE call.op = "sppfp" ->
         {[fault |-> f, pat |-> {}] :
            f \in {g \in Faults \ skipped : Detects(call.tv, g)}}
    [] call.op = "ppsfp" ->
         {[fault |-> f, pat |-> DetectingLanes(f)] :
            f \in {g \in Faults \ skipped : DetectingLanes(g) # {}}}
    [] call.op = "spsfp" ->
         {[fault |-> f, pat |-> {}] :
            f \in {g \in {call.fault} : Detects(call.tv, g)}}

Return ==
  /\ active
  /\ active' = FALSE
  /\ report' = Answer
  /\ UNCHANGED <<skipped, patterns, call>>

Next == (SetSkip \/ ClearPatterns \/ SetPattern \/ Call \/ Return) /\ UNCHANGED kind

Spec == Init /\ [][Next]_simulationVars
=============================================================================
