-------------------------- MODULE FaultPropagation --------------------------
(***************************************************************************)
(* What the event queue promises its callers, without a queue: after some  *)
(* triggers, simulate() returns the lanes in which the complemented nodes  *)
(* are observed at an output, each lane as if it were simulated alone, and *)
(* leaves the values of the network as they were.                          *)
(***************************************************************************)
EXTENDS FaultReference

CONSTANTS MaskLimit, GoodValues

VARIABLES
  value,   \* the fault-free values of the nodes
  mask,    \* the lanes in which each node has been triggered
  busy,    \* simulate() is under way
  result   \* what the last simulate() returned

propagationVars == <<value, mask, busy, result>>

NoMask == [n \in Node |-> {}]
Triggered == {n \in Node : mask[n] # {}}

Init ==
  /\ value \in GoodValues
  /\ mask = NoMask
  /\ busy = FALSE
  /\ result = {}

Load ==
  /\ ~busy /\ Triggered = {}
  /\ value' \in GoodValues
  /\ UNCHANGED <<mask, busy, result>>

Trigger(n, m) ==
  /\ ~busy
  /\ mask[n] = {}
  /\ Cardinality(Triggered) < MaskLimit
  /\ mask' = [mask EXCEPT ![n] = m]
  /\ UNCHANGED <<value, busy, result>>

Begin ==
  /\ ~busy /\ Triggered # {}
  /\ busy' = TRUE
  /\ result' = {}
  /\ UNCHANGED <<value, mask>>

Return ==
  /\ busy
  /\ busy' = FALSE
  /\ result' = Observed(value, FaultyValue(value, mask))
  /\ mask' = NoMask
  /\ UNCHANGED value

Next ==
  \/ Load
  \/ \E n \in Node \ Output, m \in (SUBSET Lane) \ {{}} : Trigger(n, m)
  \/ Begin
  \/ Return

Spec == Init /\ [][Next]_propagationVars
=============================================================================
