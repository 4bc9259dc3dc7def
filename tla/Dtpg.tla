-------------------------------- MODULE Dtpg --------------------------------
(***************************************************************************)
(* One SAT-based test generator and the calls made to it: DtpgFFR, whose   *)
(* faults lie in one fanout-free region, or DtpgMFFC, whose faults lie in  *)
(* one maximal fanout-free cone, with what a call computes from the        *)
(* solver's model, a sufficient condition (ex/) and a justified test       *)
(* vector (jt/).                                                           *)
(*                                                                         *)
(* The solver is outside the program.  A model is the value of every node  *)
(* in two clock cycles, m[0] and m[1]; for stuck-at faults both are the    *)
(* same, as in JustData.  The solver may give up at any time.              *)
(***************************************************************************)
EXTENDS Integers, Sequences, SequencesExt

CONSTANTS
  Engines,    \* the engines to build: records with the fields of "engine"
  MaxK        \* bound on the number k a caller asks for

VARIABLES
  engine,   \* the network (gate, fanout, dff, immDom), class, type and root,
            \* and maxCalls, a bound on the calls made
  clauses,  \* the negations added to the solver, each with its control variable
  calls,    \* the calls made, each of which creates at most one control variable
  op,       \* the call that runs, or ran last
  fault,    \* its argument
  left,     \* the rounds of its loop that are left
  status,   \* its result: FaultStatus, "None" before the first call
  suf,      \* suf_cond: the last sufficient condition, with the FFR's condition
  vectors,  \* tv_list, for gen_pattern() the one vector of the result
  expr1,    \* in gen_core_expr() the expression of the last model,
  core      \* and expr, their disjunction: as sets of cubes
dtpgVars == <<engine, clauses, calls, op, fault, left, status, suf, vectors, expr1, core>>

INSTANCE Circuit WITH Gate <- engine.gate, Fanout <- engine.fanout

PrimaryInputs == {n \in PPIs : engine.gate[n].type = "Input"}
TwoCycles == engine.type = "TD"

\* The parameters of an engine: a network, the flip-flops' inputs, and for each
\* node 0 or a node on all of its ways to an output (TpgNode::imm_dom()).
OnAllWays(e, d, n) ==
  \E S \in SUBSET (DOMAIN e.gate \ {d}) :
    /\ n \in S
    /\ \A m \in S : /\ e.gate[m].type \notin PpoTypes
                    /\ \A k \in DOMAIN e.fanout[m] : e.fanout[m][k] \in S \cup {d}
ProperEngine(e) ==
  /\ ProperNetwork(e.gate, e.fanout)
  /\ e.class \in {"DtpgFFR", "DtpgMFFC"} /\ e.type \in {"SA", "TD"} /\ e.maxCalls \in Nat
  /\ \A n \in DOMAIN e.gate :
       /\ e.gate[n].type = "DffOutput" => e.dff[n] \in DOMAIN e.gate
       /\ e.immDom[n] # 0 => e.immDom[n] \in n + 1 .. Len(e.gate) /\ OnAllWays(e, e.immDom[n], n)
       /\ Len(e.fanout[n]) = 1 => e.immDom[n] = e.fanout[n][1]
ASSUME EnginesAssumption == \A e \in Engines : ProperEngine(e)
ASSUME MaxKAssumption == MaxK \in Nat \ {0}

\* mffc_root(): follow the immediate dominators.
MffcRoot(n) ==
  LET root[k \in DOMAIN engine.gate] ==
        IF engine.immDom[k] = 0 THEN k ELSE root[engine.immDom[k]]
  IN  root[n]

\* The faults of the region or cone.
Faults ==
  {f \in [node : DataNodes, pos : 0 .. 3, val : {"0", "1"}] :
     /\ f.pos \in 0 .. Len(engine.gate[f.node].fanin)
     /\ engine.root = IF engine.class = "DtpgFFR" THEN FfrRoot(f.node) ELSE MffcRoot(f.node)}
Origin(f) == FfrRoot(f.node)

-----------------------------------------------------------------------------
(* What the solver is given.                                               *)

\* gen_good_cnf(): the gates of both cycles and the flip-flops between them.
NextInputs(before, pi) ==
  [n \in PPIs |-> IF n \in PrimaryInputs THEN pi[n] ELSE before[engine.dff[n]]]
GoodModels ==
  IF TwoCycles
  THEN UNION {LET before == Values(in)
              IN  {<<before, Values(NextInputs(before, pi))>> : pi \in [PrimaryInputs -> {"0", "1"}]}
              : in \in Inputs}
  ELSE {<<v, v>> : v \in {Values(in) : in \in Inputs}}
\* The value of a node in cycle 0 or 1.
ValAt(m, n, t) == m[t + 1][n]

\* gen_faulty_cnf(), gen_mffc_cnf(): the root of the fault's region is flipped
\* and the rest of the network follows.
FaultyValues(m, origin) ==
  ValuesUnder([n \in PPIs |-> ValAt(m, n, 1)],
              [node |-> origin, pos |-> 0, val |-> Complement(ValAt(m, origin, 1))])

\* make_dchain_cnf(): a difference goes on to a fanout and through the
\* immediate dominator.  This is the largest assignment to the variables d,
\* and the clauses that need one to be true are satisfied by it if by any.
DChain_AllFanouts(m, bad) ==
  LET d[n \in DOMAIN engine.gate] ==
        /\ ValAt(m, n, 1) # bad[n]
        /\ n \notin PPOs => /\ FanoutSet(n) # {} /\ \A o \in FanoutSet(n) : d[o]
  IN  d
DChain(m, bad) ==
  LET d[n \in DOMAIN engine.gate] ==
        /\ ValAt(m, n, 1) # bad[n]
        /\ n \notin PPOs =>
             /\ \E o \in FanoutSet(n) : d[o]
             /\ Len(engine.fanout[n]) > 1 /\ engine.immDom[n] # 0 => d[engine.immDom[n]]
  IN  d
\* The clauses of the constructor: some output, and the root unless it is one.
Propagates(m, bad) ==
  LET d == DChain(m, bad)
  IN  /\ \E o \in PPOs \cap Tfo({engine.root}) : d[o]
      /\ engine.root \in PPOs \/ d[engine.root]

Holds(m, cube) == \A a \in cube : ValAt(m, a.node, a.time) = a.val
Refuted(m, c) == \A cube \in c.cubes : ~ Holds(m, cube)

\* solve(): the assumptions are the condition of the region and a control
\* variable, 0 for none, without which a clause added later says nothing.
Solutions_AllClauses(f, control) ==
  {m \in GoodModels : /\ Holds(m, FfrCondition(f, engine.type))
                      /\ Propagates(m, FaultyValues(m, Origin(f)))
                      /\ \A c \in clauses : Refuted(m, c)}
Solutions(f, control) ==
  {m \in GoodModels : /\ Holds(m, FfrCondition(f, engine.type))
                      /\ Propagates(m, FaultyValues(m, Origin(f)))
                      /\ \A c \in clauses : c.control = control => Refuted(m, c)}

-----------------------------------------------------------------------------
(* Extractor: the values that suffice for the difference at the root to    *)
(* reach one output.  Fcone is the fault cone, a fanin outside it a side   *)
(* input.                                                                  *)

Fcone(f) == Tfo({Origin(f)})

\* The first output of mSpoList: depth first along the fanouts.
Spo(m, bad, origin) ==
  LET first[n \in DOMAIN engine.gate] ==
        LET found == {k \in DOMAIN engine.fanout[n] : first[engine.fanout[n][k]] # 0}
        IN  IF n \in PPOs /\ ValAt(m, n, 1) # bad[n] THEN n
            ELSE IF found = {} THEN 0 ELSE first[engine.fanout[n][Min(found)]]
  IN  first[origin]

\* The early return of record_masking_node(): one fanin carries the
\* difference and a side input holds the controlling value; the last such
\* side input before both have been seen is recorded.  0 when there is none.
Blocker(m, bad, cone, n) ==
  LET fanin == engine.gate[n].fanin
      Differs(k) == fanin[k] \in cone /\ ValAt(m, fanin[k], 1) # bad[fanin[k]]
      Controls(k) == fanin[k] \notin cone
                     /\ ValAt(m, fanin[k], 1) = ControlValue(engine.gate[n].type)
      seen == {k \in DOMAIN fanin : /\ \E i \in 1 .. k : Differs(i)
                                    /\ \E i \in 1 .. k : Controls(i)}
  IN  IF ValAt(m, n, 1) # bad[n] \/ seen = {} THEN 0
      ELSE fanin[Max({k \in 1 .. Min(seen) : Controls(k)})]

\* The nodes record_sensitized_node() and record_masking_node() go on to,
\* and the side inputs they record.
Followed_Sensitized(m, bad, cone, n) ==
  {i \in FaninSet(n) \cap cone : ValAt(m, i, 1) # bad[i]}
Followed(m, bad, cone, n) ==
  IF Blocker(m, bad, cone, n) = 0 THEN FaninSet(n) \cap cone ELSE {}
SideInputs(m, bad, cone, n) ==
  LET b == Blocker(m, bad, cone, n)
  IN  IF b = 0 THEN FaninSet(n) \ cone ELSE {b}

Extract(m, f) ==
  LET bad == FaultyValues(m, Origin(f))
      cone == Fcone(f)
      last == Len(engine.gate)
      recorded[k \in 0 .. last] ==
        IF k = 0 THEN {Spo(m, bad, Origin(f))}
        ELSE LET rest == recorded[k - 1]
                 n == last + 1 - k
             IN  rest \cup IF n \in rest THEN Followed(m, bad, cone, n) ELSE {}
  IN  UNION {{Assign(i, 1, ValAt(m, i, 1)) : i \in SideInputs(m, bad, cone, n)} :
             n \in recorded[last]}

-----------------------------------------------------------------------------
(* MultiExtractor: all such values, an expression as the set of its cubes. *)

\* The conjunction of the expressions e of the nodes of a list.
Conjunction(e, nodes) ==
  {UNION {cube[k] : k \in DOMAIN nodes} :
     cube \in {c \in [DOMAIN nodes -> UNION {e[nodes[k]] : k \in DOMAIN nodes}] :
                 \A k \in DOMAIN nodes : c[k] \in e[nodes[k]]}}
Literal(m, n) == {{Assign(n, 1, ValAt(m, n, 1))}}

\* The fanins with the controlling value whose value the fault leaves alone.
Controlling_BeforeFault(m, bad, n) ==
  {i \in FaninSet(n) : ValAt(m, i, 1) = ControlValue(engine.gate[n].type)}
Controlling(m, bad, n) ==
  {i \in FaninSet(n) : /\ ValAt(m, i, 1) = bad[i]
                       /\ ValAt(m, i, 1) = ControlValue(engine.gate[n].type)}
ExtractAll(m, f) ==
  LET bad == FaultyValues(m, Origin(f))
      cone == Fcone(f)
      expr[n \in DOMAIN engine.gate] ==
        IF n \notin cone THEN Literal(m, n)
        ELSE IF ValAt(m, n, 1) = bad[n] /\ Controlling(m, bad, n) # {}
        THEN UNION {expr[i] : i \in Controlling(m, bad, n)}
        ELSE Conjunction(expr, engine.gate[n].fanin)
  IN  UNION {expr[o] : o \in {p \in PPOs \cap cone : ValAt(m, p, 1) # bad[p]}}

-----------------------------------------------------------------------------
(* Justifier: the values of inputs that imply the assignments of a list.   *)

\* The fanins just_main() goes on to.  select_cval_node() takes one of those
\* with the controlling value: Just1 the first, Just2 one of least weight.
Options_AnyFanin(m, n, t) ==
  IF n \in PPIs THEN {{}}
  ELSE IF ValAt(m, n, t) = ControlledOutput(engine.gate[n].type) THEN {{i} : i \in FaninSet(n)}
  ELSE {FaninSet(n)}
Options(m, n, t) ==
  IF n \in PPIs THEN {{}}
  ELSE IF ValAt(m, n, t) = ControlledOutput(engine.gate[n].type)
  THEN {{i} : i \in {j \in FaninSet(n) : ValAt(m, j, t) = ControlValue(engine.gate[n].type)}}
  ELSE {FaninSet(n)}

\* The sets of nodes marked in cycle t when just_main() is called on those of S.
Marked(m, S, t) ==
  LET last == Len(engine.gate)
      marks[k \in 0 .. last] ==
        IF k = 0 THEN {S}
        ELSE LET n == last + 1 - k
             IN  UNION {IF n \in rest THEN {rest \cup o : o \in Options(m, n, t)} ELSE {rest} :
                        rest \in marks[k - 1]}
  IN  marks[last]

\* backtrace(): of a flip-flop's output in cycle 1 the value comes from its
\* input in cycle 0, for stuck-at faults it is an input.
Recorded(m, S, t) == {Assign(n, t, ValAt(m, n, t)) : n \in S}
Justifications(m, cube) ==
  LET At(t) == {a.node : a \in {b \in cube : b.time = t}}
  IN  IF TwoCycles
      THEN UNION {{Recorded(m, now \cap PrimaryInputs, 1) \cup Recorded(m, before \cap PPIs, 0) :
                     before \in Marked(m, At(0) \cup {engine.dff[n] :
                                                       n \in (now \cap PPIs) \ PrimaryInputs}, 0)}
                  : now \in Marked(m, At(1), 1)}
      ELSE {Recorded(m, now \cap PPIs, 1) : now \in Marked(m, At(1), 1)}

-----------------------------------------------------------------------------
(* The calls.                                                              *)

Idle == left = 0
Calling(name, f) == /\ Idle /\ calls < engine.maxCalls
                    /\ calls' = calls + 1 /\ op' = name /\ fault' = f
                    /\ UNCHANGED engine

\* The condition of the region is merged in, the vector justifies both.
TestFound(f, m) ==
  /\ suf' = Extract(m, f) \cup FfrCondition(f, engine.type)
  /\ \E tv \in Justifications(m, suf') : vectors' = <<tv>>
  /\ status' = "Detected"
NoTest(f) ==
  /\ \/ Solutions(f, 0) = {} /\ status' = "Untestable"
     \/ status' = "Undetected"
  /\ suf' = {} /\ vectors' = << >>

\* gen_pattern().
GenPattern(f) ==
  /\ Calling("patterns", f)
  /\ (\E m \in Solutions(f, 0) : TestFound(f, m)) \/ NoTest(f)
  /\ UNCHANGED <<clauses, left, expr1, core>>

\* gen_k_patterns(): DtpgFFR, here for stuck-at faults.
Negation_Unguarded(cubes) == [control |-> 0, cubes |-> cubes]
Negation(cubes) == [control |-> calls, cubes |-> cubes]
AddNegation_First(tvs) == Negation({tvs[1]})
AddNegation(tvs) == Negation({tvs[Len(tvs)]})
GenKPatterns(f, k) ==
  /\ engine.class = "DtpgFFR" /\ ~TwoCycles
  /\ Calling("patterns", f)
  /\ \/ \E m \in Solutions(f, 0) : TestFound(f, m) /\ left' = k - 1
     \/ NoTest(f) /\ left' = 0
  /\ UNCHANGED <<clauses, expr1, core>>

\* One round of its loop: the negation of the last vector, and another model.
NextPattern ==
  /\ op = "patterns" /\ left > 0
  /\ clauses' = clauses \cup {AddNegation(vectors)}
  /\ \/ \E m \in {n \in Solutions(fault, calls) : Refuted(n, AddNegation(vectors))} :
          /\ suf' = Extract(m, fault) \cup FfrCondition(fault, engine.type)
          /\ \E tv \in Justifications(m, suf') : vectors' = Append(vectors, tv)
          /\ left' = left - 1
     \/ left' = 0 /\ UNCHANGED <<suf, vectors>>
  /\ UNCHANGED <<engine, calls, op, fault, status, expr1, core>>

\* gen_core_expr(): DtpgFFR.  It returns the constant 0 for a fault without a
\* test, and also when the solver gave up.
GenCoreExpr(f, k) ==
  /\ engine.class = "DtpgFFR"
  /\ Calling("core", f)
  /\ \/ \E m \in Solutions(f, 0) : expr1' = ExtractAll(m, f) /\ left' = k
     \/ expr1' = {} /\ left' = 0
  /\ core' = expr1'
  /\ UNCHANGED <<clauses, status, suf, vectors>>

\* One round of its loop: the negation of the last expression, and another
\* model, the last one again when the solver gave up.  The negation of a
\* constant is not expected, and no clause is added for it.
IsConstant(cubes) == {} \in cubes
NextExpr ==
  LET negation == IF IsConstant(expr1) THEN {} ELSE {Negation(expr1)}
      models == {m \in Solutions(fault, calls) : \A c \in negation : Refuted(m, c)}
  IN  /\ op = "core" /\ left > 0
      /\ clauses' = clauses \cup negation
      /\ \/ \E m \in models : expr1' = ExtractAll(m, fault) /\ left' = left - 1
         \/ models = {} /\ left' = 0 /\ UNCHANGED expr1
         \/ left' = left - 1 /\ UNCHANGED expr1
      /\ core' = core \cup expr1'
      /\ UNCHANGED <<engine, calls, op, fault, status, suf, vectors>>

Init ==
  /\ engine \in Engines
  /\ clauses = {} /\ calls = 0 /\ op = "none" /\ fault = NoFault /\ left = 0
  /\ status = "None" /\ suf = {} /\ vectors = << >> /\ expr1 = {} /\ core = {}
Next ==
  \/ \E f \in Faults :
       \/ GenPattern(f)
       \/ \E k \in 1 .. MaxK : GenKPatterns(f, k) \/ GenCoreExpr(f, k)
  \/ NextPattern \/ NextExpr
Spec == Init /\ [][Next]_dtpgVars

-----------------------------------------------------------------------------
(* Properties.                                                             *)

\* A model of the network detects the fault: the faulty value is there one
\* cycle before (transition faults) and an output differs.
Detects(m, f) ==
  /\ TwoCycles => ValAt(m, FaultyLine(f), 0) = f.val
  /\ LET bad == ValuesUnder([n \in PPIs |-> ValAt(m, n, 1)], f)
     IN  \E o \in PPOs : ValAt(m, o, 1) # bad[o]
Suffices(cube, f) == \A m \in GoodModels : Holds(m, cube) => Detects(m, f)

Cubes == SUBSET [node : DOMAIN engine.gate, time : {0, 1}, val : {"0", "1"}]
TypeOK ==
  /\ engine \in Engines /\ calls \in 0 .. engine.maxCalls /\ left \in 0 .. MaxK
  /\ op \in {"none", "patterns", "core"} /\ (calls > 0 => fault \in Faults)
  /\ status \in {"None", "Detected", "Untestable", "Undetected"}
  /\ \A c \in clauses : c.control \in 1 .. calls /\ c.cubes \subseteq Cubes
  /\ suf \in Cubes /\ Len(vectors) <= MaxK
  /\ \A k \in DOMAIN vectors : /\ vectors[k] \in Cubes
                               /\ \A a \in vectors[k] : a.node \in PPIs
  /\ expr1 \subseteq Cubes /\ core \subseteq Cubes

\* get_sufficient_condition() keeps its name: whatever the other inputs are,
\* its assignments and those of the region detect the fault.  It is what the
\* side inputs and masking nodes of Extractor are for: a value it forgets on
\* a reconverging path lets the fault cancel itself out.
ConditionSuffices ==
  op = "patterns" /\ status = "Detected" => Suffices(suf, fault)

\* Every vector a call returns detects the fault however its X are filled in,
\* in both cycles for a transition fault: just_main() may stop at one fanin of
\* a gate and drop the rest.
VectorsDetect ==
  op = "patterns" => \A k \in DOMAIN vectors : Suffices(vectors[k], fault)

\* make_untestable() is right: no input detects the fault, also after calls
\* that added the negations of their vectors and expressions to the solver.
UntestableIsProved ==
  op = "patterns" /\ status = "Untestable" => \A m \in GoodModels : ~Detects(m, fault)

\* gen_k_patterns(): no vector repeats the assignments of an earlier one of
\* the same call.
VectorsAreNew ==
  op = "patterns" =>
    \A j \in DOMAIN vectors : \A i \in 1 .. j - 1 : ~(vectors[i] \subseteq vectors[j])

\* gen_core_expr(): each way to satisfy the expression, with the condition of
\* the region, detects the fault.
CoreSuffices ==
  op = "core" => \A cube \in core : Suffices(cube \cup FfrCondition(fault, engine.type), fault)
=============================================================================
