----------------------------- MODULE VariantPlan -----------------------------
(***************************************************************************)
(* The planner of keyword directives.  A pass comes with a sequence of     *)
(* compiled variants for every stage, each a set of keywords, which the    *)
(* player build may have thinned out.  The planner looks for directives    *)
(* whose expansion is that sequence: independent axes of alternatives,     *)
(* with or without one built-in directive, and if there are none an axis   *)
(* per keyword and a selector in the source (a symbolic domain).           *)
(* A keyword is an index of the shader's table of names, which may hold    *)
(* one name twice.                                                         *)
(***************************************************************************)
EXTENDS Integers, Sequences, FiniteSets, SequencesExt, FiniteSetsExt, VariantDomain

CONSTANTS
    Stages,     \* the program stages in serialized order, the vertex stage first
    Passes      \* the passes: names and scopes of the keywords, mask, subprograms

VARIABLES
    pass,       \* the pass that is emitted
    plan        \* ShaderLabVariantPlan, and how far its construction has come

pvars == <<pass, plan>>

NoStage == [active |-> FALSE, variants |-> <<>>, states |-> <<>>, axes |-> <<>>, position |-> 0,
            generated |-> <<>>, symbolic |-> FALSE]
NoPlan == [step |-> "idle", at |-> 0, family |-> "none", ambiguous |-> FALSE, exclusions |-> 0,
           stages |-> [s \in 1..Len(Stages) |-> NoStage]]

StageIds == 1..Len(Stages)
Active(pl) == {s \in StageIds : pl.stages[s].active}
Keywords == DOMAIN pass.names
NamesOf(state) == {pass.names[k] : k \in state}
Used(states) == UNION Range(states)

(* The step over all stages: the next stage, or the step that follows.     *)
Onward(pl, next) == IF pl.at < Len(Stages) THEN [pl EXCEPT !.at = @ + 1]
                    ELSE [pl EXCEPT !.step = next, !.at = 1]
Rejected(pl) == [pl EXCEPT !.step = "failed"]

-----------------------------------------------------------------------------
(* The serialized variants.                                                *)

(* An identity names its keywords by scope, and each must have the scope   *)
(* the shader's table gives it; the older form has one list.               *)
IdentityHolds(id) ==
    /\ id.canonical
    /\ id.global \cup id.local \subseteq Keywords
    /\ IF id.explicit THEN /\ \A k \in id.global : ~pass.scoped[k]
                           /\ \A k \in id.local : pass.scoped[k]
                      ELSE id.global = {}
    /\ id.global \cup id.local \subseteq pass.mask

OfTier(variants, tier) == SelectSeq(variants, LAMBDA v : v.tier = tier)
StatesOf(variants) == [i \in DOMAIN variants |-> variants[i].state]
TiersOf(variants) == IF \E v \in Range(variants) : v.tier = 3 THEN {3} ELSE 0..2

(* Either all variants are of no particular tier or the three tiers repeat *)
(* one sequence of states; a state occurs once in it.                      *)
TiersAgree(variants) ==
    LET tiers == TiersOf(variants)
        states == StatesOf(OfTier(variants, Min(tiers)))
    IN  /\ \A v \in Range(variants) : v.tier \in tiers
        /\ \A t \in tiers : StatesOf(OfTier(variants, t)) = states
        /\ IsInjective(states)

CollectStage ==
    /\ plan.step = "collect"
    /\ LET s == plan.at
           subs == pass.subprograms[s]
           d3d == SelectSeq([i \in DOMAIN subs |-> i], LAMBDA i : subs[i].d3d)
           variants == [i \in DOMAIN d3d |-> [sub |-> d3d[i], tier |-> subs[d3d[i]].tier,
                                              state |-> subs[d3d[i]].global \cup subs[d3d[i]].local]]
           tiers == TiersOf(variants)
           others == {TiersOf(plan.stages[o].variants) : o \in Active(plan)}
       IN  plan' = IF d3d = <<>> THEN Onward(plan, "family")
                   ELSE IF /\ \A i \in Range(d3d) : IdentityHolds(subs[i])
                           /\ TiersAgree(variants) /\ others \subseteq {tiers}
                   THEN Onward([plan EXCEPT !.stages[s] =
                                   [NoStage EXCEPT !.active = TRUE, !.variants = variants,
                                        !.states = StatesOf(OfTier(variants, Min(tiers)))]], "family")
                   ELSE Rejected(plan)
    /\ UNCHANGED pass

-----------------------------------------------------------------------------
(* Built-in directives.                                                    *)

Rows(family, s, exclusions) == BuiltinRows[family][Stages[s] = "vertex"][exclusions]
BuiltinNames(family) == Range(FamilyKeywords(family))
BuiltinPart(family, state) == {k \in state : pass.names[k] \in BuiltinNames(family)}

(* The values of a sequence in the order of their first occurrence.        *)
Distinct(seq) ==
    LET first == SelectSeq([i \in DOMAIN seq |-> i], LAMBDA i : \A j \in 1..(i - 1) : seq[j] # seq[i])
    IN  [i \in DOMAIN first |-> seq[first[i]]]

External(family, states) ==
    Distinct([i \in DOMAIN states |-> states[i] \ BuiltinPart(family, states[i])])
BuiltinMasks(family, states) ==
    Distinct([i \in DOMAIN states |-> NamesOf(BuiltinPart(family, states[i]))])

(* The built-in parts of a stage's states are rows of the table in the     *)
(* order of the table, and not all of them empty.                          *)
Projects(family, s) ==
    LET states == plan.stages[s].states
        masks == BuiltinMasks(family, states)
        rows == Rows(family, s, 0)
    IN  /\ \A state \in Range(states) : \A k \in BuiltinPart(family, state) : ~pass.scoped[k]
        /\ Range(masks) \subseteq Range(rows)
        /\ Range(masks) # {{}}
        /\ masks = SelectSeq(rows, LAMBDA row : row \in Range(masks))

ExternalCost(family) ==
    MapThenSumSet(LAMBDA s : Cardinality(Used(External(family, plan.stages[s].states))), Active(plan))
RowCost(family) == MapThenSumSet(LAMBDA s : Len(Rows(family, s, 0)), Active(plan))
Cheaper(f, g) ==
    \/ ExternalCost(f) < ExternalCost(g)
    \/ ExternalCost(f) = ExternalCost(g) /\ RowCost(f) < RowCost(g)

(* The table that leaves the fewest keywords to other directives; of two   *)
(* that are equal neither is chosen.                                       *)
ChooseFamily ==
    /\ plan.step = "family"
    /\ LET proven == {f \in FamilyNames : \A s \in Active(plan) : Projects(f, s)}
           best == {f \in proven : \A g \in proven : ~Cheaper(g, f)}
       IN  plan' = IF Active(plan) = {} THEN Rejected(plan)
                   ELSE [plan EXCEPT !.step = "axes", !.ambiguous = Cardinality(best) > 1,
                             !.family = IF Cardinality(best) = 1 THEN CHOOSE f \in best : TRUE ELSE "none"]
    /\ UNCHANGED pass

-----------------------------------------------------------------------------
(* Axes.  An axis offers its keywords, one at a time, and possibly none.   *)

Options(axis) == (IF axis.default THEN <<{}>> ELSE <<>>)
                 \o [i \in DOMAIN axis.keywords |-> {axis.keywords[i]}]
Radix(axis) == Len(Options(axis))
Product(axes) == FoldSeq(LAMBDA axis, n : Radix(axis) * n, 1, axes)

(* The combinations of several sequences of alternatives, the first one    *)
(* changing fastest.                                                       *)
Combined(choices) ==
    FoldSeq(LAMBDA options, combos :
                [i \in 1..(Len(combos) * Len(options)) |->
                    combos[((i - 1) % Len(combos)) + 1] \cup options[((i - 1) \div Len(combos)) + 1]],
            <<{}>>, choices)

(* Keywords that never occur together are alternatives; the components of  *)
(* that relation are the candidates for axes.                              *)
NeverTogether(states, k, l) == \A state \in Range(states) : ~({k, l} \subseteq state)
Components(states) ==
    LET closed == {c \in SUBSET Used(states) \ {{}} :
                     \A k \in c, l \in Used(states) \ c : ~NeverTogether(states, k, l)}
    IN  {c \in closed : \A d \in closed : d \subseteq c => d = c}
HasDefault(states, c) == \E state \in Range(states) : c \cap state = {}
ComponentRadix(states, c) == Cardinality(c) + (IF HasDefault(states, c) THEN 1 ELSE 0)

(* The choices of a component, read off the states at multiples of stride. *)
Cycle(states, c, stride) == [i \in 1..ComponentRadix(states, c) |-> c \cap states[(i - 1) * stride + 1]]
(* Fault: what comes after the first cycle is not looked at.               *)
FaultyRunsAtStride(states, c, stride) ==
    /\ ComponentRadix(states, c) > 1
    /\ stride <= Len(states) /\ ComponentRadix(states, c) <= Len(states) \div stride
    /\ LET cycle == Cycle(states, c, stride)
       IN  IsInjective(cycle) /\ (HasDefault(states, c) => cycle[1] = {})

(* The component runs through its choices in that order all along, with    *)
(* the empty choice first if it has one.                                   *)
RunsAtStride(states, c, stride) ==
    /\ ComponentRadix(states, c) > 1
    /\ stride <= Len(states) /\ ComponentRadix(states, c) <= Len(states) \div stride
    /\ LET cycle == Cycle(states, c, stride)
       IN  /\ HasDefault(states, c) => cycle[1] = {}
           /\ IsInjective(cycle)
           /\ \A i \in DOMAIN states : c \cap states[i] = cycle[(((i - 1) \div stride) % Len(cycle)) + 1]

AxisOf(states, c, stride) ==
    LET cycle == Cycle(states, c, stride)
        taken == IF HasDefault(states, c) THEN Tail(cycle) ELSE cycle
    IN  [default |-> HasDefault(states, c), local |-> pass.scoped[Min(c)],
         keywords |-> [i \in DOMAIN taken |-> CHOOSE k \in taken[i] : TRUE]]

(* Components are placed from the fastest to the slowest, of several that  *)
(* fit the one with the smallest keyword; a component without a choice     *)
(* comes last.                                                             *)
RECURSIVE PlaceAxes(_, _, _, _)
PlaceAxes(states, left, stride, axes) ==
    LET fits == {c \in left : RunsAtStride(states, c, stride)}
        c == CHOOSE c \in fits : \A d \in fits : Min(c) <= Min(d)
        fixed == {d \in left : ComponentRadix(states, d) = 1}
    IN  IF fits # {}
        THEN PlaceAxes(states, left \ {c}, stride * ComponentRadix(states, c),
                       Append(axes, AxisOf(states, c, stride)))
        ELSE IF left = fixed /\ stride = Len(states)
        THEN { axes \o [i \in 1..Cardinality(fixed) |->
                          LET k == SetToSortSeq(UNION fixed, LAMBDA x, y : x < y)[i]
                          IN  [default |-> FALSE, local |-> pass.scoped[k], keywords |-> <<k>>]] }
        ELSE {}

(* The axes whose product is the sequence of states: one answer or none.   *)
FactorOrderedStates(states) ==
    LET components == Components(states)
        factorable == /\ \A c \in components : \A k, l \in c :
                             k # l => NeverTogether(states, k, l) /\ pass.scoped[k] = pass.scoped[l]
                      /\ FoldSet(LAMBDA c, n : ComponentRadix(states, c) * n, 1, components) = Len(states)
    IN  IF factorable THEN PlaceAxes(states, components, 1, <<>>) ELSE {}

(* One axis per keyword, on or off.                                        *)
BooleanAxes(states) ==
    LET order == SetToSortSeq(Used(states), LAMBDA x, y : x < y)
    IN  [i \in DOMAIN order |-> [default |-> TRUE, local |-> pass.scoped[order[i]], keywords |-> <<order[i]>>]]

Symbolic(stage) == [stage EXCEPT !.axes = BooleanAxes(stage.states), !.symbolic = TRUE, !.generated = <<>>]

PlanStageAxes(stage) ==
    LET states == IF plan.family = "none" THEN stage.states ELSE External(plan.family, stage.states)
        factored == IF plan.ambiguous THEN {} ELSE FactorOrderedStates(states)
    IN  IF factored # {}
        THEN [stage EXCEPT !.axes = CHOOSE axes \in factored : TRUE,
                           !.generated = IF plan.family = "none" THEN states ELSE <<>>]
        ELSE IF plan.family = "none" THEN Symbolic(stage)
        ELSE [stage EXCEPT !.axes = BooleanAxes(states)]

PlanAxes ==
    /\ plan.step = "axes"
    /\ LET s == plan.at
           planned == IF plan.stages[s].active THEN [plan EXCEPT !.stages[s] = PlanStageAxes(@)] ELSE plan
       IN  plan' = Onward(planned, IF plan.family = "none" THEN "prove" ELSE "exclusions")
    /\ UNCHANGED pass

-----------------------------------------------------------------------------
(* Filters of the built-in directive.                                      *)

(* The keyword of the stage with a built-in name; two would be ambiguous.  *)
Observed(stage, name) == {k \in Used(stage.states) : pass.names[k] = name}
RowKeywords(stage, row) == UNION {Observed(stage, name) : name \in row}
RowIsObserved(stage, row) ==
    \A name \in row : Cardinality(Observed(stage, name)) = 1 /\ \A k \in Observed(stage, name) : ~pass.scoped[k]

(* The states of a stage when the built-in directive stands after the      *)
(* first axes: they change faster than its rows, the other axes slower.    *)
GeneratedStates(s, stage, exclusions, position) ==
    LET rows == Rows(plan.family, s, exclusions)
    IN  Combined([a \in 1..position |-> Options(stage.axes[a])]
                 \o << [r \in DOMAIN rows |-> RowKeywords(stage, rows[r])] >>
                 \o [a \in 1..(Len(stage.axes) - position) |-> Options(stage.axes[position + a])])

Positions(s, stage, exclusions) ==
    LET rows == Rows(plan.family, s, exclusions)
    IN  IF /\ Range(BuiltinMasks(plan.family, stage.states)) \subseteq Range(rows)
           /\ Product(stage.axes) * Len(rows) = Len(stage.states)
           /\ \A row \in Range(rows) : RowIsObserved(stage, row)
        THEN {p \in 0..Len(stage.axes) : GeneratedStates(s, stage, exclusions, p) = stage.states}
        ELSE {}

(* The fewest filters under which every stage is generated exactly.  With  *)
(* none the built-in directive is given up.                                *)
ChooseExclusions ==
    /\ plan.step = "exclusions"
    /\ LET proven == {e \in Exclusions : \A s \in Active(plan) : Positions(s, plan.stages[s], e) # {}}
           e == CHOOSE e \in proven : \A f \in proven :
                   BitCount(e) < BitCount(f) \/ (BitCount(e) = BitCount(f) /\ e <= f)
           exact(s) == LET stage == plan.stages[s]
                           p == Min(Positions(s, stage, e))
                       IN  [stage EXCEPT !.position = p, !.generated = GeneratedStates(s, stage, e, p)]
       IN  plan' = IF proven # {}
                   THEN [plan EXCEPT !.step = "prove", !.exclusions = e,
                             !.stages = [s \in StageIds |-> IF s \in Active(plan) THEN exact(s) ELSE NoStage]]
                   ELSE [plan EXCEPT !.step = "prove", !.family = "none",
                             !.stages = [s \in StageIds |->
                                           IF s \in Active(plan) THEN Symbolic(plan.stages[s]) ELSE NoStage]]
    /\ UNCHANGED pass

(* A symbolic stage has an axis for every keyword it uses and no other; an *)
(* explicit one generates its own sequence of states.                      *)
AliasesProven(stage) ==
    IF stage.symbolic
    THEN /\ stage.axes # <<>>
         /\ \A axis \in Range(stage.axes) : axis.default /\ Len(axis.keywords) = 1
         /\ IsInjective([a \in DOMAIN stage.axes |-> stage.axes[a].keywords[1]])
         /\ {axis.keywords[1] : axis \in Range(stage.axes)} = Used(stage.states)
         /\ IsInjective(stage.states)
    ELSE stage.generated = stage.states

ProveStage ==
    /\ plan.step = "prove"
    /\ plan' = IF plan.stages[plan.at].active => AliasesProven(plan.stages[plan.at])
               THEN Onward(plan, "pragmas") ELSE Rejected(plan)
    /\ UNCHANGED pass

-----------------------------------------------------------------------------
(* shaderlab_variant_plan_build starts with the shader's table and mask.   *)
BeginPlan ==
    /\ plan.step = "begin"
    /\ plan' = IF "" \notin Range(pass.names) /\ pass.mask \subseteq Keywords
               THEN [plan EXCEPT !.step = "collect", !.at = 1] ELSE Rejected(plan)
    /\ UNCHANGED pass

PlanStep == BeginPlan \/ CollectStage \/ ChooseFamily \/ PlanAxes \/ ChooseExclusions \/ ProveStage
=============================================================================
