---------------------------- MODULE VariantSource ----------------------------
(***************************************************************************)
(* The source that is made from a plan, what Unity makes of that source,   *)
(* and the certifier that compares the two.  The source of a pass is its   *)
(* directives, in order, and for every stage the bodies with the           *)
(* preprocessor conditions that guard them.                                *)
(***************************************************************************)
EXTENDS VariantPlan

VARIABLES
    source,     \* the emitted directives, bodies and selectors
    verdict     \* the stages attested, and the contract the last one was compared with

svars == <<pass, plan, source, verdict>>

NoSource == [directives |-> <<>>, bodies |-> [s \in StageIds |-> <<>>]]
NoVerdict == [attested |-> {}, contract |-> <<>>, honest |-> TRUE]

-----------------------------------------------------------------------------
(* Directives.                                                             *)

AxisNames(axis) == [i \in DOMAIN axis.keywords |-> pass.names[axis.keywords[i]]]
Overlap(a, b) == Range(AxisNames(a)) \cap Range(AxisNames(b)) # {}
SameDirective(a, b) == a.default = b.default /\ a.local = b.local /\ AxisNames(a) = AxisNames(b)
AxesOf(s) == plan.stages[s].axes
BeforeBuiltin(s, a) == a <= plan.stages[s].position

(* Fault: every stage is coherent by itself.                               *)
FaultyCoherent ==
    \A s \in Active(plan) :
        /\ \A a \in DOMAIN AxesOf(s) : IsInjective(AxisNames(AxesOf(s)[a]))
        /\ \A a, b \in DOMAIN AxesOf(s) : a # b => ~Overlap(AxesOf(s)[a], AxesOf(s)[b])

(* Every axis names its keywords once and shares none with another of its  *)
(* stage; an axis that meets one of another stage is the same directive,   *)
(* on the same side of the built-in one, and all stages have it.           *)
Coherent ==
    \A s \in Active(plan) :
        /\ \A a \in DOMAIN AxesOf(s) : IsInjective(AxisNames(AxesOf(s)[a]))
        /\ \A a, b \in DOMAIN AxesOf(s) : a # b => ~Overlap(AxesOf(s)[a], AxesOf(s)[b])
        /\ \A a \in DOMAIN AxesOf(s) :
              LET axis == AxesOf(s)[a]
                  met(o) == {b \in DOMAIN AxesOf(o) : Overlap(axis, AxesOf(o)[b])}
                  sharing == {o \in Active(plan) : met(o) # {}}
              IN  /\ \A o \in sharing : \A b \in met(o) :
                        /\ SameDirective(axis, AxesOf(o)[b])
                        /\ plan.family # "none" => (BeforeBuiltin(s, a) <=> BeforeBuiltin(o, b))
                  /\ Cardinality(sharing) > 1 => sharing = Active(plan)

Common(axis) == \A s \in Active(plan) : \E b \in DOMAIN AxesOf(s) : SameDirective(axis, AxesOf(s)[b])
FirstStage == Min(Active(plan))
NoSuffix == 0

Directive(axis, suffix) ==
    [suffix |-> suffix, builtin |-> FALSE, local |-> axis.local, default |-> axis.default,
     names |-> AxisNames(axis)]
BuiltinDirective ==
    [suffix |-> NoSuffix, builtin |-> TRUE, local |-> FALSE, default |-> FALSE, names |-> <<>>]

(* The axes of a stage on one side of the built-in directive.              *)
Side(s, before) == IF before THEN SubSeq(AxesOf(s), 1, plan.stages[s].position)
                     ELSE SubSeq(AxesOf(s), plan.stages[s].position + 1, Len(AxesOf(s)))
Shared(s, before) == SelectSeq(Side(s, before), LAMBDA axis : Common(axis))
OwnAxes(s, before) == SelectSeq(Side(s, before), LAMBDA axis : ~Common(axis))

(* Common axes once, in the order of the first stage, then the axes of     *)
(* every stage with its suffix.                                            *)
Synchronized(before) ==
    LET own(s) == [a \in DOMAIN OwnAxes(s, before) |-> Directive(OwnAxes(s, before)[a], s)]
        shared == Shared(FirstStage, before)
    IN  [a \in DOMAIN shared |-> Directive(shared[a], NoSuffix)]
        \o FlattenSeq([i \in StageIds |-> IF i \in Active(plan) THEN own(i) ELSE <<>>])

EmitPragmas ==
    /\ plan.step = "pragmas"
    /\ IF Coherent
       THEN /\ source' = [source EXCEPT !.directives =
                  IF plan.family = "none" THEN Synchronized(FALSE)
                  ELSE Synchronized(TRUE) \o <<BuiltinDirective>> \o Synchronized(FALSE)]
            /\ plan' = [plan EXCEPT !.step = "bodies", !.at = 1]
       ELSE plan' = Rejected(plan) /\ UNCHANGED source
    /\ UNCHANGED <<pass, verdict>>

-----------------------------------------------------------------------------
(* Bodies.                                                                 *)

SubprogramFor(stage, i, tier) == OfTier(stage.variants, tier)[i].sub

(* A request of the symbolic domain is a number, one bit for every axis.   *)
RequestKeywords(stage, request) ==
    {stage.axes[a].keywords[1] : a \in {a \in DOMAIN stage.axes : (request \div 2^(a - 1)) % 2 = 1}}
(* What a device supports is not known here: all states are candidates.    *)
SelectionTable(stage) ==
    [request \in 0..(2^Len(stage.axes) - 1) |->
        SelectBest(RequestKeywords(stage, request), stage.states, DOMAIN stage.states)]

(* The selector of a symbolic stage: a tree of #if over the axes from the  *)
(* last to the first, cut where only one body is left.                     *)
RECURSIVE DecisionNode(_, _, _, _, _)
DecisionNode(stage, table, remaining, begin, count) ==
    IF \A request \in begin..(begin + count - 1) : table[request] = table[begin]
    THEN [leaf |-> TRUE, winner |-> table[begin]]
    ELSE [leaf |-> FALSE, name |-> pass.names[stage.axes[remaining].keywords[1]],
          on |-> DecisionNode(stage, table, remaining - 1, begin + count \div 2, count \div 2),
          off |-> DecisionNode(stage, table, remaining - 1, begin, count \div 2)]
DecisionTree(stage) ==
    DecisionNode(stage, SelectionTable(stage), Len(stage.axes), 0, 2^Len(stage.axes))

(* Guarded bodies, tier by tier.  Without alternatives nothing is guarded. *)
BodiesOf(stage) ==
    LET tiers == SetToSortSeq(TiersOf(stage.variants), LAMBDA x, y : x < y)
        used == Used(stage.generated)
        body(i, tier) ==
            [sub |-> SubprogramFor(stage, i, tier), state |-> i,
             tiers |-> IF tier = 3 THEN {0, 1, 2, 3} ELSE {tier},
             on |-> IF stage.symbolic THEN {} ELSE NamesOf(stage.generated[i]),
             off |-> IF stage.symbolic THEN {} ELSE NamesOf(used \ stage.generated[i])]
        all == FlattenSeq([t \in DOMAIN tiers |-> [i \in DOMAIN stage.states |-> body(i, tiers[t])]])
    IN  [symbolic |-> stage.symbolic, guarded |-> Len(stage.states) > 1 \/ TiersOf(stage.variants) # {3},
         tree |-> IF stage.symbolic THEN DecisionTree(stage) ELSE [leaf |-> TRUE, winner |-> 1],
         list |-> all]

(* The vertex and the fragment stage must be there.                        *)
EmitStage ==
    /\ plan.step = "bodies"
    /\ LET s == plan.at
           stage == plan.stages[s]
           emitted == Onward(plan, "emitted")
       IN  IF stage.active
           THEN source' = [source EXCEPT !.bodies[s] = BodiesOf(stage)] /\ plan' = emitted
           ELSE /\ plan' = IF Stages[s] \in {"vertex", "fragment"} THEN Rejected(plan) ELSE emitted
                /\ UNCHANGED source
    /\ UNCHANGED <<pass, verdict>>

(* An allocation fails or a body cannot be translated.                     *)
GiveUp ==
    /\ plan.step \notin {"idle", "emitted", "failed", "refused"}
    /\ plan' = Rejected(plan)
    /\ UNCHANGED <<pass, source, verdict>>

-----------------------------------------------------------------------------
(* Unity: the directives that reach a stage, the contract it reports for   *)
(* them, the variants it compiles, and the body the preprocessor leaves.   *)
(* A contract lists a program when it has its families and its bit.        *)

Reaching(s) == SelectSeq(source.directives, LAMBDA d : d.suffix \in {NoSuffix, s})
Alternatives(d, s) ==
    IF d.builtin THEN Rows(plan.family, s, plan.exclusions)
    ELSE (IF d.default THEN <<{}>> ELSE <<>>) \o [i \in DOMAIN d.names |-> {d.names[i]}]
CompiledVariants(s) == Combined([d \in DOMAIN Reaching(s) |-> Alternatives(Reaching(s)[d], s)])

ReportedContract(s) ==
    LET user(local) == SelectSeq(Reaching(s), LAMBDA d : ~d.builtin /\ d.local = local)
        rows(ds) == [i \in DOMAIN ds |-> [default |-> ds[i].default, names |-> ds[i].names]]
        builtin == \E d \in Range(Reaching(s)) : d.builtin
    IN  [listed |-> TRUE, global |-> rows(user(FALSE)), local |-> rows(user(TRUE)),
         builtin |-> IF builtin THEN Rows(plan.family, s, plan.exclusions) ELSE <<>>]

RECURSIVE Winner(_, _)
Winner(tree, on) ==
    IF tree.leaf THEN tree.winner
    ELSE IF tree.name \in on THEN Winner(tree.on, on) ELSE Winner(tree.off, on)

(* A keyword that is off may be a macro all the same, with the value zero. *)
(* The selector of a symbolic stage asks for the value (#if K), the guards *)
(* of an explicit one only for defined(K).                                 *)
Guards(bodies, body, on, zero, tier) ==
    /\ tier \in body.tiers
    /\ IF bodies.symbolic THEN Winner(bodies.tree, on) = body.state
       ELSE body.on \subseteq on \cup zero /\ body.off \cap (on \cup zero) = {}
BodyFor(s, on, zero, tier) ==
    LET bodies == source.bodies[s]
        open == {i \in DOMAIN bodies.list :
                   ~bodies.guarded \/ Guards(bodies, bodies.list[i], on, zero, tier)}
    IN  IF open = {} THEN 0 ELSE bodies.list[Min(open)].sub

-----------------------------------------------------------------------------
(* The certifier.                                                          *)

(* The axes of a stage in the order of the source.                         *)
VisitEmittedStageAxes(s) ==
    LET half(before) == LET shared == Shared(FirstStage, before)
                        IN  [a \in DOMAIN shared |->
                                CHOOSE own \in Range(Side(s, before)) : SameDirective(shared[a], own)]
                            \o OwnAxes(s, before)
    IN  half(TRUE) \o half(FALSE)

(* The keywords of a stage by the family they are reported in.             *)
FamilyMembers(s) ==
    [global |-> UNION {Range(a.keywords) : a \in {a \in Range(AxesOf(s)) : ~a.local}},
     local |-> UNION {Range(a.keywords) : a \in {a \in Range(AxesOf(s)) : a.local}},
     builtin |-> IF plan.family = "none" THEN {}
                 ELSE RowKeywords(plan.stages[s], UNION Range(Rows(plan.family, s, plan.exclusions)))]
Classifies(s) ==
    LET m == FamilyMembers(s)
    IN  /\ \A a \in Range(AxesOf(s)) : \A k \in Range(a.keywords) : pass.scoped[k] = a.local
        /\ m.builtin \cap (m.global \cup m.local) = {}
        /\ plan.family # "none" =>
              RowIsObserved(plan.stages[s], UNION Range(Rows(plan.family, s, plan.exclusions)))

(* A reported row is read back as keywords of its family; a name that is   *)
(* not one of them, or two of them, makes the row unreadable.              *)
Named(members, name) == {k \in members : pass.names[k] = name}
Readable(members, names) ==
    /\ \A name \in Range(names) : Cardinality(Named(members, name)) = 1
    /\ IsInjective(names)
UserRow(members, row) ==
    [default |-> row.default \/ row.names = <<>>,
     keywords |-> [i \in DOMAIN row.names |-> CHOOSE k \in Named(members, row.names[i]) : TRUE]]
(* Fault: the directives may come in any order.                            *)
FaultyUserFamilyAgrees(expected, members, reported) ==
    /\ \A i \in DOMAIN reported : Readable(members, reported[i].names)
    /\ {UserRow(members, row) : row \in Range(reported)} =
          {[default |-> a.default, keywords |-> a.keywords] : a \in Range(expected)}

UserFamilyAgrees(expected, members, reported) ==
    /\ \A i \in DOMAIN reported : Readable(members, reported[i].names)
    /\ [i \in DOMAIN reported |-> UserRow(members, reported[i])] =
          [a \in DOMAIN expected |-> [default |-> expected[a].default, keywords |-> expected[a].keywords]]
BuiltinFamilyAgrees(s, members, reported) ==
    /\ \A row \in Range(reported) : \A name \in row : Cardinality(Named(members, name)) = 1
    /\ IsInjective(reported)
    /\ reported = IF plan.family = "none" THEN <<>> ELSE Rows(plan.family, s, plan.exclusions)

(* Every generated state takes one choice of every axis, and all the rest  *)
(* of it is built in.                                                      *)
GeneratedProjects(s) ==
    \A state \in Range(plan.stages[s].generated) :
        /\ \A axis \in Range(AxesOf(s)) :
              LET chosen == Cardinality(Range(axis.keywords) \cap state)
              IN  chosen <= 1 /\ (~axis.default => chosen = 1)
        /\ state \subseteq UNION {Range(axis.keywords) : axis \in Range(AxesOf(s))}
                           \cup FamilyMembers(s).builtin

(* The plan is looked at again: what was generated, its size, its tiers.   *)
PlanStands(s) ==
    LET stage == plan.stages[s]
        rows == IF plan.family = "none" THEN 1 ELSE Len(Rows(plan.family, s, plan.exclusions))
    IN  /\ AliasesProven(stage)
        /\ stage.symbolic => plan.family = "none"
        /\ ~stage.symbolic => GeneratedProjects(s) /\ IsInjective(stage.generated)
        /\ Product(stage.axes) * rows = IF stage.symbolic THEN 2^Len(stage.axes) ELSE Len(stage.generated)
        /\ \A t \in TiersOf(stage.variants) : StatesOf(OfTier(stage.variants, t)) = stage.states

Attests(s, contract) ==
    LET axes == VisitEmittedStageAxes(s)
        m == FamilyMembers(s)
    IN  /\ contract.listed
        /\ s \in pass.programs
        /\ Classifies(s)
        /\ PlanStands(s)
        /\ UserFamilyAgrees(SelectSeq(axes, LAMBDA a : ~a.local), m.global, contract.global)
        /\ UserFamilyAgrees(SelectSeq(axes, LAMBDA a : a.local), m.local, contract.local)
        /\ BuiltinFamilyAgrees(s, m.builtin, contract.builtin)

(* What a compiler with other rules might report instead.                  *)
OtherContracts(c) ==
    LET swapped(rows) == IF Len(rows) > 1 THEN {Reverse(rows)} ELSE {}
        cut(rows) == IF rows # <<>> THEN {Tail(rows), Append(rows, Head(rows))} ELSE {}
        toggled(rows) == {[rows EXCEPT ![i].default = ~@] : i \in DOMAIN rows}
        turned(rows) == {[rows EXCEPT ![i].names = Reverse(@)] : i \in {i \in DOMAIN rows : Len(rows[i].names) > 1}}
        user(rows) == swapped(rows) \cup cut(rows) \cup toggled(rows) \cup turned(rows)
    IN  {[c EXCEPT !.global = rows] : rows \in user(c.global)}
        \cup {[c EXCEPT !.local = rows] : rows \in user(c.local)}
        \cup {[c EXCEPT !.builtin = rows] : rows \in swapped(c.builtin) \cup cut(c.builtin)}
        \cup {[c EXCEPT !.global = c.local, !.local = c.global], [c EXCEPT !.listed = FALSE]}

AttestStage ==
    /\ plan.step = "emitted"
    /\ LET s == plan.at
           honest == ReportedContract(s)
       IN  IF s \in Active(plan)
           THEN \E contract \in {honest} \cup OtherContracts(honest) :
                   /\ verdict' = [attested |-> IF Attests(s, contract) THEN verdict.attested \cup {s}
                                               ELSE verdict.attested,
                                  contract |-> contract, honest |-> contract = honest]
                   /\ plan' = IF Attests(s, contract) THEN Onward(plan, "done") ELSE [plan EXCEPT !.step = "refused"]
           ELSE plan' = Onward(plan, "done") /\ UNCHANGED verdict
    /\ UNCHANGED <<pass, source>>

-----------------------------------------------------------------------------
VariantIdle == pass = <<>> /\ plan = NoPlan /\ source = NoSource /\ verdict = NoVerdict
VariantInit ==
    /\ pass \in Passes
    /\ plan = [NoPlan EXCEPT !.step = "begin"]
    /\ source = NoSource /\ verdict = NoVerdict
VariantStep ==
    \/ PlanStep /\ UNCHANGED <<source, verdict>>
    \/ EmitPragmas
    \/ EmitStage
    \/ GiveUp
    \/ AttestStage
VariantsRest == plan.step \in {"idle", "failed", "refused", "done"}

-----------------------------------------------------------------------------
(* Whatever keywords are on, and on every hardware tier, the program that  *)
(* Unity runs from the emitted source is the one the player ran: the best  *)
(* of the variants compiled from the directives defines the macros that    *)
(* leave the body of the best of the serialized variants.  A symbolic      *)
(* stage needs nothing of a keyword that is off; the guards of an explicit *)
(* one are right when such a keyword is not defined.  All variants are     *)
(* supported by the device.                                                *)
RequestsRunTheirBody ==
    (plan.step = "emitted" /\ plan.at = 1) =>
        \A s \in Active(plan) : \A tier \in TiersOf(plan.stages[s].variants) :
            LET compiled == CompiledVariants(s)
                ran == OfTier(plan.stages[s].variants, tier)
                serialized == [i \in DOMAIN ran |-> NamesOf(ran[i].state)]
                off(on) == UNION Range(compiled) \ on
            IN  \A request \in SUBSET Range(pass.names) :
                    LET on == compiled[SelectBest(request, compiled, DOMAIN compiled)]
                        wanted == ran[SelectBest(request, serialized, DOMAIN serialized)].sub
                    IN  /\ BodyFor(s, on, {}, tier) = wanted
                        /\ plan.stages[s].symbolic => BodyFor(s, on, off(on), tier) = wanted

(* The stages of a pass are compiled with their own directives and linked  *)
(* with each other: for every request, the variants Unity takes for two of *)
(* them agree on each keyword that both can be compiled for.  Keywords of  *)
(* the built-in table are left out: its rows for the vertex stage are not  *)
(* those of the other stages, and the tables of forward base disagree by   *)
(* themselves.                                                             *)
LinkedStagesAgree ==
    (plan.step = "emitted" /\ plan.at = 1) =>
        LET compiled == [s \in Active(plan) |-> CompiledVariants(s)]
            own == Range(pass.names) \ (IF plan.family = "none" THEN {} ELSE BuiltinNames(plan.family))
            known(s) == own \cap UNION Range(compiled[s])
        IN  \A request \in SUBSET Range(pass.names) : \A s, o \in Active(plan) :
                LET taken(x) == compiled[x][SelectBest(request, compiled[x], DOMAIN compiled[x])]
                IN  taken(s) \cap known(s) \cap known(o) = taken(o) \cap known(s) \cap known(o)

(* The certifier accepts what Unity reports for the emitted source, and    *)
(* nothing else: the order in which it expects the directives is the order *)
(* in which they were written.  A stage that the mask of the pass does not *)
(* have is refused whatever is reported.                                   *)
AttestedContractIsSource ==
    [][AttestStage /\ plan.at \in Active(plan) =>
          (plan'.step # "refused" <=> verdict'.honest /\ plan.at \in pass.programs)]_svars
=============================================================================
