---------------------------- MODULE LiftAnalysis ----------------------------
(***************************************************************************)
(* The analyses RunAnalysisPasses builds on a decoded program, and then    *)
(* the program itself running: the graph, its dominance and the SSA form   *)
(* are judged by what really happens on every path.                        *)
(*                                                                         *)
(* The run keeps, for every lane, its value and its writer, and beside it  *)
(* the value of every SSA variable.  A definition makes a value of its own *)
(* and a copy passes one on.                                               *)
(***************************************************************************)
EXTENDS SsaGraph

CONSTANT Programs       \* the decoded programs

VARIABLES
    prog,    \* the program
    phase,   \* the pass that comes next, "run", "over" or "rejected"
    flow,    \* instruction_flow
    graph,   \* the control flow graph
    dom,     \* immediate dominators and frontiers
    ssa,     \* the SSA graph
    prov,    \* component_provenance
    run      \* the running program

avars == <<prog, phase, flow, graph, dom, ssa, prov, run>>

None == <<>>
Undefined == <<0, 0>>

NothingBuilt == flow = None /\ graph = None /\ dom = None /\ ssa = None /\ prov = None /\ run = None
AnalysisInit == prog \in Programs /\ phase = "match" /\ NothingBuilt
AnalysisIdle == prog = <<>> /\ phase = "idle" /\ NothingBuilt

-----------------------------------------------------------------------------
(* build_control_flow_graph rejects what does not match.                   *)
BuildControlFlowGraph ==
    /\ phase = "match"
    /\ LET m == MatchFlow(prog)
       IN IF m.ok THEN flow' = m /\ graph' = BuildGraph(prog, m) /\ phase' = "dominance"
          ELSE phase' = "rejected" /\ UNCHANGED <<flow, graph>>
    /\ UNCHANGED <<prog, dom, ssa, prov, run>>

ComputeDominance ==
    /\ phase = "dominance"
    /\ dom' = Dominance(graph) /\ phase' = "ssa"
    /\ UNCHANGED <<prog, flow, graph, ssa, prov, run>>

BuildSsaGraph ==
    /\ phase = "ssa"
    /\ ssa' = BuildSsa(prog, graph, dom) /\ prov' = Provenance(prog) /\ phase' = "start"
    /\ UNCHANGED <<prog, flow, graph, dom, run>>

(* The run begins; watch is an instruction whose last visit is remembered. *)
Start ==
    /\ phase = "start"
    /\ \E w \in DOMAIN prog :
         run' = [pc |-> 1, watch |-> w, seen |-> None, tick |-> 0,
                 val |-> [l \in LaneSet |-> Undefined], by |-> [l \in LaneSet |-> 0],
                 var |-> [v \in 1..(ssa.next - 1) |-> Undefined]]
    /\ phase' = "run"
    /\ UNCHANGED <<prog, flow, graph, dom, ssa, prov>>

-----------------------------------------------------------------------------
(* What the program means, read off the text and not off the matcher.      *)
Depth(i) == Cardinality({j \in 1..(i - 1) : prog[j].op \in Opens})
            - Cardinality({j \in 1..(i - 1) : prog[j].op \in DOMAIN Opener})
EndOf(s) == Min({j \in (s + 1)..Len(prog) : prog[j].op \in DOMAIN Opener /\ Depth(j) = Depth(s) + 1})
Inside(s) == {j \in (s + 1)..(EndOf(s) - 1) : Depth(j) = Depth(s) + 1}
Around(i, kinds) == Max({s \in 1..(i - 1) : prog[s].op \in kinds /\ EndOf(s) > i})
(* The instructions that may come after i; one past the last is the end.   *)
Follows(i) ==
    LET op == prog[i].op
        arm(s) == {j \in Inside(s) : prog[j].op = "else"}
        labels == {j \in Inside(i) : prog[j].op \in Labels}
        start == Max({s \in 1..(i - 1) : prog[s].op \in Opens /\ EndOf(s) >= i})
    IN CASE op = "ret" -> {Len(prog) + 1}
         [] op = "discard" -> {i + 1, Len(prog) + 1}
         [] op = "if" -> {i + 1, (IF arm(i) = {} THEN EndOf(i) ELSE Min(arm(i))) + 1}
         [] op = "else" -> {EndOf(start) + 1}
         [] op = "endloop" -> {start + 1}
         [] op = "switch" ->
              labels \cup (IF \E j \in labels : prog[j].op = "default" THEN {} ELSE {EndOf(i) + 1})
         [] op \in {"break", "breakc"} ->
              {EndOf(Around(i, {"loop", "switch"})) + 1} \cup (IF op = "breakc" THEN {i + 1} ELSE {})
         [] op \in Continues ->
              {EndOf(Around(i, {"loop"}))} \cup (IF op = "continuec" THEN {i + 1} ELSE {})
         [] OTHER -> {i + 1}

(* The values instruction i computes, in the order of its destinations: a  *)
(* copy passes its source on, the pair operation its source and a new one. *)
Results(i, val) ==
    LET new == <<i, run.tick + 1>>
    IN CASE prog[i].op = "mov" -> <<val[prog[i].src[1]]>>
         [] prog[i].op = "pair" -> <<val[prog[i].src[1]], new>>
         [] OTHER -> [k \in DOMAIN prog[i].dst |-> new]
Place(lane, i) == CHOOSE k \in DOMAIN prog[i].dst : prog[i].dst[k] = lane

(* Instruction i, the SSA variables beside the lanes, and on an edge the   *)
(* phis of the next block, all at once.                                    *)
Execute ==
    /\ phase = "run"
    /\ LET i == run.pc
           res == Results(i, run.val)
           var == [v \in DOMAIN run.var |->
                     IF v \in Range(ssa.wrote[i])
                     THEN LET k == CHOOSE d \in DOMAIN ssa.wrote[i] : ssa.wrote[i][d] = v
                          IN IF prog[i].op \in {"mov", "pair"} /\ k = 1
                             THEN IF ssa.read[i][1] = 0 THEN Undefined ELSE run.var[ssa.read[i][1]]
                             ELSE res[k]
                     ELSE run.var[v]]
       IN \E j \in Follows(i) :
            LET edge == j <= Len(prog) /\ i = graph.last[graph.block[i]]
                p == graph.block[i]
                b == graph.block[j]
                merged(v) == LET k == CHOOSE d \in DOMAIN ssa.phi[b] : ssa.phi[b][d] = v
                                 u == ssa.from[b][p][k]
                             IN IF u = 0 THEN Undefined ELSE var[u]
            IN /\ phase' = IF j > Len(prog) THEN "over" ELSE "run"
               /\ run' = [run EXCEPT
                    !.pc = j,
                    !.seen = IF i = run.watch THEN run.val ELSE @,
                    !.tick = IF prog[i].dst = <<>> \/ prog[i].op = "mov" THEN @ ELSE 1 - @,
                    !.val = [l \in LaneSet |-> IF l \in Writes(prog[i]) THEN res[Place(l, i)] ELSE @[l]],
                    !.by = [l \in LaneSet |-> IF l \in Writes(prog[i]) THEN i ELSE @[l]],
                    !.var = IF edge THEN [v \in DOMAIN var |-> IF v \in Range(ssa.phi[b]) THEN merged(v) ELSE var[v]]
                            ELSE var]
    /\ UNCHANGED <<prog, flow, graph, dom, ssa, prov>>

AnalysisStep == BuildControlFlowGraph \/ ComputeDominance \/ BuildSsaGraph \/ Start \/ Execute

-----------------------------------------------------------------------------
(* The brackets of the text match, each label and jump has its scope and   *)
(* nothing nests deeper than the limit.                                    *)
WellFormed ==
    LET n == Len(prog)
        opens(s, e) == s < e /\ prog[e].op \in DOMAIN Opener /\ prog[s].op = Opener[prog[e].op]
        within(s, i) == prog[s].op \in Opens /\ s < i /\ EndOf(s) > i
        closers(s) == {j \in (s + 1)..n : prog[j].op \in DOMAIN Opener /\ Depth(j) = Depth(s) + 1}
        owner(i) == {s \in 1..(i - 1) : within(s, i) /\ Depth(i) = Depth(s) + 1}
    IN /\ \A i \in 1..n : Depth(i) >= 0 /\ Depth(i) <= MaxFlowDepth
       /\ Cardinality({i \in 1..n : prog[i].op \in Opens}) = Cardinality({i \in 1..n : prog[i].op \in DOMAIN Opener})
       /\ \A s \in 1..n : prog[s].op \in Opens => closers(s) # {} /\ opens(s, EndOf(s))
       /\ \A e \in 1..n : prog[e].op \in DOMAIN Opener => Depth(e) > 0
       /\ \A i \in 1..n :
            /\ prog[i].op = "else" =>
                 \E s \in owner(i) : prog[s].op = "if" /\ {j \in Inside(s) : prog[j].op = "else"} = {i}
            /\ prog[i].op \in Labels =>
                 \E s \in owner(i) : prog[s].op = "switch"
                                     /\ Cardinality({j \in Inside(s) : prog[j].op = "default"}) <= 1
            /\ prog[i].op \in Jumps =>
                 \E s \in 1..(i - 1) : within(s, i) /\ prog[s].op \in {"loop"} \cup
                                          (IF prog[i].op \in Continues THEN {} ELSE {"switch"})

(* The blocks reachable from start without entering avoid.                 *)
RECURSIVE Reach(_, _)
Reach(from, avoid) ==
    LET more == from \cup (UNION {Range(graph.succ[b]) : b \in from} \ avoid)
    IN IF more = from THEN from ELSE Reach(more, avoid)
Reachable == Reach({1}, {})

(***************************************************************************)
(* build_control_flow_graph accepts exactly the well formed programs, and  *)
(* a block goes exactly where the program may go after its last            *)
(* instruction, the end included: "SWITCH inside LOOP must not turn its    *)
(* BREAK into a loop exit".                                                *)
(***************************************************************************)
GraphIsExact ==
    /\ phase \in {"dominance", "rejected"} => (phase = "dominance") = WellFormed
    /\ phase = "dominance" =>
         \A i \in DOMAIN prog :
            LET b == graph.block[i]
                next == Follows(i)
            IN IF i # graph.last[b] THEN next = {i + 1}
               ELSE /\ Range(graph.succ[b]) = {graph.block[j] : j \in next \ {Len(prog) + 1}}
                    /\ (b \in graph.exit) = (Len(prog) + 1 \in next)

(***************************************************************************)
(* Dominance is exactly that every path from the entry passes through, and *)
(* hlsl_cfg_must_reach exactly that no path ends or cycles without the     *)
(* target; an if region is entered only at its header and always joins.    *)
(***************************************************************************)
DominanceIsExact ==
    phase = "ssa" =>
        /\ \A d, b \in Reachable :
             Dominates(dom.idom, d, b) = (d = b \/ d = 1 \/ b \notin Reach({1}, {d}))
        /\ \A s, t \in Reachable :
             MustReach(graph, dom.idom, s, t) =
                (s = t \/ \A b \in Reach({s}, {t}) :
                    /\ b \notin graph.exit
                    /\ b \notin Reach(Range(graph.succ[b]) \ {t}, {t}))
        /\ \A i \in DOMAIN prog :
             LET region == IF prog[i].op = "if" THEN IfRegion(prog, flow, graph, dom.idom, i) ELSE <<>>
                 arms == Reach({graph.block[i]}, {region[2]})
             IN region # <<>> =>
                  /\ arms \subseteq region[1]..(region[2] - 1)
                  /\ \A b \in Reachable \ arms : Range(graph.succ[b]) \cap arms \subseteq {region[1]}

(***************************************************************************)
(* The flow analyses of hlsl_cfg.c as a whole: what the lifts are told of  *)
(* edges, dominance and regions is what the program does.                  *)
(***************************************************************************)
FlowIsExact == GraphIsExact /\ DominanceIsExact

(***************************************************************************)
(* What the analyses say of values is true on every path, through          *)
(* branches, loops and copies around them: the SSA variable an operand or  *)
(* a relative index was given has the value the lane has, the instruction  *)
(* that hlsl_operand_definition names is the one that wrote it, and a lane *)
(* that component_value_unchanged calls unchanged between two states of    *)
(* the text has at the second the value it had when the run was at the     *)
(* first.                                                                  *)
(***************************************************************************)
ValuesAreExact ==
    phase = "run" =>
        /\ \A k \in DOMAIN prog[run.pc].index :
              LET v == ssa.root[run.pc][k]
              IN run.val[prog[run.pc].index[k]] = IF v = 0 THEN Undefined ELSE run.var[v]
        /\ \A k \in DOMAIN prog[run.pc].src :
              LET lane == prog[run.pc].src[k]
                  v == ssa.read[run.pc][k]
                  d == OperandDefinition(ssa, run.pc, k)
              IN /\ run.val[lane] = IF v = 0 THEN Undefined ELSE run.var[v]
                 /\ d # 0 => run.by[lane] = d
        /\ run.seen # None =>
              \A lane \in LaneSet :
                  run.watch < run.pc /\ Unchanging(graph, prov, lane, run.watch, run.pc)
                      => run.seen[lane] = run.val[lane]
=============================================================================
