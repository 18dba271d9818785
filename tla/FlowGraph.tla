------------------------------ MODULE FlowGraph ------------------------------
(***************************************************************************)
(* The control flow graph of a structured program and its dominance:       *)
(* match_flow_structure, build_control_flow_graph_range,                   *)
(* compute_dominance and the questions the lifts ask of them.              *)
(*                                                                         *)
(* A program is a sequence of instructions with an opcode, the lanes they  *)
(* write, the lanes their operands read and the lanes that index operands, *)
(* in dst, src and index.  Instructions and blocks count from 1,   *)
(* and 0 stands for the -1 of the code.                                    *)
(***************************************************************************)
EXTENDS Integers, Sequences, FiniteSets, SequencesExt, FiniteSetsExt

CONSTANT MaxFlowDepth   \* MAX_FLOW_DEPTH

Opens == {"if", "loop", "switch"}
Opener == [endif |-> "if", endloop |-> "loop", endswitch |-> "switch"]
Labels == {"case", "default"}
Continues == {"continue", "continuec"}
Jumps == {"break", "breakc"} \cup Continues
(* is_boundary *)
Boundary == Opens \cup DOMAIN Opener \cup Labels \cup Jumps
            \cup {"else", "ret", "discard", "append", "restart_strip"}

Ascending(set, n) == SelectSeq([i \in 1..n |-> i], LAMBDA i : i \in set)

-----------------------------------------------------------------------------
(* The scope a jump leaves or repeats: a break ends a switch as well.      *)
JumpScope(prog, stack, op) ==
    LET fits == {k \in DOMAIN stack :
                    \/ prog[stack[k]].op = "loop"
                    \/ prog[stack[k]].op = "switch" /\ op \notin Continues}
    IN IF fits = {} THEN 0 ELSE stack[Max(fits)]

(* match_flow_structure, one instruction.                                  *)
MatchOne(prog, m, i) ==
    LET op == prog[i].op
        scope == IF m.stack = <<>> THEN 0 ELSE Last(m.stack)
        kind == IF scope = 0 THEN "nop" ELSE prog[scope].op
        n == [m EXCEPT !.parent[i] = IF scope # 0 /\ m.alternate[scope] # 0 THEN m.alternate[scope] ELSE scope]
        bad == [m EXCEPT !.ok = FALSE]
    IN CASE ~m.ok -> m
         [] op \in Opens ->
              IF Len(m.stack) = MaxFlowDepth THEN bad ELSE [n EXCEPT !.stack = Append(@, i)]
         [] op = "else" ->
              IF kind # "if" \/ m.alternate[scope] # 0 THEN bad
              ELSE [n EXCEPT !.alternate[scope] = i, !.parent[i] = m.parent[scope]]
         [] op \in DOMAIN Opener ->
              IF kind # Opener[op] THEN bad
              ELSE [n EXCEPT !.end = [j \in DOMAIN @ |-> IF j \in {scope, m.alternate[scope]} THEN i ELSE @[j]],
                             !.jump[i] = scope, !.parent[i] = m.parent[scope], !.stack = Front(@)]
         [] op \in Labels ->
              IF kind # "switch" \/ (op = "default" /\ \E j \in Range(m.cases[scope]) : prog[j].op = "default")
              THEN bad ELSE [n EXCEPT !.cases[scope] = Append(@, i)]
         [] op \in Jumps ->
              LET to == JumpScope(prog, m.stack, op) IN IF to = 0 THEN bad ELSE [n EXCEPT !.jump[i] = to]
         [] OTHER -> n

MatchFlow(prog) ==
    LET none == [i \in DOMAIN prog |-> 0]
        m == FoldLeft(LAMBDA s, i : MatchOne(prog, s, i),
                      [ok |-> TRUE, stack |-> <<>>, end |-> none, alternate |-> none, parent |-> none,
                       jump |-> none, cases |-> [i \in DOMAIN prog |-> <<>>]],
                      [i \in DOMAIN prog |-> i])
    IN [m EXCEPT !.ok = @ /\ m.stack = <<>>]

-----------------------------------------------------------------------------
(* Where control goes after the last instruction of a block.               *)
Targets(prog, flow, i) ==
    LET op == prog[i].op
    IN CASE op = "ret" -> <<>>
         [] op = "switch" ->
              flow.cases[i] \o (IF \E j \in Range(flow.cases[i]) : prog[j].op = "default" THEN <<>>
                                ELSE <<flow.end[i] + 1>>)
         [] op = "if" -> <<i + 1, (IF flow.alternate[i] # 0 THEN flow.alternate[i] ELSE flow.end[i]) + 1>>
         [] op = "else" -> <<flow.end[i] + 1>>
         [] op \in Jumps ->
              LET end == flow.end[flow.jump[i]]
              IN (IF op \in {"breakc", "continuec"} THEN <<i + 1>> ELSE <<>>)
                 \o <<IF op \in Continues THEN end ELSE end + 1>>
         [] op = "endloop" -> <<flow.jump[i] + 1>>
         [] OTHER -> <<i + 1>>

(* build_control_flow_graph_range over the whole program.                  *)
BuildGraph(prog, flow) ==
    LET n == Len(prog)
        leaders == {1} \cup {i \in 1..n : prog[i].op \in Boundary}
                       \cup {i \in 2..n : prog[i - 1].op \in Boundary}
        block == [i \in 1..n |-> Cardinality({l \in leaders : l <= i})]
        first == Ascending(leaders, n)
        count == Cardinality(leaders)
        last == [b \in 1..count |-> IF b = count THEN n ELSE first[b + 1] - 1]
        succ == [b \in 1..count |->
                    FoldLeft(LAMBDA s, i : IF i > n \/ block[i] \in Range(s) THEN s ELSE Append(s, block[i]),
                             <<>>, Targets(prog, flow, last[b]))]
    IN [count |-> count, block |-> block, first |-> first, last |-> last, succ |-> succ,
        pred |-> [b \in 1..count |-> {p \in 1..count : b \in Range(succ[p])}],
        exit |-> {b \in 1..count : prog[last[b]].op \in {"ret", "discard"}
                                   \/ n + 1 \in Range(Targets(prog, flow, last[b]))},
        ambiguous |-> {b \in 1..count : prog[last[b]].op \in {"switch", "endswitch"} \cup Labels}]

-----------------------------------------------------------------------------
(* build_postorder: the blocks reachable from the first, children first.   *)
RECURSIVE Postorder(_, _, _)
Postorder(g, b, out) ==
    LET down == FoldLeft(LAMBDA s, c : IF c \in s.seen THEN s
                                       ELSE Postorder(g, c, [s EXCEPT !.seen = @ \cup {c}]),
                         out, g.succ[b])
    IN [down EXCEPT !.order = Append(@, b)]

(* intersect, with the blocks numbered by their place in the postorder.    *)
RECURSIVE Intersect(_, _, _, _)
Intersect(a, b, number, idom) ==
    CASE a = b -> a
      [] a = 0 -> b
      [] b = 0 -> a
      [] number[a] < number[b] -> Intersect(idom[a], b, number, idom)
      [] OTHER -> Intersect(a, idom[b], number, idom)

(* One sweep over the blocks in reverse postorder, without the entry.      *)
Sweep(g, order, number, idom) ==
    FoldRight(LAMBDA b, d :
                 LET known == Ascending({p \in g.pred[b] : d[p] # 0}, g.count)
                 IN [d EXCEPT ![b] = FoldLeft(LAMBDA parent, p : IF parent = 0 THEN p
                                                                 ELSE Intersect(parent, p, number, d), 0, known)],
              SubSeq(order, 1, Len(order) - 1), idom)
RECURSIVE UntilStable(_, _, _, _)
UntilStable(g, order, number, idom) ==
    LET next == Sweep(g, order, number, idom)
    IN IF next = idom THEN idom ELSE UntilStable(g, order, number, next)

(* The blocks from runner up to, and without, stop in the dominator tree.  *)
RECURSIVE Climb(_, _, _)
Climb(runner, stop, idom) ==
    IF runner = stop THEN {} ELSE {runner} \cup Climb(idom[runner], stop, idom)

(* compute_dominance: unreachable blocks have no dominator.                *)
Dominance(g) ==
    LET order == Postorder(g, 1, [order |-> <<>>, seen |-> {1}]).order
        number == [b \in 1..g.count |-> IF b \in Range(order) THEN CHOOSE k \in DOMAIN order : order[k] = b ELSE 0]
        idom == UntilStable(g, order, number, [b \in 1..g.count |-> IF b = 1 THEN 1 ELSE 0])
        runs(b) == UNION {Climb(p, idom[b], idom) : p \in {q \in g.pred[b] : idom[q] # 0}}
        joins == {b \in 1..g.count : idom[b] # 0 /\ Cardinality(g.pred[b]) >= 2}
    IN [idom |-> idom, df |-> [r \in 1..g.count |-> {b \in joins : r \in runs(b)}]]

-----------------------------------------------------------------------------
(* hlsl_cfg_dominates *)
RECURSIVE Above(_, _, _)
Above(idom, d, b) == d = b \/ (b # 1 /\ Above(idom, d, idom[b]))
Dominates(idom, d, b) == idom[d] # 0 /\ idom[b] # 0 /\ Above(idom, d, b)

(* Fault: the blocks that may avoid the target are not kept out, so a      *)
(* cycle counts as its own proof.                                          *)
FaultyProven(g, idom, done) ==
    {b \in 1..g.count : idom[b] # 0 /\ b \notin g.exit /\ g.succ[b] # <<>>
                        /\ \E s \in Range(g.succ[b]) : s \in done}
(* hlsl_cfg_must_reach: the least set that has the target and every block  *)
(* that cannot end and whose successors all have the proof.                *)
Proven(g, idom, done) ==
    {b \in 1..g.count : idom[b] # 0 /\ b \notin g.exit /\ g.succ[b] # <<>>
                        /\ \A s \in Range(g.succ[b]) : s \in done}
RECURSIVE MustReachSet(_, _, _)
MustReachSet(g, idom, done) ==
    LET more == done \cup Proven(g, idom, done)
    IN IF more = done THEN done ELSE MustReachSet(g, idom, more)
MustReach(g, idom, start, target) ==
    idom[start] # 0 /\ idom[target] # 0 /\ start \in MustReachSet(g, idom, {target})

(* hlsl_cfg_if_region: the blocks <<header, join>> of the if at i, or      *)
(* nothing.                                                                *)
IfRegion(prog, flow, g, idom, i) ==
    LET header == g.block[i]
        join == g.block[flow.end[i] + 1]
        inner == (header + 1)..(join - 1)
    IN IF /\ prog[i].op = "if" /\ flow.end[i] < Len(prog)
          /\ Dominates(idom, header, join) /\ MustReach(g, idom, header, join)
          /\ \A b \in inner : Dominates(idom, header, b) /\ g.pred[b] \subseteq header..(join - 1)
       THEN <<header, join>> ELSE <<>>

(* instructions_have_unambiguous_path *)
UnambiguousPath(g, i, j) ==
    /\ i <= j
    /\ \A b \in g.block[i]..(g.block[j] - 1) :
         /\ {b, b + 1} \cap g.ambiguous = {}
         /\ g.succ[b] = <<b + 1>> /\ Cardinality(g.pred[b + 1]) = 1
=============================================================================
