------------------------------ MODULE SsaGraph ------------------------------
(***************************************************************************)
(* build_hlsl_ssa_graph and build_component_provenance: phi nodes on the   *)
(* iterated dominance frontier, renaming along the dominator tree, and the *)
(* linear account of who wrote a lane last.  A lane is a component of a    *)
(* temporary register; SSA variables count from 1.                         *)
(***************************************************************************)
EXTENDS FlowGraph

CONSTANT Lanes          \* the lanes, in the order of register and component

LaneSet == Range(Lanes)
Writes(inst) == Range(inst.dst)

(* The blocks that need a phi for lane: frontiers of its definitions and   *)
(* of the phis themselves.                                                 *)
RECURSIVE PhiBlocks(_, _, _)
PhiBlocks(df, defs, phis) ==
    LET more == UNION {df[b] : b \in defs \cup phis}
    IN IF more \subseteq phis THEN phis ELSE PhiBlocks(df, defs, phis \cup more)
PlacePhis(prog, g, df) ==
    [b \in 1..g.count |->
        SelectSeq(Lanes, LAMBDA lane :
            b \in PhiBlocks(df, {d \in 1..g.count : \E i \in g.first[d]..g.last[d] : lane \in Writes(prog[i])}, {}))]

-----------------------------------------------------------------------------
(* active_version, next_ssa_var and the maps the renaming fills in:        *)
(* read[i] and wrote[i] are the variables of the operands of i, root[i]    *)
(* those of their relative indices, made[v] is the instruction that        *)
(* defines v (0 for a phi), phi[b] the variables of the phis of b and      *)
(* from[b][p] what comes in from p.                                        *)
FreshRenaming(prog, g, phis) ==
    [active |-> [l \in LaneSet |-> 0], next |-> 1, made |-> <<>>,
     root |-> [i \in DOMAIN prog |-> <<>>],
     read |-> [i \in DOMAIN prog |-> <<>>], wrote |-> [i \in DOMAIN prog |-> <<>>],
     phi |-> [b \in 1..g.count |-> <<>>],
     from |-> [b \in 1..g.count |-> [p \in g.pred[b] |-> [k \in DOMAIN phis[b] |-> 0]]]]

(* A new variable for lane, defined by instruction i.                      *)
Define(r, lane, i) ==
    [r EXCEPT !.active[lane] = r.next, !.next = @ + 1, !.made = Append(@, i)]

RenamePhis(r, b, phis) ==
    FoldLeft(LAMBDA s, lane : [Define(s, lane, 0) EXCEPT !.phi[b] = Append(@, s.next)], r, phis[b])

(* Every relative index and every source is read before any result is      *)
(* written: "Relative index roots are reads even when their enclosing      *)
(* operand is a destination".                                              *)
RenameInstruction(r, prog, i) ==
    LET active(lanes) == [k \in DOMAIN lanes |-> r.active[lanes[k]]]
        read == [r EXCEPT !.root[i] = active(prog[i].index), !.read[i] = active(prog[i].src)]
    IN FoldLeft(LAMBDA s, lane : [Define(s, lane, i) EXCEPT !.wrote[i] = Append(@, s.next)], read, prog[i].dst)

(* The phis of the successors take what is active at the end of b.         *)
FillSuccessors(r, g, b, phis) ==
    [r EXCEPT !.from = [q \in DOMAIN @ |->
        IF q \in Range(g.succ[b])
        THEN [@[q] EXCEPT ![b] = [k \in DOMAIN phis[q] |-> r.active[phis[q][k]]]] ELSE @[q]]]

(* rename_ssa_block *)
RenameBlock(r, prog, g, phis, b) ==
    FillSuccessors(
        FoldLeft(LAMBDA s, i : RenameInstruction(s, prog, i), RenamePhis(r, b, phis),
                 [k \in 1..(g.last[b] - g.first[b] + 1) |-> g.first[b] + k - 1]),
        g, b, phis)

(* Fault: what a child renamed stays active for its siblings.              *)
FaultyUndo(before, after) == after
(* The undo log is played back when the frame is popped.                   *)
Undo(before, after) == [after EXCEPT !.active = before.active]

(* rename_ssa: a block, its children in the dominator tree, and back.      *)
RECURSIVE RenameTree(_, _, _, _, _, _)
RenameTree(r, prog, g, idom, phis, b) ==
    Undo(r, FoldLeft(LAMBDA s, c : RenameTree(s, prog, g, idom, phis, c),
                     RenameBlock(r, prog, g, phis, b),
                     Ascending({c \in 2..g.count : idom[c] = b}, g.count)))

BuildSsa(prog, g, dom) ==
    LET phis == PlacePhis(prog, g, dom.df)
    IN RenameTree(FreshRenaming(prog, g, phis), prog, g, dom.idom, phis, 1)

(* hlsl_operand_definition: the instruction that defines operand k of i,   *)
(* and 0 when a phi or nothing does.                                       *)
OperandDefinition(ssa, i, k) == IF ssa.read[i][k] = 0 THEN 0 ELSE ssa.made[ssa.read[i][k]]

-----------------------------------------------------------------------------
(* build_component_provenance: before instruction i, who wrote each lane   *)
(* last in the order of the text, and through which copies.                *)
Provenance(prog) ==
    LET none == [l \in LaneSet |-> [by |-> 0, root |-> <<0, l>>]]
        after(p, i) ==
            [l \in LaneSet |->
                IF l \notin Writes(prog[i]) THEN p[l]
                ELSE [by |-> i, root |-> IF prog[i].op # "mov" THEN <<i, l>>
                                         ELSE LET k == CHOOSE d \in DOMAIN prog[i].dst : prog[i].dst[d] = l
                                              IN p[prog[i].src[k]].root]]
    IN FoldLeft(LAMBDA s, i : Append(s, after(Last(s), i)), <<none>>, [i \in DOMAIN prog |-> i])

(* component_value_unchanged *)
Unchanging(g, prov, lane, i, j) == UnambiguousPath(g, i, j) /\ prov[i][lane] = prov[j][lane]
=============================================================================
