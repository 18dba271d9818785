------------------------------ MODULE CopyLift ------------------------------
(***************************************************************************)
(* The two rewrites of src/translation/hlsl_copy_lift.c on vector          *)
(* programs: a use of a copy reads what the copy copied, and an operation  *)
(* whose result is only copied writes the copy's destination.              *)
(*                                                                         *)
(* Vectors have the components of Comp.  A source operand reads component  *)
(* sel[l] of its register on lane l; an immediate has the word sel[l].     *)
(***************************************************************************)
EXTENDS Integers, Sequences, FiniteSets, SequencesExt, FiniteSetsExt

CONSTANTS
    Registers,      \* the temporary registers
    Context(_)      \* external to the rewrites: the definitions and the
                    \* provenance both build of a program first

ASSUME OutputIsNoRegister == "output" \notin Registers

Comp == {1, 2}
NoOperand == [kind |-> "none", reg |-> "none", mask |-> {}]
Nop == [op |-> "nop", sat |-> FALSE, dst |-> NoOperand, src |-> <<>>]

(* plain_operand, immutable_source, result_opcode                          *)
Plain(operand) == ~operand.neg
Immutable(operand) == operand.kind = "input"
ResultOpcodes == {"add", "mul"}

(* usil_instruction_operand_use: the lanes of its sources inst reads.      *)
UsedLanes(inst) == IF inst.op = "dp2" THEN Comp ELSE inst.dst.mask
(* The temporaries inst reads, as <<operand, lane>>.                       *)
Reads(inst) ==
    {q \in (DOMAIN inst.src) \X Comp : q[2] \in UsedLanes(inst) /\ inst.src[q[1]].kind = "temp"}

(* A decoded program: operands, instructions, and their number of sources. *)
IsOperand(o) ==
    /\ o = [kind |-> o.kind, reg |-> o.reg, sel |-> o.sel, neg |-> o.neg]
    /\ o.kind \in {"temp", "input", "imm"} /\ (o.kind = "temp" => o.reg \in Registers)
    /\ o.sel = [l \in Comp |-> o.sel[l]] /\ (o.kind # "imm" => o.sel \in [Comp -> Comp])
IsInstruction(inst) ==
    /\ inst = [op |-> inst.op, sat |-> inst.sat, dst |-> inst.dst, src |-> inst.src]
    /\ inst.dst.kind \in {"temp", "output", "none"} /\ (inst.dst.kind = "temp" => inst.dst.reg \in Registers)
    /\ inst.dst.mask \subseteq Comp
    /\ inst.dst.kind = "none" \/ inst.op \in {"nop", "ret"} => inst.dst.mask = {}
    /\ inst.src \in Seq(Range(inst.src)) /\ DOMAIN inst.src \subseteq {1, 2}
    /\ \A k \in DOMAIN inst.src : IsOperand(inst.src[k])
    /\ inst.op = "mov" => DOMAIN inst.src = {1}
    /\ inst.op \in {"add", "mul", "dp2"} => DOMAIN inst.src = {1, 2}
IsProgram(p) == p \in Seq(Range(p)) /\ \A i \in DOMAIN p : IsInstruction(p[i])

(* The instruction that defines lane l of operand k of instruction i.      *)
DefinitionOf(ctx, i, k, l) == ctx.definition[i][<<k, l>>]

-----------------------------------------------------------------------------
Failed(status) == [status |-> status]

(* validate_region: straight line code that ends in ret.                   *)
ValidateRegion(p) ==
    \A i \in DOMAIN p : p[i].op \in {"mov", "add", "mul", "dp2", "nop"} \/ (p[i].op = "ret" /\ i = Len(p))
(* validate_defined_sources                                                *)
DefinedSources(p, ctx) ==
    \A i \in DOMAIN p : \A q \in Reads(p[i]) : DefinitionOf(ctx, i, q[1], q[2]) # 0

(* rewrite_selection                                                       *)
Select(operand, comp) ==
    [operand EXCEPT !.sel = IF operand.kind = "imm" THEN [l \in Comp |-> @[comp[l]]] ELSE comp]

(* Of operand k of instruction i: the lanes that read the copy at c, and   *)
(* the components of its source they stand for, the first one elsewhere.   *)
CopiedLanes(p, ctx, c, i, k) == {l \in UsedLanes(p[i]) : DefinitionOf(ctx, i, k, l) = c}
SourceComponents(p, lanes, c, i, k) ==
    [l \in Comp |-> IF l \in lanes THEN p[c].src[1].sel[p[i].src[k].sel[l]] ELSE 1]

(* Fault: the source may have been written again before the use.           *)
FaultyUseStatus(p, ctx, c, i, k) ==
    LET lanes == CopiedLanes(p, ctx, c, i, k)
    IN CASE lanes = {} -> "none"
         [] lanes # UsedLanes(p[i]) -> "partial use"
         [] ~Plain(p[i].src[k]) -> "not plain"
         [] OTHER -> "ok"
(* One use of the copied register: untouched, replaceable, or why not.     *)
UseStatus(p, ctx, c, i, k) ==
    LET lanes == CopiedLanes(p, ctx, c, i, k)
        source == p[c].src[1]
        by(state, l) == ctx.prov[state][<<source.reg, SourceComponents(p, lanes, c, i, k)[l]>>].by
    IN CASE lanes = {} -> "none"
         [] ~Immutable(source) /\ (\E l \in lanes : by(c, l) # by(i, l)) -> "source changed"
         [] lanes # UsedLanes(p[i]) -> "partial use"
         [] ~Plain(p[i].src[k]) -> "not plain"
         [] OTHER -> "ok"

(* hlsl_copy_lift_create                                                   *)
CopyLiftCreate(p, c) ==
    LET copy == p[c]
        ctx == Context(p)
        uses == {q \in ((c + 1)..Len(p)) \X {1, 2} :
                    /\ q[2] \in DOMAIN p[q[1]].src /\ p[q[1]].src[q[2]].kind = "temp"
                    /\ p[q[1]].src[q[2]].reg = copy.dst.reg}
        status == [q \in uses |-> UseStatus(p, ctx, c, q[1], q[2])]
        edits == {[i |-> q[1], k |-> q[2],
                   comp |-> SourceComponents(p, CopiedLanes(p, ctx, c, q[1], q[2]), c, q[1], q[2])]
                     : q \in {u \in uses : status[u] = "ok"}}
        bad == {q \in uses : status[q] \notin {"ok", "none"}}
    IN CASE ~ValidateRegion(p) -> Failed("effectful region")
         [] copy.op # "mov" \/ copy.sat \/ copy.dst.kind # "temp" \/ ~Plain(copy.src[1])
            \/ copy.src[1].kind \notin {"temp", "input"}
            \/ (copy.src[1].kind = "temp" /\ copy.src[1].reg = copy.dst.reg) -> Failed("not plain copy")
         [] ~DefinedSources(p, ctx) -> Failed("undefined source")
         [] bad # {} -> Failed(status[CHOOSE q \in bad : TRUE])
         [] edits = {} -> Failed("no uses")
         [] OTHER ->
              [status |-> "ok", edits |-> edits, producer |-> c,
               program |-> [i \in DOMAIN p |->
                  IF i = c THEN Nop
                  ELSE [p[i] EXCEPT !.src = [k \in DOMAIN @ |->
                          LET mine == {e \in edits : e.i = i /\ e.k = k}
                          IN IF mine = {} THEN @[k] ELSE Select(copy.src[1], (CHOOSE e \in mine : TRUE).comp)]]]]

-----------------------------------------------------------------------------
(* The last instruction before c that is not a nop, 0 when there is none.  *)
ProducerOf(p, c) ==
    LET before == {i \in 1..(c - 1) : p[i].op # "nop"}
    IN IF before = {} THEN 0 ELSE CHOOSE i \in before : \A j \in before : j <= i

(* The copy is the one use of what the producer wrote, and uses only that. *)
OnlyUse(p, ctx, c, producer) ==
    \A i \in DOMAIN p : \A q \in Reads(p[i]) :
        (DefinitionOf(ctx, i, q[1], q[2]) = producer) = (i = c)

(* hlsl_result_lift_create                                                 *)
ResultLiftCreate(p, c) ==
    LET copy == p[c]
        j == ProducerOf(p, c)
        made == p[j]
        lane == [l \in copy.dst.mask |-> copy.src[1].sel[l]]
        comp(k) == [l \in Comp |->
                       IF l \notin copy.dst.mask THEN 1
                       ELSE IF made.src[k].kind = "imm" THEN lane[l] ELSE made.src[k].sel[lane[l]]]
        ctx == Context(p)
    IN CASE ~ValidateRegion(p) -> Failed("effectful region")
         [] c = 1 -> Failed("not plain result")
         [] copy.op # "mov" \/ copy.sat \/ copy.dst.kind \notin {"temp", "output"}
            \/ copy.src[1].kind # "temp" \/ ~Plain(copy.src[1]) -> Failed("not plain copy")
         [] j = 0 \/ made.op \notin ResultOpcodes \/ made.sat \/ made.dst.kind # "temp"
            \/ made.dst.reg # copy.src[1].reg \/ (\E k \in DOMAIN made.src : ~Plain(made.src[k]))
              -> Failed("not plain result")
         [] Range(lane) # made.dst.mask \/ Cardinality(copy.dst.mask) # Cardinality(made.dst.mask)
              -> Failed("nonbijective lanes")
         [] ~DefinedSources(p, ctx) -> Failed("undefined source")
         [] ~OnlyUse(p, ctx, c, j) -> Failed("multiple or partial uses")
         [] OTHER ->
              [status |-> "ok", producer |-> j,
               edits |-> {[i |-> c, k |-> k, comp |-> comp(k)] : k \in DOMAIN made.src},
               program |-> [p EXCEPT ![j] = Nop,
                  ![c] = [made EXCEPT !.dst = copy.dst,
                                      !.src = [k \in DOMAIN @ |-> Select(@[k], comp(k))]]]]

-----------------------------------------------------------------------------
(* In straight line code: d is the last instruction before i that writes   *)
(* component m of temporary r, 0 when there is none.                       *)
WritesTemp(inst, r, m) == inst.dst.kind = "temp" /\ inst.dst.reg = r /\ m \in inst.dst.mask
IsLastWriter(p, i, r, m, d) ==
    /\ d \in 0..(i - 1) /\ (d # 0 => WritesTemp(p[d], r, m))
    /\ \A j \in (d + 1)..(i - 1) : ~WritesTemp(p[j], r, m)
(* The context of p is what the text of p says.                            *)
IsContext(ctx, p) ==
    /\ \A i \in DOMAIN p : \A q \in Reads(p[i]) :
         LET o == p[i].src[q[1]]
         IN IsLastWriter(p, i, o.reg, o.sel[q[2]], DefinitionOf(ctx, i, q[1], q[2]))
    /\ \A i \in DOMAIN p : \A r \in Registers : \A m \in Comp :
         IsLastWriter(p, i, r, m, ctx.prov[i][<<r, m>>].by)

(* What a program computes, as terms over its inputs: the contents of the  *)
(* temporaries and outputs after its first n instructions.                 *)
Cells == (Registers \cup {"output"}) \X Comp
Modified(term, neg) == IF neg THEN <<"neg", term>> ELSE term
OperandTerm(regs, o, l) ==
    Modified(CASE o.kind = "temp" -> regs[<<o.reg, o.sel[l]>>]
               [] o.kind = "input" -> <<"input", o.reg, o.sel[l]>>
               [] OTHER -> <<"word", o.sel[l]>>, o.neg)
InstructionTerm(regs, inst, l) ==
    LET arg(k, m) == OperandTerm(regs, inst.src[k], m)
        made == CASE inst.op = "mov" -> arg(1, l)
                  [] inst.op = "dp2" -> <<"dp2", arg(1, 1), arg(2, 1), arg(1, 2), arg(2, 2)>>
                  [] OTHER -> <<inst.op, arg(1, l), arg(2, l)>>
    IN IF inst.sat THEN <<"sat", made>> ELSE made
(* The register inst writes, the outputs being one.                        *)
Written(inst) == IF inst.dst.kind = "output" THEN "output" ELSE inst.dst.reg
Executed(regs, inst) ==
    [x \in Cells |-> IF x[1] = Written(inst) /\ x[2] \in inst.dst.mask
                      THEN InstructionTerm(regs, inst, x[2]) ELSE regs[x]]
Contents(p) ==
    LET regs[n \in 0..Len(p)] ==
            IF n = 0 THEN [x \in Cells |-> <<"undefined">>] ELSE Executed(regs[n - 1], p[n])
    IN regs
Outputs(p) == [l \in Comp |-> Contents(p)[Len(p)][<<"output", l>>]]
=============================================================================
