----------------------------- MODULE GoldenLifts -----------------------------
(***************************************************************************)
(* From decoded programs to a certified source: the analyses of the        *)
(* emitter on a program (LiftAnalysis), the transaction that lifts it      *)
(* (LiftTransaction), whose candidates are built from the same graph, SSA  *)
(* form and provenance, and the directives under which the programs of a   *)
(* pass become its variants again (VariantSource).                         *)
(***************************************************************************)
EXTENDS LiftAnalysis, LiftTransaction, VariantSource

(* The lanes of the analyses are the components of the registers.          *)
ASSUME LanesAreComponents == LaneSet = Registers \X Comp

-----------------------------------------------------------------------------
(* The temporaries inst reads, in the order of operands and lanes.         *)
ReadOrder(inst) ==
    SelectSeq(<< <<1, 1>>, <<1, 2>>, <<2, 1>>, <<2, 2>> >>, LAMBDA q : q \in Reads(inst))

(* What the analyses see of an instruction: the lanes, and whether it is a *)
(* plain copy of a temporary.  Programs with relative indices are not      *)
(* lifted.                                                                 *)
Scalar(inst) ==
    LET reads == ReadOrder(inst)
    IN [op |-> CASE inst.op # "mov" -> inst.op
                 [] inst.src[1].kind = "temp" /\ Plain(inst.src[1]) /\ ~inst.sat -> "mov"
                 [] OTHER -> "def",
        dst |-> IF inst.dst.kind # "temp" THEN <<>>
                ELSE SelectSeq(<< <<inst.dst.reg, 1>>, <<inst.dst.reg, 2>> >>, LAMBDA l : l[2] \in inst.dst.mask),
        src |-> [n \in DOMAIN reads |->
                    LET o == inst.src[reads[n][1]] IN <<o.reg, o.sel[reads[n][2]]>>],
        index |-> <<>>]

(* The context both rewrites build: definitions and provenance.            *)
LiftContext(p) ==
    LET s == [i \in DOMAIN p |-> Scalar(p[i])]
        g == BuildGraph(s, MatchFlow(s))
        form == BuildSsa(s, g, Dominance(g))
        place(i, q) == CHOOSE n \in DOMAIN ReadOrder(p[i]) : ReadOrder(p[i])[n] = q
    IN [definition |-> [i \in DOMAIN p |-> [q \in Reads(p[i]) |-> OperandDefinition(form, i, place(i, q))]],
        prov |-> Provenance(s)]

-----------------------------------------------------------------------------
vars == <<avars, tvars, svars>>

Init ==
    \/ AnalysisInit /\ TransactionIdle /\ VariantIdle
    \/ AnalysisIdle /\ TransactionInit /\ VariantIdle
    \/ AnalysisIdle /\ TransactionIdle /\ VariantInit

Done ==
    /\ phase \in {"idle", "rejected", "over"} /\ at.step \in {"idle", "failed", "done"}
    /\ VariantsRest
    /\ UNCHANGED vars

Next ==
    \/ AnalysisStep /\ UNCHANGED <<tvars, svars>>
    \/ TransactionStep /\ UNCHANGED <<avars, svars>>
    \/ VariantStep /\ UNCHANGED <<avars, tvars>>
    \/ Done

Spec == Init /\ [][Next]_vars

-----------------------------------------------------------------------------
(***************************************************************************)
(* What build_hlsl_ssa_graph and build_component_provenance name as the    *)
(* writer of an operand or a lane is its writer in every execution: of the *)
(* programs that are analysed and run, on every path through branches and  *)
(* loops, and of the programs that a lift begins on, with the nops and the *)
(* moved results that the lifts before it left.                            *)
(***************************************************************************)
WritersAreExact == ValuesAreExact /\ ContextIsExact
=============================================================================
