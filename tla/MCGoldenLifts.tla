---------------------------- MODULE MCGoldenLifts ----------------------------
(***************************************************************************)
(* The analyses on every filling of a few control skeletons and of short   *)
(* sequences of control instructions, the lifts on straight line programs  *)
(* over two temporaries, an input and an output, and the directives of     *)
(* passes of up to three stages and three keywords, or a built-in table.   *)
(***************************************************************************)
EXTENDS GoldenLifts

MCRegisters == {"r1", "r2"}
MCLanes == << <<"r1", 1>>, <<"r1", 2>>, <<"r2", 1>>, <<"r2", 2>> >>
A == <<"r1", 1>>
B == <<"r1", 2>>

Ins(op, dst, src, index) == [op |-> op, dst |-> dst, src |-> src, index |-> index]
Ctl(op) == Ins(op, <<>>, <<>>, <<>>)
DefB == Ins("def", <<B>>, <<>>, <<>>)
LoadA == Ins("load", <<A>>, <<>>, <<A>>)      \* indexed by what it overwrites
MovAB == Ins("mov", <<A>>, <<B>>, <<>>)
MovBA == Ins("mov", <<B>>, <<A>>, <<>>)
Pair == Ins("pair", <<A, B>>, <<B>>, <<>>)
Use == Ins("use", <<>>, <<A, B>>, <<B>>)

(* What a slot of a skeleton may hold.                                     *)
Fill == {LoadA, MovAB, MovBA, Pair}

(* Slots are numbered; a skeleton is a sequence of controls and slots.     *)
Skeletons ==
    { <<"if", "1", "else", "2", "endif", "3">>,
      <<"1", "if", "2", "endif", "if", "3", "endif">>,
      <<"1", "loop", "breakc", "2", "endloop", "3">>,
      <<"1", "loop", "if", "2", "continuec", "endif", "3", "breakc", "endloop">>,
      <<"loop", "switch", "case", "1", "break", "default", "2", "endswitch", "breakc", "3", "endloop">>,
      <<"switch", "case", "1", "case", "2", "break", "endswitch", "3">>,
      <<"1", "loop", "if", "2", "break", "else", "3", "continue", "endif", "endloop">>,
      <<"if", "1", "discard", "else", "2", "ret", "endif", "3">>,
      <<"loop", "loop", "1", "breakc", "2", "endloop", "breakc", "3", "endloop">>,
      <<"1", "loop", "append", "2", "breakc", "endloop", "restart_strip", "3">> }
Slot == {"1", "2", "3"}
Filled(skeleton, fill) ==
    <<DefB>> \o [k \in DOMAIN skeleton |-> IF skeleton[k] \in Slot THEN fill[skeleton[k]] ELSE Ctl(skeleton[k])]
    \o <<Use, Ctl("ret")>>

FlowOps == {"if", "else", "endif", "loop", "endloop", "switch", "case", "default", "endswitch",
            "breakc", "continue", "break"}
Short == UNION {[1..n -> FlowOps] : n \in 1..3}
         \cup {<<"switch", a, b, c, "endswitch">> : a, b, c \in FlowOps}
         \cup {<<"loop", a, b, c, "endloop">> : a, b, c \in {"if", "endif", "switch", "endswitch", "break", "continue", "loop", "endloop"}}

(* Three deep, one more than the limit, and two deep twice.                *)
Nests == {<<"if", a, "if", "endif", b, "endif">> : a \in {"if", "loop", "endif"}, b \in {"endif", "endloop", "if"}}

MCPrograms == {Filled(s, f) : s \in Skeletons, f \in [Slot -> Fill]}
              \cup {[k \in DOMAIN s |-> Ctl(s[k])] : s \in Short \cup Nests}

-----------------------------------------------------------------------------
Dst(kind, reg, mask) == [kind |-> kind, reg |-> reg, mask |-> mask]
Src(kind, reg, sel) == [kind |-> kind, reg |-> reg, sel |-> sel, neg |-> FALSE]
R1(sel) == Src("temp", "r1", sel)
R2(sel) == Src("temp", "r2", sel)
V(sel) == Src("input", "v", sel)
Word(sel) == Src("imm", "none", sel)
Neg(o) == [o EXCEPT !.neg = TRUE]
Inst(op, dst, src) == [op |-> op, sat |-> FALSE, dst |-> dst, src |-> src]
Sat(inst) == [inst EXCEPT !.sat = TRUE]
ToR1(mask) == Dst("temp", "r1", mask)
ToR2(mask) == Dst("temp", "r2", mask)
Out == Dst("output", "o", {1, 2})
XY == <<1, 2>>
YX == <<2, 1>>
XX == <<1, 1>>

(* Loads, then a copy of them, then what may come between a copy and its   *)
(* use, then the result.                                                   *)
Loads == {Inst("mov", ToR1({1, 2}), <<V(YX)>>), Inst("mov", ToR1({1, 2}), <<Neg(V(XY))>>),
          Inst("add", ToR1({1, 2}), <<V(YX), Word(XY)>>)}
Copies == {Inst("mov", ToR2({1, 2}), <<R1(YX)>>), Inst("mov", ToR2({1, 2}), <<R1(XX)>>),
           Sat(Inst("mov", ToR2({1, 2}), <<R1(XY)>>)), Inst("mov", ToR2({1}), <<R1(YX)>>)}
Between == {Nop, Inst("mov", ToR1({1}), <<V(YX)>>), Inst("mov", ToR2({2}), <<V(XX)>>),
            Inst("add", ToR1({1, 2}), <<R2(XY), V(YX)>>), Inst("mul", ToR1({2}), <<R2(XX), R1(YX)>>),
            Inst("dp2", ToR1({1}), <<R2(YX), R1(XY)>>), Inst("add", ToR2({1, 2}), <<Neg(R2(YX)), Word(XY)>>)}
Finals == {Inst("mov", Out, <<R1(YX)>>), Inst("mov", Out, <<R2(XY)>>), Inst("mul", Out, <<R2(XX), R1(YX)>>)}
Ret == [Nop EXCEPT !.op = "ret"]

MCBaselines == {<<l, c, b, r, Ret>> : l \in Loads, c \in Copies, b \in Between, r \in Finals}
               \cup {<<l, b, c, r, Ret>> : l \in Loads, c \in {Inst("mov", ToR2({1, 2}), <<R1(YX)>>)},
                                          b \in Between, r \in Finals}

-----------------------------------------------------------------------------
MCStages == <<"vertex", "fragment", "geometry">>

(* Subprograms of no particular tier, their keywords in the scopes of the  *)
(* table.                                                                  *)
SubOf(scoped, state) ==
    [d3d |-> TRUE, tier |-> 3, explicit |-> TRUE, canonical |-> TRUE,
     global |-> {k \in state : ~scoped[k]}, local |-> {k \in state : scoped[k]}]
SubsOf(scoped, states) == [i \in DOMAIN states |-> SubOf(scoped, states[i])]
PassOf(names, scoped, vertex, fragment, geometry) ==
    [names |-> names, scoped |-> scoped, mask |-> DOMAIN names, programs |-> {1, 2, 3},
     subprograms |-> <<SubsOf(scoped, vertex), SubsOf(scoped, fragment), SubsOf(scoped, geometry)>>]

Abc == <<"A", "B", "C">>
Abb == <<"A", "B", "B">>
AllGlobal == <<FALSE, FALSE, FALSE>>
LastLocal == <<FALSE, FALSE, TRUE>>
Orders(sets, lengths) == {q \in UNION {[1..n -> sets] : n \in lengths} : IsInjective(q)}
Single == << {} >>

(* Every order of few sets of three keywords in one stage.                 *)
OneStage ==
    {PassOf(Abc, scoped, v, Single, <<>>) : scoped \in {AllGlobal, LastLocal},
        v \in Orders(SUBSET (1..3), 1..2) \cup {<<{}>> \o q : q \in Orders(SUBSET (1..3) \ {{}}, {2, 3})}
              \cup {<<{1}>> \o q : q \in Orders({{2}, {3}, {1, 2}, {2, 3}}, {2, 3})}}

(* Stages that share all, some or none of their axes.                      *)
Pool == {Single, <<{1}>>, <<{}, {1}>>, <<{1}, {2}>>, <<{}, {1}, {2}>>, <<{}, {1}, {3}, {1, 3}>>,
         <<{}, {3}, {1}, {1, 3}>>, <<{1}, {2}, {1, 3}, {2, 3}>>, <<{}, {2}>>, <<{}, {3}>>, <<{}, {1, 2}>>}
Linked ==
    {PassOf(names, scoped, v, f, g) : names \in {Abc, Abb}, scoped \in {AllGlobal, LastLocal},
        v, f \in Pool, g \in {<<>>, <<{}, {1}>>, <<{}, {1}, {2}>>}}

(* Built-in tables, alone and with one more keyword.                       *)
ShadowNames == <<"SHADOWS_DEPTH", "SHADOWS_CUBE", "A">>
Shadows == {PassOf(ShadowNames, scoped, v, f, <<>>) : scoped \in {AllGlobal, LastLocal},
    v \in Orders({{1}, {2}, {1, 3}, {2, 3}}, 1..4),
    f \in {<<{1}, {2}>>, <<{1}, {2}, {1, 3}, {2, 3}>>, <<{1}, {1, 3}, {2}, {2, 3}>>, <<{2}>>}}
BaseNames == <<"DIRECTIONAL", "LIGHTPROBE_SH", "VERTEXLIGHT_ON", "A">>
BaseGlobal == <<FALSE, FALSE, FALSE, FALSE>>
BaseLocal == <<FALSE, FALSE, FALSE, TRUE>>
Slower(q) == q \o [i \in DOMAIN q |-> q[i] \cup {4}]
Bases == {PassOf(BaseNames, scoped, v, f, <<>>) : scoped \in {BaseGlobal, BaseLocal},
    v \in {<<{1}, {1, 2}, {1, 3}, {1, 2, 3}>>, Slower(<<{1}, {1, 2}, {1, 3}, {1, 2, 3}>>),
           <<{1}, {1, 2}, {1, 2, 3}>>, <<{1}, {1, 2}>>, <<{1}, {1, 3}, {1, 2}>>},
    f \in {<<{1}, {1, 2}>>, Slower(<<{1}, {1, 2}>>), <<{1, 2}, {1}>>}}

(* Forward base without lightmaps and shadow masks: vertex rows with mixed *)
(* shadows and vertex lights for which the fragment stage has none.        *)
MixedNames == <<"DIRECTIONAL", "SHADOWS_SCREEN", "LIGHTMAP_SHADOW_MIXING", "LIGHTPROBE_SH", "VERTEXLIGHT_ON", "A">>
MixedGlobal == [k \in 1..6 |-> FALSE]
MixedFragment == <<{1}, {1, 4}, {1, 2}, {1, 2, 4}, {1, 2, 3, 4}>>
MixedVertex == MixedFragment \o <<{1, 5}, {1, 4, 5}, {1, 2, 5}, {1, 2, 4, 5}, {1, 2, 3, 5}, {1, 2, 3, 4, 5}>>
WithA(q) == q \o [i \in DOMAIN q |-> q[i] \cup {6}]
Mixed == {PassOf(MixedNames, MixedGlobal, v, f, <<>>) :
             v \in {MixedVertex, WithA(MixedVertex)}, f \in {MixedFragment, WithA(MixedFragment)}}

(* Subprograms of three tiers.                                             *)
Tiered(tiers) ==
    LET sub(tier, state) == [SubOf(AllGlobal, state) EXCEPT !.tier = tier]
    IN  [i \in DOMAIN tiers |-> sub(tiers[i][1], tiers[i][2])]
TierForms ==
    {Tiered(<< <<0, {}>>, <<0, {1}>>, <<1, {}>>, <<1, {1}>>, <<2, {}>>, <<2, {1}>> >>),
     Tiered(<< <<0, {}>>, <<1, {}>>, <<2, {}>>, <<0, {1}>>, <<1, {1}>>, <<2, {1}>> >>),
     Tiered(<< <<0, {}>>, <<0, {1}>>, <<1, {}>>, <<1, {1}>>, <<2, {1}>>, <<2, {}>> >>),
     Tiered(<< <<0, {}>>, <<0, {1}>>, <<1, {}>>, <<1, {1}>>, <<2, {}>> >>),
     Tiered(<< <<0, {}>>, <<1, {}>>, <<2, {}>> >>),
     SubsOf(AllGlobal, <<{}, {1}>>)}
Tiers == {[PassOf(Abc, AllGlobal, Single, Single, <<>>) EXCEPT !.subprograms = <<v, f, <<>>>>] :
             v, f \in TierForms}

(* Tables, masks and subprograms that are refused.                         *)
PlainPass == PassOf(Abc, LastLocal, <<{}, {1}>>, <<{}, {3}>>, <<>>)
Broken == {[PlainPass EXCEPT !.names[2] = ""], [PlainPass EXCEPT !.mask = {1, 2}], [PlainPass EXCEPT !.mask = 1..4],
           [PlainPass EXCEPT !.programs = {1}],
           [PlainPass EXCEPT !.subprograms[1][1].canonical = FALSE],
           [PlainPass EXCEPT !.subprograms[1][2].explicit = FALSE],
           [PlainPass EXCEPT !.subprograms[2][2].global = {3}, !.subprograms[2][2].local = {}],
           [PlainPass EXCEPT !.subprograms[2][2].d3d = FALSE], [PlainPass EXCEPT !.subprograms[2] = <<>>],
           [PlainPass EXCEPT !.subprograms = <<<<>>, <<>>, <<>>>>]}
MCPasses == OneStage \cup Linked \cup Shadows \cup Bases \cup Mixed \cup Tiers \cup Broken
=============================================================================
