---------------------------- MODULE VariantDomain ----------------------------
(***************************************************************************)
(* What a variant is to Unity: a set of keywords.  The rule by which the   *)
(* player picks one of the compiled variants for a request, and the fixed  *)
(* tables behind the built-in multi_compile directives.                    *)
(***************************************************************************)
LOCAL INSTANCE Integers
LOCAL INSTANCE Sequences
LOCAL INSTANCE FiniteSets

(* A variant gains 1 for every keyword it shares with the request and      *)
(* loses 16 for every keyword the request does not have.                   *)
MatchScore(request, state) ==
    Cardinality(state \cap request) - 16 * Cardinality(state \ request)

(* The first of the best: a later variant has to be strictly better.  What *)
(* the device does not support is skipped.                                 *)
SelectBest(request, states, supported) ==
    CHOOSE i \in supported : \A j \in supported :
        \/ MatchScore(request, states[j]) < MatchScore(request, states[i])
        \/ MatchScore(request, states[j]) = MatchScore(request, states[i]) /\ i <= j

-----------------------------------------------------------------------------
ForwardBaseKeywords ==
  << "DIRECTIONAL", "LIGHTMAP_ON", "DIRLIGHTMAP_COMBINED", "DYNAMICLIGHTMAP_ON", "SHADOWS_SCREEN",
    "SHADOWS_SHADOWMASK", "LIGHTMAP_SHADOW_MIXING", "LIGHTPROBE_SH", "VERTEXLIGHT_ON" >>
ForwardBaseMasks ==
  << 1, 129, 161, 9, 3, 11, 131, 67, 75, 195, 13, 7, 135, 15, 71, 199, 79, 35, 43, 163, 39, 47,
    167, 99, 107, 227, 103, 111, 231, 17, 145, 25, 209, 89, 177, 57, 241, 121, 19, 27, 147, 83,
    91, 211, 51, 59, 179, 115, 123, 243, 29, 23, 151, 31, 87, 215, 95, 55, 183, 63, 119, 247, 127 >>
ForwardBaseVertexOnlyMasks ==
  << 257, 385, 265, 269, 273, 401, 281, 285, 337, 465, 345, 349, 305, 433, 313, 317, 369, 497,
    377, 381 >>
ForwardBaseAlphaMasks ==
  << 1, 129, 9, 3, 131, 11, 67, 195, 75, 13, 7, 135, 15, 71, 199, 79 >>
ForwardBaseAlphaVertexOnlyMasks ==
  << 385, 265, 269 >>
ForwardAddKeywords ==
  << "POINT", "DIRECTIONAL", "SPOT", "POINT_COOKIE", "DIRECTIONAL_COOKIE", "SHADOWS_SHADOWMASK",
    "LIGHTMAP_SHADOW_MIXING", "SHADOWS_DEPTH", "SHADOWS_SOFT", "SHADOWS_SCREEN", "SHADOWS_CUBE" >>
ForwardAddMasks ==
  << 1, 2, 4, 8, 16 >>
ForwardAddFullshadowsMasks ==
  << 1, 2, 4, 8, 16, 33, 34, 36, 40, 48, 97, 98, 100, 104, 112, 132, 388, 196, 452, 164, 420, 228,
    484, 514, 528, 578, 592, 546, 560, 610, 624, 1025, 1281, 1089, 1345, 1057, 1313, 1121, 1377,
    1032, 1288, 1096, 1352, 1064, 1320, 1128, 1384 >>
PrepassFinalKeywords ==
  << "LIGHTMAP_ON", "DIRLIGHTMAP_COMBINED", "DYNAMICLIGHTMAP_ON", "UNITY_HDR_ON",
    "SHADOWS_SHADOWMASK", "LIGHTPROBE_SH" >>
PrepassFinalMasks ==
  << 0, 32, 4, 48, 20, 1, 33, 5, 17, 49, 21, 6, 22, 3, 35, 7, 19, 51, 23, 8, 40, 12, 24, 56, 9,
    41, 13, 25, 57, 29, 14, 30, 11, 15, 43, 27, 59, 31 >>
ShadowcasterKeywords ==
  << "SHADOWS_DEPTH", "SHADOWS_CUBE" >>
ShadowcollectorKeywords ==
  << "SHADOWS_SPLIT_SPHERES", "SHADOWS_SINGLE_CASCADE" >>

(* The keywords of a row: bit i - 1 of its mask is keyword i.              *)
RowsOf(keywords, masks) ==
    [r \in DOMAIN masks |-> {keywords[i] : i \in {i \in DOMAIN keywords : (masks[r] \div 2^(i - 1)) % 2 = 1}}]

(* In the order in which the planner tries them.                           *)
Families == << "fwdadd_fullshadows", "fwdadd", "fwdbasealpha", "fwdbase", "shadowcaster",
               "shadowcollector", "prepassfinal" >>
FamilyNames == {Families[i] : i \in DOMAIN Families}

FamilyKeywords(family) ==
    CASE family \in {"fwdadd_fullshadows", "fwdadd"} -> ForwardAddKeywords
      [] family \in {"fwdbasealpha", "fwdbase"} -> ForwardBaseKeywords
      [] family = "shadowcaster" -> ShadowcasterKeywords
      [] family = "shadowcollector" -> ShadowcollectorKeywords
      [] family = "prepassfinal" -> PrepassFinalKeywords

FamilyMasks(family, vertex) ==
    CASE family = "fwdadd_fullshadows" -> ForwardAddFullshadowsMasks
      [] family = "fwdadd" -> ForwardAddMasks
      [] family = "fwdbasealpha" ->
            ForwardBaseAlphaMasks \o (IF vertex THEN ForwardBaseAlphaVertexOnlyMasks ELSE <<>>)
      [] family = "fwdbase" ->
            ForwardBaseMasks \o (IF vertex THEN ForwardBaseVertexOnlyMasks ELSE <<>>)
      [] family = "shadowcaster" -> <<1, 2>>
      [] family = "shadowcollector" -> <<0, 1, 2, 3>>
      [] family = "prepassfinal" -> PrepassFinalMasks

(* The six filters of a directive; a set of them is a number of six bits.  *)
Exclusions == 0..63
HasBit(exclusions, bit) == (exclusions \div 2^(bit - 1)) % 2 = 1
BitCount(exclusions) == Cardinality({bit \in 1..6 : HasBit(exclusions, bit)})
ExcludedBy(bit) ==
    CASE bit = 1 -> {"SHADOWS_SCREEN", "SHADOWS_SHADOWMASK", "SHADOWS_DEPTH", "SHADOWS_SOFT",
                     "SHADOWS_CUBE", "SHADOWS_SPLIT_SPHERES", "SHADOWS_SINGLE_CASCADE"}
      [] bit = 2 -> {"LIGHTMAP_ON"}
      [] bit = 3 -> {"DIRLIGHTMAP_COMBINED"}
      [] bit = 4 -> {"DYNAMICLIGHTMAP_ON"}
      [] bit = 5 -> {"SHADOWS_SHADOWMASK"}
      [] bit = 6 -> {"VERTEXLIGHT_ON"}

Included(exclusions, row) ==
    \A bit \in 1..6 : HasBit(exclusions, bit) => row \cap ExcludedBy(bit) = {}

(* Every table under every set of filters, worked out once.                *)
BuiltinRows ==
    [family \in FamilyNames |-> [vertex \in BOOLEAN |->
        LET rows == RowsOf(FamilyKeywords(family), FamilyMasks(family, vertex))
        IN  [exclusions \in Exclusions |-> SelectSeq(rows, LAMBDA row : Included(exclusions, row))]]]
=============================================================================
