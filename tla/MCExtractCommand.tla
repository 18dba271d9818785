-------------------------- MODULE MCExtractCommand --------------------------
(* Three snapshots, one of them without textures; textures 1 and 3 share a *)
(* sidecar across sources.  Two materials of the selected shader, one of   *)
(* an unselected shader, one without a shader.                             *)
EXTENDS ExtractCommand

MCSnapshots == <<"p", "q", "r">>
MCSourceOf == <<"p", "p", "q">>
MCSidecarOf == <<"s", Inline, "s">>
MCMaterialStatus == <<"ready", "ready", "ready", "shaderNull">>
MCShaderOf == <<1, 1, 2, 0>>
MCSlotChoices ==
    {<<<<1, 3>>, <<x, 2>>, <<1>>, <<>>>> : x \in {NullSlot, UnresolvedSlot, UnsupportedSlot}}
=============================================================================
