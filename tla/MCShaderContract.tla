-------------------------- MODULE MCShaderContract --------------------------
(* Two passes, the first of two rows and calling the helper.               *)
EXTENDS ShaderContract

MCRows == <<2, 1>>
MCQuirks == {"none", "payload", "form", "schema", "render state", "dependencies",
             "no authority", "invalid", "profile", "no structure", "open dependencies",
             "bindings", "no bindings"}
=============================================================================
