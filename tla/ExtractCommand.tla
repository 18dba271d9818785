--------------------------- MODULE ExtractCommand ---------------------------
(***************************************************************************)
(* The extract command with materials: textures first, then the shaders,   *)
(* then the materials that name both, the report and the exit code.  Other *)
(* programs may change inputs and outputs at any moment.                   *)
(*                                                                         *)
(* The shader batch is taken as the ShaderBatch module shows it to be: an  *)
(* authorized record has both of its files published.                      *)
(***************************************************************************)
EXTENDS MaterialBatch

Running == -1
Foreign == <<"foreign">>

VARIABLES
    stage,     \* where dxbc_sandbox_main is
    seenOk,    \* texture_batch_render_complete
    exit,      \* the exit code, or Running
    tampered   \* history: the outputs replaced before the last check

vars == <<version, tvars, disk, wrote, spent, shader, mvars, stage, seenOk, exit, tampered>>

Init ==
    /\ TextureInit /\ MaterialInit
    /\ shader = [s \in Shaders |-> "pending"]
    /\ stage = "textures" /\ seenOk = FALSE /\ exit = Running /\ tampered = {}

TexturePhase ==
    /\ stage = "textures"
    /\ IF TexturesCommitted
       THEN stage' = "shaders" /\ UNCHANGED <<version, tvars, disk, wrote, spent>>
       ELSE TextureStep /\ UNCHANGED stage
    /\ UNCHANGED <<shader, mvars, seenOk, exit, tampered>>

(* shader_batch_extract_ex, one shader: not selected, published with its   *)
(* metadata and authorized, or failed.                                     *)
ExtractShader(s) ==
    /\ stage = "shaders" /\ shader[s] = "pending"
    /\ \E ok \in BOOLEAN :
         /\ Fault(s \in Selected /\ ~ok) /\ Spend(s \in Selected /\ ~ok)
         /\ LET wanted == \A p \in ShaderParts : At(disk, ShaderPath(s, p)) \in {Missing, ShaderBytes(s, p)}
                files == {ShaderPath(s, p) : p \in ShaderParts}
            IN IF s \notin Selected
               THEN ok /\ shader' = [shader EXCEPT ![s] = "unselected"] /\ UNCHANGED <<disk, wrote>>
               ELSE IF ok /\ wanted
               THEN /\ shader' = [shader EXCEPT ![s] = "authorized"]
                    /\ disk' = [f \in DOMAIN disk \cup files |->
                                  IF f \in files THEN ShaderBytes(s, f[3]) ELSE disk[f]]
                    /\ wrote' = wrote \cup (files \ DOMAIN disk)
               ELSE shader' = [shader EXCEPT ![s] = "failed"] /\ UNCHANGED <<disk, wrote>>
    /\ UNCHANGED <<version, tvars, mvars, stage, seenOk, exit, tampered>>

(* shader_batch_is_complete                                                *)
ShadersComplete == \A s \in Shaders : shader[s] \in {"authorized", "unselected"}

(* dependency_authority_complete, with texture_batch_pre_material_complete *)
DependencyAuthority == TexturesComplete /\ ShadersComplete

BeginMaterials ==
    /\ stage = "shaders" /\ \A s \in Shaders : shader[s] # "pending"
    /\ StartMaterials(DependencyAuthority)
    /\ stage' = "materials"
    /\ UNCHANGED <<version, tvars, disk, wrote, spent, shader, seenOk, exit, tampered>>

MaterialPhase ==
    /\ stage = "materials" /\ MaterialStep
    /\ UNCHANGED <<stage, seenOk, exit, tampered>>

(* render_extract_json or render_extract_table look at every texture again *)
(* and report what they see.                                               *)
RenderReport ==
    /\ stage = "materials" /\ MaterialsDone
    /\ seenOk' = TexturesComplete
    /\ stage' = "exit"
    /\ UNCHANGED <<version, tvars, disk, wrote, spent, shader, mvars, exit, tampered>>

(* Fault: the report's verdict is not part of the exit code.               *)
FaultyExtracted ==
    /\ \E s \in Shaders : shader[s] = "authorized"
    /\ ShadersComplete /\ DependenciesClosed
(* The verdict of dxbc_sandbox_main on the whole extraction.               *)
Extracted ==
    /\ \E s \in Shaders : shader[s] = "authorized"
    /\ ShadersComplete
    /\ seenOk /\ TexturesComplete
    /\ MaterialsComplete /\ DependenciesClosed

(* The exit code; the report may fail to be written.                       *)
Exit ==
    /\ stage = "exit"
    /\ \E written \in BOOLEAN :
         /\ Fault(~written) /\ Spend(~written)
         /\ exit' = IF Extracted /\ written THEN 0 ELSE 1
    /\ stage' = "done"
    /\ UNCHANGED <<version, tvars, disk, wrote, shader, mvars, seenOk, tampered>>

-----------------------------------------------------------------------------
EditSource ==
    /\ stage \notin {"exit", "done"}
    /\ \E i \in DOMAIN version : EditInput(i)
    /\ UNCHANGED <<shader, mvars, stage, seenOk, exit, tampered>>

(* The next file of the record being published, which another program may  *)
(* create first.                                                           *)
Upcoming ==
    (IF stage = "textures" /\ tpc.at = "publish"
     THEN {<<TexturePath(tpc.n, TextureOrder[Len(tex[tpc.n].pub) + 1]), TextureBytes(tpc.n)>>} ELSE {})
    \cup
    (IF stage = "materials" /\ mpc.at = "publish"
     THEN LET p == MaterialOrder[Len(mat[mpc.m].pub) + 1]
          IN {<<MaterialPath(mpc.m, p), MaterialBytes(mpc.m, p)>>} ELSE {})

(* Another program replaces an output or creates the one about to be       *)
(* published, with the same bytes or with others.                          *)
ForeignFile ==
    /\ stage # "done" /\ spent.foreign < MaxForeign
    /\ \/ \E f \in DOMAIN disk :
            /\ disk[f] # Foreign
            /\ disk' = Put(disk, f, Foreign)
            /\ tampered' = tampered \cup {f}
       \/ \E u \in Upcoming, same \in BOOLEAN :
            /\ u[1] \notin DOMAIN disk
            /\ disk' = Put(disk, u[1], IF same THEN u[2] ELSE Foreign)
            /\ UNCHANGED tampered
    /\ spent' = [spent EXCEPT !.foreign = @ + 1]
    /\ UNCHANGED <<version, tvars, wrote, shader, mvars, stage, seenOk, exit>>

Done == stage = "done" /\ UNCHANGED vars

Next ==
    \/ TexturePhase \/ (\E s \in Shaders : ExtractShader(s)) \/ BeginMaterials
    \/ MaterialPhase \/ RenderReport \/ Exit
    \/ EditSource \/ ForeignFile \/ Done

Spec == Init /\ [][Next]_vars

-----------------------------------------------------------------------------
(***************************************************************************)
(* "no partially identified Material is exposed to Unity": a .mat or a     *)
(* texture asset that this run created has its metadata, and a .mat its    *)
(* dependency evidence, beside it at every moment, also when a later step  *)
(* of the record fails or is never taken.                                  *)
(***************************************************************************)
ImportableLast ==
    \A f \in wrote : f[1] # "shader" /\ f[4] \in {"mat", "asset"} =>
        \A p \in (IF f[4] = "mat" THEN {"meta", "evidence"} ELSE {"meta"}) :
            [f EXCEPT ![4] = p] \in DOMAIN disk

(***************************************************************************)
(* Every file a finished command has created is one of a record it reports *)
(* as published, or is named in the residue of a failed one: a failure     *)
(* between two files, a late revocation and an I/O error after the file    *)
(* was created leave nothing behind that the report does not name.         *)
(***************************************************************************)
CreatedIsAccounted ==
    stage = "done" => \A f \in wrote :
        \/ f[1] = "shader"
        \/ f[1] = "texture" /\ (tex[f[2]].status \in Published \/ f \in tex[f[2]].residue)
        \/ f[1] = "material" /\ (mat[f[2]].status \in Published \/ f \in mat[f[2]].residue)

(***************************************************************************)
(* "A targeted extraction is complete when every selected record was       *)
(* emitted": with exit code 0 every selected material is published, was    *)
(* published over its dependencies as recorded, all of its textures are    *)
(* exported, and no texture of the run was replaced before the last check. *)
(***************************************************************************)
ExitZeroIsExact ==
    exit = 0 =>
      /\ \A m \in Materials : MaterialStatus[m] = "ready" /\ ShaderOf[m] \in Selected =>
            /\ mat[m].status \in Published /\ ground[m]
            /\ \A i \in DOMAIN slots[m] : slots[m][i] = NullSlot \/ slots[m][i] \in Textures
      /\ \A t \in Textures : tex[t].decoded = 0
      /\ \A f \in tampered : f[1] # "texture"
=============================================================================
