--------------------------- MODULE MaterialBatch ---------------------------
(***************************************************************************)
(* material_batch_export: the materials of the selected shaders are        *)
(* published beside the shaders and textures they name.  The files of a    *)
(* shader are held open while its whole group of materials is published,   *)
(* those of the textures while one material is; both are compared again    *)
(* when they are closed, and what was published under them is revoked when *)
(* they have changed.                                                      *)
(***************************************************************************)
EXTENDS TextureBatch

CONSTANTS
    MaterialStatus, \* "ready", "shaderNull" or "notReady", per material
    ShaderOf,       \* the shader record of each material, 0 when invalid
    Selected,       \* the selected shader records
    Shaders,        \* the shader records of the catalog
    SlotChoices     \* what the texture properties of the materials may be:
                    \* textures, NullSlot, UnresolvedSlot, UnsupportedSlot

Materials == DOMAIN MaterialStatus
NullSlot == 0
UnresolvedSlot == -1
UnsupportedSlot == -2

ASSUME MaterialAssumption ==
    /\ Len(MaterialStatus) \in Nat /\ Materials = 1..Len(MaterialStatus)
    /\ \A m \in Materials : MaterialStatus[m] \in {"ready", "shaderNull", "notReady"}
    /\ ShaderOf \in [Materials -> Nat]
    /\ Cardinality(Shaders) \in Nat /\ Shaders = 1..Cardinality(Shaders) /\ Selected \subseteq Shaders
    /\ SlotChoices \subseteq
         [Materials -> Seq(Textures \cup {NullSlot, UnresolvedSlot, UnsupportedSlot})]

VARIABLES
    slots,     \* the texture properties of each material, in order
    shader,    \* the shader batch's result per record
    mat,       \* MaterialBatchRecordResult of each material
    mpc,       \* where the export is: shader group and material
    ground     \* history: dependencies as recorded when a .mat appeared

mvars == <<slots, mat, mpc, ground>>

NewMaterial == [status |-> "pending", failure |-> "none", deps |-> <<>>, closed |-> FALSE,
                pre |-> <<>>, pub |-> <<>>, residue |-> {}, reported |-> FALSE]

-----------------------------------------------------------------------------
(* The files of a shader and what the batch recorded of them; the meta is  *)
(* a function of the GUID derived from the catalogued object.              *)
ShaderPath(s, part) == <<"shader", s, part>>
ShaderBytes(s, part) == <<"shader", s, part>>
ShaderParts == {"shader", "meta"}

(* open_published_shader_dependencies                                      *)
ShaderOnDisk(s) ==
    \A p \in ShaderParts : At(disk, ShaderPath(s, p)) = ShaderBytes(s, p)

(* The references the YAML of a material holds name each texture's GUID,   *)
(* which is derived from its pixels; file name and GUID of the material    *)
(* are derived from the YAML.                                              *)
References(m) == [i \in DOMAIN slots[m] |->
                    IF slots[m][i] = NullSlot THEN <<>>
                    ELSE <<slots[m][i], tex[slots[m][i]].pixels>>]
MaterialPath(m, part) == <<"material", m, References(m), part>>
MaterialBytes(m, part) == <<"material", part, References(m)>>

(* Fault: the material is published before its companions.                 *)
FaultyMaterialOrder == <<"mat", "meta", "evidence">>
(* "Publish the importable .mat last."                                     *)
MaterialOrder == <<"meta", "evidence", "mat">>

-----------------------------------------------------------------------------
(* material_record_fail: the first failure is kept.                        *)
MaterialFail(records, S, why) ==
    [m \in Materials |->
        IF m \in S
        THEN [records[m] EXCEPT !.status = "failed",
                                !.failure = IF @ = "none" THEN why ELSE @]
        ELSE records[m]]

(* The files of a record whose publication created them.                   *)
Emitted(m) == {MaterialPath(m, MaterialOrder[i]) :
                 i \in {i \in DOMAIN mat[m].pub : mat[m].pub[i] = "emitted"}}

(***************************************************************************)
(* The first loop: which records take part, and in which state the others  *)
(* are left.                                                               *)
(***************************************************************************)
Classified(m, authority) ==
    LET Left(status, why) == [NewMaterial EXCEPT !.status = status, !.failure = why]
    IN IF MaterialStatus[m] = "shaderNull" THEN Left("unassociated", "none")
       ELSE IF MaterialStatus[m] = "notReady" THEN Left("failed", "materialNotReady")
       ELSE IF ShaderOf[m] \notin Shaders THEN Left("failed", "shaderIndex")
       ELSE IF ShaderOf[m] \notin Selected THEN Left("unselected", "none")
       ELSE IF authority THEN NewMaterial ELSE Left("failed", "dependencyAuthority")

MaterialInit ==
    /\ slots \in SlotChoices
    /\ mat = [m \in Materials |-> NewMaterial]
    /\ mpc = [at |-> "idle", s |-> 0, m |-> 0]
    /\ ground = [m \in Materials |-> FALSE]

StartMaterials(authority) ==
    /\ mpc.at = "idle"
    /\ mat' = [m \in Materials |-> Classified(m, authority)]
    /\ mpc' = [at |-> "group", s |-> 1, m |-> 0]
    /\ UNCHANGED <<slots, ground>>

(* The materials of the group, whatever has become of them; an incomplete  *)
(* authority leaves the groups empty.                                      *)
Group(s) == {m \in Materials : MaterialStatus[m] = "ready" /\ ShaderOf[m] = s /\ s \in Selected
                               /\ mat[m].failure # "dependencyAuthority"}
NextIn(s, after) == IF \E m \in Group(s) : m > after
                    THEN [at |-> "material", s |-> s,
                          m |-> CHOOSE m \in Group(s) : m > after /\
                                  \A n \in Group(s) : n > after => m <= n]
                    ELSE [at |-> "close", s |-> s, m |-> 0]

(***************************************************************************)
(* The head of a group: the shader record is the catalogued one, was       *)
(* authorized and has its metadata, and both of its files are what the     *)
(* shader batch recorded.  Otherwise the whole group fails.                *)
(***************************************************************************)
OpenGroup ==
    /\ mpc.at = "group" /\ mpc.s \in Shaders
    /\ LET s == mpc.s IN
       \E broken \in BOOLEAN :
         /\ broken => Group(s) # {} /\ shader[s] = "authorized" /\ ShaderOnDisk(s)
         /\ Fault(broken) /\ Spend(broken)
         /\ IF Group(s) = {} THEN mpc' = [mpc EXCEPT !.s = @ + 1] /\ UNCHANGED mat
            ELSE IF shader[s] # "authorized" \/ ~ShaderOnDisk(s) \/ broken
            THEN /\ mat' = MaterialFail(mat, Group(s), IF shader[s] # "authorized"
                                          THEN "shaderNotReady" ELSE "shaderIdentity")
                 /\ mpc' = [mpc EXCEPT !.s = @ + 1]
            ELSE mpc' = NextIn(s, 0) /\ UNCHANGED mat
    /\ UNCHANGED <<version, tvars, disk, wrote, shader, slots, ground>>

(* native_texture_batch_resolve_reference: the answer to a request for a   *)
(* resolved object; an exported one comes with a lease on its files.       *)
TextureReference(slot) ==
    IF ~intact THEN "unexported"
    ELSE IF slot = UnsupportedSlot THEN "unsupported"
    ELSE IF Exported(slot) THEN "exported" ELSE "unexported"

(* One turn of project_texture_dependencies.                               *)
DependencyStatus(slot) ==
    IF slot = NullSlot THEN "null"
    ELSE IF slot = UnresolvedSlot THEN "unresolved" ELSE TextureReference(slot)

(* publish_material looks at the three files before it makes any.          *)
Examine(m) ==
    [i \in DOMAIN MaterialOrder |->
        Preflight(disk, MaterialPath(m, MaterialOrder[i]), MaterialBytes(m, MaterialOrder[i]))]

(***************************************************************************)
(* publish_material_record up to the first file: every property is         *)
(* resolved and the leases of the exported ones are taken; a failed one    *)
(* ends the record after the rest were tried.  Then publish_material makes *)
(* the YAML and examines the three files.                                  *)
(***************************************************************************)
Project ==
    /\ mpc.at = "material"
    /\ LET m == mpc.m
           deps == [i \in DOMAIN slots[m] |-> DependencyStatus(slots[m][i])]
           bad == Range(deps) \ {"null", "exported"}
           found == IF bad # {} THEN <<>> ELSE Examine(m)
       IN \E broken \in BOOLEAN :
            /\ broken => bad = {}
            /\ Fault(broken) /\ Spend(broken)
            /\ mat' = LET projected == [mat EXCEPT ![m].deps = deps, ![m].closed = (bad = {}), ![m].pre = found]
                      IN IF bad # {} \/ broken \/ "collision" \in Range(found)
                         THEN MaterialFail(projected, {m}, IF bad # {} THEN "texture" ELSE "notPublished")
                         ELSE projected
            /\ mpc' = [mpc EXCEPT !.at = IF mat'[m].status = "failed" THEN "release" ELSE "publish"]
    /\ UNCHANGED <<version, tvars, disk, wrote, shader, slots, ground>>

(* What the recorded dependencies are on disk now: history only.           *)
Grounded(m) == ShaderOnDisk(ShaderOf[m]) /\ \A t \in Range(slots[m]) \cap Textures : Exported(t)

(* publish_material: one publication, and the ledger of what a failure     *)
(* leaves behind.                                                          *)
PublishMaterial ==
    /\ mpc.at = "publish"
    /\ LET m == mpc.m
           k == Len(mat[m].pub) + 1
           f == MaterialPath(m, MaterialOrder[k])
           bytes == MaterialBytes(m, MaterialOrder[k])
       IN \E out \in {PublishExact(disk, f, bytes)} \cup PublishFails(disk, f, bytes) :
            /\ Fault(out.is = "ioError") /\ Spend(out.is = "ioError")
            /\ disk' = out.now
            /\ wrote' = wrote \cup (DOMAIN disk' \ DOMAIN disk)
            /\ ground' = IF MaterialOrder[k] = "mat" THEN [ground EXCEPT ![m] = Grounded(m)] ELSE ground
            /\ LET pub == Append(mat[m].pub, out.is)
               IN IF out.is \in Published
                  THEN /\ mat' = [mat EXCEPT ![m].pub = pub,
                                    ![m].status = IF k < Len(MaterialOrder) THEN @
                                       ELSE IF "emitted" \in Range(pub) THEN "emitted" ELSE "unchanged"]
                       /\ mpc' = IF k < Len(MaterialOrder) THEN mpc ELSE [mpc EXCEPT !.at = "release"]
                  ELSE /\ mat' = [MaterialFail(mat, {m}, "notPublished") EXCEPT
                                    ![m].pub = pub,
                                    ![m].residue = Emitted(m) \cup
                                       (IF ResiduePossible(mat[m].pre[k], out, f, bytes) THEN {f} ELSE {})]
                       /\ mpc' = [mpc EXCEPT !.at = "release"]
    /\ UNCHANGED <<version, tvars, shader, slots>>

(* Fault: the leases are released without comparing the files.             *)
FaultyTexturesStable(m) == TRUE
(* close_texture_publication_leases                                        *)
TexturesStable(m) ==
    \A i \in DOMAIN mat[m].deps : mat[m].deps[i] = "exported" => Exported(slots[m][i])

(* The end of publish_material_record.                                     *)
ReleaseTextures ==
    /\ mpc.at = "release"
    /\ LET m == mpc.m IN
       \E broken \in BOOLEAN :
         /\ broken => "exported" \in Range(mat[m].deps)
         /\ Fault(broken) /\ Spend(broken)
         /\ mat' = IF TexturesStable(m) /\ ~broken THEN mat
                   ELSE [MaterialFail([mat EXCEPT ![m].failure = "none"], {m}, "textureIdentity") EXCEPT
                           ![m].residue = @ \cup Emitted(m)]
         /\ mpc' = NextIn(mpc.s, m)
    /\ UNCHANGED <<version, tvars, disk, wrote, shader, slots, ground>>

(* close_published_shader_dependencies                                     *)
ShaderStable(s) == ShaderOnDisk(s)

(***************************************************************************)
(* The end of a group.  A changed shader revokes every material of it; a   *)
(* texture that changed keeps its name in the report.                      *)
(***************************************************************************)
CloseGroup ==
    /\ mpc.at = "close"
    /\ LET s == mpc.s IN
       \E broken \in BOOLEAN :
         /\ Fault(broken) /\ Spend(broken)
         /\ mat' = [m \in Materials |->
               IF m \notin Group(s) THEN mat[m]
               ELSE IF ShaderStable(s) /\ ~broken THEN [mat[m] EXCEPT !.reported = TRUE]
               ELSE [mat[m] EXCEPT !.status = "failed", !.reported = TRUE,
                                   !.failure = IF @ = "textureIdentity" THEN @ ELSE "shaderIdentity",
                                   !.residue = @ \cup Emitted(m)]]
         /\ mpc' = [at |-> "group", s |-> s + 1, m |-> 0]
    /\ UNCHANGED <<version, tvars, disk, wrote, shader, slots, ground>>

MaterialsDone == mpc.at = "group" /\ mpc.s \notin Shaders

(* material_batch_is_complete                                              *)
MaterialsComplete ==
    \A m \in Materials :
      \/ mat[m].status \in {"unselected", "unassociated"}
      \/ /\ mat[m].status \in Published /\ mat[m].failure = "none" /\ mat[m].residue = {}
         /\ Range(mat[m].pub) \subseteq Published /\ Len(mat[m].pub) = Len(MaterialOrder)
         /\ (mat[m].status = "emitted") = ("emitted" \in Range(mat[m].pub))

(* closed_dependency_evidence_is_valid: what was recorded of a property    *)
(* agrees with its status.                                                 *)
ClosedEvidence(m, i) ==
    \/ mat[m].deps[i] = "null" /\ slots[m][i] = NullSlot
    \/ mat[m].deps[i] = "exported" /\ slots[m][i] \in Textures

(* material_batch_texture_dependencies_are_closed                          *)
DependenciesClosed ==
    /\ MaterialsComplete
    /\ \A m \in Materials : mat[m].status \in Published =>
          mat[m].closed /\ \A i \in DOMAIN mat[m].deps : ClosedEvidence(m, i)

MaterialStep == OpenGroup \/ Project \/ PublishMaterial \/ ReleaseTextures \/ CloseGroup

-----------------------------------------------------------------------------
(***************************************************************************)
(* A material that is reported as published was published while the files  *)
(* it refers to were the ones the batches recorded: no material names a    *)
(* shader or a texture that was something else when its .mat appeared.     *)
(* The comparison takes place only afterwards, for the textures at the end *)
(* of the record, for the shader at the end of the group.                  *)
(***************************************************************************)
MaterialsGrounded ==
    \A m \in Materials : mat[m].reported /\ mat[m].status \in Published => ground[m]
=============================================================================
