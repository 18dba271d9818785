--------------------------- MODULE ShaderContract ---------------------------
(***************************************************************************)
(* unity_shader_contract_capture: the player package, the lift of the      *)
(* target, the published source, its import and bundle, the native         *)
(* retrieval, one subject, a piece of evidence per plane and the           *)
(* certificate.  The bundle gate also runs as a command of its own.  Other *)
(* programs may replace any of the files at any moment.                    *)
(***************************************************************************)
EXTENDS ShaderLabLift, BundleGate, WholeCertificate

CONSTANT
    Quirks      \* how the rebuilt shader may turn out to differ from the released one

ASSUME QuirksKnown ==
    Quirks \subseteq {"none", "payload", "form", "schema", "render state", "dependencies",
                      "no authority", "invalid", "profile", "no structure",
                      "open dependencies", "bindings", "no bindings"}

Target == [bytes |-> <<"target">>, stamp |-> 1]   \* the retained snapshot
Inputs == {"source", "launcher", "bridge"}
Profile == <<"profile">>                          \* options.lift.profile

VARIABLES
    cpc,        \* where unity_shader_contract_capture is
    quirk,      \* the difference the rebuilt shader turns out to have
    views,      \* the views held: of the player package, the inputs, the tools
    contract    \* the contract and its report

vars == <<lvars, gvars, cpc, quirk, views, contract>>

NewContract ==
    [status |-> "running", player |-> Absent, profile |-> <<>>, sourcePublished |-> FALSE, imported |-> <<>>,
     candidate |-> Absent, native |-> <<>>, subject |-> <<>>, cert |-> [status |-> "none", logical |-> FALSE],
     planes |-> [p \in LogicalPlanes |-> NotRun]]
NoViews == [p \in {"player", "tool"} \cup Inputs |-> Absent]

Init ==
    /\ LiftInit /\ quirk = "none" /\ views = NoViews /\ contract = NewContract
    /\ \/ cpc = "player" /\ GateInit(Absent) /\ policy = "fail" /\ keep = "failure"
       \/ /\ cpc = "bundle" /\ GateInit([bytes |-> <<"source">>, stamp |-> 1])
          /\ policy \in {"fail", "allow"} /\ keep \in {"never", "failure", "always"}

Stop(status) == contract' = [contract EXCEPT !.status = status] /\ cpc' = "done"
OnlyContract == UNCHANGED <<lvars, disk, wrote, keep, policy, gate, editor>>

(* shader_catalog_decode_object of the target: the retained snapshot is    *)
(* checked against the file before and after.                              *)
TargetDecodes == Unchanged("target", Target)
CandidateDecodes == Unchanged("output", contract.candidate)

(* shader_runtime_capture_begin and the profile of the metadata file.      *)
OpenPlayer ==
    /\ cpc = "player"
    /\ \E ok \in BOOLEAN :
         /\ Fault(~ok) /\ Spend(~ok)
         /\ IF ok THEN views' = [views EXCEPT !["player"] = disk["player"]] /\ cpc' = "player close" /\ UNCHANGED contract
            ELSE Stop("player unavailable") /\ UNCHANGED views
    /\ UNCHANGED quirk /\ OnlyContract

(* shader_runtime_capture_finish finds the same files, unchanged.          *)
ClosePlayer ==
    /\ cpc = "player close"
    /\ IF Unchanged("player", views["player"])
       THEN contract' = [contract EXCEPT !.player = disk["player"], !.profile = Profile] /\ cpc' = "lift"
       ELSE Stop("player unavailable")
    /\ UNCHANGED <<spent, views, quirk>> /\ OnlyContract

-----------------------------------------------------------------------------
(* unity_shaderlab_lift_capture: the target, the run, the target again.    *)
BeginLift ==
    /\ cpc = "lift" /\ lpc.step = "idle"
    /\ IF TargetDecodes
       THEN lpc' = [Idle EXCEPT !.step = "start"] /\ UNCHANGED <<contract, cpc>>
       ELSE Stop("lift unavailable") /\ UNCHANGED lpc
    /\ UNCHANGED <<authority, asked, ctl, changed, pinned, compiles, art, accepted, gvars, views>> /\ UNCHANGED quirk

RunLift ==
    /\ cpc = "lift" /\ (LiftStep \/ Revise \/ Interrupt)
    /\ UNCHANGED <<gvars, views, contract, cpc>> /\ UNCHANGED quirk

(* What the artifact a writes into the source file.                        *)
SourceBytes(a) == <<"shader", a>>

(* Of the finished run only the accepted artifact is read again; the rest  *)
(* is forgotten, which keeps the states few.                               *)
EndLift ==
    /\ cpc = "lift" /\ lpc.step = "ended"
    /\ IF accepted # None /\ TargetDecodes THEN cpc' = "publish" /\ UNCHANGED contract
       ELSE Stop("lift unavailable")
    /\ lpc' = Idle /\ compiles' = 0 /\ asked' = "verified" /\ ctl' = "verified"
    /\ authority' = pinned
    /\ art' = [a \in Artifacts |-> IF a = accepted THEN art[a] ELSE NewArtifact]
    /\ UNCHANGED <<changed, pinned, accepted, gvars, views>> /\ UNCHANGED quirk

(* common_file_write_new_atomic of the accepted source.                    *)
PublishSource ==
    /\ cpc = "publish"
    /\ \E ok \in BOOLEAN :
         /\ Fault(~ok) /\ Spend(~ok)
         /\ IF ok THEN /\ disk' = Written("source", SourceBytes(accepted))
                       /\ wrote' = wrote \cup {"source"}
                       /\ contract' = [contract EXCEPT !.sourcePublished = TRUE]
                       /\ cpc' = "inputs"
            ELSE Stop("source unavailable") /\ UNCHANGED <<disk, wrote>>
    /\ UNCHANGED <<lvars, keep, policy, gate, editor, views>> /\ UNCHANGED quirk

-----------------------------------------------------------------------------
(* unity_shader_bundle_capture: the inputs are held over the gate, the     *)
(* published bundle is catalogued, and the inputs are closed.              *)
OpenInputs ==
    /\ cpc = "inputs"
    /\ views' = [p \in DOMAIN views |-> IF p \in Inputs THEN disk[p] ELSE views[p]]
    /\ gate' = [gate EXCEPT !.at = "begin"] /\ cpc' = "import"
    /\ UNCHANGED <<lvars, disk, wrote, spent, keep, policy, editor, contract>> /\ UNCHANGED quirk

(* The bundle command of its own: unity_shader_bundle_gate_run and no      *)
(* more.                                                                   *)
BeginBundle ==
    /\ cpc = "bundle" /\ gate.at = "idle"
    /\ gate' = [gate EXCEPT !.at = "begin"]
    /\ UNCHANGED <<lvars, disk, wrote, spent, keep, policy, editor, views, contract, cpc, quirk>>
EndBundle ==
    /\ cpc = "bundle" /\ gate.at = "ended" /\ cpc' = "done"
    /\ UNCHANGED <<spent, views, contract, quirk>> /\ OnlyContract

RunGate ==
    /\ cpc \in {"import", "bundle"} /\ GateStep
    /\ UNCHANGED <<lvars, views, contract, cpc>> /\ UNCHANGED quirk

(* shader_catalog_build of the output and the decode of its one record.    *)
(* What the rebuilt object is shows here.                                  *)
CatalogBundle ==
    /\ cpc = "import" /\ gate.at = "ended"
    /\ LET found == disk["output"]
           ok == gate.status = "passed" /\ gate.published /\ editor.diags = "none" /\ found.bytes = gate.sha
       IN contract' = [contract EXCEPT !.candidate = IF ok THEN found ELSE Absent]
    /\ quirk' \in IF contract'.candidate = Absent THEN {quirk} ELSE Quirks
    /\ cpc' = "inputs close"
    /\ UNCHANGED <<spent, views>> /\ OnlyContract

(* Fault: the views are closed without a look at the result.               *)
FaultyInputsHeld == TRUE
InputsHeld == \A p \in Inputs : Unchanged(p, views[p])
CloseInputs ==
    /\ cpc = "inputs close"
    /\ IF contract.candidate # Absent /\ InputsHeld
       THEN /\ contract' = [contract EXCEPT !.imported = views["source"].bytes]
            /\ cpc' \in {"native", "bind"}   \* options->native is given or not
       ELSE Stop("import unavailable")
    /\ UNCHANGED <<spent, views, quirk>> /\ OnlyContract

-----------------------------------------------------------------------------
(* unity_native_runtime_capture.  Whatever goes wrong, the contract goes   *)
(* on without a native observation.                                        *)
OpenNative ==
    /\ cpc = "native"
    /\ IF TargetDecodes /\ CandidateDecodes
       THEN views' = [views EXCEPT !["tool"] = disk["tool"]] /\ cpc' = "native run"
       ELSE cpc' = "bind" /\ UNCHANGED views
    /\ UNCHANGED <<spent, contract, quirk>> /\ OnlyContract

(* The collector runs under a time limit and reports on the artifacts and  *)
(* the player it was given, or on others, or fails.                        *)
RunNative ==
    /\ cpc = "native run"
    /\ \E saw \in {"equal", "other", "failed"} :
         /\ Fault(saw # "equal") /\ Spend(saw # "equal")
         /\ contract' = [contract EXCEPT !.native =
               IF saw = "equal" /\ TargetDecodes /\ CandidateDecodes
               THEN <<Target, contract.candidate, contract.player>> ELSE <<>>]
    /\ cpc' = "native close"
    /\ UNCHANGED <<views, quirk>> /\ OnlyContract

CloseNative ==
    /\ cpc = "native close"
    /\ contract' = IF Unchanged("tool", views["tool"]) THEN contract
                   ELSE [contract EXCEPT !.native = <<>>]
    /\ cpc' = "bind"
    /\ UNCHANGED <<spent, views, quirk>> /\ OnlyContract

-----------------------------------------------------------------------------
SameSource == contract.imported = SourceBytes(accepted)
(* The player package was matched against the profile the lift compiled    *)
(* under: both are the profile of the options.                             *)
SameProfile == contract.profile = Profile
(* bind_subject: everything the evidence is about.                         *)
Bind ==
    /\ cpc = "bind"
    /\ IF SameSource /\ SameProfile
       THEN /\ contract' = [contract EXCEPT !.subject =
                 <<Target, SourceBytes(accepted), contract.candidate, contract.player, contract.native>>]
            /\ cpc' = "evidence"
       ELSE Stop("subject unavailable")
    /\ UNCHANGED <<spent, views, quirk>> /\ OnlyContract

(* Which parts of the rebuilt object are not those of the released one.  A *)
(* "profile" object is of another serialized profile, and an "invalid" one *)
(* has its authority refused, or is called different with no difference in *)
(* its bytes.  "bindings" are those of a compile whose reflection was only *)
(* compatible, and "no bindings" those that have no digest.                *)
Differs(part) ==
    \/ quirk = part
    \/ part = "payload" /\ quirk \in {"form", "render state", "dependencies", "profile"}
Compared(id, part) == Item(id, part, IF Differs(part) THEN "another" ELSE part)

Order == <<"variant domain", "full dxbc", "diagnostics", "reflection", "importer", "player profile",
           "reextraction", "render state", "structural", "dependency closure", "runtime selection">>
NextPlane == LET left == {i \in DOMAIN Order : contract.planes[Order[i]].status = "not run"}
             IN IF left = {} THEN 0 ELSE CHOOSE i \in left : \A j \in left : i <= j

(* unity_shaderlab_lift_capture_make_evidence: one item per matched row,   *)
(* and no row may be without its item.                                     *)
RowItems(plane) ==
    LET row(n) == CHOOSE d \in art[accepted].proved :
                     Cardinality({e \in art[accepted].proved :
                        e[1] < d[1] \/ (e[1] = d[1] /\ e[2] <= d[2])}) = n
        differs == \/ plane = "diagnostics" /\ "informed" \in art[accepted].marks
                   \/ plane = "reflection" /\ Differs("bindings")
        observed == IF differs THEN "another" ELSE "clean"
    IN [n \in 1..Cardinality(art[accepted].proved) |-> Item(row(n), "clean", observed)]

(* The items of the other planes, or none when a plane is unavailable.     *)
ImporterItems == <<Item("source", SourceBytes(accepted), contract.imported),
                   Item("release", contract.subject[3], contract.candidate)>>
ProfileItems == <<Item("profile", contract.subject[4], contract.player)>>
ReextractionItems ==
    IF quirk = "no authority" THEN <<>>
    ELSE <<Compared("payload", "payload"), Compared("schema", "schema")>>
RenderStateItems == <<Compared("state", "render state")>>
StructuralItems ==
    IF quirk = "no structure" THEN <<>>
    ELSE <<Compared("parsed form", "form"), Compared("schema", "schema"), Compared("emitted", "form")>>
DependencyItems ==
    IF quirk = "open dependencies" THEN <<>> ELSE <<Compared("dependencies", "dependencies")>>
SelectionItems ==
    IF contract.native = <<>> \/ quirk \in {"no structure", "open dependencies"} THEN <<>>
    ELSE <<Compared("payload", "payload"), Compared("schema", "schema"),
           Compared("parsed form", "form"), Compared("dependencies", "dependencies")>>
ItemsOf(plane) ==
    CASE plane \in CompilePlanes -> RowItems(plane)
      [] plane = "importer" -> ImporterItems
      [] plane = "player profile" -> ProfileItems
      [] plane = "reextraction" -> ReextractionItems
      [] plane = "render state" -> RenderStateItems
      [] plane = "structural" -> StructuralItems
      [] plane = "dependency closure" -> DependencyItems
      [] plane = "runtime selection" -> SelectionItems

(* The planes that decode an object again before they compare.             *)
Decodes(plane) ==
    /\ plane \in {"importer", "reextraction", "render state", "structural",
                  "dependency closure", "runtime selection"} => CandidateDecodes
    /\ plane \in {"reextraction", "render state"} => TargetDecodes

(* The planes whose producer gives no evidence at all: bindings without a  *)
(* digest, an object that cannot be compared, and a render state under     *)
(* another serialized profile.                                             *)
Refused(plane) ==
    \/ plane = "reflection" /\ quirk = "no bindings"
    \/ plane \in {"reextraction", "render state"} /\ quirk = "invalid"
    \/ plane = "render state" /\ quirk = "profile"

(* collect_evidence, one plane.                                            *)
Collect ==
    /\ cpc = "evidence" /\ NextPlane # 0
    /\ LET plane == Order[NextPlane]
           items == ItemsOf(plane)
           e == IF items = <<>> THEN Unavailable(plane, contract.subject, 4)
                ELSE Comparison(plane, contract.subject, items)
       IN IF Decodes(plane) /\ ~Refused(plane) /\ (items = <<>> \/ Comparable(items))
          THEN contract' = [contract EXCEPT !.planes[plane] = e] /\ UNCHANGED cpc
          ELSE Stop("evidence unavailable")
    /\ UNCHANGED <<spent, views, quirk>> /\ OnlyContract

(* The certificate over the whole mask; captured is not yet equivalent.    *)
Certify ==
    /\ cpc = "evidence" /\ NextPlane = 0
    /\ IF Addable(contract.subject, contract.planes)
       THEN /\ contract' = [contract EXCEPT !.status = "captured",
                  !.cert = Evaluate(contract.subject, contract.native # <<>> /\ quirk # "open dependencies",
                                    contract.planes)]
            /\ cpc' = "done"
       ELSE Stop("evidence unavailable")
    /\ UNCHANGED <<spent, views, quirk>> /\ OnlyContract

EditFile ==
    /\ cpc # "done" /\ \E p \in Paths : Edit(p)
    /\ UNCHANGED <<lvars, cpc, views, contract>> /\ UNCHANGED quirk

Done == cpc = "done" /\ UNCHANGED vars

Next ==
    \/ OpenPlayer \/ ClosePlayer \/ BeginLift \/ RunLift \/ EndLift \/ PublishSource
    \/ OpenInputs \/ BeginBundle \/ EndBundle \/ RunGate \/ CatalogBundle \/ CloseInputs
    \/ OpenNative \/ RunNative \/ CloseNative \/ Bind \/ Collect \/ Certify
    \/ EditFile \/ Done

Spec == Init /\ [][Next]_vars

-----------------------------------------------------------------------------
(***************************************************************************)
(* "One accepted source feeds both the compiler authority and the actual   *)
(* isolated import": the contract captured is about the bundle the Editor  *)
(* hashed, in a project made of exactly the accepted source with the       *)
(* bridge that was held, every plane is evidence of the one subject, and a *)
(* native observation is one of that target, bundle and player, whatever   *)
(* was replaced between the steps and whoever died.  The bundle is the one *)
(* built from that source unless it was replaced in the project before the *)
(* Editor hashed it, which no step of the capture can tell.                *)
(***************************************************************************)
CapturedIsOneSubject ==
    contract.status = "captured" =>
        /\ contract.candidate.bytes = editor.report.sha
        /\ editor.swapped \/ contract.candidate.bytes = <<"bundle", SourceBytes(accepted)>>
        /\ editor.copy = SourceBytes(accepted) /\ editor.by = views["bridge"].bytes
        /\ \A p \in LogicalPlanes : contract.planes[p].subject = contract.subject
        /\ contract.native # <<>> => contract.native = <<Target, contract.candidate, contract.player>>

(***************************************************************************)
(* Logical equivalence is certified only for a shader that is the released *)
(* one in every part, compiled clean, and was observed on the player.      *)
(***************************************************************************)
LogicalIsExact ==
    contract.cert.logical =>
        /\ quirk = "none" /\ art[accepted].marks = {} /\ contract.native # <<>>
        /\ editor.diags = "none" /\ art[accepted].proved = Domain

(***************************************************************************)
(* The gate reports success only for the bundle the Editor hashed without  *)
(* a broken policy, ending on its own with code 0: neither a report left   *)
(* by an Editor that died nor a bundle replaced in the project after its   *)
(* digest was taken passes.  Between the build and the digest the Editor   *)
(* holds nothing: a bundle replaced then passes, and it is the only one    *)
(* that does without being what Unity built from the candidate.            *)
(***************************************************************************)
PassedIsBuilt ==
    gate.at = "ended" /\ gate.status = "passed" =>
        /\ gate.published /\ gate.view.bytes = editor.report.sha
        /\ editor.swapped \/ gate.view.bytes = <<"bundle", editor.copy>>
        /\ editor.exit = 0 /\ ~PolicyBreak(editor.diags) /\ editor.report.status = "passed"

=============================================================================
