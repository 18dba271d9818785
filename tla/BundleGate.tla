----------------------------- MODULE BundleGate -----------------------------
(***************************************************************************)
(* unity_shader_bundle_gate_run and the Editor it launches: the candidate  *)
(* is copied into a private project, the Editor imports it, builds an      *)
(* AssetBundle and reports, and the launcher compares the report, the exit *)
(* code and the bundle before it publishes.  The Editor is a process of    *)
(* its own and may die at any moment.                                      *)
(*                                                                         *)
(* A file is its bytes and a stamp that every write renews; a view is the  *)
(* file as it was when the view was opened, and closing it tells whether   *)
(* the stamp is still the same.                                            *)
(***************************************************************************)
EXTENDS Naturals

CONSTANTS
    MaxEdits,   \* bound: files other programs replace
    MaxFaults   \* bound: calls of the run that fail

Paths == {"target", "player", "source", "launcher", "bridge", "internal", "output", "tool"}
Absent == [bytes |-> <<>>, stamp |-> 0]
Foreign == <<"foreign">>

VARIABLES
    disk,     \* the files
    wrote,    \* the files this run has created
    spent,    \* edits and faults used up
    keep,     \* options.keep_policy
    policy,   \* options.warning_policy
    gate,     \* the launcher
    editor    \* the Editor process and the project it works in
gvars == <<disk, wrote, spent, keep, policy, gate, editor>>

Fault(bad) == bad => spent.faults < MaxFaults
Spend(bad) == spent' = [spent EXCEPT !.faults = @ + IF bad THEN 1 ELSE 0]
Written(p, bytes) == [disk EXCEPT ![p] = [bytes |-> bytes, stamp |-> @.stamp + 1]]
Exists(p) == disk[p].bytes # <<>>
Unchanged(p, view) == disk[p] = view

NoReport == [status |-> "none", sha |-> <<>>, diags |-> "none"]
NoEditor == [at |-> "none", copy |-> <<>>, by |-> <<>>, diags |-> "none", verdict |-> "none", sha |-> <<>>,
             report |-> NoReport, exit |-> 0, swapped |-> FALSE]
NewGate == [at |-> "idle", status |-> "running", view |-> Absent, workspace |-> FALSE,
            preserved |-> FALSE, published |-> FALSE, sha |-> <<>>]

(* The options and the files before the run; source is the candidate, or   *)
(* nothing yet.                                                            *)
GateInit(source) ==
    /\ gate = NewGate /\ editor = NoEditor /\ wrote = {} /\ spent = [edits |-> 0, faults |-> 0]
    /\ disk = [p \in Paths |->
                 CASE p = "source" -> source
                   [] p \in {"internal", "output"} -> Absent
                   [] OTHER -> [bytes |-> <<p>>, stamp |-> 1]]

-----------------------------------------------------------------------------
(* A step of the launcher that fails the run with status s.                *)
GateEnds(s) == gate' = [gate EXCEPT !.at = "cleanup", !.status = s]

(* Arguments, output paths and candidates; nothing exists yet.             *)
GateBegin ==
    /\ gate.at = "begin"
    /\ IF Exists("output") THEN gate' = [gate EXCEPT !.at = "ended", !.status = "output exists"]
       ELSE IF ~Exists("source") THEN gate' = [gate EXCEPT !.at = "ended", !.status = "no candidates"]
       ELSE gate' = [gate EXCEPT !.at = "prepare"]
    /\ UNCHANGED <<disk, wrote, spent, keep, policy, editor>>

(* make_temporary_workspace and prepare_project, the bridge and the        *)
(* candidate copied; any of them may fail with the workspace there.        *)
GatePrepare ==
    /\ gate.at = "prepare"
    /\ \E ok \in {"yes", "no workspace", "no copy"} :
         /\ Fault(ok # "yes") /\ Spend(ok # "yes")
         /\ IF ok = "yes" /\ Exists("source") /\ Exists("bridge")
            THEN /\ gate' = [gate EXCEPT !.at = "launch", !.workspace = TRUE]
                 /\ editor' = [NoEditor EXCEPT !.copy = disk["source"].bytes, !.by = disk["bridge"].bytes]
            ELSE /\ gate' = [gate EXCEPT !.at = "cleanup", !.status = "io failed",
                                         !.workspace = (ok # "no workspace")]
                 /\ UNCHANGED editor
    /\ UNCHANGED <<disk, wrote, keep, policy>>

(* common_process_run starts the Editor and waits without a limit.         *)
GateLaunch ==
    /\ gate.at = "launch"
    /\ \E ok \in BOOLEAN :
         /\ Fault(~ok) /\ Spend(~ok)
         /\ IF ok THEN gate' = [gate EXCEPT !.at = "wait"] /\ editor' = [editor EXCEPT !.at = "import"]
            ELSE GateEnds("process failed") /\ UNCHANGED editor
    /\ UNCHANGED <<disk, wrote, keep, policy>>

-----------------------------------------------------------------------------
(* PolicyBreak: an error, or a warning the policy does not allow.          *)
PolicyBreak(diags) == diags = "error" \/ (diags = "warning" /\ policy = "fail")
ExitOf(status) ==
    CASE status = "passed" -> 0 [] status = "diagnostics found" -> 2
      [] status = "target unavailable" -> 4 [] status = "backend unavailable" -> 5
      [] status = "build failed" -> 6 [] OTHER -> 3
Truncated == [NoReport EXCEPT !.status = "truncated"]
(* Run catches an exception: no bundle stays, and once there are           *)
(* candidates to report on the report says so, unless writing it fails,    *)
(* which leaves what was there or a part of the report.                    *)
Throws(listed) ==
    /\ disk' = [disk EXCEPT !["internal"] = Absent]
    /\ \E r \in {editor.report} \cup
                (IF listed THEN {[status |-> "build failed", sha |-> <<>>, diags |-> editor.diags], Truncated}
                 ELSE {}) :
         editor' = [editor EXCEPT !.at = "exit", !.exit = 3, !.report = r]

(* Run up to Import: the version, the target, the backend, then every      *)
(* candidate imported and its messages collected.                          *)
EditorImport ==
    /\ editor.at = "import"
    /\ \/ \E v \in {"target unavailable", "backend unavailable"} :
            Fault(TRUE) /\ Spend(TRUE) /\ UNCHANGED disk
            /\ editor' = [editor EXCEPT !.at = "report", !.verdict = v]
       \/ Fault(TRUE) /\ Spend(TRUE) /\ \E listed \in BOOLEAN : Throws(listed)
       \/ \E d \in {"none", "warning", "error"} :
            /\ editor' = [editor EXCEPT !.diags = d,
                             !.at = IF PolicyBreak(d) THEN "report" ELSE "build",
                             !.verdict = IF PolicyBreak(d) THEN "diagnostics found" ELSE @]
            /\ UNCHANGED <<disk, spent>>
    /\ UNCHANGED <<wrote, keep, policy, gate>>

(* BuildPipeline.BuildAssetBundles and the messages of the build; what a   *)
(* failed build left is deleted.                                           *)
EditorBuild ==
    /\ editor.at = "build"
    /\ \E d \in {editor.diags, "warning", "error"}, built \in {"bundle", "nothing", "empty"} :
         LET verdict == IF built = "nothing" \/ d = "error" THEN "build failed"
                        ELSE IF PolicyBreak(d) THEN "diagnostics found" ELSE "none"
             bundle == IF built = "bundle" THEN <<"bundle", editor.copy>> ELSE <<>>
         IN /\ Fault(built # "bundle") /\ Spend(built # "bundle")
            /\ disk' = IF verdict = "none" THEN Written("internal", bundle)
                       ELSE [disk EXCEPT !["internal"] = Absent]
            /\ editor' = [editor EXCEPT !.at = IF verdict = "none" THEN "measure" ELSE "report",
                                        !.diags = d, !.verdict = verdict]
    /\ UNCHANGED <<wrote, keep, policy, gate>>

(* The length of the file by that name, which must not be empty.  A file   *)
(* put in its place later may have the same length: the length tells no    *)
(* more than the digest.                                                   *)
EditorMeasure ==
    /\ editor.at = "measure"
    /\ IF Exists("internal") THEN editor' = [editor EXCEPT !.at = "hash"] /\ UNCHANGED disk ELSE Throws(TRUE)
    /\ UNCHANGED <<wrote, spent, keep, policy, gate>>

(* Sha256 of the file by that name, whoever wrote it.                      *)
EditorHash ==
    /\ editor.at = "hash"
    /\ editor' = [editor EXCEPT !.at = "report", !.verdict = "passed", !.sha = disk["internal"].bytes]
    /\ UNCHANGED <<disk, wrote, spent, keep, policy, gate>>

(* WriteReport, which may throw.                                           *)
EditorReport ==
    /\ editor.at = "report"
    /\ \/ /\ editor' = [editor EXCEPT !.at = "exit", !.exit = ExitOf(editor.verdict),
                           !.report = [status |-> editor.verdict, diags |-> editor.diags, sha |-> editor.sha]]
          /\ UNCHANGED <<disk, spent>>
       \/ Fault(TRUE) /\ Spend(TRUE) /\ Throws(TRUE)
    /\ UNCHANGED <<wrote, keep, policy, gate>>

EditorExit ==
    /\ editor.at = "exit" /\ editor' = [editor EXCEPT !.at = "gone"]
    /\ UNCHANGED <<disk, wrote, spent, keep, policy, gate>>

(* The Editor dies: before the report, in the middle of it, or after it    *)
(* with a code of its own.                                                 *)
EditorDies ==
    /\ editor.at \in {"import", "build", "measure", "hash", "report", "exit"} /\ Fault(TRUE) /\ Spend(TRUE)
    /\ \E r \in {editor.report} \cup (IF editor.at = "report" THEN {Truncated} ELSE {}) :
         editor' = [editor EXCEPT !.at = "gone", !.exit = 1, !.report = r]
    /\ UNCHANGED <<disk, wrote, keep, policy, gate>>

-----------------------------------------------------------------------------
(* Fault: the exit code of the Editor is not compared with its report.     *)
FaultyGateStatus(r) == IF r.status = "truncated" THEN "result invalid" ELSE r.status
(* unity_shader_bundle_gate_parse_result_json and the exit code expected   *)
(* of the reported status.                                                 *)
GateStatus(r) ==
    IF r.status = "truncated" THEN "result invalid"
    ELSE IF editor.exit # ExitOf(r.status) THEN "process failed"
    ELSE r.status

(* The Editor has ended: its report is read, published beside the output   *)
(* and judged.                                                             *)
GateRead ==
    /\ gate.at = "wait" /\ editor.at = "gone"
    /\ \E ok \in BOOLEAN :
         /\ Fault(~ok) /\ Spend(~ok)
         /\ LET r == editor.report
                s == IF r.status = "none" THEN "process failed"
                     ELSE IF ~ok THEN "io failed" ELSE GateStatus(r)
            IN IF s = "passed"
               THEN gate' = [gate EXCEPT !.at = "open", !.sha = r.sha]
               ELSE GateEnds(s)
    /\ UNCHANGED <<disk, wrote, keep, policy, editor>>

(* publish_bundle, its view of the bundle in the project.                  *)
GateOpen ==
    /\ gate.at = "open"
    /\ IF Exists("internal") THEN gate' = [gate EXCEPT !.at = "publish", !.view = disk["internal"]]
       ELSE GateEnds("io failed")
    /\ UNCHANGED <<disk, wrote, spent, keep, policy, editor>>

(* The view has the size and the digest the Editor reported.               *)
Verified(bytes) == bytes = gate.sha

(* The bytes are hashed and, unless the digest is another one, written to  *)
(* the output; when hashing fails they are written all the same.           *)
GatePublish ==
    /\ gate.at = "publish"
    /\ \E hashed, ok \in BOOLEAN :
         LET wanted == ~hashed \/ Verified(gate.view.bytes)
             exists == Exists("output")
             lands == wanted /\ ok /\ ~exists
         IN /\ ok \/ (hashed /\ wanted /\ ~exists)
            /\ Fault(~hashed \/ ~ok) /\ Spend(~hashed \/ ~ok)
            /\ disk' = IF lands THEN Written("output", gate.view.bytes) ELSE disk
            /\ wrote' = IF lands THEN wrote \cup {"output"} ELSE wrote
            /\ gate' = [gate EXCEPT !.at = "close",
                          !.status = IF ~wanted THEN "result invalid"
                                     ELSE IF exists THEN "output exists"
                                     ELSE IF ~ok THEN "io failed"
                                     ELSE IF ~hashed THEN "result invalid" ELSE "passed"]
    /\ UNCHANGED <<keep, policy, editor>>

(* The view is closed; a bundle replaced meanwhile takes a success back.   *)
GateClose ==
    /\ gate.at = "close"
    /\ LET s == IF gate.status = "passed" /\ ~Unchanged("internal", gate.view) THEN "io failed" ELSE gate.status
       IN gate' = [gate EXCEPT !.at = "cleanup", !.status = s, !.published = (s = "passed")]
    /\ UNCHANGED <<disk, wrote, spent, keep, policy, editor>>

(* The workspace is removed, or kept and said to be.                       *)
GateCleanup ==
    /\ gate.at = "cleanup"
    /\ \E ok \in BOOLEAN :
         LET preserve == keep = "always" \/ (keep = "failure" /\ gate.status # "passed")
             removing == gate.workspace /\ ~preserve
         IN /\ removing \/ ok
            /\ Fault(~ok) /\ Spend(~ok)
            /\ gate' = [gate EXCEPT !.at = "ended",
                          !.workspace = @ /\ ~(removing /\ ok),
                          !.preserved = gate.workspace /\ (preserve \/ ~ok),
                          !.status = IF ~ok /\ @ = "passed" THEN "io failed" ELSE @]
            /\ disk' = IF removing /\ ok THEN [disk EXCEPT !["internal"] = Absent] ELSE disk
    /\ UNCHANGED <<wrote, keep, policy, editor>>

GateStep ==
    \/ GateBegin \/ GatePrepare \/ GateLaunch \/ GateRead \/ GateOpen \/ GatePublish
    \/ GateClose \/ GateCleanup
    \/ EditorImport \/ EditorBuild \/ EditorMeasure \/ EditorHash \/ EditorReport \/ EditorExit \/ EditorDies

(* Another program replaces a file, with other bytes or with the same.     *)
(* editor.swapped remembers, for the properties only, that the bundle was  *)
(* replaced after the build and before the Editor took its digest.         *)
Edit(p) ==
    /\ spent.edits < MaxEdits /\ disk[p].bytes \notin {<<>>, Foreign}
    /\ \E bytes \in {disk[p].bytes, Foreign} :
         /\ disk' = Written(p, bytes)
         /\ editor' = IF p = "internal" /\ editor.at \in {"measure", "hash"} /\ bytes = Foreign
                      THEN [editor EXCEPT !.swapped = TRUE] ELSE editor
    /\ spent' = [spent EXCEPT !.edits = @ + 1]
    /\ UNCHANGED <<wrote, keep, policy, gate>>
=============================================================================
