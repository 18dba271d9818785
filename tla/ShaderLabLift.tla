--------------------------- MODULE ShaderLabLift ---------------------------
(***************************************************************************)
(* unity_shaderlab_lift_run: up to four spellings of one shader are        *)
(* emitted, preprocessed and recompiled pass by pass, and one of them is   *)
(* accepted when every generated compile is the released program again.    *)
(* The compiler, its include tree and the profile are one revision, pinned *)
(* at the start; whoever edits them, and the caller's cancellation and     *)
(* deadline, act at any moment.                                            *)
(***************************************************************************)
EXTENDS Naturals, Sequences, FiniteSets

CONSTANTS
    Rows,          \* Rows[p]: the number of generated compiles of pass p
    HelperPasses,  \* the passes whose source calls the UV helper
    MaxCompiles, MaxCandidates,   \* HLSLLiftLimits
    MaxRevisions   \* bound: the last revision of the authority

(* A lift has a pass, and every pass a row (certify_pass).                 *)
ASSUME RowsAssumption == Rows \in Seq(Nat \ {0}) /\ Rows # <<>>

Artifacts == {"baseline", "candidate", "helper baseline", "helper candidate"}
None == "none"
Domain == UNION {{p} \X (1..Rows[p]) : p \in DOMAIN Rows}

VARIABLES
    authority,  \* the toolchain, include and profile revision in force
    asked,      \* what cancellation, clock and deadline answer now
    ctl,        \* HLSLLiftControl.status, sticky
    changed,    \* authority_changed
    pinned,     \* the revision the run pinned, 0 before it did
    compiles,   \* stats.compiles
    art,        \* the four artifacts: status, rows matched, revisions that answered
    accepted,   \* result->accepted
    lpc         \* where the run is: artifact, pass, row, the answer being judged
lvars == <<authority, asked, ctl, changed, pinned, compiles, art, accepted, lpc>>

(* artifact_init                                                           *)
NewArtifact == [status |-> "not attempted", controls |-> 0, proved |-> {}, under |-> {}, marks |-> {}]
At(step, a, p, r) == [step |-> step, a |-> a, p |-> p, r |-> r, answer |-> None, under |-> 0, helper |-> 0]
Idle == At("idle", None, 0, 0)

LiftInit ==
    /\ authority = 1 /\ asked = "verified" /\ ctl = "verified" /\ changed = FALSE /\ pinned = 0
    /\ compiles = 0 /\ art = [a \in Artifacts |-> NewArtifact] /\ accepted = None /\ lpc = Idle

-----------------------------------------------------------------------------
(* hlsl_lift_control_check keeps its first answer.                         *)
Control == IF ctl # "verified" THEN ctl ELSE asked

(* Fault: the revision is not compared again after the pin.                *)
FaultyWork == Control
(* work_status: the control first, then the authority against the pin.     *)
Work == IF Control = "verified" /\ authority # pinned THEN "authority mismatch" ELSE Control

(* The artifact tried after a has ended with status s, or None.            *)
NextArtifact(a, s) ==
    CASE a = "baseline" /\ s \in {"verified", "emission rejected"} /\ MaxCandidates > 0 -> "candidate"
      [] a = "candidate" /\ s \in {"emission rejected", "compiler rejected", "dxbc mismatch"}
            /\ MaxCandidates >= 2 -> "helper baseline"
      [] a = "helper baseline" /\ s = "verified" -> "helper candidate"
      [] OTHER -> None

(* The accepted artifact: a helper baseline only opens its own candidate,  *)
(* and nothing is accepted once the authority has changed.                 *)
Accept(a, s) ==
    IF changed' THEN None ELSE IF s = "verified" /\ a # "helper baseline" THEN a ELSE accepted

(* The attempt at lpc.a ends with status s and what it found.  Of a failed *)
(* attempt only the status is kept: the rest is retained for a reader, and *)
(* nothing decides on it.                                                  *)
Close(s, found) ==
    /\ art' = [b \in Artifacts |->
                 IF b = lpc.a THEN [found EXCEPT !.status = s]
                 ELSE IF b = "candidate" /\ lpc.a = "baseline" /\ MaxCandidates = 0
                 THEN [art[b] EXCEPT !.status = "budget exhausted"] ELSE art[b]]
    /\ accepted' = Accept(lpc.a, s)
    /\ LET next == NextArtifact(lpc.a, s)
       IN lpc' = IF next = None THEN [Idle EXCEPT !.step = "ended"] ELSE At("emit", next, 0, 0)
End(s) == Close(s, NewArtifact)

(* Whatever the step is about to do, it first asks work_status.            *)
Halt ==
    /\ ctl' = Work
    /\ changed' = (changed \/ Control = "verified")
    /\ End(Work)
    /\ UNCHANGED <<authority, asked, pinned, compiles>>
Proceed == Work = "verified" /\ UNCHANGED <<authority, asked, changed, pinned>>
Refuse(s) == UNCHANGED <<ctl, compiles>> /\ End(s)

(* unity_shaderlab_lift_run up to the first attempt.                       *)
Pin ==
    /\ lpc.step = "start"
    /\ ctl' = Control
    /\ IF Control = "verified"
       THEN /\ pinned' = authority /\ lpc' = At("emit", "baseline", 0, 0)
            /\ UNCHANGED <<changed, art, accepted>>
       ELSE /\ UNCHANGED <<changed, pinned>>
            /\ art' = [art EXCEPT !["baseline"].status = Control]
            /\ UNCHANGED accepted /\ lpc' = [Idle EXCEPT !.step = "ended"]
    /\ UNCHANGED <<authority, asked, compiles>>

(* attempt: inventory, emission, the source map, and the preprocess        *)
(* request that follows.                                                   *)
Emit ==
    /\ lpc.step = "emit"
    /\ \/ Work # "verified" /\ Halt
       \/ /\ Proceed
          /\ \/ \E s \in {"precondition rejected", "emission rejected", "provenance mismatch"} :
                  (s = "provenance mismatch" => lpc.a \in {"candidate", "helper candidate"}) /\ Refuse(s)
             \/ lpc' = [lpc EXCEPT !.step = "preprocessing"] /\ UNCHANGED <<ctl, compiles, art, accepted>>

(* The answer comes from the revision in force when it is made.            *)
Preprocessed ==
    /\ lpc.step = "preprocessing"
    /\ \E k \in {"clean", "other controls", "unavailable", "rejected", "anonymous"} :
         lpc' = [lpc EXCEPT !.step = "preprocessed", !.answer = k, !.under = authority]
    /\ UNCHANGED <<authority, asked, ctl, changed, pinned, compiles, art, accepted>>

(* The row of the domain after (p, r), or the end of the artifact.         *)
AfterRow(p, r) ==
    IF r < Rows[p] THEN At("compile", lpc.a, p, r + 1)
    ELSE IF p + 1 \in DOMAIN Rows THEN At("pass", lpc.a, p + 1, 0)
    ELSE Idle

(* preprocess, after the answer: a candidate must be under the controls of *)
(* its baseline, when it has one.                                          *)
Baseline(a) ==
    IF a = "candidate" /\ art["baseline"].status = "verified" THEN "baseline"
    ELSE IF a = "helper candidate" THEN "helper baseline" ELSE None
JudgePreprocess ==
    /\ lpc.step = "preprocessed"
    /\ \/ Work # "verified" /\ Halt
       \/ /\ Proceed
          /\ LET k == lpc.answer
                 b == Baseline(lpc.a)
                 controls == IF k = "other controls" THEN 0 ELSE lpc.under
                 here == [art[lpc.a] EXCEPT !.controls = controls, !.under = @ \cup {lpc.under}]
             IN IF k = "unavailable" THEN Refuse("compiler unavailable")
                ELSE IF k = "rejected" THEN Refuse("compiler rejected")
                ELSE IF k = "anonymous" THEN Refuse("provenance mismatch")
                ELSE IF b # None /\ art[b].controls # controls THEN Refuse("authority mismatch")
                ELSE /\ art' = [art EXCEPT ![lpc.a] = here]
                     /\ lpc' = At("pass", lpc.a, 1, 0)
                     /\ UNCHANGED <<ctl, compiles, accepted>>

(* certify_pass up to the first compile: the snippet of the pass, its      *)
(* variant plan, and the keyword rows of the preprocessed contract against *)
(* those of the plan.                                                      *)
BeginPass ==
    /\ lpc.step = "pass"
    /\ \/ Work # "verified" /\ Halt
       \/ /\ Proceed
          /\ \/ \E s \in {"authority mismatch", "precondition rejected"} : Refuse(s)
             \/ lpc' = At("compile", lpc.a, lpc.p, 1) /\ UNCHANGED <<ctl, compiles, art, accepted>>

-----------------------------------------------------------------------------
(* compile_pass looks at the expansion of the helper before it compiles a  *)
(* row of a pass that calls it.                                            *)
Inspected == lpc.a = "helper candidate" /\ lpc.p \in HelperPasses

(* The row's reference program, keyword indices and requirements, then     *)
(* compile_raw: the check, the budget, and the request is out.  Before an  *)
(* inspection the digest of the compile to come is taken.                  *)
SendCompile ==
    /\ lpc.step = "compile"
    /\ \/ Work # "verified" /\ Halt
       \/ lpc.helper = 0 /\ Proceed /\ \E s \in {"invalid dxbc", "authority mismatch"} : Refuse(s)
       \/ /\ Proceed
          /\ IF compiles >= MaxCompiles
             THEN ctl' = "budget exhausted" /\ UNCHANGED compiles /\ End("budget exhausted")
             ELSE /\ compiles' = compiles + 1
                  /\ lpc' = IF Inspected /\ lpc.helper = 0
                            THEN [lpc EXCEPT !.step = "inspecting", !.helper = authority]
                            ELSE [lpc EXCEPT !.step = "compiling"]
                  /\ UNCHANGED <<ctl, art, accepted>>

Compiled ==
    /\ lpc.step \in {"inspecting", "compiling"}
    /\ \E k \in {"unavailable", "anonymous", "rejected"} \cup
                (IF lpc.step = "inspecting" THEN {"expanded", "no definition"}
                 ELSE {"equal", "informed", "diagnostic", "unreflected", "mismatch", "invalid"}) :
         lpc' = [lpc EXCEPT !.step = IF lpc.step = "inspecting" THEN "inspected" ELSE "compiled",
                            !.answer = k, !.under = authority]
    /\ UNCHANGED <<authority, asked, ctl, changed, pinned, compiles, art, accepted>>

(* unity_uv_helper_inspect_request after the answer; its failures stop the *)
(* control for good.                                                       *)
JudgeInspection ==
    /\ lpc.step = "inspected"
    /\ \/ Work # "verified" /\ Halt
       \/ /\ Proceed
          /\ LET s == CASE lpc.answer = "unavailable" -> "compiler unavailable"
                        [] lpc.answer = "rejected" -> "compiler rejected"
                        [] lpc.answer = "anonymous" -> "provenance mismatch"
                        [] lpc.under # lpc.helper -> "authority mismatch"
                        [] lpc.answer = "no definition" -> "precondition rejected"
                        [] OTHER -> "verified"
             IN IF s # "verified" THEN ctl' = s /\ UNCHANGED compiles /\ End(s)
                ELSE /\ lpc' = [lpc EXCEPT !.step = "compile", !.answer = None]
                     /\ art' = [art EXCEPT ![lpc.a].under = @ \cup {lpc.under}]
                     /\ UNCHANGED <<ctl, compiles, accepted>>

(* domain_status of what the certifier makes of an answer.  Reflection     *)
(* that is only compatible is accepted here; what it is shows later, with  *)
(* the evidence.                                                           *)
DomainStatus(k) ==
    CASE k = "unavailable" -> "compiler unavailable"
      [] k \in {"rejected", "diagnostic"} -> "compiler rejected"
      [] k = "invalid" -> "invalid dxbc"
      [] k = "mismatch" -> "dxbc mismatch"
      [] k = "unreflected" -> "authority mismatch"
      [] OTHER -> "verified"

(* compile_raw after the answer and the rest of the certifier's row.       *)
JudgeCompile ==
    /\ lpc.step = "compiled"
    /\ \/ Work # "verified" /\ Halt
       \/ /\ Proceed
          /\ IF lpc.answer = "anonymous" \/ (Inspected /\ lpc.under # lpc.helper)
             THEN ctl' = "provenance mismatch" /\ UNCHANGED compiles /\ End("provenance mismatch")
             ELSE IF DomainStatus(lpc.answer) # "verified" THEN Refuse(DomainStatus(lpc.answer))
             ELSE LET here == [art[lpc.a] EXCEPT !.proved = @ \cup {<<lpc.p, lpc.r>>},
                                                 !.under = @ \cup {lpc.under},
                                                 !.marks = @ \cup ({lpc.answer} \ {"equal"})]
                      next == AfterRow(lpc.p, lpc.r)
                  IN IF next # Idle
                     THEN /\ art' = [art EXCEPT ![lpc.a] = here] /\ lpc' = next
                          /\ UNCHANGED <<ctl, compiles, accepted>>
                     ELSE UNCHANGED <<ctl, compiles>> /\ Close("verified", here)

LiftStep ==
    Pin \/ Emit \/ Preprocessed \/ JudgePreprocess \/ BeginPass
    \/ SendCompile \/ Compiled \/ JudgeInspection \/ JudgeCompile

(* Someone edits an include or the toolchain, or the caller's patience     *)
(* ends; both only matter while the run is going.                          *)
Lifting == lpc.step \notin {"idle", "ended"}
Revise ==
    /\ Lifting /\ authority < MaxRevisions /\ authority' = authority + 1
    /\ UNCHANGED <<asked, ctl, changed, pinned, compiles, art, accepted, lpc>>
Interrupt ==
    /\ Lifting /\ asked = "verified"
    /\ asked' \in {"cancelled", "clock unavailable", "budget exhausted"}
    /\ UNCHANGED <<authority, ctl, changed, pinned, compiles, art, accepted, lpc>>

-----------------------------------------------------------------------------
(***************************************************************************)
(* "do not publish a fallback against an environment that changed after    *)
(* its verification": the accepted artifact has every row of the domain    *)
(* matched, each answer and the preprocessing made under the pinned        *)
(* revision, whatever was edited between a check and the compiler's        *)
(* answer; and once a check has seen another revision nothing is accepted, *)
(* also what was verified before.                                          *)
(***************************************************************************)
AcceptedUnderPin ==
    accepted # None =>
        /\ art[accepted].proved = Domain
        /\ art[accepted].under = {pinned}
        /\ ~changed
=============================================================================
