--------------------------- MODULE LiftTransaction ---------------------------
(***************************************************************************)
(* hlsl_lift_transaction.c and its caller verify_copy_lifts: a baseline is *)
(* compiled and compared with the target, then every copy of it is lifted  *)
(* in turn, each candidate compiled and compared again before it replaces  *)
(* what was accepted.                                                      *)
(*                                                                         *)
(* The compiler and its controls are one revision that may change at any   *)
(* moment, as may the answer of cancellation and clock.                    *)
(***************************************************************************)
EXTENDS CopyLift

CONSTANTS
    Baselines,      \* the decoded programs
    MaxCandidates, MaxCompiles,   \* HLSLLiftLimits
    MaxControls     \* bound: revisions of the compiler's controls

ASSUME BaselinesArePrograms == \A p \in Baselines : IsProgram(p)

VARIABLES
    base,      \* the baseline program
    wanted,    \* a high level candidate is asked for too
    txn,       \* HLSLLiftTransaction
    at,        \* the call in progress and its candidate
    asked,     \* what cancellation and clock answer now
    controls   \* the compiler's controls now

tvars == <<base, wanted, txn, at, asked, controls>>

Nothing == <<>>
(* A call: which lift, at which instruction, and its candidate.            *)
Call(step, lift, i) == [step |-> step, lift |-> lift, i |-> i, cand |-> Nothing, artifact |-> Nothing]

TransactionInit ==
    /\ base \in Baselines /\ wanted \in BOOLEAN
    /\ txn = [program |-> base, artifact |-> Nothing, result |-> Nothing, journal |-> <<>>,
              candidates |-> 0, compiles |-> 0, ctl |-> "verified", high |-> FALSE]
    /\ at = Call("begin", "baseline", 0) /\ asked = "verified" /\ controls = 1
TransactionIdle ==
    /\ base = Nothing /\ wanted = FALSE /\ txn = Nothing /\ at = Call("idle", "none", 0)
    /\ asked = "verified" /\ controls = 1

-----------------------------------------------------------------------------
(* hlsl_lift_control_check, sticky.                                        *)
Check == IF txn.ctl # "verified" THEN txn.ctl ELSE asked
Terminal == {"cancelled", "budget exhausted", "clock unavailable"}

(* verify_copy_lifts: the call after this one has ended with a status.     *)
After(status) ==
    LET next == {i \in (at.i + 1)..Len(base) : base[i].op = "mov"}
        last == IF wanted THEN Call("try", "high level", 0) ELSE Call("done", "none", 0)
        again == {"precondition rejected", "dxbc mismatch", "emission rejected", "compiler rejected"}
    IN IF at.lift = "baseline" /\ status # "verified" THEN Call("failed", "none", 0)
       ELSE IF at.lift = "high level" THEN Call("done", "none", 0)
       ELSE IF at.lift = "copy" /\ status \in again THEN Call("try", "result", at.i)
       ELSE IF status \in Terminal \cup {"out of memory"} \/ next = {} THEN last
       ELSE Call("try", "copy", CHOOSE i \in next : \A j \in next : i <= j)
Return(status) == at' = After(status)
(* The control keeps the status, and the call returns it.                  *)
Stop(status) == txn' = [txn EXCEPT !.ctl = status] /\ Return(status)

(* hlsl_lift_transaction_begin and hlsl_lift_control_begin.                *)
Begin ==
    /\ at.step = "begin"
    /\ IF asked = "clock unavailable" THEN Return(asked)
       ELSE at' = [at EXCEPT !.step = "made", !.cand = [status |-> "ok", program |-> base]]
    /\ UNCHANGED <<base, wanted, txn, asked, controls>>

(* try_lift and try_high_level as far as the candidate.                    *)
Try ==
    /\ at.step = "try"
    /\ CASE Check # "verified" -> Stop(Check)
         [] Check = "verified" /\ txn.candidates >= MaxCandidates -> Stop("budget exhausted")
         [] OTHER ->
              /\ txn' = [txn EXCEPT !.candidates = @ + 1]
              /\ at' = [at EXCEPT !.step = "made",
                    !.cand = CASE at.lift = "copy" -> CopyLiftCreate(txn.program, at.i)
                               [] at.lift = "result" -> ResultLiftCreate(txn.program, at.i)
                               [] OTHER -> [status |-> "ok", program |-> txn.program]]
    /\ UNCHANGED <<base, wanted, asked, controls>>

(* The precondition, the reserved node, and the first half of              *)
(* verify_program: the candidate is sent to the compiler.                  *)
Send ==
    /\ at.step = "made"
    /\ \/ Check # "verified" /\ Stop(Check)
       \/ Check = "verified" /\ at.cand.status # "ok" /\ Return("precondition rejected") /\ UNCHANGED txn
       \/ Check = "verified" /\ at.cand.status = "ok" /\ Return("out of memory") /\ UNCHANGED txn
       \/ /\ Check = "verified" /\ at.cand.status = "ok"
          /\ IF txn.compiles >= MaxCompiles THEN Stop("budget exhausted")
             ELSE txn' = [txn EXCEPT !.compiles = @ + 1] /\ at' = [at EXCEPT !.step = "sent"]
    /\ UNCHANGED <<base, wanted, asked, controls>>

(* compile_lift_mode: the answer for the source emitted from the           *)
(* candidate, under the controls of this moment.  "unmapped": the source   *)
(* map of a high level source does not match; "unnamed": the answer has no *)
(* request identity.                                                       *)
Answers == {"equal", "dxbc mismatch", "invalid dxbc", "emission rejected", "compiler rejected",
            "compiler unavailable", "budget exhausted", "unnamed", "unmapped"}
Answer ==
    /\ at.step = "sent"
    /\ \E a \in Answers :
         /\ a = "unmapped" => at.lift = "high level"
         /\ at' = [at EXCEPT !.step = "answered",
                     !.artifact = [of |-> at.cand.program, high |-> at.lift = "high level",
                                   controls |-> controls, answer |-> a]]
    /\ UNCHANGED <<base, wanted, txn, asked, controls>>

-----------------------------------------------------------------------------
(* Fault: the controls of the answer are not compared with the baseline's. *)
FaultySameControls(artifact) == TRUE
(* The answer was made under the controls of what is accepted, if any.     *)
SameControls(artifact) == txn.artifact # Nothing => artifact.controls = txn.artifact.controls

(* The second half of verify_program, after work_status.                   *)
Verdict(artifact) ==
    CASE artifact.answer = "unmapped" -> "provenance mismatch"
      [] artifact.answer = "unnamed" \/ (artifact.answer \in {"equal", "dxbc mismatch"} /\ ~SameControls(artifact))
           -> "authority mismatch"
      [] artifact.answer = "equal" /\ SameControls(artifact) -> "verified"
      [] OTHER -> artifact.answer

(* record_step, and the candidate takes the place of what was accepted.    *)
Accept ==
    txn' = [txn EXCEPT
        !.program = at.cand.program, !.artifact = at.artifact, !.result = at.artifact,
        !.high = at.lift = "high level",
        !.journal = IF at.lift = "baseline" THEN @
                    ELSE Append(@, [lift |-> at.lift, i |-> at.i,
                                    producer |-> IF at.lift = "high level" THEN 0 ELSE at.cand.producer,
                                    edits |-> IF at.lift = "high level" THEN {} ELSE at.cand.edits,
                                    before |-> txn.result, after |-> at.artifact])]

(* Fault: an answer that is there is judged whatever the control says.     *)
FaultyLate == FALSE
(* work_status after the compile.                                          *)
Late == Check # "verified"

Judge ==
    /\ at.step = "answered"
    /\ LET v == Verdict(at.artifact)
       IN CASE Late -> Stop(Check)
            [] ~Late /\ v \in Terminal -> Stop(v)
            [] ~Late /\ v = "verified" -> Accept /\ Return(v)
            [] OTHER -> Return(v) /\ UNCHANGED txn
    /\ UNCHANGED <<base, wanted, asked, controls>>

-----------------------------------------------------------------------------
Running == at.step \notin {"idle", "failed", "done"}
(* External: cancelled, out of time, or the clock fails.                   *)
Interrupt ==
    /\ Running /\ asked = "verified"
    /\ asked' \in Terminal
    /\ UNCHANGED <<base, wanted, txn, at, controls>>
(* External: the compiler, its includes or its flags are replaced.         *)
Revise ==
    /\ Running /\ controls < MaxControls
    /\ controls' = controls + 1
    /\ UNCHANGED <<base, wanted, txn, at, asked>>

TransactionStep == Begin \/ Try \/ Send \/ Answer \/ Judge \/ Interrupt \/ Revise

-----------------------------------------------------------------------------
(***************************************************************************)
(* Whenever a lift begins on a straight line program, its context is       *)
(* exact: the definition of every operand and the writer of every lane     *)
(* before every instruction, for the programs that earlier lifts left,     *)
(* with their nops and moved results, as for decoded ones.                 *)
(***************************************************************************)
ContextIsExact ==
    at.step = "try" /\ at.lift \in {"copy", "result"} /\ ValidateRegion(txn.program) =>
        IsContext(Context(txn.program), txn.program)

(***************************************************************************)
(* However the lifts are composed, the accepted program computes, from the *)
(* same inputs, the outputs of the baseline: no copy, operation or lane is *)
(* lost or exchanged by a rewrite that follows another rewrite.            *)
(***************************************************************************)
LiftsPreserveOutputs == Running \/ at.step = "done" => Outputs(txn.program) = Outputs(base)

(* Step s of the journal, applied again to p from what the journal says.   *)
Replay(p, s) ==
    LET comp(i, k) == (CHOOSE e \in s.edits : e.i = i /\ e.k = k).comp
        edited(i, k) == \E e \in s.edits : e.i = i /\ e.k = k
    IN CASE s.lift = "high level" -> p
         [] s.lift = "copy" ->
              [i \in DOMAIN p |-> IF i = s.i THEN Nop
                 ELSE [p[i] EXCEPT !.src = [k \in DOMAIN @ |->
                         IF edited(i, k) THEN Select(p[s.i].src[1], comp(i, k)) ELSE @[k]]]]
         [] s.lift = "result" ->
              [p EXCEPT ![s.producer] = Nop,
                        ![s.i] = [p[s.producer] EXCEPT !.dst = p[s.i].dst,
                                    !.src = [k \in DOMAIN @ |-> Select(@[k], comp(s.i, k))]]]

(***************************************************************************)
(* The accepted artifact was compiled from exactly the accepted program    *)
(* and equals the target, under the controls the baseline was verified     *)
(* with; and the journal accounts for it: each step starts from what the   *)
(* step before it left, and replaying the edits from the baseline gives    *)
(* the accepted program.                                                   *)
(***************************************************************************)
AcceptedIsAccounted ==
    at.step \notin {"idle", "failed"} /\ txn.artifact # Nothing =>
        LET j == txn.journal
            was(n) == IF n = 1 THEN base ELSE j[n - 1].after.of
        IN /\ txn.artifact = txn.result
           /\ txn.artifact.of = txn.program /\ txn.artifact.answer = "equal" /\ txn.artifact.high = txn.high
           /\ \A n \in DOMAIN j :
                /\ j[n].before.of = was(n) /\ j[n].after.of = Replay(was(n), j[n])
                /\ j[n].before.controls = j[n].after.controls /\ j[n].after.answer = "equal"
           /\ j # <<>> => Last(j).after = txn.artifact

(***************************************************************************)
(* "A late response is discarded, never accepted": from the moment of a    *)
(* cancellation or the deadline on, what was accepted stays as it is, the  *)
(* answer of a compile that was under way included.                        *)
(***************************************************************************)
LateAnswersDiscarded ==
    [][at.step # "idle" /\ asked # "verified" =>
         txn'.program = txn.program /\ txn'.artifact = txn.artifact /\ txn'.journal = txn.journal]_tvars
=============================================================================
