-------------------------- MODULE WholeCertificate --------------------------
(***************************************************************************)
(* The evidence of one verification plane and the certificate over all of  *)
(* them: whole_shader_evidence_create_*, whole_shader_certificate_input_*  *)
(* and whole_shader_certificate_evaluate.  A digest is the value it is the *)
(* digest of.                                                              *)
(***************************************************************************)
EXTENDS Naturals, Sequences, FiniteSets

CompilePlanes == {"variant domain", "full dxbc", "diagnostics", "reflection"}
(* WHOLE_SHADER_D3D11_LOGICAL_REQUIRED_MASK                                *)
LogicalPlanes ==
    CompilePlanes \cup {"importer", "reextraction", "render state", "player profile",
                        "runtime selection", "structural", "dependency closure"}

Item(id, expected, observed) == [id |-> id, expected |-> expected, observed |-> observed]

(* whole_shader_evidence_create_comparison: no evidence from no items or   *)
(* from two items of one identity.                                         *)
Comparable(items) ==
    items # <<>> /\ \A i, j \in DOMAIN items : items[i].id = items[j].id => i = j
Comparison(plane, subject, items) ==
    LET matched == Cardinality({i \in DOMAIN items : items[i].expected = items[i].observed})
    IN [plane |-> plane, subject |-> subject, complete |-> TRUE,
        expected |-> Len(items), observed |-> Len(items), matched |-> matched,
        coverage |-> [i \in DOMAIN items |-> items[i].id],
        status |-> IF matched = Len(items) THEN "pass" ELSE "fail"]
(* whole_shader_evidence_create_unavailable                                *)
Unavailable(plane, subject, expected) ==
    [plane |-> plane, subject |-> subject, complete |-> FALSE, expected |-> expected,
     observed |-> 0, matched |-> 0, coverage |-> <<>>, status |-> "unavailable"]
NotRun == [status |-> "not run"]

(* evidence_shape_valid                                                    *)
ShapeValid(subject, plane, e) ==
    /\ e.plane = plane /\ e.subject = subject
    /\ CASE e.status = "pass" -> e.complete /\ e.expected # 0 /\ e.observed = e.expected /\ e.matched = e.expected
         [] e.status = "fail" -> e.complete /\ e.expected # 0 /\ e.observed = e.expected /\ e.matched < e.expected
         [] OTHER -> ~e.complete /\ e.matched = 0 /\ e.observed <= e.expected

(* reject_split_coverage: the compile planes must be about the same rows   *)
(* in the same order as the variant domain.                                *)
Split(ev, passed) ==
    {p \in CompilePlanes \cap passed :
        "variant domain" \in passed /\ ev[p].coverage # ev["variant domain"].coverage}

(* whole_shader_certificate_input_add_evidence takes every plane.          *)
Addable(subject, ev) == \A p \in DOMAIN ev : ev[p].status # "not run" /\ ev[p].subject = subject

(* Fault: a plane without evidence counts as if it had passed.             *)
FaultyAllPassed(ev, planes) == \A p \in planes : ev[p].status # "fail"
AllPassed(ev, planes) == \A p \in planes : ev[p].status = "pass"

(* whole_shader_certificate_evaluate for the planes of ev, all requested.  *)
(* bound says whether the subject names the runtime it was observed on.    *)
Evaluate(subject, bound, ev) ==
    LET invalid == {p \in DOMAIN ev : ~ShapeValid(subject, p, ev[p])}
        of(s) == {p \in DOMAIN ev \ invalid : ev[p].status = s}
        unbound == {p \in of("pass") : p = "runtime selection" /\ ~bound}
        split == Split(ev, of("pass"))
        shapes == invalid \cup unbound = {}
        all(planes) == shapes /\ AllPassed(ev, planes)
    IN [status |-> IF unbound # {} THEN "subject authority missing"
                   ELSE IF invalid # {} THEN "evidence invalid"
                   ELSE IF split # {} THEN "coverage mismatch"
                   ELSE IF of("fail") # {} THEN "plane failed"
                   ELSE IF of("unavailable") # {} THEN "plane unavailable"
                   ELSE "ok",
        bytes |-> all({"variant domain", "full dxbc"}) /\ split = {},
        importer |-> all({"importer"}),
        release |-> all({"reextraction"}),
        logical |-> all(LogicalPlanes) /\ split = {}]
=============================================================================
