--------------------------- MODULE OutputPublish ---------------------------
(***************************************************************************)
(* The parts of the shared library that every publication of this program  *)
(* goes through, modelled from their use: the library is a submodule whose *)
(* source is not in the repository.  An output directory is a function     *)
(* from the paths that exist to their contents.                            *)
(***************************************************************************)
EXTENDS Naturals, FiniteSets

Missing == <<>>
Published == {"emitted", "unchanged"}

At(disk, f) == IF f \in DOMAIN disk THEN disk[f] ELSE Missing
Put(disk, f, bytes) == [g \in DOMAIN disk \cup {f} |-> IF g = f THEN bytes ELSE disk[g]]

(* common_output_preflight_exact                                           *)
Preflight(disk, f, bytes) ==
    IF At(disk, f) = Missing THEN "missing"
    ELSE IF At(disk, f) = bytes THEN "unchanged" ELSE "collision"

(* common_output_publish_exact creates the file or finds it.  It fails     *)
(* with an I/O error before or after the file exists.                      *)
PublishExact(disk, f, bytes) ==
    [is |-> IF At(disk, f) = Missing THEN "emitted"
            ELSE IF At(disk, f) = bytes THEN "unchanged" ELSE "collision",
     now |-> IF At(disk, f) = Missing THEN Put(disk, f, bytes) ELSE disk]
PublishFails(disk, f, bytes) ==
    {[is |-> "ioError", now |-> disk]}
        \cup (IF At(disk, f) = Missing
              THEN {[is |-> "ioError", now |-> Put(disk, f, bytes)]} ELSE {})

(* common_output_publish_exact_residue_possible                            *)
ResiduePossible(before, out, f, bytes) ==
    before = "missing" /\ out.is = "ioError" /\ At(out.now, f) = bytes
=============================================================================
