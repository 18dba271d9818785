--------------------------- MODULE MCShaderBatch ---------------------------
(* Four records: two graphics objects with one name, one of them catalogued *)
(* twice, and a compute shader that shares a source with a graphics object. *)
EXTENDS ShaderBatch

OuterOf == <<"p", "p", "q", "q">>
MemberOf == <<"p0", "p0", "q0", "q1">>
ClassOf == <<"graphics", "compute", "graphics", "graphics">>
NameOf == <<"n", "c", "n", "n">>
IdentityOf == <<"i", "j", "i", "k">>

Mode(meta, flat, defer, candidate) ==
    [meta |-> meta, flat |-> flat, defer |-> defer, candidate |-> candidate]
Modes == {Mode(TRUE, TRUE, FALSE, FALSE), Mode(TRUE, FALSE, TRUE, FALSE),
          Mode(FALSE, FALSE, FALSE, TRUE)}
AllReady == [r \in Records |-> "ready"]
CatalogStates == {AllReady, [AllReady EXCEPT ![1] = "unavailable", ![3] = "notReady"]}
Picks == {{1, 2, 3}, {1, 4}, {1, 3}}
Kept == {{}, {"p"}}
=============================================================================
