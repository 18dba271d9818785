---------------------------- MODULE CompileOracle ----------------------------
(***************************************************************************)
(* What a caller of the compiler client may rely on: one request is asked  *)
(* at a time, and its answer is either declined or exactly what a compiler *)
(* started from nothing would return for the inputs (toolchain, source     *)
(* directory, headers) as they were together at one instant between the    *)
(* question and the answer.  No process, lease or cache appears here.      *)
(***************************************************************************)
CONSTANTS
    Requests,    \* requests
    Inputs,      \* files and directories a compilation can depend on
    Contents,    \* what an input can contain
    DependsOn,   \* the inputs the result of each request is a function of
    None         \* no request, no input, nothing decided

VARIABLES
    contents,    \* the inputs now
    asked,       \* the request in progress
    decided,     \* the answer, once it is fixed
    reply        \* the last answer that was given

vars == <<contents, asked, decided, reply>>

(* The result of request r on inputs c.                                    *)
Eval(r, c) ==
    [req |-> r,
     view |-> [i \in Inputs |-> IF i \in DependsOn[r] THEN c[i] ELSE None]]

Init ==
    /\ contents \in [Inputs -> Contents]
    /\ asked = None /\ decided = None /\ reply = None

(* Somebody edits the inputs, at any time.                                 *)
Change ==
    /\ contents' \in [Inputs -> Contents]
    /\ UNCHANGED <<asked, decided, reply>>

Ask(r) ==
    /\ asked = None
    /\ asked' = r
    /\ UNCHANGED <<contents, decided, reply>>

(* The inputs of this instant fix the answer.                              *)
Decide ==
    /\ asked # None /\ decided = None
    /\ decided' = Eval(asked, contents)
    /\ UNCHANGED <<contents, asked, reply>>

(* The answer is given, or the request declined.                           *)
Answer ==
    /\ asked # None
    /\ \/ reply' = None
       \/ decided # None /\ reply' = decided
       \/ decided = None /\ reply' = Eval(asked, contents)
    /\ asked' = None /\ decided' = None
    /\ UNCHANGED contents

Next == Change \/ (\E r \in Requests : Ask(r)) \/ Decide \/ Answer

Spec == Init /\ [][Next]_vars
=============================================================================
