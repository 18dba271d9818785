-------------------------- MODULE MCCompilerCache --------------------------
(* Model-checking instances of CompilerCache.                              *)
EXTENDS CompilerCache, TLC

CONSTANTS p1, p2, t1, t2, t3

(* Two stores in two processes, or in two threads of one process.          *)
TwoThreads == {t1, t2}
TwoThreadDeployments == {t1 :> p1 @@ t2 :> p2, t1 :> p1 @@ t2 :> p1}

(* Two threads in one process and a third in another.                      *)
ThreeThreads == {t1, t2, t3}
MixedDeployment == {t1 :> p1 @@ t2 :> p1 @@ t3 :> p2}
=============================================================================
