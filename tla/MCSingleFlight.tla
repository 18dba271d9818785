--------------------------- MODULE MCSingleFlight ---------------------------
(* Model-checking instance of SingleFlight: threads, keys and cells are the *)
(* model values of the configuration.                                       *)
EXTENDS SingleFlight
=============================================================================
