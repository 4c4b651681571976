-------------------------- MODULE MCMappingReconciler --------------------------
(***************************************************************************)
(* Instances of MappingReconciler: spec "one" names target t1, "both" t1   *)
(* and t2, "two" t2.                                                       *)
(***************************************************************************)
EXTENDS MappingReconciler

CONSTANTS t1, t2

MCSpecTargets ==
  [s \in Specs |-> CASE s = "one" -> {t1} [] s = "two" -> {t2} [] s = "both" -> {t1, t2}]
================================================================================
