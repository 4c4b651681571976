---------------------------- MODULE MCPodCacheSystem ----------------------------
(***************************************************************************)
(* Instances of PodCacheSystem.  Spec "split" sends rule 1 and rule 2 to   *)
(* different targets; "shared" has two rules with one target in common;    *)
(* "swap" exchanges the targets of "split"; "single" is "split" without    *)
(* its second rule; "broken" has an ASG resource id that does not parse.   *)
(***************************************************************************)
EXTENDS PodCacheSystem, TLC

CONSTANTS x, y, xy, none, t1, t2, k, ns

Selects(i) == IF i = 1 THEN {x, xy} ELSE {y, xy}
MCSelector ==
  [s \in Specs |-> [i \in Rules |-> IF s = "single" /\ i = 2 THEN {} ELSE Selects(i) \cap Labels]]
MCRuleTargets ==
  [s \in Specs |-> [i \in Rules |->
     CASE s = "split" -> IF i = 1 THEN {t1} ELSE {t2}
       [] s = "single" -> IF i = 1 THEN {t1} ELSE {}
       [] s = "swap" -> IF i = 1 THEN {t2} ELSE {t1}
       [] s = "shared" -> {t1}
       [] s = "broken" -> {}]]
MCPodIDs == PodNames \X (1..MaxPodUID)
MCNsOf == [key \in {k} |-> ns]
PodSymmetry == Permutations(PodNames)
=================================================================================
