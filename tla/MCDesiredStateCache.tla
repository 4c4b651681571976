-------------------------- MODULE MCDesiredStateCache --------------------------
(***************************************************************************)
(* Two mappings of one namespace, two generations and two incarnations,    *)
(* one pod.  The pod data is minimal: the fences and the generation and    *)
(* UID guards are what this instance explores.                             *)
(***************************************************************************)
EXTENDS DesiredStateCache

CONSTANTS k1, k2, ns

MCSelector == [s \in Specs |-> [i \in Rules |-> Labels]]
MCRuleTargets == [s \in Specs |-> [i \in Rules |-> Targets]]
MCNsOf == [k \in {k1, k2} |-> ns]
================================================================================
