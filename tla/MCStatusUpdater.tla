---------------------------- MODULE MCStatusUpdater ----------------------------
(***************************************************************************)
(* Instances of StatusUpdater.  Rule A selects every pod, and so has the   *)
(* empty hash; it comes with rule B in either order, and alone in a spec   *)
(* that does not validate.                                                 *)
(***************************************************************************)
EXTENDS StatusUpdater

CONSTANTS t1, t2, b

RuleA == [sel |-> NoHash, targets |-> {t1}]
RuleB == [sel |-> b, targets |-> {t2}]

WithInvalid == {<<RuleA, RuleB>>, <<RuleB, RuleA>>, <<RuleA>>}
InvalidSpecs == {<<RuleA>>}
================================================================================
