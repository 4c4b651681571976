----------------------------- MODULE DesiredState -----------------------------
(***************************************************************************)
(* The desired state of one PodASGMapping, computed in the two ways the    *)
(* engine computes it:                                                     *)
(*                                                                         *)
(*  - in one pass over a pod list (Artifacts, which models                 *)
(*    ComputeDesiredStateRecomputeArtifacts), and                          *)
(*  - incrementally, one pod event at a time (AddPod, DeletePod,           *)
(*    UpdatePod: what OnPodAdd, OnPodDelete and OnPodUpdate do to the      *)
(*    contents of a cache entry).                                          *)
(*                                                                         *)
(* A label set is one model value: only which selectors it satisfies       *)
(* matters.  A spec is the list of rules of one mapping generation, given  *)
(* by the constant functions Selector and RuleTargets.  A target with no   *)
(* addresses and an absent target are one and the same here: the           *)
(* reconciler drops empty targets before it uses the desired state         *)
(* (mapping_reconciler.go:383).                                            *)
(***************************************************************************)
EXTENDS Integers, FiniteSets

CONSTANTS
  Specs,        \* the mapping specs (lists of rules) that occur
  NumRules,     \* rules per spec; a rule with an empty selector set never matches
  Labels,       \* label sets a pod may carry
  Targets,      \* ASG targets (ASG resource id + prefix-set name, normalised)
  IPs,          \* pod addresses
  IPv6,         \* those of them that are IPv6
  NoIP,         \* status.podIP = ""
  PodIDs,       \* (namespace, name, UID) of the pods
  Selector,     \* Selector[s][i]: the label sets rule i of spec s selects
  RuleTargets   \* RuleTargets[s][i]: the ASG targets of rule i of spec s

Rules == 1..NumRules

ASSUME RulesAssumption == NumRules \in Nat
ASSUME IPAssumption == IPv6 \subseteq IPs /\ NoIP \notin IPs
ASSUME SelectorAssumption == Selector \in [Specs -> [Rules -> SUBSET Labels]]
ASSUME TargetsAssumption == RuleTargets \in [Specs -> [Rules -> SUBSET Targets]]

\* What the controller reads of a pod.
PodObjects == [id : PodIDs, label : Labels, ip : IPs \cup {NoIP}]

\* What listing the pods of a namespace can return.
PodLists == {P \in SUBSET PodObjects : /\ IsFiniteSet(P)
                                      /\ \A p, q \in P : p.id = q.id => p = q}

\* engine.toCIDR: an address becomes a host prefix of its family's width.
toCIDR(ip) == [addr |-> ip, bits |-> IF ip \in IPv6 THEN 128 ELSE 32]
CIDRs == {toCIDR(ip) : ip \in IPs}

matchPodToRuleIndices(s, pod) == {i \in Rules : pod.label \in Selector[s][i]}

\* The contents of a cache entry.  snapshot[p] = NoIP: p is not in the snapshot.
\* tracked is the domain of podRules, which is {} outside it.
Contents == [desired  : [Targets -> SUBSET CIDRs],
             snapshot : [PodIDs -> IPs \cup {NoIP}],
             matched  : [Rules -> Nat],
             tracked  : SUBSET PodIDs,
             podRules : [PodIDs -> SUBSET Rules],
             pending  : Nat]

-------------------------------------------------------------------------------
(***************************************************************************)
(* One pass over the pods of the mapping's namespace.                      *)
(***************************************************************************)
Matching(s, pods) == {p \in pods : matchPodToRuleIndices(s, p) # {}}
WithIP(pods) == {p \in pods : p.ip # NoIP}

DesiredOf(s, pods) ==
  [t \in Targets |->
     {toCIDR(p.ip) : p \in {q \in WithIP(pods) :
        \E i \in matchPodToRuleIndices(s, q) : t \in RuleTargets[s][i]}}]

Artifacts(s, pods) ==
  LET matched == Matching(s, pods)
      PodOf(id) == CHOOSE p \in matched : p.id = id
      ids == {p.id : p \in matched}
  IN  [desired  |-> DesiredOf(s, pods),
       snapshot |-> [id \in PodIDs |-> IF id \in ids THEN PodOf(id).ip ELSE NoIP],
       matched  |-> [i \in Rules |->
                       Cardinality({p \in pods : i \in matchPodToRuleIndices(s, p)})],
       tracked  |-> ids,
       podRules |-> [id \in PodIDs |-> IF id \in ids
                                       THEN matchPodToRuleIndices(s, PodOf(id)) ELSE {}],
       pending  |-> Cardinality(matched \ WithIP(matched))]
-------------------------------------------------------------------------------
(***************************************************************************)
(* One pod event at a time.                                                *)
(***************************************************************************)

\* Some other pod that contributes to rule i has the same address.
HasOtherContributor(c, id, i, ip) ==
  \E other \in c.tracked \ {id} :
    /\ i \in c.podRules[other]
    /\ c.snapshot[other] # NoIP
    /\ toCIDR(c.snapshot[other]) = toCIDR(ip)

AddedIPs(s, c, pod) ==
  [t \in Targets |->
     IF /\ pod.ip # NoIP
        /\ \E i \in matchPodToRuleIndices(s, pod) : t \in RuleTargets[s][i]
     THEN c.desired[t] \cup {toCIDR(pod.ip)} ELSE c.desired[t]]

\* OnPodAdd on an entry's contents: the match counts go up unconditionally.
AddPod(s, c, pod) ==
  LET rules == matchPodToRuleIndices(s, pod)
  IN  IF rules = {} THEN c
      ELSE [desired  |-> AddedIPs(s, c, pod),
            snapshot |-> IF pod.ip = NoIP THEN c.snapshot
                         ELSE [c.snapshot EXCEPT ![pod.id] = pod.ip],
            matched  |-> [i \in Rules |-> IF i \in rules THEN c.matched[i] + 1 ELSE c.matched[i]],
            tracked  |-> c.tracked \cup {pod.id},
            podRules |-> [c.podRules EXCEPT ![pod.id] = @ \cup rules],
            pending  |-> IF pod.ip = NoIP THEN c.pending + 1 ELSE c.pending]

\* Mutants of DeletePod: a match count goes below zero; the pod stays tracked.
DeletePodUnguarded(s, c, pod) ==
  LET rules == c.podRules[pod.id] \cup matchPodToRuleIndices(s, pod)
  IN  [c EXCEPT !.matched = [i \in Rules |-> IF i \in rules THEN @[i] - 1 ELSE @[i]],
                !.snapshot = [@ EXCEPT ![pod.id] = NoIP],
                !.tracked = @ \ {pod.id}]

DeletePodStillTracked(s, c, pod) ==
  LET rules == c.podRules[pod.id] \cup matchPodToRuleIndices(s, pod)
  IN  [c EXCEPT !.snapshot = [@ EXCEPT ![pod.id] = NoIP],
                !.desired = [t \in Targets |->
                   IF \E i \in rules : t \in RuleTargets[s][i] THEN @[t] \ {toCIDR(pod.ip)} ELSE @[t]]]

\* OnPodDelete on an entry's contents: an address leaves a rule's targets unless
\* another pod contributing to that same rule has it.
DeletePod(s, c, pod) ==
  LET rules == c.podRules[pod.id] \cup matchPodToRuleIndices(s, pod)
      wasPending == pod.id \in c.tracked /\ c.snapshot[pod.id] = NoIP
      Vacated(t) == /\ pod.ip # NoIP
                    /\ \E i \in rules : /\ t \in RuleTargets[s][i]
                                        /\ ~HasOtherContributor(c, pod.id, i, pod.ip)
  IN  [desired  |-> [t \in Targets |-> IF Vacated(t) THEN c.desired[t] \ {toCIDR(pod.ip)}
                                       ELSE c.desired[t]],
       snapshot |-> [c.snapshot EXCEPT ![pod.id] = NoIP],
       matched  |-> [i \in Rules |-> IF i \in rules /\ c.matched[i] > 0
                                     THEN c.matched[i] - 1 ELSE c.matched[i]],
       tracked  |-> c.tracked \ {pod.id},
       podRules |-> [c.podRules EXCEPT ![pod.id] = {}],
       pending  |-> IF wasPending /\ c.pending > 0 THEN c.pending - 1 ELSE c.pending]

\* OnPodUpdate's loop over the rules, in index order, seen from one target: a rule that
\* selected the old pod removes the old address, then, if it selects the new pod, adds
\* the new one.  So the old address is gone unless a rule adds it (as the new address)
\* in the same or in a later round than the last removal.
UpdatedIPs(s, c, old, new, t) ==
  LET removers == {i \in matchPodToRuleIndices(s, old) :
                     /\ t \in RuleTargets[s][i] /\ old.ip # NoIP
                     /\ ~HasOtherContributor(c, new.id, i, old.ip)}
      adders == {i \in matchPodToRuleIndices(s, new) : t \in RuleTargets[s][i] /\ new.ip # NoIP}
      added == {toCIDR(new.ip) : i \in adders}
      Survives(cidr) == removers # {} /\ cidr = toCIDR(old.ip) =>
                          cidr \in added /\ \E i \in adders : \A j \in removers : j <= i
  IN  {cidr \in c.desired[t] \cup added : Survives(cidr)}

\* OnPodUpdate on an entry's contents.
UpdatePod(s, c, old, new) ==
  LET was == matchPodToRuleIndices(s, old)
      now == matchPodToRuleIndices(s, new)
      id == new.id
      wasPending == id \in c.tracked /\ c.snapshot[id] = NoIP
      nowPending == now # {} /\ new.ip = NoIP
      contributes == (c.podRules[id] \cup (now \ was)) \ (was \ now)
  IN  [desired  |-> [t \in Targets |-> UpdatedIPs(s, c, old, new, t)],
       snapshot |-> [c.snapshot EXCEPT ![id] = IF now # {} THEN new.ip ELSE NoIP],
       matched  |-> [i \in Rules |->
                       IF i \in now \ was THEN c.matched[i] + 1
                       ELSE IF i \in was \ now /\ c.matched[i] > 0 THEN c.matched[i] - 1
                       ELSE c.matched[i]],
       tracked  |-> IF now = {} THEN c.tracked \ {id}
                    ELSE IF now \ was # {} THEN c.tracked \cup {id} ELSE c.tracked,
       podRules |-> [c.podRules EXCEPT ![id] = IF now = {} THEN {} ELSE contributes],
       pending  |-> IF wasPending /\ ~nowPending /\ c.pending > 0 THEN c.pending - 1
                    ELSE IF ~wasPending /\ nowPending THEN c.pending + 1
                    ELSE c.pending]
===============================================================================
