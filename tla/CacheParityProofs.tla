-------------------------- MODULE CacheParityProofs --------------------------
(***************************************************************************)
(* The parity contract of the desired-state cache: what is left of it when *)
(* pod events are replayed over recomputations that have already seen them,*)
(* for every set of pods, labels, addresses, rules, specs and generations. *)
(*                                                                         *)
(* The pod store is ahead of the notifications, so what a cache entry says *)
(* about a pod may be its present, its past or, after a replay, a mixture. *)
(* The argument: whatever the entry says, either the store says so too, or *)
(* a notification that is still pending takes it back.                     *)
(***************************************************************************)
EXTENDS PodCacheSystemProofs

\* A pod as a notification shows it, and what a spec makes of it.
PodStates == PodObjects \cup {NoPod}
RulesOf(s, o) == IF o = NoPod THEN {} ELSE matchPodToRuleIndices(s, o)
AddressOf(s, o) == IF RulesOf(s, o) = {} THEN NoIP ELSE o.ip

\* The states of a pod in which one piece of an entry is right.
Not(S) == PodStates \ S
HasRule(s, i) == {o \in PodStates : i \in RulesOf(s, o)}
Selected(s) == {o \in PodStates : RulesOf(s, o) # {}}
AtAddress(s, a) == {o \in PodStates : AddressOf(s, o) = a}
Contributing(s, i, a) == {o \in PodStates : i \in RulesOf(s, o) /\ o.ip = a}

RuleStates(s, c, id, i) == IF i \in c.podRules[id] THEN HasRule(s, i) ELSE Not(HasRule(s, i))
TrackedStates(s, c, id) == IF id \in c.tracked THEN Selected(s) ELSE Not(Selected(s))
AddressStates(s, c, id) == AtAddress(s, c.snapshot[id])

\* The pod a notification is about, and the pod the store has for an identity.
About(ev) == IF ev.old = NoPod THEN ev.new.id ELSE ev.old.id
Live == [id \in PodIDs |->
           IF pods[id[1]] # NoPod /\ pods[id[1]].id = id THEN pods[id[1]] ELSE NoPod]

\* With the pods L live, a pod is in S, or a notification of P is still to take it out of S.
Leaves(ev, S) == ev.old \in S /\ ev.new \notin S
EndsIn(L, P, id, S) == L[id] \in S \/ \E ev \in P : About(ev) = id /\ Leaves(ev, S)

\* The notifications in the queue, and the one in the handler's hands if the entry of the
\* current mapping may still depend on it: it was listed under this mapping, or it ends in an
\* invalidation.
Queued == {events[n] : n \in 1..Len(events)}
Counted ==
  \/ handler.failed \/ handler.pc = "invalidate"
  \/ /\ handler.oldM = MatchingMapping(handler.ev.old)
     /\ handler.pc = "listNew" \/ handler.newM = MatchingMapping(handler.ev.new)
Pending == Queued \cup (IF handler # Idle /\ Counted THEN {handler.ev} ELSE {})

\* The contents c are right for spec s with the pods L live, up to the notifications P.
RecordsRight(L, P, s, c) ==
  \A id \in PodIDs :
    /\ \A i \in Rules : EndsIn(L, P, id, RuleStates(s, c, id, i))
    /\ EndsIn(L, P, id, TrackedStates(s, c, id))
    /\ EndsIn(L, P, id, AddressStates(s, c, id))

NothingMissing(L, P, s, c) ==
  \A i \in Rules : \A t \in RuleTargets[s][i] : \A a \in IPs : \A id \in PodIDs :
    Unshared(s, t) /\ toCIDR(a) \notin c.desired[t] => EndsIn(L, P, id, Not(Contributing(s, i, a)))

NothingLeftOver(L, P, s, c) ==
  \A t \in Targets, a \in IPs :
    toCIDR(a) \in c.desired[t] =>
      \E i \in Rules, id \in PodIDs :
        t \in RuleTargets[s][i] /\ EndsIn(L, P, id, Contributing(s, i, a))

Right(L, P, s, c) ==
  RecordsRight(L, P, s, c) /\ NothingMissing(L, P, s, c) /\ (OneRule(s) => NothingLeftOver(L, P, s, c))
-------------------------------------------------------------------------------
(***************************************************************************)
(* The inductive invariant.                                                *)
(***************************************************************************)

\* Without relists a notification is about one pod.
OnePod(ev) == ev.old # NoPod /\ ev.new # NoPod => ev.old.id = ev.new.id
EventsOfOnePod ==
  /\ \A n \in 1..Len(events) : OnePod(events[n])
  /\ handler # Idle => OnePod(handler.ev)

\* The notifications of a pod lead, one after the other, to what the store has.
QueueSettles ==
  \A n \in 1..Len(events) : \A S \in SUBSET PodStates :
    events[n].new \in S =>
      \/ Live[About(events[n])] \in S
      \/ \E l \in (n + 1)..Len(events) : About(events[l]) = About(events[n]) /\ Leaves(events[l], S)

Settles(L, P, ev) == \A S \in SUBSET PodStates : ev.new \in S => EndsIn(L, P, About(ev), S)
HandlerSettles == handler # Idle => Settles(Live, Queued, handler.ev)

\* A copy of the mapping is the current one or an older generation of it.
Known(m) == m.uid = mapping.uid /\ (m.gen < mapping.gen \/ m = Ref(mapping))

CopiesKnown ==
  /\ mappingUID \in Nat
  /\ mapping # NoMapping =>
       /\ mapping.uid = mappingUID
       /\ handler # Idle => /\ handler.oldM # NoMapping => Known(handler.oldM)
                            /\ handler.newM # NoMapping => Known(handler.newM)
  /\ rec.pc \notin {"idle", "finalize"} => mapping # NoMapping /\ Known(rec.m)
  /\ \A g \in Gens : entries[TheKey][g] # NoEntry =>
       /\ entries[TheKey][g].uid <= mappingUID
       /\ mapping # NoMapping /\ entries[TheKey][g].uid = mapping.uid => g <= mapping.gen

\* What the handler found.
ListingsRight ==
  handler # Idle =>
    /\ handler.oldM # NoMapping => RulesOf(handler.oldM.spec, handler.ev.old) # {}
    /\ handler.newM # NoMapping => RulesOf(handler.newM.spec, handler.ev.new) # {}
    /\ /\ mapping # NoMapping /\ handler.oldM = Ref(mapping)
       /\ ~handler.failed /\ handler.pc = "apply"
       => handler.newM = MatchingMapping(handler.ev.new)

\* The ticket of a recomputation is the one of the mapping it is for.
HasArts == rec.pc = "publish" \/ (rec.pc = "fresh" /\ ~rec.retry)
TicketHeld ==
  rec.pc \in {"list", "fresh", "publish"} =>
    LET tk == recompute[TheWorker] IN
      tk # NoTicket /\ tk.key = TheKey /\ tk.gen = rec.m.gen /\ tk.uid = rec.m.uid

\* What is served, and what may still be published, is right up to what is pending.
ServedRight ==
  mapping # NoMapping /\ Hit(Ref(mapping)) => Right(Live, Pending, mapping.spec, Cached(Ref(mapping)))
ComputedRight ==
  HasArts /\ TheWorker \notin spoilt /\ rec.m = Ref(mapping) => Right(Live, Pending, rec.m.spec, rec.arts)

ParityInv ==
  /\ SystemInv /\ EventsOfOnePod /\ QueueSettles /\ HandlerSettles
  /\ CopiesKnown /\ ListingsRight /\ TicketHeld /\ ServedRight /\ ComputedRight
-------------------------------------------------------------------------------
(***************************************************************************)
(* What a pod event does to the contents c of an entry: d is what it makes *)
(* of them.  full: it does all that the notification calls for.            *)
(***************************************************************************)
Carries(ev, full, S, T) == ev.new \in T \/ (T = S /\ (full => ~Leaves(ev, S)))

RecordsHandled(s, c, d, ev, full) ==
  /\ \A id \in PodIDs \ {About(ev)} :
       /\ d.podRules[id] = c.podRules[id] /\ d.snapshot[id] = c.snapshot[id]
       /\ id \in d.tracked <=> id \in c.tracked
  /\ \A i \in Rules : Carries(ev, full, RuleStates(s, c, About(ev), i), RuleStates(s, d, About(ev), i))
  /\ Carries(ev, full, TrackedStates(s, c, About(ev)), TrackedStates(s, d, About(ev)))
  /\ Carries(ev, full, AddressStates(s, c, About(ev)), AddressStates(s, d, About(ev)))

NewAddress(s, ev, t, a) == \E i \in Rules : t \in RuleTargets[s][i] /\ ev.new \in Contributing(s, i, a)

AddressHandled(s, c, d, ev, full, i, t, a) ==
  /\ Unshared(s, t) /\ ev.new \in Contributing(s, i, a) /\ toCIDR(a) \notin d.desired[t] =>
       toCIDR(a) \notin c.desired[t] /\ ~full
  /\ Unshared(s, t) /\ toCIDR(a) \in c.desired[t] /\ toCIDR(a) \notin d.desired[t] =>
       ~HasOtherContributor(c, About(ev), i, a)
  /\ full /\ Leaves(ev, Contributing(s, i, a)) /\ toCIDR(a) \in d.desired[t] =>
       HasOtherContributor(c, About(ev), i, a) \/ NewAddress(s, ev, t, a)

AddressesHandled(s, c, d, ev, full) ==
  /\ \A i \in Rules : \A t \in RuleTargets[s][i] : \A a \in IPs :
       AddressHandled(s, c, d, ev, full, i, t, a)
  /\ \A t \in Targets, a \in IPs :
       toCIDR(a) \in d.desired[t] => toCIDR(a) \in c.desired[t] \/ NewAddress(s, ev, t, a)

Handles(s, c, d, ev, full) ==
  RecordsHandled(s, c, d, ev, full) /\ AddressesHandled(s, c, d, ev, full)

\* Different addresses have different host prefixes.
LEMMA CidrInjective == ASSUME NEW a, NEW b, toCIDR(a) = toCIDR(b) PROVE a = b
<1>1. toCIDR(a).addr = a /\ toCIDR(b).addr = b
  BY DEF toCIDR
<1> QED BY <1>1

\* The rules and the address of a pod.
LEMMA StateFacts ==
  ASSUME NEW s \in Specs, NEW o \in PodStates
  PROVE  /\ RulesOf(s, o) \subseteq Rules
         /\ AddressOf(s, o) \in IPs \cup {NoIP}
         /\ RulesOf(s, o) # {} => o \in PodObjects /\ RulesOf(s, o) = matchPodToRuleIndices(s, o)
                                  /\ AddressOf(s, o) = o.ip /\ o # NoPod
         /\ o \in PodObjects => RulesOf(s, o) = matchPodToRuleIndices(s, o)
<1>1. CASE o = NoPod
  BY <1>1, NoPodAssumption DEF RulesOf, AddressOf
<1>2. CASE o \in PodObjects
  BY <1>2, NoPodAssumption DEF RulesOf, AddressOf, matchPodToRuleIndices, PodObjects
<1> QED BY <1>1, <1>2 DEF PodStates

\* A notification that is not applied, because it concerns no rule or an older generation.
LEMMA NoneHandles ==
  ASSUME NEW s \in Specs, NEW c, NEW ev \in Notifications, NEW full,
         full => RulesOf(s, ev.old) = {} /\ RulesOf(s, ev.new) = {}
  PROVE  Handles(s, c, c, ev, full)
<1>1. ev.old \in PodStates /\ ev.new \in PodStates
  BY NotificationPods DEF PodStates
<1>2. full => /\ \A i : ev.old \notin HasRule(s, i) /\ ev.new \notin HasRule(s, i)
              /\ \A i, a : ev.old \notin Contributing(s, i, a) /\ ev.new \notin Contributing(s, i, a)
              /\ ev.old \notin Selected(s) /\ ev.new \notin Selected(s)
              /\ \A a : ev.old \in AtAddress(s, a) <=> ev.new \in AtAddress(s, a)
  BY <1>1 DEF HasRule, Contributing, Selected, AtAddress, AddressOf
<1>3. RecordsHandled(s, c, c, ev, full)
  <2>1. \A i \in Rules : full => ~Leaves(ev, RuleStates(s, c, About(ev), i))
    BY <1>1, <1>2 DEF Leaves, RuleStates, Not
  <2>2. full => ~Leaves(ev, TrackedStates(s, c, About(ev)))
    BY <1>1, <1>2 DEF Leaves, TrackedStates, Not
  <2>3. full => ~Leaves(ev, AddressStates(s, c, About(ev)))
    BY <1>2 DEF Leaves, AddressStates
  <2> QED BY <2>1, <2>2, <2>3 DEF RecordsHandled, Carries
<1>4. AddressesHandled(s, c, c, ev, full)
  BY <1>2 DEF AddressesHandled, AddressHandled, Leaves
<1> QED BY <1>3, <1>4 DEF Handles

\* OnPodAdd.  It does not undo what the old pod, if there was one, contributed.
LEMMA AddHandles ==
  ASSUME NEW s \in Specs, NEW c \in Contents, NEW ev \in Notifications, OnePod(ev),
         RulesOf(s, ev.new) # {}, NEW full, full => RulesOf(s, ev.old) = {}
  PROVE  Handles(s, c, AddPod(s, c, ev.new), ev, full)
<1> DEFINE new == ev.new
           id == About(ev)
           d == AddPod(s, c, new)
           rules == RulesOf(s, new)
<1>1. ev.old \in PodStates /\ new \in PodStates
  BY NotificationPods DEF PodStates
<1>2. new \in PodObjects /\ rules \subseteq Rules /\ rules = matchPodToRuleIndices(s, new)
      /\ AddressOf(s, new) = new.ip /\ new # NoPod
  BY <1>1, StateFacts
<1>3. id = new.id /\ id \in PodIDs
  BY <1>2, NotificationPods DEF About, OnePod, PodObjects
<1>4. /\ d.snapshot = IF new.ip = NoIP THEN c.snapshot ELSE [c.snapshot EXCEPT ![id] = new.ip]
      /\ d.tracked = c.tracked \cup {id}
      /\ d.podRules = [c.podRules EXCEPT ![id] = @ \cup rules]
      /\ d.desired = AddedIPs(s, c, new)
  BY <1>2, <1>3 DEF AddPod
<1>5. c.snapshot \in [PodIDs -> IPs \cup {NoIP}] /\ c.podRules \in [PodIDs -> SUBSET Rules]
  BY DEF Contents
<1> HIDE DEF new, id, d
<1>6. RecordsHandled(s, c, d, ev, full)
  <2>1. \A j \in PodIDs \ {id} : /\ d.podRules[j] = c.podRules[j] /\ d.snapshot[j] = c.snapshot[j]
                                 /\ j \in d.tracked <=> j \in c.tracked
    BY <1>4, <1>5
  <2>2. ASSUME NEW i \in Rules
        PROVE  Carries(ev, full, RuleStates(s, c, id, i), RuleStates(s, d, id, i))
    <3>1. d.podRules[id] = c.podRules[id] \cup rules
      BY <1>3, <1>4, <1>5
    <3>2. CASE i \in rules
      BY <1>1, <3>1, <3>2 DEF Carries, RuleStates, HasRule, new
    <3>3. CASE i \notin rules
      <4>1. RuleStates(s, d, id, i) = RuleStates(s, c, id, i)
        BY <3>1, <3>3 DEF RuleStates
      <4>2. full => ~Leaves(ev, RuleStates(s, c, id, i))
        BY <1>1, <3>3 DEF Leaves, RuleStates, HasRule, Not, new
      <4> QED BY <4>1, <4>2 DEF Carries
    <3> QED BY <3>2, <3>3
  <2>3. Carries(ev, full, TrackedStates(s, c, id), TrackedStates(s, d, id))
    BY <1>1, <1>4 DEF Carries, TrackedStates, Selected, new
  <2>4. Carries(ev, full, AddressStates(s, c, id), AddressStates(s, d, id))
    <3>1. CASE new.ip # NoIP
      <4>1. d.snapshot[id] = new.ip
        BY <1>3, <1>4, <1>5, <3>1
      <4> QED BY <1>1, <1>2, <4>1 DEF Carries, AddressStates, AtAddress, new
    <3>2. CASE new.ip = NoIP
      <4>1. AddressStates(s, d, id) = AddressStates(s, c, id)
        BY <1>4, <3>2 DEF AddressStates
      <4>2. full => ~Leaves(ev, AddressStates(s, c, id))
        BY <1>1, <1>2, <3>2 DEF Leaves, AddressStates, AtAddress, AddressOf, new
      <4> QED BY <4>1, <4>2 DEF Carries
    <3> QED BY <3>1, <3>2
  <2> QED BY <2>1, <2>2, <2>3, <2>4 DEF RecordsHandled, id
<1>7. \A t \in Targets : d.desired[t] =
        IF new.ip # NoIP /\ \E i \in rules : t \in RuleTargets[s][i]
        THEN c.desired[t] \cup {toCIDR(new.ip)} ELSE c.desired[t]
  BY <1>2, <1>4 DEF AddedIPs
<1>8. AddressesHandled(s, c, d, ev, full)
  <2>1. ASSUME NEW i \in Rules, NEW t \in RuleTargets[s][i], NEW a \in IPs
        PROVE  AddressHandled(s, c, d, ev, full, i, t, a)
    <3>1. t \in Targets /\ a # NoIP
      BY TargetsAssumption, IPAssumption
    <3>2. new \in Contributing(s, i, a) => toCIDR(a) \in d.desired[t]
      BY <1>7, <3>1 DEF Contributing
    <3>3. toCIDR(a) \in c.desired[t] => toCIDR(a) \in d.desired[t]
      BY <1>7, <3>1
    <3>4. full => ~Leaves(ev, Contributing(s, i, a))
      BY DEF Leaves, Contributing
    <3> QED BY <3>2, <3>3, <3>4 DEF AddressHandled, new
  <2>2. ASSUME NEW t \in Targets, NEW a \in IPs, toCIDR(a) \in d.desired[t],
               toCIDR(a) \notin c.desired[t]
        PROVE  NewAddress(s, ev, t, a)
    <3>1. toCIDR(a) = toCIDR(new.ip)
      BY <1>7, <2>2
    <3>2. a = new.ip
      BY <3>1, CidrInjective
    <3>3. \E i \in rules : t \in RuleTargets[s][i]
      BY <1>7, <2>2
    <3> QED BY <1>1, <1>2, <3>2, <3>3 DEF NewAddress, Contributing, new
  <2> QED BY <2>1, <2>2 DEF AddressesHandled
<1> QED BY <1>6, <1>8 DEF Handles, d, new

\* OnPodDelete, for a pod that is gone or is selected no more.
LEMMA DeleteHandles ==
  ASSUME NEW s \in Specs, NEW c \in Contents, NEW ev \in Notifications, OnePod(ev),
         ev.old \in PodObjects, RulesOf(s, ev.new) = {}
  PROVE  Handles(s, c, DeletePod(s, c, ev.old), ev, TRUE)
<1> DEFINE old == ev.old
           id == About(ev)
           d == DeletePod(s, c, old)
           rules == c.podRules[id] \cup matchPodToRuleIndices(s, old)
<1>1. old \in PodStates /\ ev.new \in PodStates
  BY NotificationPods DEF PodStates
<1>2. id = old.id /\ id \in PodIDs /\ RulesOf(s, old) = matchPodToRuleIndices(s, old)
  BY <1>1, StateFacts, NoPodAssumption DEF About, PodObjects
<1>3. /\ d.snapshot = [c.snapshot EXCEPT ![id] = NoIP]
      /\ d.tracked = c.tracked \ {id}
      /\ d.podRules = [c.podRules EXCEPT ![id] = {}]
      /\ \A t \in Targets : d.desired[t] =
           IF old.ip # NoIP /\ \E i \in rules : /\ t \in RuleTargets[s][i]
                                                /\ ~HasOtherContributor(c, id, i, old.ip)
           THEN c.desired[t] \ {toCIDR(old.ip)} ELSE c.desired[t]
  BY <1>2 DEF DeletePod
<1>4. c.snapshot \in [PodIDs -> IPs \cup {NoIP}] /\ c.podRules \in [PodIDs -> SUBSET Rules]
  BY DEF Contents
<1>5. \A i, a : ev.new \notin HasRule(s, i) /\ ev.new \notin Contributing(s, i, a)
  BY DEF HasRule, Contributing
<1> HIDE DEF old, id, d
<1>6. RecordsHandled(s, c, d, ev, TRUE)
  <2>1. \A j \in PodIDs \ {id} : /\ d.podRules[j] = c.podRules[j] /\ d.snapshot[j] = c.snapshot[j]
                                 /\ j \in d.tracked <=> j \in c.tracked
    BY <1>3, <1>4
  <2>2. d.podRules[id] = {} /\ d.snapshot[id] = NoIP /\ id \notin d.tracked
    BY <1>2, <1>3, <1>4
  <2>3. \A i \in Rules : ev.new \in RuleStates(s, d, id, i)
    BY <1>1, <1>5, <2>2 DEF RuleStates, Not
  <2>4. ev.new \in TrackedStates(s, d, id)
    BY <1>1, <2>2 DEF TrackedStates, Selected, Not
  <2>5. ev.new \in AddressStates(s, d, id)
    BY <1>1, <2>2 DEF AddressStates, AtAddress, AddressOf
  <2> QED BY <2>1, <2>3, <2>4, <2>5 DEF RecordsHandled, Carries, id
<1>7. AddressesHandled(s, c, d, ev, TRUE)
  <2>1. ASSUME NEW i \in Rules, NEW t \in RuleTargets[s][i], NEW a \in IPs
        PROVE  AddressHandled(s, c, d, ev, TRUE, i, t, a)
    <3>1. t \in Targets /\ a # NoIP
      BY TargetsAssumption, IPAssumption
    <3>2. ASSUME Unshared(s, t), toCIDR(a) \in c.desired[t], toCIDR(a) \notin d.desired[t]
          PROVE  ~HasOtherContributor(c, id, i, a)
      <4>1. PICK j \in rules : t \in RuleTargets[s][j] /\ ~HasOtherContributor(c, id, j, old.ip)
        BY <1>3, <3>1, <3>2
      <4>2. toCIDR(a) = toCIDR(old.ip)
        BY <1>3, <3>1, <3>2
      <4>3. a = old.ip
        BY <4>2, CidrInjective
      <4>4. j \in Rules
        BY <1>2, <1>4 DEF matchPodToRuleIndices
      <4>5. j = i
        BY <3>2, <4>1, <4>4 DEF Unshared
      <4> QED BY <4>1, <4>3, <4>5
    <3>3. ASSUME Leaves(ev, Contributing(s, i, a)), toCIDR(a) \in d.desired[t]
          PROVE  HasOtherContributor(c, id, i, a)
      <4>1. old.ip = a /\ i \in matchPodToRuleIndices(s, old)
        BY <1>2, <3>3 DEF Leaves, Contributing, old
      <4> QED BY <1>3, <3>1, <3>3, <4>1
    <3> QED BY <1>5, <3>2, <3>3 DEF AddressHandled, id
  <2>2. \A t \in Targets, a \in IPs : toCIDR(a) \in d.desired[t] => toCIDR(a) \in c.desired[t]
    BY <1>3
  <2> QED BY <2>1, <2>2 DEF AddressesHandled
<1> QED BY <1>6, <1>7 DEF Handles, d, old

\* OnPodUpdate.
LEMMA UpdateHandles ==
  ASSUME NEW s \in Specs, NEW c \in Contents, NEW ev \in Notifications, OnePod(ev),
         ev.old \in PodObjects, ev.new \in PodObjects
  PROVE  Handles(s, c, UpdatePod(s, c, ev.old, ev.new), ev, TRUE)
<1> DEFINE old == ev.old
           new == ev.new
           id == About(ev)
           d == UpdatePod(s, c, old, new)
           was == matchPodToRuleIndices(s, old)
           now == matchPodToRuleIndices(s, new)
<1>1. old \in PodStates /\ new \in PodStates
  BY DEF PodStates
<1>2. id = old.id /\ id = new.id /\ id \in PodIDs /\ RulesOf(s, old) = was /\ RulesOf(s, new) = now
  BY <1>1, StateFacts, NoPodAssumption DEF About, OnePod, PodObjects
<1>3. /\ d.snapshot = [c.snapshot EXCEPT ![id] = IF now # {} THEN new.ip ELSE NoIP]
      /\ d.tracked = IF now = {} THEN c.tracked \ {id}
                     ELSE IF now \ was # {} THEN c.tracked \cup {id} ELSE c.tracked
      /\ d.podRules = [c.podRules EXCEPT ![id] =
           IF now = {} THEN {} ELSE (c.podRules[id] \cup (now \ was)) \ (was \ now)]
      /\ \A t \in Targets : d.desired[t] = UpdatedIPs(s, c, old, new, t)
  BY <1>2 DEF UpdatePod
<1>4. c.snapshot \in [PodIDs -> IPs \cup {NoIP}] /\ c.podRules \in [PodIDs -> SUBSET Rules]
  BY DEF Contents
<1>5. was \subseteq Rules /\ now \subseteq Rules
  BY DEF matchPodToRuleIndices
<1> HIDE DEF old, new, id, d, was, now
<1>6. RecordsHandled(s, c, d, ev, TRUE)
  <2>1. \A j \in PodIDs \ {id} : /\ d.podRules[j] = c.podRules[j] /\ d.snapshot[j] = c.snapshot[j]
                                 /\ j \in d.tracked <=> j \in c.tracked
    BY <1>3, <1>4
  <2>2. ASSUME NEW i \in Rules
        PROVE  Carries(ev, TRUE, RuleStates(s, c, id, i), RuleStates(s, d, id, i))
    <3>1. d.podRules[id] = IF now = {} THEN {} ELSE (c.podRules[id] \cup (now \ was)) \ (was \ now)
      BY <1>2, <1>3, <1>4
    <3>2. CASE i \in now /\ (i \notin was \/ i \in c.podRules[id])
      <4>1. i \in d.podRules[id]
        BY <3>1, <3>2
      <4> QED BY <1>1, <1>2, <3>2, <4>1 DEF Carries, RuleStates, HasRule, new
    <3>3. CASE i \notin now /\ (i \in was \/ i \notin c.podRules[id] \/ now = {})
      <4>1. i \notin d.podRules[id]
        BY <3>1, <3>3
      <4> QED BY <1>1, <1>2, <3>3, <4>1 DEF Carries, RuleStates, HasRule, Not, new
    <3>4. CASE (i \in now <=> i \in was) /\ now # {}
      <4>1. RuleStates(s, d, id, i) = RuleStates(s, c, id, i)
        BY <3>1, <3>4 DEF RuleStates
      <4>2. ~Leaves(ev, RuleStates(s, c, id, i))
        BY <1>1, <1>2, <3>4 DEF Leaves, RuleStates, HasRule, Not, old, new
      <4> QED BY <4>1, <4>2 DEF Carries
    <3> QED BY <3>2, <3>3, <3>4
  <2>3. Carries(ev, TRUE, TrackedStates(s, c, id), TrackedStates(s, d, id))
    <3>1. CASE now = {}
      BY <1>1, <1>2, <1>3, <3>1 DEF Carries, TrackedStates, Selected, Not, new
    <3>2. CASE now \ was # {}
      BY <1>1, <1>2, <1>3, <3>2 DEF Carries, TrackedStates, Selected, new
    <3>3. CASE now # {} /\ now \ was = {}
      <4>1. TrackedStates(s, d, id) = TrackedStates(s, c, id)
        BY <1>3, <3>3 DEF TrackedStates
      <4>2. old \in Selected(s) /\ new \in Selected(s)
        BY <1>1, <1>2, <3>3 DEF Selected
      <4> QED BY <1>1, <4>1, <4>2 DEF Carries, Leaves, TrackedStates, Not, old, new
    <3> QED BY <3>1, <3>2, <3>3
  <2>4. Carries(ev, TRUE, AddressStates(s, c, id), AddressStates(s, d, id))
    <3>1. d.snapshot[id] = AddressOf(s, new)
      BY <1>2, <1>3, <1>4 DEF AddressOf
    <3> QED BY <1>1, <3>1 DEF Carries, AddressStates, AtAddress, new
  <2> QED BY <2>1, <2>2, <2>3, <2>4 DEF RecordsHandled, id
<1>7. AddressesHandled(s, c, d, ev, TRUE)
  <2> DEFINE removers(t) == {i \in was : /\ t \in RuleTargets[s][i] /\ old.ip # NoIP
                                         /\ ~HasOtherContributor(c, id, i, old.ip)}
             adders(t) == {i \in now : t \in RuleTargets[s][i] /\ new.ip # NoIP}
             added(t) == {toCIDR(new.ip) : i \in adders(t)}
             Survives(t, cidr) == removers(t) # {} /\ cidr = toCIDR(old.ip) =>
                          cidr \in added(t) /\ \E i \in adders(t) : \A j \in removers(t) : j <= i
  <2>0. \A t \in Targets : d.desired[t] = {cidr \in c.desired[t] \cup added(t) : Survives(t, cidr)}
    BY <1>2, <1>3 DEF UpdatedIPs, was, now
  <2>1. ASSUME NEW t \in Targets, NEW a \in IPs, toCIDR(a) \in added(t)
        PROVE  NewAddress(s, ev, t, a)
    <3>1. PICK i \in adders(t) : toCIDR(a) = toCIDR(new.ip)
      BY <2>1
    <3>2. a = new.ip
      BY <3>1, CidrInjective
    <3> QED BY <1>1, <1>2, <1>5, <3>1, <3>2 DEF NewAddress, Contributing, new
  <2>2. ASSUME NEW i \in Rules, NEW t \in RuleTargets[s][i], NEW a \in IPs
        PROVE  AddressHandled(s, c, d, ev, TRUE, i, t, a)
    <3>1. t \in Targets /\ a # NoIP
      BY TargetsAssumption, IPAssumption
    <3>2. ASSUME Unshared(s, t), new \in Contributing(s, i, a) PROVE toCIDR(a) \in d.desired[t]
      <4>1. i \in adders(t) /\ new.ip = a
        BY <1>2, <3>1, <3>2 DEF Contributing
      <4>2. toCIDR(a) \in added(t)
        BY <4>1
      <4>3. \A j \in removers(t) : j = i
        BY <1>5, <3>2 DEF Unshared
      <4>4. \A j \in removers(t) : j <= i
        <5>1. i \in Int
          BY DEF Rules
        <5> QED BY <4>3, <5>1
      <4> QED BY <2>0, <3>1, <4>1, <4>2, <4>4
    <3>3. ASSUME Unshared(s, t), toCIDR(a) \in c.desired[t], toCIDR(a) \notin d.desired[t]
          PROVE  ~HasOtherContributor(c, id, i, a)
      <4>1. ~Survives(t, toCIDR(a))
        BY <2>0, <3>1, <3>3
      <4>2. PICK j \in removers(t) : toCIDR(a) = toCIDR(old.ip)
        BY <4>1
      <4>3. a = old.ip
        BY <4>2, CidrInjective
      <4>4. j = i
        BY <1>5, <3>3 DEF Unshared
      <4> QED BY <4>2, <4>3, <4>4
    <3>4. ASSUME Leaves(ev, Contributing(s, i, a)), toCIDR(a) \in d.desired[t],
                 ~HasOtherContributor(c, id, i, a)
          PROVE  NewAddress(s, ev, t, a)
      <4>1. old.ip = a /\ i \in was
        BY <1>2, <3>4 DEF Leaves, Contributing, old
      <4>2. i \in removers(t)
        BY <3>1, <3>4, <4>1
      <4>3. Survives(t, toCIDR(a))
        BY <2>0, <3>1, <3>4
      <4>4. toCIDR(a) \in added(t)
        BY <4>1, <4>2, <4>3
      <4> QED BY <2>1, <3>1, <4>4
    <3> QED BY <3>2, <3>3, <3>4 DEF AddressHandled, id, new
  <2>3. \A t \in Targets, a \in IPs :
          toCIDR(a) \in d.desired[t] => toCIDR(a) \in c.desired[t] \/ NewAddress(s, ev, t, a)
    BY <2>0, <2>1
  <2> QED BY <2>2, <2>3 DEF AddressesHandled
<1> QED BY <1>6, <1>7 DEF Handles, d, old, new
-------------------------------------------------------------------------------
(***************************************************************************)
(* A handled notification is no longer pending, and the entry is right     *)
(* without it.                                                             *)
(***************************************************************************)

\* A larger set of states is easier to end in.
LEMMA Widen ==
  ASSUME NEW L, NEW Q, \A e \in Q : Settles(L, Q, e),
         NEW id, NEW S, NEW T \in SUBSET PodStates, S \subseteq T, EndsIn(L, Q, id, S)
  PROVE  EndsIn(L, Q, id, T)
<1>1. CASE L[id] \in S
  BY <1>1 DEF EndsIn
<1>2. ASSUME NEW e \in Q, About(e) = id, Leaves(e, S) PROVE EndsIn(L, Q, id, T)
  <2>1. CASE e.new \in T
    BY <1>2, <2>1 DEF Settles
  <2>2. CASE e.new \notin T
    BY <1>2, <2>2 DEF EndsIn, Leaves
  <2> QED BY <2>1, <2>2
<1> QED BY <1>1, <1>2 DEF EndsIn

\* What ends in a set of states with the pods L and the notifications P does so with M and Q.
Carried(L, P, M, Q) == \A id \in PodIDs : \A S : EndsIn(L, P, id, S) => EndsIn(M, Q, id, S)

LEMMA CarriedRight ==
  ASSUME NEW L, NEW P, NEW M, NEW Q, Carried(L, P, M, Q), NEW s, NEW c, Right(L, P, s, c)
  PROVE  Right(M, Q, s, c)
<1>1. RecordsRight(M, Q, s, c)
  BY DEF Carried, Right, RecordsRight
<1>2. NothingMissing(M, Q, s, c)
  BY DEF Carried, Right, NothingMissing
<1>3. OneRule(s) => NothingLeftOver(M, Q, s, c)
  BY DEF Carried, Right, NothingLeftOver
<1> QED BY <1>1, <1>2, <1>3 DEF Right

\* More notifications may be pending.
LEMMA MorePending ==
  ASSUME NEW L, NEW P, NEW Q, P \subseteq Q
  PROVE  Carried(L, P, L, Q)
BY DEF Carried, EndsIn

LEMMA HandledRight ==
  ASSUME NEW L, NEW Q, \A e \in Q : Settles(L, Q, e),
         NEW ev \in Notifications, Settles(L, Q, ev),
         NEW P, P \subseteq Q \cup {ev}, NEW full, P \subseteq Q \/ full,
         NEW s \in Specs, NEW c \in Contents, NEW d, Right(L, P, s, c), Handles(s, c, d, ev, full)
  PROVE  Right(L, Q, s, d)
<1>1. ev.new \in PodStates
  BY NotificationPods DEF PodStates
<1>2. /\ RecordsHandled(s, c, d, ev, full) /\ AddressesHandled(s, c, d, ev, full)
      /\ RecordsRight(L, P, s, c) /\ NothingMissing(L, P, s, c)
      /\ OneRule(s) => NothingLeftOver(L, P, s, c)
  BY DEF Handles, Right
<1>3. ASSUME NEW S, NEW T \in SUBSET PodStates, Carries(ev, full, S, T), EndsIn(L, P, About(ev), S)
      PROVE  EndsIn(L, Q, About(ev), T)
  <2>1. CASE ev.new \in T
    BY <2>1 DEF Settles
  <2>2. CASE T = S /\ (full => ~Leaves(ev, S))
    BY <1>3, <2>2 DEF EndsIn
  <2> QED BY <1>3, <2>1, <2>2 DEF Carries
<1>4. ASSUME NEW id \in PodIDs \ {About(ev)}, NEW S, EndsIn(L, P, id, S)
      PROVE  EndsIn(L, Q, id, S)
  BY <1>4 DEF EndsIn
<1>5. /\ \A i \in Rules : HasRule(s, i) \in SUBSET PodStates
      /\ Selected(s) \in SUBSET PodStates
      /\ \A a : AtAddress(s, a) \in SUBSET PodStates
      /\ \A i, a : Contributing(s, i, a) \in SUBSET PodStates
      /\ \A S : Not(S) \in SUBSET PodStates
  BY DEF HasRule, Selected, AtAddress, Contributing, Not
<1>6. RecordsRight(L, Q, s, d)
  <2>1. ASSUME NEW i \in Rules, NEW id \in PodIDs
        PROVE  EndsIn(L, Q, id, RuleStates(s, d, id, i))
    <3>1. RuleStates(s, d, id, i) \in SUBSET PodStates /\ EndsIn(L, P, id, RuleStates(s, c, id, i))
      BY <1>2, <1>5 DEF RuleStates, RecordsRight
    <3>2. CASE id = About(ev)
      BY <1>2, <1>3, <3>1, <3>2 DEF RecordsHandled
    <3>3. CASE id # About(ev)
      <4>1. RuleStates(s, d, id, i) = RuleStates(s, c, id, i)
        BY <1>2, <3>3 DEF RecordsHandled, RuleStates
      <4> QED BY <1>4, <3>1, <3>3, <4>1
    <3> QED BY <3>2, <3>3
  <2>2. ASSUME NEW id \in PodIDs PROVE EndsIn(L, Q, id, TrackedStates(s, d, id))
    <3>1. TrackedStates(s, d, id) \in SUBSET PodStates /\ EndsIn(L, P, id, TrackedStates(s, c, id))
      BY <1>2, <1>5 DEF TrackedStates, RecordsRight
    <3>2. CASE id = About(ev)
      BY <1>2, <1>3, <3>1, <3>2 DEF RecordsHandled
    <3>3. CASE id # About(ev)
      <4>1. TrackedStates(s, d, id) = TrackedStates(s, c, id)
        BY <1>2, <3>3 DEF RecordsHandled, TrackedStates
      <4> QED BY <1>4, <3>1, <3>3, <4>1
    <3> QED BY <3>2, <3>3
  <2>3. ASSUME NEW id \in PodIDs PROVE EndsIn(L, Q, id, AddressStates(s, d, id))
    <3>1. AddressStates(s, d, id) \in SUBSET PodStates /\ EndsIn(L, P, id, AddressStates(s, c, id))
      BY <1>2, <1>5 DEF AddressStates, RecordsRight
    <3>2. CASE id = About(ev)
      BY <1>2, <1>3, <3>1, <3>2 DEF RecordsHandled
    <3>3. CASE id # About(ev)
      <4>1. AddressStates(s, d, id) = AddressStates(s, c, id)
        BY <1>2, <3>3 DEF RecordsHandled, AddressStates
      <4> QED BY <1>4, <3>1, <3>3, <4>1
    <3> QED BY <3>2, <3>3
  <2> QED BY <2>1, <2>2, <2>3 DEF RecordsRight
<1>7. NothingMissing(L, Q, s, d)
  <2> SUFFICES ASSUME NEW i \in Rules, NEW t \in RuleTargets[s][i], NEW a \in IPs, NEW id \in PodIDs,
                      Unshared(s, t), toCIDR(a) \notin d.desired[t]
               PROVE  EndsIn(L, Q, id, Not(Contributing(s, i, a)))
    BY DEF NothingMissing
  <2>1. AddressHandled(s, c, d, ev, full, i, t, a)
    BY <1>2 DEF AddressesHandled
  <2>2. toCIDR(a) \notin c.desired[t] => EndsIn(L, P, id, Not(Contributing(s, i, a)))
    BY <1>2 DEF NothingMissing
  <2>3. CASE id = About(ev)
    <3>1. CASE ev.new \in Not(Contributing(s, i, a))
      BY <1>5, <2>3, <3>1 DEF Settles
    <3>2. CASE ev.new \in Contributing(s, i, a)
      <4>1. toCIDR(a) \notin c.desired[t] /\ ~full
        BY <2>1, <3>2 DEF AddressHandled
      <4> QED BY <2>2, <4>1 DEF EndsIn
    <3> QED BY <1>1, <3>1, <3>2 DEF Not
  <2>4. CASE id # About(ev) /\ toCIDR(a) \notin c.desired[t]
    BY <1>4, <2>2, <2>4
  <2>5. CASE id # About(ev) /\ toCIDR(a) \in c.desired[t]
    <3>1. ~HasOtherContributor(c, About(ev), i, a)
      BY <2>1, <2>5 DEF AddressHandled
    <3>2. id \notin c.tracked \/ i \notin c.podRules[id] \/ c.snapshot[id] # a
      BY <2>5, <3>1, IPAssumption DEF HasOtherContributor
    <3>3. CASE id \notin c.tracked
      <4>1. EndsIn(L, Q, id, Not(Selected(s)))
        BY <1>2, <1>4, <2>5, <3>3 DEF RecordsRight, TrackedStates
      <4>2. Not(Selected(s)) \subseteq Not(Contributing(s, i, a))
        BY DEF Not, Selected, Contributing
      <4> QED BY <1>5, <4>1, <4>2, Widen
    <3>4. CASE i \notin c.podRules[id]
      <4>1. EndsIn(L, Q, id, Not(HasRule(s, i)))
        BY <1>2, <1>4, <2>5, <3>4 DEF RecordsRight, RuleStates
      <4>2. Not(HasRule(s, i)) \subseteq Not(Contributing(s, i, a))
        BY DEF Not, HasRule, Contributing
      <4> QED BY <1>5, <4>1, <4>2, Widen
    <3>5. CASE c.snapshot[id] # a
      <4>1. EndsIn(L, Q, id, AtAddress(s, c.snapshot[id]))
        BY <1>2, <1>4, <2>5 DEF RecordsRight, AddressStates
      <4>2. AtAddress(s, c.snapshot[id]) \subseteq Not(Contributing(s, i, a))
        BY <3>5 DEF Not, AtAddress, AddressOf, Contributing
      <4> QED BY <1>5, <4>1, <4>2, Widen
    <3> QED BY <3>2, <3>3, <3>4, <3>5
  <2> QED BY <2>3, <2>4, <2>5
<1>8. ASSUME OneRule(s) PROVE NothingLeftOver(L, Q, s, d)
  <2> SUFFICES ASSUME NEW t \in Targets, NEW a \in IPs, toCIDR(a) \in d.desired[t]
               PROVE  \E i \in Rules, id \in PodIDs :
                        t \in RuleTargets[s][i] /\ EndsIn(L, Q, id, Contributing(s, i, a))
    BY DEF NothingLeftOver
  <2>1. CASE NewAddress(s, ev, t, a)
    <3>1. PICK i \in Rules : t \in RuleTargets[s][i] /\ ev.new \in Contributing(s, i, a)
      BY <2>1 DEF NewAddress
    <3>2. EndsIn(L, Q, About(ev), Contributing(s, i, a))
      BY <1>5, <3>1 DEF Settles
    <3>3. About(ev) \in PodIDs
      BY NoPodAssumption DEF About, Notifications, PodObjects
    <3> QED BY <3>1, <3>2, <3>3
  <2>2. CASE ~NewAddress(s, ev, t, a)
    <3>1. toCIDR(a) \in c.desired[t]
      BY <1>2, <2>2 DEF AddressesHandled
    <3>2. PICK i \in Rules, id \in PodIDs :
            t \in RuleTargets[s][i] /\ EndsIn(L, P, id, Contributing(s, i, a))
      BY <1>2, <1>8, <3>1 DEF NothingLeftOver
    <3>3. CASE id # About(ev)
      BY <1>4, <3>2, <3>3
    <3>4. CASE id = About(ev) /\ EndsIn(L, Q, id, Contributing(s, i, a))
      BY <3>2, <3>4
    <3>5. CASE id = About(ev) /\ ~EndsIn(L, Q, id, Contributing(s, i, a))
      <4>1. full /\ Leaves(ev, Contributing(s, i, a))
        BY <3>2, <3>5 DEF EndsIn
      <4>2. AddressHandled(s, c, d, ev, full, i, t, a)
        BY <1>2, <3>2 DEF AddressesHandled
      <4>3. HasOtherContributor(c, About(ev), i, a)
        BY <2>2, <4>1, <4>2 DEF AddressHandled
      <4>4. PICK q \in c.tracked \ {About(ev)} : toCIDR(c.snapshot[q]) = toCIDR(a)
        BY <4>3 DEF HasOtherContributor
      <4>5. c.snapshot[q] = a /\ q \in PodIDs \ {About(ev)}
        BY <4>4, CidrInjective DEF Contents
      <4>6. EndsIn(L, Q, q, AtAddress(s, a))
        BY <1>2, <1>4, <4>5 DEF RecordsRight, AddressStates
      <4>7. AtAddress(s, a) \subseteq Contributing(s, i, a)
        <5> SUFFICES ASSUME NEW o \in AtAddress(s, a) PROVE o \in Contributing(s, i, a)
          OBVIOUS
        <5>1. RulesOf(s, o) # {} /\ o.ip = a /\ o \in PodStates
          BY IPAssumption DEF AtAddress, AddressOf
        <5>2. PICK j \in RulesOf(s, o) : TRUE
          BY <5>1
        <5>3. j \in Rules /\ Selector[s][j] # {}
          BY <5>2 DEF RulesOf, matchPodToRuleIndices
        <5>4. Selector[s][i] # {}
          BY <4>1 DEF Leaves, Contributing, RulesOf, matchPodToRuleIndices
        <5>5. j = i
          BY <1>8, <5>3, <5>4 DEF OneRule, Blank
        <5> QED BY <5>1, <5>2, <5>5 DEF Contributing
      <4>8. EndsIn(L, Q, q, Contributing(s, i, a))
        BY <1>5, <4>6, <4>7, Widen
      <4> QED BY <3>2, <4>5, <4>8
    <3> QED BY <3>3, <3>4, <3>5
  <2> QED BY <2>1, <2>2
<1> QED BY <1>6, <1>7, <1>8 DEF Right
-------------------------------------------------------------------------------
(***************************************************************************)
(* The pods the store has.                                                 *)
(***************************************************************************)

\* The live pod of an identity carries that identity.
LEMMA LiveType ==
  ASSUME PodsOK
  PROVE  /\ Live \in [PodIDs -> PodStates]
         /\ \A id \in PodIDs : Live[id] # NoPod => Live[id] \in PodObjects /\ Live[id].id = id
                                                  /\ Live[id] \in StorePods
<1>1. \A id \in PodIDs : id[1] \in PodNames
  BY PodIDsAssumption
<1>2. Live \in [PodIDs -> PodStates]
  BY <1>1 DEF Live, PodStates, PodsOK
<1>3. ASSUME NEW id \in PodIDs, Live[id] # NoPod
      PROVE  Live[id] \in PodObjects /\ Live[id].id = id /\ Live[id] \in StorePods
  BY <1>1, <1>3 DEF Live, PodsOK, StorePods
<1> QED BY <1>2, <1>3

\* Every pod of the store is live.
LEMMA StoreIsLive ==
  ASSUME PodsOK, NEW p \in StorePods
  PROVE  p \in PodObjects /\ p.id \in PodIDs /\ Live[p.id] = p
<1>1. PICK n \in PodNames : p = pods[n] /\ pods[n] # NoPod
  BY DEF StorePods
<1>2. p \in PodObjects /\ p.id = <<n, podUID[n]>>
  BY <1>1 DEF PodsOK
<1>3. p.id \in PodIDs /\ p.id[1] = n
  BY <1>2 DEF PodObjects
<1> QED BY <1>1, <1>2, <1>3 DEF Live

\* What a recomputation says of each pod.
LEMMA RecomputedRecords ==
  ASSUME PodsOK, NEW s \in Specs, NEW id \in PodIDs
  PROVE  LET r == Artifacts(s, StorePods) IN
           /\ r.snapshot[id] = AddressOf(s, Live[id])
           /\ id \in r.tracked <=> RulesOf(s, Live[id]) # {}
           /\ r.podRules[id] = RulesOf(s, Live[id])
<1> DEFINE matched == Matching(s, StorePods)
           ids == {p.id : p \in matched}
           PodOf == CHOOSE p \in matched : p.id = id
           r == Artifacts(s, StorePods)
<1>1. /\ r.snapshot[id] = IF id \in ids THEN PodOf.ip ELSE NoIP
      /\ r.tracked = ids
      /\ r.podRules[id] = IF id \in ids THEN matchPodToRuleIndices(s, PodOf) ELSE {}
  BY DEF Artifacts
<1> HIDE DEF r
<1>2. CASE id \in ids
  <2>1. PICK p \in matched : p.id = id
    BY <1>2
  <2>2. PodOf \in matched /\ PodOf.id = id
    BY <2>1
  <2> HIDE DEF PodOf
  <2>3. PodOf \in StorePods /\ matchPodToRuleIndices(s, PodOf) # {}
    BY <2>2 DEF Matching
  <2>4. PodOf \in PodObjects /\ Live[id] = PodOf
    BY <2>2, <2>3, StoreIsLive
  <2>5. RulesOf(s, Live[id]) = matchPodToRuleIndices(s, PodOf)
    BY <2>4, NoPodAssumption DEF RulesOf
  <2> QED BY <1>1, <1>2, <2>3, <2>4, <2>5 DEF r, AddressOf
<1>3. CASE id \notin ids
  <2>1. RulesOf(s, Live[id]) = {}
    <3> SUFFICES ASSUME RulesOf(s, Live[id]) # {} PROVE FALSE
      OBVIOUS
    <3>1. Live[id] # NoPod /\ matchPodToRuleIndices(s, Live[id]) # {}
      BY DEF RulesOf
    <3>2. Live[id] \in matched /\ Live[id].id = id
      BY <3>1, LiveType DEF Matching
    <3> QED BY <1>3, <3>2
  <2> QED BY <1>1, <1>3, <2>1 DEF r, AddressOf
<1> QED BY <1>2, <1>3

\* The addresses a recomputation computes are those of the live pods.
LEMMA RecomputedAddresses ==
  ASSUME PodsOK, NEW s \in Specs, NEW t \in Targets, NEW a \in IPs
  PROVE  toCIDR(a) \in Artifacts(s, StorePods).desired[t] <=>
           \E i \in Rules, id \in PodIDs :
             t \in RuleTargets[s][i] /\ Live[id] \in Contributing(s, i, a)
<1> DEFINE feeding == {q \in WithIP(StorePods) :
                         \E i \in matchPodToRuleIndices(s, q) : t \in RuleTargets[s][i]}
<1>1. Artifacts(s, StorePods).desired[t] = {toCIDR(p.ip) : p \in feeding}
  BY DEF Artifacts, DesiredOf
<1>2. ASSUME NEW p \in feeding, toCIDR(a) = toCIDR(p.ip)
      PROVE  \E i \in Rules, id \in PodIDs :
               t \in RuleTargets[s][i] /\ Live[id] \in Contributing(s, i, a)
  <2>1. p.ip = a
    BY <1>2, CidrInjective
  <2>2. PICK i \in matchPodToRuleIndices(s, p) : t \in RuleTargets[s][i]
    OBVIOUS
  <2>3. p \in PodObjects /\ p.id \in PodIDs /\ Live[p.id] = p
    BY StoreIsLive DEF WithIP
  <2>4. i \in Rules /\ i \in RulesOf(s, p) /\ p \in PodStates
    BY <2>2, <2>3, NoPodAssumption DEF RulesOf, matchPodToRuleIndices, PodStates
  <2>5. Live[p.id] \in Contributing(s, i, a)
    BY <2>1, <2>3, <2>4 DEF Contributing
  <2> QED BY <2>2, <2>3, <2>4, <2>5
<1>3. ASSUME NEW i \in Rules, NEW id \in PodIDs,
             t \in RuleTargets[s][i], Live[id] \in Contributing(s, i, a)
      PROVE  Live[id] \in feeding /\ Live[id].ip = a
  <2>1. i \in RulesOf(s, Live[id]) /\ Live[id].ip = a
    BY <1>3 DEF Contributing
  <2>2. Live[id] # NoPod /\ i \in matchPodToRuleIndices(s, Live[id])
    BY <2>1 DEF RulesOf
  <2>3. Live[id] \in WithIP(StorePods)
    BY <2>1, <2>2, LiveType, IPAssumption DEF WithIP
  <2> QED BY <1>3, <2>1, <2>2, <2>3
<1> HIDE DEF feeding
<1> QED BY <1>1, <1>2, <1>3

\* A recomputation is right, whatever is pending.
LEMMA RecomputedRight ==
  ASSUME PodsOK, NEW s \in Specs, NEW P
  PROVE  Right(Live, P, s, Artifacts(s, StorePods))
<1> DEFINE r == Artifacts(s, StorePods)
<1>1. \A id \in PodIDs : /\ r.snapshot[id] = AddressOf(s, Live[id])
                         /\ id \in r.tracked <=> RulesOf(s, Live[id]) # {}
                         /\ r.podRules[id] = RulesOf(s, Live[id])
                         /\ Live[id] \in PodStates
  BY RecomputedRecords, LiveType
<1>2. \A t \in Targets, a \in IPs :
        toCIDR(a) \in r.desired[t] <=>
          \E i \in Rules, id \in PodIDs :
            t \in RuleTargets[s][i] /\ Live[id] \in Contributing(s, i, a)
  BY RecomputedAddresses
<1> HIDE DEF r
<1>3. RecordsRight(Live, P, s, r)
  BY <1>1 DEF RecordsRight, EndsIn, RuleStates, TrackedStates, AddressStates, Not, HasRule,
              Selected, AtAddress
<1>4. NothingMissing(Live, P, s, r)
  <2> SUFFICES ASSUME NEW i \in Rules, NEW t \in RuleTargets[s][i], NEW a \in IPs, NEW id \in PodIDs,
                      toCIDR(a) \notin r.desired[t]
               PROVE  Live[id] \in Not(Contributing(s, i, a))
    BY DEF NothingMissing, EndsIn
  <2>1. t \in Targets
    BY TargetsAssumption
  <2> QED BY <1>1, <1>2, <2>1 DEF Not
<1>5. NothingLeftOver(Live, P, s, r)
  BY <1>2 DEF NothingLeftOver, EndsIn
<1> QED BY <1>3, <1>4, <1>5 DEF Right, r

\* When nothing is pending, the entry that is served is what the theorems say.
LEMMA ServedFacts ==
  ASSUME ParityInv, Delivered, Serving
  PROVE  LET c == Cached(Ref(mapping)) IN
           mapping.spec \in Specs /\ c \in Contents /\ Right(Live, {}, mapping.spec, c)
<1>1. mapping \in MappingObjects
  BY DEF ParityInv, SystemInv, MappingOK, Serving
<1>2. /\ Ref(mapping) \in Mappings /\ Ref(mapping).key = TheKey /\ HasEntry(Ref(mapping))
      /\ mapping.spec \in Specs
  BY <1>1, RefType DEF Serving, Hit, MappingObjects
<1>3. Cached(Ref(mapping)) \in Contents
  BY <1>2, StoredType DEF ParityInv, SystemInv, CacheInv, Stored, Cached
<1>4. Pending = {}
  BY DEF Pending, Queued, Delivered
<1> QED BY <1>2, <1>3, <1>4 DEF ParityInv, ServedRight, Serving

LEMMA ParityContributors == ASSUME ParityInv PROVE ContributorParity
<1> SUFFICES ASSUME Delivered, Serving
             PROVE  LET c == Cached(Ref(mapping)) IN
                      /\ c.snapshot = Recomputed.snapshot
                      /\ c.tracked = Recomputed.tracked
                      /\ c.podRules = Recomputed.podRules
  BY DEF ContributorParity
<1> DEFINE c == Cached(Ref(mapping))
           s == mapping.spec
<1>1. s \in Specs /\ c \in Contents /\ RecordsRight(Live, {}, s, c) /\ PodsOK
  BY ServedFacts DEF Right, ParityInv, SystemInv
<1>2. Recomputed \in Contents
  BY <1>1, StorePodsType, ArtifactsType DEF Recomputed
<1> HIDE DEF c, s
<1>3. ASSUME NEW id \in PodIDs
      PROVE  /\ c.snapshot[id] = Recomputed.snapshot[id]
             /\ id \in c.tracked <=> id \in Recomputed.tracked
             /\ c.podRules[id] = Recomputed.podRules[id]
  <2>1. /\ Recomputed.snapshot[id] = AddressOf(s, Live[id])
        /\ id \in Recomputed.tracked <=> RulesOf(s, Live[id]) # {}
        /\ Recomputed.podRules[id] = RulesOf(s, Live[id])
    BY <1>1, RecomputedRecords DEF Recomputed, s
  <2>2. c.podRules[id] \subseteq Rules /\ RulesOf(s, Live[id]) \subseteq Rules
    BY <1>1, LiveType, StateFacts DEF Contents
  <2>3. \A i \in Rules : i \in c.podRules[id] <=> i \in RulesOf(s, Live[id])
    BY <1>1 DEF RecordsRight, EndsIn, RuleStates, HasRule, Not
  <2>4. id \in c.tracked <=> RulesOf(s, Live[id]) # {}
    BY <1>1 DEF RecordsRight, EndsIn, TrackedStates, Selected, Not
  <2>5. c.snapshot[id] = AddressOf(s, Live[id])
    BY <1>1 DEF RecordsRight, EndsIn, AddressStates, AtAddress
  <2> QED BY <2>1, <2>2, <2>3, <2>4, <2>5
<1>4. c.snapshot = Recomputed.snapshot
  BY <1>1, <1>2, <1>3 DEF Contents
<1>5. c.podRules = Recomputed.podRules
  BY <1>1, <1>2, <1>3 DEF Contents
<1>6. c.tracked = Recomputed.tracked
  BY <1>1, <1>2, <1>3 DEF Contents
<1> QED BY <1>4, <1>5, <1>6 DEF c

\* A host prefix of an entry is the prefix of an address.
LEMMA EntryAddresses ==
  ASSUME NEW c \in Contents, NEW t \in Targets, NEW cidr \in c.desired[t]
  PROVE  \E a \in IPs : cidr = toCIDR(a)
BY DEF Contents, CIDRs

LEMMA ParityMissing == ASSUME ParityInv PROVE NoAddressMissing
<1> SUFFICES ASSUME Delivered, Serving, NEW t \in Targets, Unshared(mapping.spec, t),
                    NEW cidr \in Recomputed.desired[t]
             PROVE  cidr \in Cached(Ref(mapping)).desired[t]
  BY DEF NoAddressMissing
<1> DEFINE c == Cached(Ref(mapping))
           s == mapping.spec
<1>1. s \in Specs /\ NothingMissing(Live, {}, s, c) /\ PodsOK
  BY ServedFacts DEF Right, ParityInv, SystemInv
<1>2. Recomputed \in Contents
  BY <1>1, StorePodsType, ArtifactsType DEF Recomputed
<1>3. PICK a \in IPs : cidr = toCIDR(a)
  BY <1>2, EntryAddresses
<1>4. PICK i \in Rules, id \in PodIDs : t \in RuleTargets[s][i] /\ Live[id] \in Contributing(s, i, a)
  BY <1>1, <1>3, RecomputedAddresses DEF Recomputed
<1> HIDE DEF c
<1> QED BY <1>1, <1>3, <1>4 DEF NothingMissing, EndsIn, Not, c

LEMMA ParityOneRule == ASSUME ParityInv PROVE OneRuleParity
<1> SUFFICES ASSUME Delivered, Serving, OneRule(mapping.spec)
             PROVE  Cached(Ref(mapping)).desired = Recomputed.desired
  BY DEF OneRuleParity
<1> DEFINE c == Cached(Ref(mapping))
           s == mapping.spec
<1>1. s \in Specs /\ c \in Contents /\ Right(Live, {}, s, c) /\ PodsOK
  BY ServedFacts DEF ParityInv, SystemInv
<1>2. Recomputed \in Contents
  BY <1>1, StorePodsType, ArtifactsType DEF Recomputed
<1> HIDE DEF c, s
<1>3. ASSUME NEW t \in Targets, NEW a \in IPs, toCIDR(a) \in c.desired[t]
      PROVE  toCIDR(a) \in Recomputed.desired[t]
  <2>1. PICK i \in Rules, id \in PodIDs :
          t \in RuleTargets[s][i] /\ EndsIn(Live, {}, id, Contributing(s, i, a))
    BY <1>1, <1>3 DEF Right, NothingLeftOver, s
  <2>2. Live[id] \in Contributing(s, i, a)
    BY <2>1 DEF EndsIn
  <2> QED BY <1>1, <2>1, <2>2, RecomputedAddresses DEF Recomputed, s
<1>4. ASSUME NEW t \in Targets, NEW a \in IPs, toCIDR(a) \in Recomputed.desired[t]
      PROVE  toCIDR(a) \in c.desired[t]
  <2>1. PICK i \in Rules, id \in PodIDs :
          t \in RuleTargets[s][i] /\ Live[id] \in Contributing(s, i, a)
    BY <1>1, <1>4, RecomputedAddresses DEF Recomputed, s
  <2>2. Unshared(s, t)
    BY DEF OneRule, Blank, Unshared, s
  <2> QED BY <1>1, <2>1, <2>2 DEF Right, NothingMissing, EndsIn, Not
<1>5. \A t \in Targets : c.desired[t] = Recomputed.desired[t]
  <2> SUFFICES ASSUME NEW t \in Targets PROVE c.desired[t] = Recomputed.desired[t]
    OBVIOUS
  <2>1. ASSUME NEW cidr \in c.desired[t] PROVE cidr \in Recomputed.desired[t]
    <3>1. PICK a \in IPs : cidr = toCIDR(a)
      BY <1>1, EntryAddresses
    <3> QED BY <1>3, <3>1
  <2>2. ASSUME NEW cidr \in Recomputed.desired[t] PROVE cidr \in c.desired[t]
    <3>1. PICK a \in IPs : cidr = toCIDR(a)
      BY <1>2, EntryAddresses
    <3> QED BY <1>4, <3>1
  <2> QED BY <2>1, <2>2
<1> QED BY <1>1, <1>2, <1>5 DEF Contents, c
-------------------------------------------------------------------------------
(***************************************************************************)
(* The queue of notifications.                                             *)
(***************************************************************************)

\* Every queued notification settles.
LEMMA QueuedSettle ==
  ASSUME QueueSettles
  PROVE  \A e \in Queued : Settles(Live, Queued, e)
<1> SUFFICES ASSUME NEW n \in 1..Len(events), NEW S \in SUBSET PodStates, events[n].new \in S
             PROVE  EndsIn(Live, Queued, About(events[n]), S)
  BY DEF Queued, Settles
<1>1. CASE Live[About(events[n])] \in S
  BY <1>1 DEF EndsIn
<1>2. ASSUME NEW l \in (n + 1)..Len(events), About(events[l]) = About(events[n]), Leaves(events[l], S)
      PROVE  EndsIn(Live, Queued, About(events[n]), S)
  <2>1. l \in 1..Len(events)
    OBVIOUS
  <2> QED BY <1>2, <2>1 DEF EndsIn, Queued
<1> QED BY <1>1, <1>2 DEF QueueSettles

\* A notification that says what happens to a pod as it happens.
Reports(ev, L, M) ==
  /\ About(ev) \in PodIDs /\ L[About(ev)] = ev.old /\ M[About(ev)] = ev.new
  /\ \A id \in PodIDs \ {About(ev)} : M[id] = L[id]

LEMMA ReportedCarried ==
  ASSUME NEW ev, NEW L, NEW M, Reports(ev, L, M), NEW P
  PROVE  Carried(L, P, M, P \cup {ev})
<1> SUFFICES ASSUME NEW id \in PodIDs, NEW S, EndsIn(L, P, id, S)
             PROVE  EndsIn(M, P \cup {ev}, id, S)
  BY DEF Carried
<1>1. CASE \E e \in P : About(e) = id /\ Leaves(e, S)
  BY <1>1 DEF EndsIn
<1>2. CASE L[id] \in S
  BY <1>2 DEF EndsIn, Reports, Leaves
<1> QED BY <1>1, <1>2 DEF EndsIn

\* Pods are created, changed and deleted; the store changes, and the notification says how.
LEMMA PodStepReports ==
  ASSUME SystemInv, NEW n \in PodNames, PodAdded(n) \/ PodChanged(n) \/ PodRemoved(n)
  PROVE  \E ev \in Notifications :
           events' = Append(events, ev) /\ OnePod(ev) /\ Reports(ev, Live, Live')
<1>0. PodsOK /\ PodsOK'
  BY PodStepType DEF PodStep, SystemInv
<1>1. ASSUME NEW id \in PodIDs, id[1] # n PROVE Live'[id] = Live[id]
  <2>1. pods'[id[1]] = pods[id[1]]
    BY <1>0, <1>1, PodIDsAssumption DEF PodsOK, PodAdded, PodChanged, PodRemoved
  <2> QED BY <2>1 DEF Live
<1>2. ASSUME NEW id \in PodIDs, id[1] = n
      PROVE  /\ Live[id] = IF pods[n] # NoPod /\ pods[n].id = id THEN pods[n] ELSE NoPod
             /\ Live'[id] = IF pods'[n] # NoPod /\ pods'[n].id = id THEN pods'[n] ELSE NoPod
  BY <1>2 DEF Live
<1>3. pods[n] # NoPod => pods[n].id[1] = n /\ pods[n] \in PodObjects /\ pods[n].id \in PodIDs
  BY <1>0 DEF PodsOK, PodObjects
<1>4. pods'[n] # NoPod => pods'[n].id[1] = n /\ pods'[n] \in PodObjects /\ pods'[n].id \in PodIDs
  BY <1>0 DEF PodsOK, PodObjects
<1>5. CASE PodAdded(n)
  <2>1. PICK l \in Labels, ip \in IPs \cup {NoIP} :
          pods' = [pods EXCEPT ![n] = NewPod(n, l, ip)] /\ Notify("add", NoPod, NewPod(n, l, ip))
    BY <1>5 DEF PodAdded
  <2>2. pods[n] = NoPod /\ podUID[n] < MaxPodUID
    BY <1>5 DEF PodAdded
  <2>3. NewPod(n, l, ip) \in PodObjects
    BY <1>0, <2>2, NewPodType
  <2> DEFINE ev == [type |-> "add", old |-> NoPod, new |-> NewPod(n, l, ip)]
  <2>4. pods'[n] = NewPod(n, l, ip) /\ pods'[n] # NoPod
    BY <1>0, <2>1, <2>3, NoPodAssumption DEF PodsOK
  <2>5. ev \in Notifications /\ events' = Append(events, ev)
    BY <2>1, <2>3 DEF Notifications, Notify
  <2>6. About(ev) = pods'[n].id /\ OnePod(ev) /\ ev.old = NoPod /\ ev.new = pods'[n]
    BY <2>4 DEF About, OnePod
  <2> HIDE DEF ev
  <2>7. Reports(ev, Live, Live')
    BY <1>1, <1>2, <1>4, <2>2, <2>4, <2>6 DEF Reports
  <2> QED BY <2>5, <2>6, <2>7
<1>6. CASE PodChanged(n)
  <2>1. pods[n] # NoPod
    BY <1>6 DEF PodChanged
  <2>2. PICK l \in Labels, ip \in IPs \cup {NoIP} :
          LET new == [pods[n] EXCEPT !.label = l, !.ip = ip]
          IN  pods' = [pods EXCEPT ![n] = new] /\ Notify("update", pods[n], new)
    BY <1>6 DEF PodChanged
  <2> DEFINE new == [pods[n] EXCEPT !.label = l, !.ip = ip]
             ev == [type |-> "update", old |-> pods[n], new |-> new]
  <2>3. new \in PodObjects /\ new.id = pods[n].id
    BY <1>3, <2>1 DEF PodObjects
  <2>4. pods'[n] = new /\ events' = Append(events, ev)
    BY <1>0, <2>2 DEF PodsOK, Notify
  <2> HIDE DEF new
  <2>5. pods'[n] # NoPod /\ pods'[n].id = pods[n].id
    BY <2>3, <2>4, NoPodAssumption
  <2>6. ev \in Notifications
    BY <1>3, <2>1, <2>3 DEF Notifications
  <2>7. About(ev) = pods[n].id /\ OnePod(ev) /\ ev.old = pods[n] /\ ev.new = pods'[n]
    BY <2>1, <2>3, <2>4 DEF About, OnePod
  <2> HIDE DEF ev
  <2>8. Reports(ev, Live, Live')
    BY <1>1, <1>2, <1>3, <2>1, <2>5, <2>7 DEF Reports
  <2> QED BY <2>4, <2>6, <2>7, <2>8
<1>7. CASE PodRemoved(n)
  <2> DEFINE ev == [type |-> "delete", old |-> pods[n], new |-> NoPod]
  <2>1. pods[n] # NoPod /\ pods'[n] = NoPod /\ events' = Append(events, ev)
    BY <1>0, <1>7 DEF PodRemoved, PodsOK, Notify
  <2>2. ev \in Notifications
    BY <1>3, <2>1 DEF Notifications
  <2>3. About(ev) = pods[n].id /\ OnePod(ev) /\ ev.old = pods[n] /\ ev.new = pods'[n]
    BY <2>1 DEF About, OnePod
  <2> HIDE DEF ev
  <2>4. Reports(ev, Live, Live')
    BY <1>1, <1>2, <1>3, <2>1, <2>3 DEF Reports
  <2> QED BY <2>1, <2>2, <2>3, <2>4
<1> QED BY <1>5, <1>6, <1>7
-------------------------------------------------------------------------------
(***************************************************************************)
(* The invariant: users.                                                   *)
(***************************************************************************)
LEMMA ParityInit == Init => ParityInv
<1> SUFFICES ASSUME Init PROVE ParityInv
  OBVIOUS
<1>1. SystemInv
  BY SystemInit
<1>2. events = <<>> /\ handler = Idle /\ rec = Idle /\ rec.pc = "idle" /\ mappingUID = 1
      /\ mapping.uid = 1 /\ Len(events) = 0
  BY DEF Init, Idle
<1>3. \A g \in Gens : entries[TheKey][g] = NoEntry
  BY TheOnes DEF Init, CacheInit
<1>4. EventsOfOnePod /\ QueueSettles /\ HandlerSettles /\ ListingsRight
  BY <1>2 DEF EventsOfOnePod, QueueSettles, HandlerSettles, ListingsRight
<1>5. CopiesKnown /\ TicketHeld /\ ComputedRight
  BY <1>2, <1>3 DEF CopiesKnown, TicketHeld, ComputedRight, HasArts
<1>6. mapping # NoMapping => ~Hit(Ref(mapping))
  <2> SUFFICES ASSUME mapping # NoMapping PROVE entries[Ref(mapping).key][Ref(mapping).gen] = NoEntry
    BY DEF Hit, HasEntry
  <2>1. mapping \in MappingObjects
    BY <1>1 DEF SystemInv, MappingOK
  <2> QED BY <1>3, <2>1, RefType DEF MappingObjects
<1> QED BY <1>1, <1>4, <1>5, <1>6 DEF ParityInv, ServedRight

\* What the actors hold is known as long as they and the mapping stay as they are.
LEMMA HoldingsKept ==
  ASSUME CopiesKnown, ListingsRight, TicketHeld,
         UNCHANGED <<entries, recompute, mapping, mappingUID, handler, rec>>
  PROVE  CopiesKnown' /\ ListingsRight' /\ TicketHeld'
<1>1. CopiesKnown'
  BY DEF CopiesKnown, Known, Ref
<1>2. ListingsRight'
  BY DEF ListingsRight, MatchingMapping, Ref
<1>3. TicketHeld'
  BY DEF TicketHeld
<1> QED BY <1>1, <1>2, <1>3

\* What is right stays right as long as it stays the same and what it depends on carries over.
LEMMA RightsKept ==
  ASSUME ServedRight, ComputedRight, UNCHANGED <<entries, spoilt, mapping, rec>>,
         Carried(Live, Pending, Live', Pending')
  PROVE  ServedRight' /\ ComputedRight'
<1>1. ServedRight'
  <2> SUFFICES ASSUME mapping # NoMapping, Hit(Ref(mapping))
               PROVE  Right(Live', Pending', mapping.spec, Cached(Ref(mapping)))
    BY DEF ServedRight, Hit, HasEntry, Ref, Cached
  <2> QED BY CarriedRight DEF ServedRight
<1>2. ComputedRight'
  <2> SUFFICES ASSUME HasArts, TheWorker \notin spoilt, rec.m = Ref(mapping)
               PROVE  Right(Live', Pending', rec.m.spec, rec.arts)
    BY DEF ComputedRight, HasArts, Ref
  <2> QED BY CarriedRight DEF ComputedRight
<1> QED BY <1>1, <1>2

\* A notification at the end of the queue.
LEMMA Appended ==
  ASSUME EventsOK, NEW ev \in Notifications, events' = Append(events, ev)
  PROVE  /\ Len(events') = Len(events) + 1 /\ Len(events) \in Nat
         /\ \A n \in 1..Len(events) : events'[n] = events[n] /\ events[n] \in Notifications
         /\ events'[Len(events) + 1] = ev
         /\ Queued' = Queued \cup {ev}
<1>1. /\ Len(events') = Len(events) + 1 /\ Len(events) \in Nat
      /\ \A n \in 1..Len(events) : events'[n] = events[n] /\ events[n] \in Notifications
      /\ events'[Len(events) + 1] = ev
  BY DEF EventsOK
<1>2. 1..Len(events') = 1..Len(events) \cup {Len(events) + 1}
  BY <1>1
<1> QED BY <1>1, <1>2 DEF Queued

\* The pod a notification is about.
LEMMA AboutType == ASSUME NEW ev \in Notifications PROVE About(ev) \in PodIDs
BY NoPodAssumption DEF About, Notifications, PodObjects

LEMMA PodStepQueue ==
  ASSUME ParityInv, NEW ev \in Notifications, events' = Append(events, ev), OnePod(ev),
         Reports(ev, Live, Live'), handler' = handler
  PROVE  EventsOfOnePod' /\ QueueSettles' /\ HandlerSettles'
<1>0. EventsOK /\ EventsOfOnePod /\ QueueSettles /\ HandlerSettles
  BY DEF ParityInv, SystemInv
<1> DEFINE len == Len(events)
<1>1. /\ Len(events') = len + 1 /\ len \in Nat
      /\ \A n \in 1..len : events'[n] = events[n] /\ events[n] \in Notifications
      /\ events'[len + 1] = ev /\ Queued' = Queued \cup {ev}
  BY <1>0, Appended
<1> HIDE DEF len
<1>2. EventsOfOnePod'
  BY <1>0, <1>1 DEF EventsOfOnePod, len
<1>3. QueueSettles'
  <2> SUFFICES ASSUME NEW n \in 1..(len + 1), NEW S \in SUBSET PodStates, events'[n].new \in S,
                      Live'[About(events'[n])] \notin S
               PROVE  \E l \in (n + 1)..(len + 1) :
                        About(events'[l]) = About(events'[n]) /\ Leaves(events'[l], S)
    BY <1>1 DEF QueueSettles
  <2>1. n \in 1..len
    BY <1>1 DEF Reports
  <2>2. events'[n] = events[n] /\ About(events[n]) \in PodIDs
    BY <1>1, <2>1, AboutType
  <2>3. CASE \E l \in (n + 1)..len : About(events[l]) = About(events[n]) /\ Leaves(events[l], S)
    <3>1. PICK l \in (n + 1)..len : About(events[l]) = About(events[n]) /\ Leaves(events[l], S)
      BY <2>3
    <3>2. l \in (n + 1)..(len + 1) /\ l \in 1..len
      BY <1>1, <2>1
    <3>3. events'[l] = events[l]
      BY <1>1, <3>2
    <3> QED BY <2>2, <3>1, <3>2, <3>3
  <2>4. CASE Live[About(events[n])] \in S
    <3>1. About(ev) = About(events[n]) /\ Leaves(ev, S)
      BY <2>2, <2>4 DEF Reports, Leaves
    <3>2. len + 1 \in (n + 1)..(len + 1)
      BY <1>1, <2>1
    <3> QED BY <1>1, <2>2, <3>1, <3>2
  <2> QED BY <1>0, <2>1, <2>2, <2>3, <2>4 DEF QueueSettles, len
<1>4. HandlerSettles'
  <2> SUFFICES ASSUME handler # Idle, NEW S \in SUBSET PodStates, handler.ev.new \in S
               PROVE  EndsIn(Live', Queued', About(handler.ev), S)
    BY DEF HandlerSettles, Settles
  <2>1. EndsIn(Live, Queued, About(handler.ev), S)
    BY <1>0 DEF HandlerSettles, Settles
  <2>2. About(handler.ev) \in PodIDs
    BY AboutType DEF ParityInv, SystemInv, HandlerOK, Handling
  <2> QED BY <1>1, <2>1, <2>2, ReportedCarried DEF Carried
<1> QED BY <1>2, <1>3, <1>4

LEMMA PodStepParity ==
  ASSUME ParityInv, NEW n \in PodNames, PodAdded(n) \/ PodChanged(n) \/ PodRemoved(n)
  PROVE  ParityInv'
<1>1. PICK ev \in Notifications :
        events' = Append(events, ev) /\ OnePod(ev) /\ Reports(ev, Live, Live')
  BY PodStepReports DEF ParityInv
<1>2. UNCHANGED <<entries, recompute, spoilt, mapping, mappingUID, handler, rec>>
  BY DEF PodAdded, PodChanged, PodRemoved, cacheVars
<1>3. SystemInv'
  BY UsersStep DEF Users, ParityInv
<1>4. EventsOfOnePod' /\ QueueSettles' /\ HandlerSettles'
  BY <1>1, <1>2, PodStepQueue
<1>5. CopiesKnown' /\ ListingsRight' /\ TicketHeld'
  BY <1>2, HoldingsKept DEF ParityInv
<1>6. Pending' = Pending \cup {ev}
  <2>1. Queued' = Queued \cup {ev}
    BY <1>1, Appended DEF ParityInv, SystemInv
  <2>2. Counted' = Counted
    BY <1>2 DEF Counted, MatchingMapping, Ref
  <2> QED BY <1>2, <2>1, <2>2 DEF Pending
<1>7. Carried(Live, Pending, Live', Pending')
  BY <1>1, <1>6, ReportedCarried
<1> QED BY <1>2, <1>3, <1>4, <1>5, <1>7, RightsKept DEF ParityInv

\* Users change the mapping, delete it or create it again: no copy of it is the new one, and
\* the cache has nothing for it.
LEMMA MappingStepParity ==
  ASSUME ~LateHandler, ParityInv, SpecChanged \/ MappingDeleteRequested \/ MappingCreated
  PROVE  ParityInv'
<1>1. SystemInv'
  BY UsersStep DEF Users, ParityInv
<1>2. UNCHANGED <<entries, recompute, spoilt, pods, events, handler, rec>>
  BY DEF SpecChanged, MappingDeleteRequested, MappingCreated, cacheVars
<1>3. EventsOfOnePod' /\ QueueSettles' /\ HandlerSettles' /\ TicketHeld'
  <2>1. Live' = Live /\ Queued' = Queued
    BY <1>2 DEF Live, Queued
  <2> QED BY <1>2, <2>1 DEF ParityInv, EventsOfOnePod, QueueSettles, HandlerSettles, TicketHeld
<1> DEFINE Fresh == /\ mapping' \in MappingObjects /\ mapping' # NoMapping /\ mappingUID' \in Nat
                    /\ mapping'.uid = mappingUID' /\ mappingUID <= mappingUID'
                    /\ mapping = NoMapping => handler = Idle /\ mappingUID < mappingUID'
                    /\ mapping # NoMapping => mapping'.uid = mapping.uid /\ mapping.gen < mapping'.gen
<1>4. Fresh
  <2>1. MappingOK /\ CopiesKnown /\ MappingOK'
    BY <1>1 DEF ParityInv, SystemInv
  <2>2. CASE SpecChanged
    <3>1. mapping \in MappingObjects /\ mapping.gen \in Nat
      BY <2>1, <2>2, GensAssumption DEF SpecChanged, MappingOK, MappingObjects
    <3>2. PICK s : mapping' = [mapping EXCEPT !.gen = @ + 1, !.spec = s] /\ s \in Specs
      BY <2>2 DEF SpecChanged
    <3>3. mapping'.gen = mapping.gen + 1 /\ mapping'.uid = mapping.uid /\ mapping' \in MappingObjects
      BY <2>2, <3>1, <3>2 DEF MappingObjects, SpecChanged
    <3>4. mapping # NoMapping /\ mapping' # NoMapping /\ mappingUID' = mappingUID
      BY <2>2, <3>3, NoMappingAssumption DEF SpecChanged, MappingObjects
    <3> QED BY <2>1, <3>1, <3>3, <3>4 DEF CopiesKnown
  <2>3. CASE MappingDeleteRequested
    <3>1. mapping \in MappingObjects /\ mapping.gen \in Nat
      BY <2>1, <2>3, GensAssumption DEF MappingDeleteRequested, MappingOK, MappingObjects
    <3>2. mapping' = [mapping EXCEPT !.gen = @ + 1, !.deleting = TRUE]
      BY <2>3 DEF MappingDeleteRequested
    <3>3. mapping'.gen = mapping.gen + 1 /\ mapping'.uid = mapping.uid /\ mapping' \in MappingObjects
      BY <2>3, <3>1, <3>2 DEF MappingObjects, MappingDeleteRequested
    <3>4. mapping # NoMapping /\ mapping' # NoMapping /\ mappingUID' = mappingUID
      BY <2>3, <3>3, NoMappingAssumption DEF MappingDeleteRequested, MappingObjects
    <3> QED BY <2>1, <3>1, <3>3, <3>4 DEF CopiesKnown
  <2>4. CASE MappingCreated
    <3>1. mapping = NoMapping /\ handler = Idle /\ mappingUID' = mappingUID + 1 /\ mappingUID \in Nat
      BY <2>1, <2>4 DEF MappingCreated, CopiesKnown
    <3>2. mapping' \in MappingObjects /\ mapping'.uid = mappingUID + 1
      BY <2>4, FirstAssumption DEF MappingCreated, MappingObjects
    <3> QED BY <3>1, <3>2, NoMappingAssumption DEF MappingObjects
  <2> QED BY <2>2, <2>3, <2>4
<1> HIDE DEF Fresh
<1>5. ASSUME NEW m \in Mappings, mapping # NoMapping, Known(m)
      PROVE  m.uid = mapping'.uid /\ m.gen < mapping'.gen
  <2>1. m.gen \in Nat /\ mapping.gen \in Nat /\ mapping'.gen \in Nat /\ Ref(mapping).gen = mapping.gen
    BY <1>4, <1>5, GensAssumption
       DEF Fresh, Mappings, MappingObjects, ParityInv, SystemInv, MappingOK, Ref
  <2>2. m.uid = mapping.uid /\ m.gen <= mapping.gen
    BY <1>5, <2>1 DEF Known
  <2> QED BY <1>4, <1>5, <2>1, <2>2 DEF Fresh
<1>6. ASSUME handler # Idle
      PROVE  /\ handler.oldM # NoMapping => handler.oldM.uid = mapping'.uid /\ handler.oldM.gen < mapping'.gen
             /\ handler.newM # NoMapping => handler.newM.uid = mapping'.uid /\ handler.newM.gen < mapping'.gen
  <2>1. mapping # NoMapping /\ handler \in Handling
    BY <1>4, <1>6 DEF Fresh, ParityInv, SystemInv, HandlerOK
  <2>2. handler.oldM # NoMapping => handler.oldM \in Mappings /\ Known(handler.oldM)
    BY <1>6, <2>1 DEF ParityInv, CopiesKnown, Handling
  <2>3. handler.newM # NoMapping => handler.newM \in Mappings /\ Known(handler.newM)
    BY <1>6, <2>1 DEF ParityInv, CopiesKnown, Handling
  <2> QED BY <1>5, <2>1, <2>2, <2>3
<1>7. ASSUME rec.pc \notin {"idle", "finalize"} PROVE rec.m.uid = mapping'.uid /\ rec.m.gen < mapping'.gen
  <2>1. mapping # NoMapping /\ Known(rec.m) /\ rec.m \in Mappings
    BY <1>7, RecAt DEF ParityInv, CopiesKnown, SystemInv
  <2> QED BY <1>5, <2>1
<1>8. ASSUME NEW g \in Gens, entries[TheKey][g] # NoEntry
      PROVE  entries[TheKey][g].uid <= mappingUID' /\ (entries[TheKey][g].uid = mapping'.uid => g < mapping'.gen)
  <2> DEFINE uid == entries[TheKey][g].uid
  <2>1. uid \in Nat /\ mappingUID \in Nat /\ uid <= mappingUID
    BY <1>8, TheOnes, FirstAssumption
       DEF ParityInv, CopiesKnown, SystemInv, CacheInv, CacheTypeOK, Entries
  <2>2. mapping # NoMapping /\ uid = mapping.uid => g <= mapping.gen
    BY <1>8 DEF ParityInv, CopiesKnown
  <2> HIDE DEF uid
  <2>3. uid <= mappingUID'
    BY <1>4, <2>1 DEF Fresh
  <2>4. ASSUME uid = mapping'.uid PROVE g < mapping'.gen
    <3>1. mapping # NoMapping
      BY <1>4, <2>1, <2>4 DEF Fresh
    <3>2. g \in Nat /\ mapping.gen \in Nat /\ mapping'.gen \in Nat
      BY <1>4, <3>1, GensAssumption DEF Fresh, MappingObjects, ParityInv, SystemInv, MappingOK
    <3> QED BY <1>4, <2>2, <2>4, <3>1, <3>2 DEF Fresh
  <2> QED BY <2>3, <2>4 DEF uid
<1>9. mapping' # NoMapping /\ mappingUID' \in Nat /\ mapping'.uid = mappingUID' /\ mapping' \in MappingObjects
      /\ mapping'.gen \in Gens /\ mapping'.gen \in Nat
  BY <1>4, GensAssumption DEF Fresh, MappingObjects
<1>10. \A g \in Gens : g \in Nat
  BY GensAssumption
<1>11. CopiesKnown'
  <2>1. ASSUME handler # Idle
        PROVE  /\ handler.oldM # NoMapping => Known(handler.oldM)'
               /\ handler.newM # NoMapping => Known(handler.newM)'
    BY <1>2, <1>6, <2>1 DEF Known
  <2>2. ASSUME rec.pc \notin {"idle", "finalize"} PROVE Known(rec.m)'
    BY <1>2, <1>7, <2>2 DEF Known
  <2>3. ASSUME NEW g \in Gens, entries'[TheKey][g] # NoEntry
        PROVE  /\ entries'[TheKey][g].uid <= mappingUID'
               /\ entries'[TheKey][g].uid = mapping'.uid => g <= mapping'.gen
    BY <1>2, <1>8, <1>9, <1>10, <2>3
  <2> QED BY <1>2, <1>9, <2>1, <2>2, <2>3 DEF CopiesKnown
<1>12. Ref(mapping').gen = mapping'.gen /\ Ref(mapping').key = TheKey /\ Ref(mapping').uid = mapping'.uid
  BY DEF Ref
<1>13. ListingsRight'
  <2>1. handler # Idle => handler.oldM # Ref(mapping')
    <3> SUFFICES ASSUME handler # Idle, handler.oldM = Ref(mapping') PROVE FALSE
      OBVIOUS
    <3>1. handler.oldM # NoMapping
      BY <1>9, RefType, NoMappingAssumption
    <3> QED BY <1>6, <1>9, <1>12, <3>1
  <2> QED BY <1>2, <2>1 DEF ParityInv, ListingsRight
<1>14. ServedRight'
  <2>1. ~Hit(Ref(mapping))'
    <3> SUFFICES ASSUME Hit(Ref(mapping))' PROVE FALSE
      OBVIOUS
    <3>1. entries[TheKey][mapping'.gen] # NoEntry /\ entries[TheKey][mapping'.gen].uid = mapping'.uid
      BY <1>2, <1>12 DEF Hit, HasEntry
    <3> QED BY <1>8, <1>9, <3>1
  <2> QED BY <2>1 DEF ServedRight
<1>15. ComputedRight'
  <2>1. ~(HasArts' /\ rec'.m = Ref(mapping'))
    BY <1>2, <1>7, <1>9, <1>12 DEF HasArts
  <2> QED BY <2>1 DEF ComputedRight
<1> QED BY <1>1, <1>3, <1>11, <1>13, <1>14, <1>15 DEF ParityInv
-------------------------------------------------------------------------------
(***************************************************************************)
(* The invariant: the pod event handler.                                   *)
(***************************************************************************)

\* The oldest notification leaves the queue.
LEMMA Taken ==
  ASSUME ParityInv, events # <<>>, events' = Tail(events), pods' = pods
  PROVE  /\ Head(events) \in Notifications /\ OnePod(Head(events))
         /\ Live' = Live /\ Queued = Queued' \cup {Head(events)}
         /\ \A n \in 1..Len(events') : OnePod(events'[n])
         /\ QueueSettles' /\ Settles(Live', Queued', Head(events))
<1>0. EventsOK /\ EventsOfOnePod /\ QueueSettles
  BY DEF ParityInv, SystemInv
<1> DEFINE len == Len(events)
<1>1. /\ len \in Nat /\ len >= 1 /\ Len(events') = len - 1 /\ Head(events) = events[1]
      /\ Head(events) \in Notifications
      /\ \A n \in 1..(len - 1) : events'[n] = events[n + 1]
  BY <1>0 DEF EventsOK
<1> HIDE DEF len
<1>2. Live' = Live
  BY DEF Live
<1>3. 1 \in 1..len /\ \A n \in 1..(len - 1) : n + 1 \in 1..len
  BY <1>1
<1>4. OnePod(Head(events)) /\ \A n \in 1..Len(events') : OnePod(events'[n])
  BY <1>0, <1>1, <1>3 DEF EventsOfOnePod, len
<1>5. \A l \in 2..len : l - 1 \in 1..(len - 1) /\ events'[l - 1] = events[l]
  BY <1>1
<1>6. Queued = Queued' \cup {Head(events)}
  <2>1. \A l \in 1..len : l = 1 \/ l \in 2..len
    BY <1>1
  <2>2. Queued = {events[n] : n \in 1..len} /\ Queued' = {events'[n] : n \in 1..(len - 1)}
    BY <1>1 DEF Queued, len
  <2>3. Queued' \cup {Head(events)} \subseteq Queued
    BY <1>1, <1>3, <2>2
  <2>4. ASSUME NEW l \in 1..len PROVE events[l] \in Queued' \cup {Head(events)}
    <3>1. CASE l = 1
      BY <1>1, <3>1
    <3>2. CASE l \in 2..len
      BY <1>5, <2>2, <3>2
    <3> QED BY <2>1, <3>1, <3>2
  <2> QED BY <2>2, <2>3, <2>4
<1>7. QueueSettles'
  <2> SUFFICES ASSUME NEW n \in 1..(len - 1), NEW S \in SUBSET PodStates, events'[n].new \in S,
                      Live[About(events'[n])] \notin S
               PROVE  \E l \in (n + 1)..(len - 1) :
                        About(events'[l]) = About(events'[n]) /\ Leaves(events'[l], S)
    BY <1>1, <1>2 DEF QueueSettles
  <2>1. events'[n] = events[n + 1] /\ n + 1 \in 1..len
    BY <1>1, <1>3
  <2>2. PICK l \in ((n + 1) + 1)..len :
          About(events[l]) = About(events[n + 1]) /\ Leaves(events[l], S)
    BY <1>0, <2>1 DEF QueueSettles, len
  <2>3. l \in 2..len /\ l - 1 \in (n + 1)..(len - 1)
    BY <1>1
  <2> QED BY <1>5, <2>1, <2>2, <2>3
<1>8. Settles(Live', Queued', Head(events))
  <2> SUFFICES ASSUME NEW S \in SUBSET PodStates, events[1].new \in S, Live[About(events[1])] \notin S
               PROVE  \E e \in Queued' : About(e) = About(events[1]) /\ Leaves(e, S)
    BY <1>1, <1>2 DEF Settles, EndsIn
  <2>1. PICK l \in (1 + 1)..len : About(events[l]) = About(events[1]) /\ Leaves(events[l], S)
    BY <1>0, <1>3 DEF QueueSettles, len
  <2>2. l \in 2..len
    OBVIOUS
  <2>3. events[l] \in Queued'
    BY <1>1, <1>5, <2>2 DEF Queued
  <2> QED BY <2>1, <2>3
<1> QED BY <1>1, <1>2, <1>4, <1>6, <1>7, <1>8

\* What a listing finds is the mapping itself.
LEMMA Matched ==
  ASSUME MappingOK, NEW o \in PodStates
  PROVE  /\ MatchingMapping(o) # NoMapping =>
              /\ mapping # NoMapping /\ MatchingMapping(o) = Ref(mapping) /\ Known(MatchingMapping(o))
              /\ RulesOf(MatchingMapping(o).spec, o) # {}
         /\ mapping # NoMapping /\ MatchingMapping(o) = NoMapping => RulesOf(mapping.spec, o) = {}
<1>1. ASSUME MatchingMapping(o) # NoMapping
      PROVE  /\ mapping # NoMapping /\ MatchingMapping(o) = Ref(mapping) /\ Known(MatchingMapping(o))
             /\ RulesOf(MatchingMapping(o).spec, o) # {}
  <2>1. mapping # NoMapping /\ o # NoPod /\ matchPodToRuleIndices(mapping.spec, o) # {}
        /\ MatchingMapping(o) = Ref(mapping)
    BY <1>1 DEF MatchingMapping
  <2>2. Ref(mapping).uid = mapping.uid /\ Ref(mapping).spec = mapping.spec
    BY DEF Ref
  <2> QED BY <2>1, <2>2 DEF Known, RulesOf
<1>2. ASSUME mapping # NoMapping, MatchingMapping(o) = NoMapping PROVE RulesOf(mapping.spec, o) = {}
  <2>1. Ref(mapping) # NoMapping
    BY <1>2, RefType, NoMappingAssumption DEF MappingOK
  <2> QED BY <1>2, <2>1 DEF MatchingMapping, RulesOf
<1> QED BY <1>1, <1>2

\* What a listing does: the handler holds a copy of the mapping as it is, or as it was when the
\* notification was listed for the first time.
ListingStep ==
  /\ UNCHANGED <<entries, recompute, spoilt, mapping, mappingUID, pods, rec>>
  /\ handler' # Idle
  /\ handler'.oldM # NoMapping =>
       \/ handler'.oldM = MatchingMapping(handler'.ev.old)
       \/ handler # Idle /\ handler'.ev = handler.ev /\ handler'.oldM = handler.oldM
  /\ handler'.newM # NoMapping =>
       \/ handler'.newM = MatchingMapping(handler'.ev.new)
       \/ handler # Idle /\ handler'.ev = handler.ev /\ handler'.newM = handler.newM
  /\ handler'.pc = "apply" => handler'.failed \/ handler'.newM = MatchingMapping(handler'.ev.new)
  /\ Pending \subseteq Pending'
  /\ EventsOfOnePod' /\ QueueSettles' /\ HandlerSettles'

LEMMA FirstListing == ASSUME ParityInv, HandlerList \/ HandlerListOld PROVE ListingStep
<1>1. UNCHANGED <<entries, recompute, spoilt, mapping, mappingUID, pods, rec>>
  BY DEF HandlerList, HandlerListOld, HandlerUnchanged, envVars, cacheVars
<1>2. \A o : MatchingMapping(o)' = MatchingMapping(o)
  BY <1>1 DEF MatchingMapping, Ref
<1>3. events # <<>> /\ events' = Tail(events) /\ handler = Idle
  BY DEF HandlerList, HandlerListOld
<1>4. /\ OnePod(Head(events))
      /\ Queued = Queued' \cup {Head(events)} /\ \A n \in 1..Len(events') : OnePod(events'[n])
      /\ QueueSettles' /\ Settles(Live', Queued', Head(events))
  BY <1>1, <1>3, Taken
<1>5. handler'.ev = Head(events) /\ handler'.pc \in {"listNew", "apply"}
  BY DEF HandlerList, HandlerListOld
<1>6. handler' # Idle
  BY <1>5 DEF Idle
<1>7. /\ handler'.oldM # NoMapping => handler'.oldM = MatchingMapping(handler'.ev.old)
      /\ handler'.newM # NoMapping => handler'.newM = MatchingMapping(handler'.ev.new)
      /\ handler'.pc = "apply" => handler'.newM = MatchingMapping(handler'.ev.new)
      /\ \/ handler'.failed
         \/ /\ handler'.oldM = MatchingMapping(handler'.ev.old)
            /\ handler'.pc = "listNew" \/ handler'.newM = MatchingMapping(handler'.ev.new)
  BY DEF HandlerList, HandlerListOld
<1>8. Counted'
  BY <1>2, <1>7 DEF Counted
<1>9. Pending \subseteq Pending'
  BY <1>3, <1>4, <1>5, <1>6, <1>8 DEF Pending
<1>10. EventsOfOnePod' /\ HandlerSettles'
  BY <1>4, <1>5 DEF EventsOfOnePod, HandlerSettles
<1> QED BY <1>1, <1>4, <1>6, <1>7, <1>9, <1>10 DEF ListingStep

LEMMA SecondListing == ASSUME ParityInv, HandlerListNew PROVE ListingStep
<1>1. UNCHANGED <<entries, recompute, spoilt, mapping, mappingUID, pods, rec, events>>
  BY DEF HandlerListNew, HandlerUnchanged, envVars, cacheVars
<1>2. /\ \A o : MatchingMapping(o)' = MatchingMapping(o)
      /\ Live' = Live /\ Queued' = Queued
  BY <1>1 DEF MatchingMapping, Ref, Live, Queued
<1>3. handler \in Handling /\ handler # Idle /\ handler.pc = "listNew"
  BY DEF ParityInv, SystemInv, HandlerOK, HandlerListNew, Idle
<1>4. /\ handler'.ev = handler.ev /\ handler'.pc = "apply" /\ handler'.oldM = handler.oldM
      /\ \/ handler'.newM = MatchingMapping(handler.ev.new) /\ handler'.failed = handler.failed
         \/ handler'.newM = handler.newM /\ handler'.failed
  <2> DEFINE found == MatchingMapping(handler.ev.new)
  <2>1. \/ handler' = [handler EXCEPT !.pc = "apply", !.newM = found]
        \/ handler' = [handler EXCEPT !.pc = "apply", !.failed = TRUE]
    BY DEF HandlerListNew
  <2> HIDE DEF found
  <2>2. /\ handler'.ev = handler.ev /\ handler'.pc = "apply" /\ handler'.oldM = handler.oldM
        /\ \/ handler'.newM = found /\ handler'.failed = handler.failed
           \/ handler'.newM = handler.newM /\ handler'.failed
    BY <1>3, <2>1 DEF Handling
  <2> QED BY <2>2 DEF found
<1>5. handler' # Idle
  BY <1>4 DEF Idle
<1>6. Counted => Counted'
  BY <1>2, <1>3, <1>4 DEF Counted
<1>7. Pending \subseteq Pending'
  BY <1>2, <1>3, <1>4, <1>5, <1>6 DEF Pending
<1>8. EventsOfOnePod' /\ QueueSettles' /\ HandlerSettles'
  BY <1>1, <1>2, <1>3, <1>4 DEF ParityInv, EventsOfOnePod, QueueSettles, HandlerSettles
<1> QED BY <1>1, <1>3, <1>4, <1>5, <1>7, <1>8 DEF ListingStep

LEMMA ListingParity ==
  ASSUME ParityInv, HandlerList \/ HandlerListOld \/ HandlerListNew
  PROVE  ParityInv'
<1>0. ListingStep
  BY FirstListing, SecondListing
<1>1. SystemInv' /\ MappingOK /\ HandlerOK /\ HandlerOK'
  BY HandlerStep DEF ParityInv, SystemInv, Handler
<1>2. UNCHANGED <<entries, recompute, spoilt, mapping, mappingUID, pods, rec>> /\ handler' # Idle
  BY <1>0 DEF ListingStep
<1>3. /\ Live' = Live /\ Ref(mapping)' = Ref(mapping)
      /\ \A o : MatchingMapping(o)' = MatchingMapping(o) /\ Known(o)' = Known(o)
  BY <1>2 DEF Live, MatchingMapping, Ref, Known
<1>4. handler'.ev.old \in PodStates /\ handler'.ev.new \in PodStates
  BY <1>1, <1>2, NotificationPods DEF HandlerOK, Handling, PodStates
<1>5. /\ handler'.oldM # NoMapping =>
           /\ mapping # NoMapping => Known(handler'.oldM)
           /\ RulesOf(handler'.oldM.spec, handler'.ev.old) # {}
      /\ handler'.newM # NoMapping =>
           /\ mapping # NoMapping => Known(handler'.newM)
           /\ RulesOf(handler'.newM.spec, handler'.ev.new) # {}
  BY <1>0, <1>1, <1>4, Matched DEF ListingStep, ParityInv, CopiesKnown, ListingsRight
<1>6. CopiesKnown'
  BY <1>2, <1>3, <1>5 DEF ParityInv, CopiesKnown
<1>7. ListingsRight'
  BY <1>0, <1>2, <1>3, <1>5 DEF ListingsRight, ListingStep
<1>8. TicketHeld'
  BY <1>2 DEF ParityInv, TicketHeld
<1>9. Carried(Live, Pending, Live', Pending')
  BY <1>0, <1>3, MorePending DEF ListingStep
<1>10. ServedRight' /\ ComputedRight'
  BY <1>2, <1>9, RightsKept DEF ParityInv
<1> QED BY <1>0, <1>1, <1>6, <1>7, <1>8, <1>10 DEF ParityInv, ListingStep

\* A call that touches the mapping's key spoils the recomputation under way.
LEMMA Spoils ==
  ASSUME TicketHeld, rec.pc \in {"list", "fresh", "publish"},
         \/ \E m \in Mappings : \E o, n : OnPodAdd(m, o) \/ OnPodDelete(m, o) \/ OnPodUpdate(m, o, n)
         \/ Invalidate(TheKey) \/ Delete(TheKey) \/ InvalidateNamespace(TheNamespace)
  PROVE  TheWorker \in spoilt'
<1>1. recompute[TheWorker] # NoTicket /\ recompute[TheWorker].key = TheKey
  BY DEF TicketHeld
<1>2. PICK K : Spoil(K) /\ TheKey \in K
  <2>1. CASE \E m \in Mappings : \E o, n : OnPodAdd(m, o) \/ OnPodDelete(m, o) \/ OnPodUpdate(m, o, n)
    <3>1. PICK m \in Mappings : Spoil({m.key})
      BY <2>1 DEF OnPodAdd, OnPodDelete, OnPodUpdate
    <3> QED BY <3>1, TheOnes DEF Mappings
  <2>2. CASE Invalidate(TheKey) \/ Delete(TheKey)
    BY <2>2 DEF Invalidate, Delete
  <2>3. CASE InvalidateNamespace(TheNamespace)
    BY <2>3, TheOnes DEF InvalidateNamespace, TheNamespace
  <2> QED BY <2>1, <2>2, <2>3
<1> QED BY <1>1, <1>2, TheOnes DEF Spoil

\* An invalidation or the terminal cleanup leaves nothing to be wrong.
LEMMA WipeParity ==
  ASSUME ParityInv, Invalidate(TheKey) \/ Delete(TheKey) \/ InvalidateNamespace(TheNamespace),
         UNCHANGED <<mapping, mappingUID>>, handler' = handler \/ handler' = Idle,
         rec' = rec \/ rec'.pc \in {"idle", "finalize"}
  PROVE  CopiesKnown' /\ ListingsRight' /\ TicketHeld' /\ ServedRight' /\ ComputedRight'
<1>1. entries'[TheKey] = NoEntries /\ recompute' = recompute
  BY CleanupEmpties DEF ParityInv, SystemInv, CacheInv, Invalidate, Delete, InvalidateNamespace
<1>2. \A g \in Gens : entries'[TheKey][g] = NoEntry
  BY <1>1 DEF NoEntries
<1>3. Ref(mapping)' = Ref(mapping) /\ \A o : MatchingMapping(o)' = MatchingMapping(o) /\ Known(o)' = Known(o)
  BY DEF Ref, MatchingMapping, Known
<1>4. CopiesKnown'
  BY <1>2, <1>3 DEF ParityInv, CopiesKnown
<1>5. ListingsRight'
  BY <1>3 DEF ParityInv, ListingsRight
<1>6. TicketHeld'
  BY <1>1 DEF ParityInv, TicketHeld
<1>7. ServedRight'
  <2> SUFFICES ASSUME mapping # NoMapping PROVE ~Hit(Ref(mapping))'
    BY DEF ServedRight
  <2>1. mapping \in MappingObjects
    BY DEF ParityInv, SystemInv, MappingOK
  <2>2. Ref(mapping).key = TheKey /\ Ref(mapping).gen \in Gens
    BY <2>1, RefType DEF MappingObjects
  <2> QED BY <1>2, <1>3, <2>2 DEF Hit, HasEntry
<1>8. ComputedRight'
  <2> SUFFICES ASSUME HasArts' PROVE TheWorker \in spoilt'
    BY DEF ComputedRight
  <2>1. rec' = rec /\ rec.pc \in {"list", "fresh", "publish"}
    BY DEF HasArts
  <2> QED BY <2>1, Spoils DEF ParityInv
<1> QED BY <1>4, <1>5, <1>6, <1>7, <1>8

\* The handler gives up: the notification is gone, and the entries with it.
LEMMA GiveUpParity ==
  ASSUME ParityInv,
         \/ HandlerListFails \/ HandlerResolutionFailed \/ HandlerInvalidate
         \/ HandlerApply /\ HandledMapping.spec \notin ValidSpecs
  PROVE  ParityInv'
<1>1. SystemInv'
  BY HandlerStep DEF Handler, ParityInv
<1>2. /\ Invalidate(TheKey) \/ InvalidateNamespace(TheNamespace)
      /\ UNCHANGED <<mapping, mappingUID, pods, rec>> /\ handler' = Idle
  BY DEF HandlerListFails, HandlerResolutionFailed, HandlerInvalidate, HandlerApply,
         HandlerUnchanged, envVars
<1>3. CopiesKnown' /\ ListingsRight' /\ TicketHeld' /\ ServedRight' /\ ComputedRight'
  BY <1>2, WipeParity
<1>4. EventsOfOnePod' /\ QueueSettles' /\ HandlerSettles'
  <2>1. CASE HandlerListFails
    <3>1. events # <<>> /\ events' = Tail(events)
      BY <2>1 DEF HandlerListFails
    <3> QED BY <1>2, <3>1, Taken DEF EventsOfOnePod, HandlerSettles
  <2>2. CASE ~HandlerListFails
    <3>1. events' = events
      BY <2>2 DEF HandlerResolutionFailed, HandlerInvalidate, HandlerApply
    <3>2. Live' = Live
      BY <1>2 DEF Live
    <3> QED BY <1>2, <3>1, <3>2 DEF ParityInv, EventsOfOnePod, QueueSettles, HandlerSettles
  <2> QED BY <2>1, <2>2
<1> QED BY <1>1, <1>3, <1>4 DEF ParityInv

\* The notification in the handler's hands, and what is pending with and without it.
LEMMA InHand ==
  ASSUME ParityInv, handler.pc = "apply", ~handler.failed
  PROVE  /\ handler \in Handling /\ handler # Idle /\ handler.ev \in Notifications
         /\ OnePod(handler.ev) /\ Settles(Live, Queued, handler.ev)
         /\ \A e \in Queued : Settles(Live, Queued, e)
         /\ Pending \subseteq Queued \cup {handler.ev} /\ Queued \subseteq Pending
         /\ ~(Pending \subseteq Queued) =>
              /\ handler.oldM = MatchingMapping(handler.ev.old)
              /\ handler.newM = MatchingMapping(handler.ev.new)
         /\ handler.ev.old \in PodStates /\ handler.ev.new \in PodStates
         /\ handler.oldM # NoMapping => handler.ev.old \in PodObjects /\ handler.oldM \in Mappings
         /\ handler.newM # NoMapping => handler.ev.new \in PodObjects /\ handler.newM \in Mappings
<1>1. handler # Idle
  BY DEF Idle
<1>2. /\ handler \in Handling /\ handler.ev \in Notifications
      /\ handler.oldM # NoMapping => handler.ev.old \in PodObjects
      /\ handler.newM # NoMapping => handler.ev.new \in PodObjects
  BY <1>1 DEF ParityInv, SystemInv, HandlerOK, Handling
<1>3. /\ OnePod(handler.ev) /\ Settles(Live, Queued, handler.ev)
      /\ \A e \in Queued : Settles(Live, Queued, e)
  BY <1>1, QueuedSettle DEF ParityInv, EventsOfOnePod, HandlerSettles
<1>4. /\ Pending \subseteq Queued \cup {handler.ev} /\ Queued \subseteq Pending
      /\ ~(Pending \subseteq Queued) => Counted
  BY DEF Pending
<1>5. Counted => /\ handler.oldM = MatchingMapping(handler.ev.old)
                 /\ handler.newM = MatchingMapping(handler.ev.new)
  BY DEF Counted
<1>6. handler.ev.old \in PodStates /\ handler.ev.new \in PodStates
  BY <1>2, NotificationPods DEF PodStates
<1>7. /\ handler.oldM # NoMapping => handler.oldM \in Mappings
      /\ handler.newM # NoMapping => handler.newM \in Mappings
  BY <1>2 DEF Handling
<1> QED BY <1>1, <1>2, <1>3, <1>4, <1>5, <1>6, <1>7

\* The notification matches no rule, before or after: nothing is done, and rightly so.
LEMMA NoMatchParity ==
  ASSUME ParityInv, HandlerNoMatch
  PROVE  ParityInv'
<1>1. SystemInv'
  BY HandlerStep DEF Handler, ParityInv
<1>2. /\ handler.pc = "apply" /\ ~handler.failed /\ handler.oldM = NoMapping /\ handler.newM = NoMapping
      /\ UNCHANGED <<entries, recompute, spoilt, mapping, mappingUID, pods, events, rec>> /\ handler' = Idle
  BY DEF HandlerNoMatch, HandlerUnchanged, envVars, cacheVars
<1>3. Live' = Live /\ Queued' = Queued /\ Pending' = Queued
  BY <1>2 DEF Live, Queued, Pending
<1>4. EventsOfOnePod' /\ QueueSettles' /\ HandlerSettles'
  BY <1>2, <1>3 DEF ParityInv, EventsOfOnePod, QueueSettles, HandlerSettles
<1>5. CopiesKnown' /\ ListingsRight' /\ TicketHeld'
  BY <1>2 DEF ParityInv, CopiesKnown, Known, Ref, ListingsRight, TicketHeld
<1>6. ASSUME mapping # NoMapping, NEW s, s = mapping.spec, NEW c \in Contents, Right(Live, Pending, s, c)
      PROVE  Right(Live, Queued, s, c)
  <2> DEFINE ev == handler.ev
             full == ~(Pending \subseteq Queued)
  <2>1. s \in Specs /\ MappingOK
    BY <1>6 DEF ParityInv, SystemInv, MappingOK, MappingObjects
  <2>2. full => RulesOf(s, ev.old) = {} /\ RulesOf(s, ev.new) = {}
    BY <1>2, <1>6, <2>1, InHand, Matched
  <2>3. ev \in Notifications /\ Settles(Live, Queued, ev) /\ Pending \subseteq Queued \cup {ev}
        /\ \A e \in Queued : Settles(Live, Queued, e)
    BY <1>2, InHand
  <2>4. Pending \subseteq Queued \/ full
    OBVIOUS
  <2> HIDE DEF ev, full
  <2>5. Handles(s, c, c, ev, full)
    BY <2>1, <2>2, <2>3, NoneHandles
  <2> QED BY <1>6, <2>1, <2>3, <2>4, <2>5, HandledRight
<1>7. ServedRight'
  <2> SUFFICES ASSUME mapping # NoMapping, Hit(Ref(mapping))
               PROVE  Right(Live, Queued, mapping.spec, Cached(Ref(mapping)))
    BY <1>2, <1>3 DEF ServedRight, Hit, HasEntry, Ref, Cached
  <2>1. Ref(mapping) \in Mappings /\ Ref(mapping).key = TheKey /\ HasEntry(Ref(mapping))
    BY RefType DEF ParityInv, SystemInv, MappingOK, Hit
  <2>2. Cached(Ref(mapping)) \in Contents
    BY <2>1, StoredType DEF ParityInv, SystemInv, CacheInv, Stored, Cached
  <2> QED BY <1>6, <2>2 DEF ParityInv, ServedRight
<1>8. ComputedRight'
  <2> SUFFICES ASSUME HasArts, TheWorker \notin spoilt, rec.m = Ref(mapping)
               PROVE  Right(Live, Queued, rec.m.spec, rec.arts)
    BY <1>2, <1>3 DEF ComputedRight, HasArts, Ref
  <2>1. mapping # NoMapping /\ rec.m.spec = mapping.spec
    BY DEF ParityInv, CopiesKnown, HasArts, Ref
  <2>2. rec.arts \in Contents
    BY RecAt DEF ParityInv, SystemInv, HasArts, Publishing, Computed, Rechecking
  <2> QED BY <1>6, <2>1, <2>2 DEF ParityInv, ComputedRight
<1> QED BY <1>1, <1>4, <1>5, <1>7, <1>8 DEF ParityInv

\* OnPodAdd, OnPodDelete or OnPodUpdate: the entry of the handled generation, if there is one,
\* goes from c to d, and if that is the current mapping's the notification is dealt with.
Applied(h, d) ==
  /\ IF HasEntry(h) THEN Amend(h, d) /\ handler' = Idle ELSE UNCHANGED entries
  /\ mapping # NoMapping /\ h = Ref(mapping) /\ HasEntry(h) =>
       \E full \in BOOLEAN : /\ Pending \subseteq Queued \/ full
                             /\ Handles(h.spec, Stored(h), d, handler.ev, full)

LEMMA ApplyEffect ==
  ASSUME ParityInv, HandlerApply, HandledMapping.spec \in ValidSpecs
  PROVE  \E d : Applied(HandledMapping, d)
<1> DEFINE h == HandledMapping
           ev == handler.ev
<1>1. handler.pc = "apply" /\ ~handler.failed /\ h # NoMapping
  BY DEF HandlerApply
<1>2. /\ ev \in Notifications /\ OnePod(ev)
      /\ ~(Pending \subseteq Queued) =>
           handler.oldM = MatchingMapping(ev.old) /\ handler.newM = MatchingMapping(ev.new)
      /\ ev.old \in PodStates /\ ev.new \in PodStates
      /\ handler.oldM # NoMapping => ev.old \in PodObjects /\ handler.oldM \in Mappings
      /\ handler.newM # NoMapping => ev.new \in PodObjects /\ handler.newM \in Mappings
  BY <1>1, InHand
<1>3. h \in Mappings /\ h.spec \in Specs /\ (HasEntry(h) => Stored(h) \in Contents) /\ MappingOK
  <2>1. h \in Mappings
    BY <1>1, <1>2 DEF HandledMapping
  <2> HIDE DEF h
  <2> QED BY <2>1, StoredType DEF ParityInv, SystemInv, CacheInv, Mappings
<1>4. ASSUME mapping # NoMapping, h = Ref(mapping) PROVE h.spec = mapping.spec
  BY <1>4 DEF Ref
<1>5. CASE handler.oldM # NoMapping /\ handler.newM # NoMapping
  <2> DEFINE d == UpdatePod(h.spec, Stored(h), ev.old, ev.new)
  <2>1. h = handler.newM
    BY <1>5 DEF HandledMapping
  <2>2. OnPodUpdate(h, ev.old, ev.new) /\ (HasEntry(h) => handler' = Idle)
    BY <1>5, <2>1 DEF HandlerApply, OnPodUpdateApplies
  <2>3. IF HasEntry(h) THEN Amend(h, d) ELSE UNCHANGED entries
    BY <2>2 DEF OnPodUpdate
  <2>4. HasEntry(h) => Handles(h.spec, Stored(h), d, ev, TRUE)
    BY <1>2, <1>3, <1>5, UpdateHandles
  <2> HIDE DEF d, h, ev
  <2> QED BY <2>2, <2>3, <2>4 DEF Applied, h, ev
<1>6. CASE handler.newM = NoMapping
  <2> DEFINE d == DeletePod(h.spec, Stored(h), ev.old)
  <2>1. h = handler.oldM /\ h # NoMapping
    BY <1>1, <1>6 DEF HandledMapping
  <2>2. OnPodDelete(h, ev.old) /\ handler' = Idle
    BY <1>6, <2>1 DEF HandlerApply
  <2>3. IF HasEntry(h) THEN Amend(h, d) ELSE UNCHANGED entries
    BY <2>2 DEF OnPodDelete
  <2>4. ASSUME mapping # NoMapping, h = Ref(mapping), HasEntry(h)
        PROVE  Handles(h.spec, Stored(h), d, ev, TRUE)
    <3>1. MatchingMapping(ev.new) = NoMapping
      BY <1>1, <1>6, <2>1, <2>4 DEF ParityInv, ListingsRight, Idle
    <3>2. RulesOf(h.spec, ev.new) = {}
      BY <1>2, <1>3, <1>4, <2>4, <3>1, Matched
    <3> QED BY <1>2, <1>3, <2>1, <2>4, <3>2, DeleteHandles
  <2> HIDE DEF d, h, ev
  <2> QED BY <2>2, <2>3, <2>4 DEF Applied, h, ev
<1>7. CASE handler.oldM = NoMapping
  <2> DEFINE d == AddPod(h.spec, Stored(h), ev.new)
             full == RulesOf(h.spec, ev.old) = {}
  <2>1. h = handler.newM /\ h # NoMapping
    BY <1>1, <1>7 DEF HandledMapping
  <2>2. OnPodAdd(h, ev.new) /\ handler' = Idle
    BY <1>7, <2>1 DEF HandlerApply
  <2>3. IF HasEntry(h) THEN Amend(h, d) ELSE UNCHANGED entries
    BY <2>2 DEF OnPodAdd
  <2>4. ASSUME mapping # NoMapping, h = Ref(mapping), HasEntry(h)
        PROVE  (Pending \subseteq Queued \/ full) /\ Handles(h.spec, Stored(h), d, ev, full)
    <3>1. RulesOf(h.spec, ev.new) # {}
      BY <1>1, <2>1 DEF ParityInv, ListingsRight, Idle
    <3>2. ~(Pending \subseteq Queued) => full
      BY <1>2, <1>3, <1>4, <1>7, <2>4, Matched
    <3> HIDE DEF h, ev
    <3>3. Handles(h.spec, Stored(h), d, ev, full)
      BY <1>2, <1>3, <2>4, <3>1, AddHandles
    <3> QED BY <3>2, <3>3
  <2>5. full \in BOOLEAN
    OBVIOUS
  <2> HIDE DEF d, h, ev, full
  <2> QED BY <2>2, <2>3, <2>4, <2>5 DEF Applied, h, ev
<1> QED BY <1>5, <1>6, <1>7

LEMMA ApplyParity ==
  ASSUME ParityInv, HandlerApply, HandledMapping.spec \in ValidSpecs
  PROVE  ParityInv'
<1> DEFINE h == HandledMapping
           ev == handler.ev
<1>1. PICK d : Applied(h, d)
  BY ApplyEffect
<1>2. /\ handler.pc = "apply" /\ ~handler.failed /\ h # NoMapping
      /\ UNCHANGED <<mapping, mappingUID, pods, events, rec>>
  BY DEF HandlerApply, HandlerUnchanged, envVars
<1>3. /\ handler \in Handling /\ handler # Idle /\ ev \in Notifications
      /\ Settles(Live, Queued, ev) /\ (\A e \in Queued : Settles(Live, Queued, e))
      /\ Pending \subseteq Queued \cup {ev} /\ Queued \subseteq Pending
      /\ ~(Pending \subseteq Queued) =>
           handler.oldM = MatchingMapping(ev.old) /\ handler.newM = MatchingMapping(ev.new)
  BY <1>2, InHand
<1>4. \/ OnPodUpdate(handler.newM, ev.old, ev.new) /\ handler.newM \in Mappings
      \/ OnPodDelete(handler.oldM, ev.old) /\ handler.oldM \in Mappings
      \/ OnPodAdd(handler.newM, ev.new) /\ handler.newM \in Mappings
  <2>1. /\ handler.oldM # NoMapping => handler.oldM \in Mappings
        /\ handler.newM # NoMapping => handler.newM \in Mappings
    BY <1>2, InHand
  <2> QED BY <2>1 DEF HandlerApply, HandledMapping
<1>5. recompute' = recompute
  BY <1>4 DEF OnPodAdd, OnPodDelete, OnPodUpdate
<1>6. h \in Mappings /\ h.key = TheKey /\ h.gen \in Gens /\ (mapping # NoMapping => Known(h))
  <2>1. h \in Mappings
    BY <1>2, InHand DEF HandledMapping
  <2>2. mapping # NoMapping => Known(h)
    BY <1>2, <1>3 DEF HandledMapping, ParityInv, CopiesKnown
  <2> QED BY <2>1, <2>2, TheOnes DEF Mappings
<1>7. handler' = Idle \/ (handler'.pc = "invalidate" /\ handler' # Idle /\ handler'.ev = ev
                          /\ handler'.oldM = handler.oldM /\ handler'.newM = handler.newM)
  <2>1. handler' = Idle \/ handler' = [handler EXCEPT !.pc = "invalidate"]
    BY DEF HandlerApply
  <2>2. CASE handler' = [handler EXCEPT !.pc = "invalidate"]
    <3>1. handler'.pc = "invalidate" /\ handler'.ev = ev
          /\ handler'.oldM = handler.oldM /\ handler'.newM = handler.newM
      BY <1>3, <2>2 DEF Handling
    <3> QED BY <3>1 DEF Idle
  <2> QED BY <2>1, <2>2
<1> HIDE DEF h, ev
<1>8. SystemInv'
  BY HandlerStep DEF Handler, ParityInv
<1>9. /\ Live' = Live /\ Queued' = Queued /\ Ref(mapping)' = Ref(mapping)
      /\ \A o : MatchingMapping(o)' = MatchingMapping(o) /\ Known(o)' = Known(o)
  BY <1>2 DEF Live, Queued, Ref, MatchingMapping, Known
<1>10. /\ handler' = Idle => Pending' = Queued
       /\ handler' # Idle => Pending' = Queued \cup {ev}
  BY <1>7, <1>9 DEF Pending, Counted
<1>11. EventsOfOnePod' /\ QueueSettles' /\ HandlerSettles' /\ TicketHeld' /\ ListingsRight'
  BY <1>2, <1>3, <1>5, <1>7, <1>9
     DEF ParityInv, EventsOfOnePod, QueueSettles, HandlerSettles, TicketHeld, ListingsRight, ev
<1>12. entries \in [Keys -> [Gens -> Entries \cup {NoEntry}]]
  BY DEF ParityInv, SystemInv, CacheInv, CacheTypeOK
<1>13. \A g \in Gens : \/ entries'[TheKey][g] = entries[TheKey][g]
                       \/ /\ g = h.gen /\ HasEntry(h)
                          /\ entries'[TheKey][g] = [uid |-> entries[TheKey][g].uid, state |-> d]
  BY <1>1, <1>6, <1>12, TheOnes DEF Applied, Amend
<1>14. ASSUME NEW g \in Gens, entries'[TheKey][g] # NoEntry
       PROVE  entries[TheKey][g] # NoEntry /\ entries'[TheKey][g].uid = entries[TheKey][g].uid
  <2>1. CASE entries'[TheKey][g] = entries[TheKey][g]
    BY <1>14, <2>1
  <2>2. CASE /\ g = h.gen /\ HasEntry(h)
             /\ entries'[TheKey][g] = [uid |-> entries[TheKey][g].uid, state |-> d]
    <3>1. entries[TheKey][g] # NoEntry
      BY <1>6, <2>2 DEF HasEntry
    <3>2. [uid |-> entries[TheKey][g].uid, state |-> d].uid = entries[TheKey][g].uid
      OBVIOUS
    <3> QED BY <2>2, <3>1, <3>2
  <2> QED BY <1>13, <2>1, <2>2
<1>15. CopiesKnown'
  <2>2. /\ mappingUID' \in Nat
        /\ mapping' # NoMapping =>
             /\ mapping'.uid = mappingUID'
             /\ handler' # Idle => /\ handler'.oldM # NoMapping => Known(handler'.oldM)
                                   /\ handler'.newM # NoMapping => Known(handler'.newM)
        /\ rec'.pc \notin {"idle", "finalize"} => mapping' # NoMapping /\ Known(rec'.m)
    BY <1>2, <1>3, <1>7 DEF ParityInv, CopiesKnown
  <2>3. ASSUME NEW g \in Gens, entries'[TheKey][g] # NoEntry
        PROVE  /\ entries'[TheKey][g].uid <= mappingUID'
               /\ mapping' # NoMapping /\ entries'[TheKey][g].uid = mapping'.uid => g <= mapping'.gen
    BY <1>2, <1>14, <2>3 DEF ParityInv, CopiesKnown
  <2> QED BY <1>9, <2>2, <2>3 DEF CopiesKnown
<1>16. ComputedRight'
  <2> SUFFICES ASSUME HasArts' PROVE TheWorker \in spoilt'
    BY DEF ComputedRight
  <2>1. rec.pc \in {"list", "fresh", "publish"}
    BY <1>2 DEF HasArts
  <2> QED BY <1>4, <2>1, Spoils DEF ParityInv
<1>17. ServedRight'
  <2> SUFFICES ASSUME mapping # NoMapping, Hit(Ref(mapping))'
               PROVE  Right(Live, Pending', mapping.spec, Cached(Ref(mapping))')
    BY <1>2, <1>9 DEF ServedRight
  <2> DEFINE g == mapping.gen
             s == mapping.spec
             c == entries[TheKey][g].state
  <2>1. mapping \in MappingObjects /\ g \in Gens /\ s \in Specs
    BY DEF ParityInv, SystemInv, MappingOK, MappingObjects
  <2>2. /\ Ref(mapping).gen = g /\ Ref(mapping).uid = mapping.uid /\ Ref(mapping).key = TheKey
        /\ Ref(mapping).spec = s
    BY DEF Ref
  <2>3. entries'[TheKey][g] # NoEntry /\ entries'[TheKey][g].uid = mapping.uid
        /\ Cached(Ref(mapping))' = entries'[TheKey][g].state
    BY <1>9, <2>2 DEF Hit, HasEntry, Cached
  <2>4. entries[TheKey][g] # NoEntry /\ entries[TheKey][g].uid = mapping.uid
    BY <1>14, <2>1, <2>3
  <2>5. Right(Live, Pending, s, c)
    BY <2>2, <2>4 DEF ParityInv, ServedRight, Hit, HasEntry, Cached
  <2>6. CASE h = Ref(mapping)
    <3>1. HasEntry(h) /\ Stored(h) = c /\ h.spec = s /\ h.gen = g
      BY <2>2, <2>4, <2>6 DEF HasEntry, Stored
    <3>2. c \in Contents
      BY <1>6, <3>1, StoredType DEF ParityInv, SystemInv, CacheInv
    <3>3. PICK full \in BOOLEAN : (Pending \subseteq Queued \/ full) /\ Handles(s, c, d, ev, full)
      BY <1>1, <2>6, <3>1 DEF Applied, ev
    <3>4. Right(Live, Queued, s, d)
      BY <1>3, <2>1, <2>5, <3>2, <3>3, HandledRight
    <3>5. handler' = Idle /\ Amend(h, d)
      BY <1>1, <3>1 DEF Applied
    <3>6. entries'[TheKey][g].state = d
      BY <1>6, <1>12, <2>1, <3>1, <3>5, TheOnes DEF Amend
    <3> QED BY <1>10, <2>3, <3>4, <3>5, <3>6
  <2>7. CASE h # Ref(mapping)
    <3>1. h.gen # g
      <4>1. h.gen < g
        BY <1>6, <2>7 DEF Known
      <4>2. h.gen \in Nat /\ g \in Nat
        BY <1>6, <2>1, GensAssumption
      <4> QED BY <4>1, <4>2
    <3>2. entries'[TheKey][g] = entries[TheKey][g]
      BY <1>13, <2>1, <3>1
    <3>3. Pending \subseteq Queued
      <4> SUFFICES ASSUME ~(Pending \subseteq Queued) PROVE FALSE
        OBVIOUS
      <4>1. h = MatchingMapping(ev.old) \/ h = MatchingMapping(ev.new)
        BY <1>3 DEF HandledMapping, h
      <4> QED BY <1>2, <2>7, <4>1 DEF MatchingMapping
    <3>4. Carried(Live, Pending, Live, Pending')
      BY <1>3, <1>10, <3>3, MorePending
    <3> QED BY <2>3, <2>5, <3>2, <3>4, CarriedRight
  <2> QED BY <2>6, <2>7
<1> QED BY <1>8, <1>11, <1>15, <1>16, <1>17 DEF ParityInv

\* A handler step preserves the invariant.
LEMMA HandlerParity == ASSUME ParityInv, Handler PROVE ParityInv'
<1>1. CASE HandlerList \/ HandlerListOld \/ HandlerListNew
  BY <1>1, ListingParity
<1>2. CASE HandlerListFails \/ HandlerResolutionFailed \/ HandlerInvalidate
  BY <1>2, GiveUpParity
<1>3. CASE HandlerNoMatch
  BY <1>3, NoMatchParity
<1>4. CASE HandlerApply
  BY <1>4, GiveUpParity, ApplyParity
<1> QED BY <1>1, <1>2, <1>3, <1>4 DEF Handler
-------------------------------------------------------------------------------
(***************************************************************************)
(* The invariant: the reconciler.                                          *)
(***************************************************************************)

\* The worker leaves the pods, the queue and the handler alone.
LEMMA ReconcileQueue ==
  ASSUME ParityInv, Reconcile
  PROVE  /\ SystemInv' /\ EventsOfOnePod' /\ QueueSettles' /\ HandlerSettles'
         /\ UNCHANGED <<mappingUID, handler>> /\ Live' = Live
         /\ mapping' = mapping => ListingsRight' /\ Pending' = Pending
<1>1. UNCHANGED <<mappingUID, pods, events, handler>>
  BY DEF Reconcile, RecUnchanged, RecNotFound, RecDelete, RecRemoveFinalizer, RecCleanupFails,
         RecFetch, RecInvalidSpec, RecInvalidSpecListFails, RecHit, RecMiss, RecList,
         RecListFails, RecFresh, RecNotFresh, RecPublish, RecRejected, RecRetry, RecAct, RecStale
<1>2. Live' = Live /\ Queued' = Queued
  BY <1>1 DEF Live, Queued
<1>3. EventsOfOnePod' /\ QueueSettles' /\ HandlerSettles'
  BY <1>1, <1>2 DEF ParityInv, EventsOfOnePod, QueueSettles, HandlerSettles
<1>4. ASSUME mapping' = mapping PROVE ListingsRight' /\ Pending' = Pending
  <2>1. Ref(mapping)' = Ref(mapping) /\ \A o : MatchingMapping(o)' = MatchingMapping(o)
    BY <1>4 DEF Ref, MatchingMapping
  <2>2. Counted' = Counted
    BY <1>1, <2>1 DEF Counted
  <2> QED BY <1>1, <1>2, <1>4, <2>1, <2>2 DEF ParityInv, ListingsRight, Pending
<1> QED BY <1>1, <1>2, <1>3, <1>4, ReconcileStep DEF ParityInv

\* What the worker has in hand is, and stays, a copy of the mapping.
LEMMA CopyKnown ==
  ASSUME ParityInv, rec.pc \notin {"idle", "finalize"}
  PROVE  mapping # NoMapping /\ Known(rec.m) /\ rec.m \in Mappings
BY RecAt DEF ParityInv, CopiesKnown, SystemInv

LEMMA CopiesKept ==
  ASSUME ParityInv, UNCHANGED <<entries, mapping, mappingUID, handler>>,
         rec'.pc \in {"idle", "finalize"} \/ (mapping # NoMapping /\ Known(rec'.m))
  PROVE  CopiesKnown'
<1>1. \A m : Known(m)' = Known(m)
  BY DEF Known, Ref
<1> QED BY <1>1 DEF ParityInv, CopiesKnown

\* The entries stay as they are, and what is served from them stays right.
LEMMA ServedKept ==
  ASSUME ParityInv, Reconcile, UNCHANGED <<entries, mapping>>
  PROVE  ServedRight'
<1>1. Live' = Live /\ Pending' = Pending
  BY ReconcileQueue
<1> QED BY <1>1 DEF ParityInv, ServedRight, Hit, HasEntry, Ref, Cached

\* Steps that neither touch an entry nor have a recomputation under way after them.
LEMMA QuietParity ==
  ASSUME ParityInv, Reconcile, UNCHANGED <<entries, mapping>>,
         rec'.pc \notin {"list", "fresh", "publish"},
         rec'.pc \in {"idle", "finalize"} \/ (mapping # NoMapping /\ Known(rec'.m))
  PROVE  ParityInv'
<1>1. /\ SystemInv' /\ EventsOfOnePod' /\ QueueSettles' /\ HandlerSettles' /\ ListingsRight'
      /\ UNCHANGED <<mappingUID, handler>>
  BY ReconcileQueue
<1>2. TicketHeld' /\ ComputedRight'
  BY DEF TicketHeld, ComputedRight, HasArts
<1> QED BY <1>1, <1>2, CopiesKept, ServedKept DEF ParityInv

LEMMA QuietSteps ==
  ASSUME ParityInv,
         \/ RecCleanupFails \/ RecFetch \/ RecInvalidSpecListFails \/ RecHit \/ RecListFails
         \/ RecNotFresh \/ RecRejected \/ RecAct \/ RecStale
         \/ RecInvalidSpec /\ UNCHANGED cacheVars
  PROVE  ParityInv'
<1>1. Reconcile
  BY DEF Reconcile
<1>2. UNCHANGED <<entries, mapping>>
  BY DEF RecCleanupFails, RecFetch, RecInvalidSpecListFails, RecHit, RecListFails, RecNotFresh,
         RecRejected, RecAct, RecStale, RecInvalidSpec, cacheVars, AbandonRecompute, PublishRejected
<1>3. CASE RecFetch
  <2>1. mapping # NoMapping /\ rec'.pc \in {"resolve", "invalid"} /\ rec'.m = Ref(mapping)
    BY <1>3 DEF RecFetch
  <2>2. Known(rec'.m)
    BY <2>1 DEF Known, Ref
  <2> QED BY <1>1, <1>2, <2>1, <2>2, QuietParity
<1>4. CASE RecHit
  <2>1. rec'.pc = "gate" /\ rec'.m = rec.m /\ rec.pc = "resolve"
    BY <1>4 DEF RecHit
  <2> QED BY <1>1, <1>2, <2>1, CopyKnown, QuietParity
<1>5. CASE RecRejected
  <2>1. rec.pc = "publish" /\ rec \in Publishing
    BY <1>5, RecAt DEF RecRejected, ParityInv, SystemInv
  <2>2. rec' = Idle \/ rec' = [rec EXCEPT !.pc = "conflict"]
    BY <1>5 DEF RecRejected, Requeue
  <2>3. rec'.pc = "idle" \/ (rec'.pc = "conflict" /\ rec'.m = rec.m)
    BY <2>1, <2>2 DEF Idle, Publishing
  <2> QED BY <1>1, <1>2, <2>1, <2>3, CopyKnown, QuietParity
<1>6. CASE \/ RecCleanupFails \/ RecInvalidSpecListFails \/ RecListFails
           \/ RecNotFresh \/ RecAct \/ RecStale \/ RecInvalidSpec
  <2>1. rec'.pc = "idle"
    BY <1>6 DEF RecCleanupFails, RecInvalidSpecListFails, RecListFails, RecNotFresh, RecAct,
                RecStale, RecInvalidSpec, Requeue, Idle
  <2> QED BY <1>1, <1>2, <2>1, QuietParity
<1> QED BY <1>3, <1>4, <1>5, <1>6

\* The cache forgets the mapping.
LEMMA ForgetSteps ==
  ASSUME ParityInv, RecNotFound \/ RecDelete \/ (RecInvalidSpec /\ Delete(TheKey))
  PROVE  ParityInv'
<1>1. Reconcile
  BY DEF Reconcile
<1>2. Delete(TheKey) /\ mapping' = mapping /\ rec'.pc \in {"idle", "finalize"}
  BY DEF RecNotFound, RecDelete, RecInvalidSpec, Start, Idle
<1>3. /\ SystemInv' /\ EventsOfOnePod' /\ QueueSettles' /\ HandlerSettles'
      /\ UNCHANGED <<mappingUID, handler>>
  BY <1>1, ReconcileQueue
<1> QED BY <1>2, <1>3, WipeParity DEF ParityInv

\* The finalizer is removed, and the mapping is gone.
LEMMA FinalizeStep == ASSUME ParityInv, RecRemoveFinalizer PROVE ParityInv'
<1>1. Reconcile
  BY DEF Reconcile
<1>2. mapping' = NoMapping /\ rec' = Idle /\ rec'.pc = "idle" /\ entries' = entries
  BY DEF RecRemoveFinalizer, Requeue, Idle, cacheVars
<1>3. /\ SystemInv' /\ EventsOfOnePod' /\ QueueSettles' /\ HandlerSettles'
      /\ UNCHANGED <<mappingUID, handler>>
  BY <1>1, ReconcileQueue
<1>4. TicketHeld' /\ ServedRight' /\ ComputedRight'
  BY <1>2 DEF TicketHeld, ServedRight, ComputedRight, HasArts
<1>5. CopiesKnown' /\ ListingsRight'
  BY <1>2, <1>3 DEF ParityInv, CopiesKnown, ListingsRight
<1> QED BY <1>3, <1>4, <1>5 DEF ParityInv

\* A recomputation begins.
LEMMA BeginStep == ASSUME ParityInv, RecMiss \/ RecRetry PROVE ParityInv'
<1>1. Reconcile
  BY DEF Reconcile
<1>2. rec.pc \in {"resolve", "conflict"} /\ GetWithVersion(TheWorker, rec.m) /\ mapping' = mapping
      /\ rec'.m = rec.m /\ (rec'.pc = "list" \/ (rec'.pc = "fresh" /\ rec'.retry))
  BY DEF RecMiss, RecRetry
<1>3. mapping # NoMapping /\ Known(rec.m) /\ rec.m \in Mappings
  BY <1>2, CopyKnown
<1>4. entries' = entries
  BY <1>2 DEF GetWithVersion
<1>5. TicketHeld'
  <2> DEFINE tk == [key |-> rec.m.key, gen |-> rec.m.gen, uid |-> rec.m.uid, spec |-> rec.m.spec,
                    version |-> Version(rec.m.key), epoch |-> lifecycleEpoch[rec.m.key]]
  <2>1. recompute \in [Workers -> Tickets \cup {NoTicket}] /\ CacheTypeOK
    BY DEF ParityInv, SystemInv, CacheInv, CacheTypeOK
  <2>2. recompute'[TheWorker] = tk
    BY <1>2, <2>1, TheOnes DEF GetWithVersion
  <2>3. tk \in Tickets
    BY <1>3, <2>1, VersionType DEF Tickets, Mappings, CacheTypeOK
  <2>4. tk.key = TheKey /\ tk.gen = rec.m.gen /\ tk.uid = rec.m.uid
    BY <1>3, TheOnes DEF Mappings
  <2> HIDE DEF tk
  <2> QED BY <1>2, <2>2, <2>3, <2>4, NoTicketAssumption DEF TicketHeld
<1>6. ComputedRight'
  BY <1>2 DEF ComputedRight, HasArts
<1>7. CopiesKnown'
  BY <1>1, <1>2, <1>3, <1>4, CopiesKept, ReconcileQueue
<1> QED BY <1>1, <1>2, <1>4, <1>5, <1>6, <1>7, ServedKept, ReconcileQueue DEF ParityInv

\* The pods are listed, or the mapping is rechecked.
LEMMA ComputeStep == ASSUME ParityInv, RecList \/ RecFresh PROVE ParityInv'
<1>1. Reconcile
  BY DEF Reconcile
<1>2. UNCHANGED <<entries, recompute, spoilt, mapping>> /\ rec.pc \in {"list", "fresh"}
  BY DEF RecList, RecFresh, cacheVars
<1>3. mapping # NoMapping /\ Known(rec.m) /\ rec.m \in Mappings /\ rec.m.spec \in Specs
  BY <1>2, CopyKnown DEF Mappings
<1>4. Live' = Live /\ Pending' = Pending /\ Ref(mapping)' = Ref(mapping)
  BY <1>1, <1>2, ReconcileQueue DEF Ref
<1>5. /\ rec'.m = rec.m /\ rec'.pc \in {"list", "fresh", "publish"}
      /\ HasArts' => \/ rec'.arts = Artifacts(rec.m.spec, StorePods)
                     \/ HasArts /\ rec'.arts = rec.arts
  <2>1. CASE RecList
    <3> DEFINE arts == Artifacts(rec.m.spec, StorePods)
    <3>1. rec' = [pc |-> IF rec.retry THEN "publish" ELSE "fresh", m |-> rec.m, forced |-> rec.forced,
                  retry |-> rec.retry, arts |-> arts]
      BY <2>1 DEF RecList
    <3> HIDE DEF arts
    <3>2. rec'.m = rec.m /\ rec'.pc \in {"list", "fresh", "publish"} /\ rec'.arts = arts
      BY <3>1
    <3> QED BY <3>2 DEF arts
  <2>2. CASE RecFresh
    <3>1. rec \in Rechecking \/ rec \in Computed
      BY <2>2, RecAt DEF RecFresh, ParityInv, SystemInv
    <3>2. CASE rec \in Rechecking
      <4>1. rec' = [rec EXCEPT !.pc = "list"]
        BY <2>2, <3>2 DEF RecFresh, Rechecking
      <4>2. rec'.pc = "list" /\ rec'.m = rec.m
        BY <3>2, <4>1 DEF Rechecking
      <4> QED BY <4>2 DEF HasArts
    <3>3. CASE rec \in Computed
      <4>1. rec' = [rec EXCEPT !.pc = "publish"]
        BY <2>2, <3>3 DEF RecFresh, Computed
      <4>2. rec'.pc = "publish" /\ rec'.m = rec.m /\ rec'.arts = rec.arts
            /\ rec.pc = "fresh" /\ ~rec.retry
        BY <3>3, <4>1 DEF Computed
      <4> QED BY <4>2 DEF HasArts
    <3> QED BY <3>1, <3>2, <3>3
  <2> QED BY <2>1, <2>2
<1>6. ComputedRight'
  <2> SUFFICES ASSUME HasArts', TheWorker \notin spoilt, rec.m = Ref(mapping)
               PROVE  Right(Live, Pending, rec.m.spec, rec'.arts)
    BY <1>2, <1>4, <1>5 DEF ComputedRight
  <2>1. CASE HasArts /\ rec'.arts = rec.arts
    BY <2>1 DEF ParityInv, ComputedRight
  <2>2. CASE rec'.arts = Artifacts(rec.m.spec, StorePods)
    BY <1>3, <2>2, RecomputedRight DEF ParityInv, SystemInv
  <2> QED BY <1>5, <2>1, <2>2
<1>7. TicketHeld'
  BY <1>2, <1>5 DEF ParityInv, TicketHeld
<1>8. CopiesKnown'
  BY <1>1, <1>2, <1>3, <1>5, CopiesKept, ReconcileQueue
<1> QED BY <1>1, <1>2, <1>6, <1>7, <1>8, ServedKept, ReconcileQueue DEF ParityInv

\* The artifacts are published: the fences say that no notification was handled since the pods
\* were listed, so they are right up to those that are pending.
LEMMA PublishParity == ASSUME ParityInv, RecPublish PROVE ParityInv'
<1>1. Reconcile
  BY DEF Reconcile
<1> DEFINE tk == recompute[TheWorker]
<1>2. /\ rec.pc = "publish" /\ Publish(TheWorker, rec.arts) /\ mapping' = mapping
      /\ rec'.pc = "gate" /\ rec'.m = rec.m
  BY DEF RecPublish
<1>3. /\ mapping # NoMapping /\ Known(rec.m) /\ rec.m \in Mappings /\ rec.arts \in Contents
      /\ rec.m.gen \in Gens
  BY <1>2, CopyKnown, RecAt DEF ParityInv, SystemInv, Publishing, Mappings
<1>4. tk # NoTicket /\ tk.key = TheKey /\ tk.gen = rec.m.gen /\ tk.uid = rec.m.uid
  BY <1>2 DEF ParityInv, TicketHeld
<1>5. /\ \A g \in Gens : entries'[TheKey][g] # NoEntry <=> g = rec.m.gen
      /\ entries'[TheKey][rec.m.gen].uid = rec.m.uid
  BY <1>2, <1>3, <1>4, TheOnes, PublishStep DEF ParityInv, SystemInv
<1>6. entries'[TheKey][rec.m.gen].state = rec.arts
  <2>1. entries \in [Keys -> [Gens -> Entries \cup {NoEntry}]]
    BY DEF ParityInv, SystemInv, CacheInv, CacheTypeOK
  <2>2. entries'[TheKey][rec.m.gen] = [uid |-> tk.uid, state |-> rec.arts]
    BY <1>2, <1>3, <1>4, <2>1, TheOnes DEF Publish
  <2> QED BY <2>2
<1>7. TheWorker \notin spoilt
  <2>1. FencesHold(tk) /\ TicketsBehind /\ CacheTypeOK
    BY <1>2 DEF Publish, Publishable, ParityInv, SystemInv, CacheInv
  <2>2. tk \in Tickets
    BY <1>4, <2>1, TheOnes DEF CacheTypeOK
  <2>3. tk.version \in Nat /\ Version(tk.key) \in Nat
    BY <2>1, <2>2, VersionType DEF Tickets
  <2>4. TheWorker \in spoilt => tk.version < Version(tk.key)
    BY <1>4, <2>1, TheOnes DEF TicketsBehind
  <2>5. tk.version = Version(tk.key)
    BY <2>1 DEF FencesHold
  <2> HIDE DEF tk
  <2> QED BY <2>3, <2>4, <2>5
<1>8. /\ SystemInv' /\ EventsOfOnePod' /\ QueueSettles' /\ HandlerSettles' /\ ListingsRight'
      /\ UNCHANGED <<mappingUID, handler>> /\ Live' = Live /\ Pending' = Pending
  BY <1>1, <1>2, ReconcileQueue
<1>9. TicketHeld' /\ ComputedRight'
  BY <1>2 DEF TicketHeld, ComputedRight, HasArts
<1>10. /\ Ref(mapping)' = Ref(mapping) /\ \A m : Known(m)' = Known(m)
       /\ Ref(mapping).gen = mapping.gen /\ Ref(mapping).uid = mapping.uid
       /\ Ref(mapping).key = TheKey /\ Ref(mapping).spec = mapping.spec
  BY <1>2 DEF Ref, Known
<1>11. mapping.gen \in Nat /\ mapping.gen \in Gens /\ rec.m.gen \in Nat /\ mappingUID \in Nat
       /\ mapping.uid = mappingUID
  BY <1>3, GensAssumption DEF ParityInv, SystemInv, MappingOK, MappingObjects, CopiesKnown
<1>12. CopiesKnown'
  <2>1. rec.m.uid = mapping.uid /\ rec.m.gen <= mapping.gen
    BY <1>3, <1>10, <1>11 DEF Known
  <2>2. ASSUME NEW g \in Gens, entries'[TheKey][g] # NoEntry
        PROVE  entries'[TheKey][g].uid <= mappingUID /\ g <= mapping.gen
    BY <1>5, <1>11, <2>1, <2>2
  <2>3. /\ handler # Idle => /\ handler.oldM # NoMapping => Known(handler.oldM)
                             /\ handler.newM # NoMapping => Known(handler.newM)
    BY <1>3 DEF ParityInv, CopiesKnown
  <2> QED BY <1>2, <1>3, <1>8, <1>10, <1>11, <2>2, <2>3 DEF CopiesKnown
<1>13. ServedRight'
  <2> SUFFICES ASSUME Hit(Ref(mapping))'
               PROVE  Right(Live, Pending, mapping.spec, Cached(Ref(mapping))')
    BY <1>2, <1>8 DEF ServedRight
  <2>1. entries'[TheKey][mapping.gen] # NoEntry
        /\ Cached(Ref(mapping))' = entries'[TheKey][mapping.gen].state
    BY <1>10 DEF Hit, HasEntry, Cached
  <2>2. mapping.gen = rec.m.gen
    BY <1>5, <1>11, <2>1
  <2>3. rec.m = Ref(mapping)
    BY <1>3, <1>11, <2>2 DEF Known
  <2>4. Right(Live, Pending, rec.m.spec, rec.arts)
    BY <1>2, <1>7, <2>3 DEF ParityInv, ComputedRight, HasArts
  <2> QED BY <1>6, <1>10, <2>1, <2>2, <2>3, <2>4
<1> QED BY <1>8, <1>9, <1>12, <1>13 DEF ParityInv

\* A reconcile step preserves the invariant.
LEMMA ReconcileParity == ASSUME ParityInv, Reconcile PROVE ParityInv'
<1>1. RecInvalidSpec => UNCHANGED cacheVars \/ Delete(TheKey)
  BY DEF RecInvalidSpec
<1>2. CASE \/ RecCleanupFails \/ RecFetch \/ RecInvalidSpecListFails \/ RecHit \/ RecListFails
           \/ RecNotFresh \/ RecRejected \/ RecAct \/ RecStale
  BY <1>2, QuietSteps
<1>3. CASE RecNotFound \/ RecDelete \/ RecInvalidSpec
  BY <1>1, <1>3, ForgetSteps, QuietSteps
<1>4. CASE RecRemoveFinalizer \/ RecMiss \/ RecRetry \/ RecList \/ RecFresh \/ RecPublish
  BY <1>4, FinalizeStep, BeginStep, ComputeStep, PublishParity
<1> QED BY <1>2, <1>3, <1>4 DEF Reconcile
-------------------------------------------------------------------------------
LEMMA ParityStep == ASSUME ~LateHandler, ParityInv, [Next]_vars PROVE ParityInv'
<1>1. CASE UNCHANGED vars
  <2>1. SystemInv'
    BY <1>1, SystemStep DEF ParityInv
  <2>2. UNCHANGED <<entries, recompute, spoilt, mapping, mappingUID, pods, events, handler, rec>>
    BY <1>1 DEF vars, cacheVars
  <2>3. Live' = Live /\ Queued' = Queued /\ Pending' = Pending
    BY <2>2 DEF Live, Queued, Pending, Counted, MatchingMapping, Ref
  <2>4. EventsOfOnePod' /\ QueueSettles' /\ HandlerSettles'
    BY <2>2, <2>3 DEF ParityInv, EventsOfOnePod, QueueSettles, HandlerSettles
  <2>5. CopiesKnown' /\ ListingsRight' /\ TicketHeld'
    BY <2>2, HoldingsKept DEF ParityInv
  <2>6. Carried(Live, Pending, Live', Pending')
    BY <2>3, MorePending
  <2> QED BY <2>1, <2>2, <2>4, <2>5, <2>6, RightsKept DEF ParityInv
<1>2. CASE Users
  BY <1>2, PodStepParity, MappingStepParity DEF Users
<1> QED BY <1>1, <1>2, HandlerParity, ReconcileParity DEF Next

\* When every notification is handled, the snapshot and the record of which pods contribute to
\* which rules are what a recomputation would give: any number of rules, shared targets,
\* publications between the notifications of a pod and its replayed ones, failed listings and
\* mapping changes (desired_state_cache.go:246-570, desired_state_snapshot.go:189).
THEOREM ContributorsExact ==
  ASSUME ~LateHandler
  PROVE  Spec => []ContributorParity
<1>1. Init => ParityInv
  BY ParityInit
<1>2. ParityInv /\ [Next]_vars => ParityInv'
  BY ParityStep
<1>3. ParityInv => ContributorParity
  BY ParityContributors
<1> QED BY <1>1, <1>2, <1>3, PTL DEF Spec

\* When every notification is handled, no pod's address is missing from a target that one rule
\* feeds: a replayed removal never takes an address away from a pod that has it
\* (hasOtherContributor, desired_state_cache.go:333-346, 501-514).
THEOREM NoAddressLost ==
  ASSUME ~LateHandler
  PROVE  Spec => []NoAddressMissing
<1>1. Init => ParityInv
  BY ParityInit
<1>2. ParityInv /\ [Next]_vars => ParityInv'
  BY ParityStep
<1>3. ParityInv => NoAddressMissing
  BY ParityMissing
<1> QED BY <1>1, <1>2, <1>3, PTL DEF Spec

\* For a mapping with one rule the parity contract holds in full: the cached addresses are
\* exactly what a recomputation would give (desired_state_snapshot.go:189).
THEOREM OneRuleIsExact ==
  ASSUME ~LateHandler
  PROVE  Spec => []OneRuleParity
<1>1. Init => ParityInv
  BY ParityInit
<1>2. ParityInv /\ [Next]_vars => ParityInv'
  BY ParityStep
<1>3. ParityInv => OneRuleParity
  BY ParityOneRule
<1> QED BY <1>1, <1>2, <1>3, PTL DEF Spec
===============================================================================
