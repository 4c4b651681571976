------------------------- MODULE PodCacheSystemProofs -------------------------
(***************************************************************************)
(* What the desired-state cache, the pod event handler and the reconciler  *)
(* guarantee together, for every set of pods, labels, addresses, rules,    *)
(* specs and generations, and every number of changes and failures.        *)
(***************************************************************************)
EXTENDS PodCacheSystem, DesiredStateCacheProofs

\* What the informer hands to the handler, and what the handler keeps of it.
Notifications ==
  [type : {"add"}, old : {NoPod}, new : PodObjects]
    \cup [type : {"update"}, old : PodObjects, new : PodObjects]
    \cup [type : {"delete"}, old : PodObjects, new : {NoPod}]

Handling == [pc : {"listNew", "apply", "invalidate"}, ev : Notifications, failed : BOOLEAN,
             oldM : Mappings \cup {NoMapping}, newM : Mappings \cup {NoMapping}]

HandlerOK ==
  \/ handler = Idle
  \/ /\ handler \in Handling
     /\ handler.oldM # NoMapping => handler.ev.old \in PodObjects
     /\ handler.newM # NoMapping => handler.ev.new \in PodObjects

\* What the worker keeps.
Fetched == [pc : {"invalid", "resolve"}, m : Mappings]
Listing == [pc : {"list"}, m : Mappings, forced : BOOLEAN, retry : BOOLEAN]
Rechecking == [pc : {"fresh"}, m : Mappings, forced : BOOLEAN, retry : {TRUE}]
Computed == [pc : {"fresh"}, m : Mappings, forced : BOOLEAN, retry : {FALSE}, arts : Contents]
Publishing == [pc : {"publish", "conflict"}, m : Mappings, forced : BOOLEAN, retry : BOOLEAN,
               arts : Contents]
Gated == [pc : {"gate"}, m : Mappings, desired : [Targets -> SUBSET CIDRs]]

RecOK ==
  \/ rec = Idle \/ rec = [pc |-> "finalize"] \/ rec \in Fetched \/ rec \in Listing
  \/ rec \in Rechecking \/ rec \in Computed \/ rec \in Publishing \/ rec \in Gated

MappingObjects == [gen : Gens, uid : UIDs, spec : Specs, deleting : BOOLEAN]
MappingOK == mapping \in MappingObjects \cup {NoMapping}

\* A pod is in the store under its name, with the last UID its name was given.
PodsOK ==
  /\ pods \in [PodNames -> PodObjects \cup {NoPod}]
  /\ podUID \in [PodNames -> 0..MaxPodUID]
  /\ \A n \in PodNames : pods[n] # NoPod => pods[n].id = <<n, podUID[n]>>

EventsOK == events \in Seq(Notifications)

SystemInv ==
  /\ CacheInv /\ MappingOK /\ PodsOK /\ EventsOK /\ HandlerOK /\ RecOK
  /\ queued \in BOOLEAN /\ resyncGen \in Gens \cup {0}
-------------------------------------------------------------------------------
(***************************************************************************)
(* The one mapping and its pods.                                           *)
(***************************************************************************)

\* There is one key and one worker.
LEMMA TheOnes ==
  /\ TheKey \in Keys /\ Keys = {TheKey} /\ TheWorker \in Workers /\ Workers = {TheWorker}
  /\ TheNamespace \in Namespaces
<1>1. TheKey \in Keys /\ Keys = {TheKey}
  BY OneKey DEF TheKey
<1>2. TheWorker \in Workers /\ Workers = {TheWorker}
  BY OneWorker DEF TheWorker
<1> QED BY <1>1, <1>2, NsAssumption DEF TheNamespace

\* A mapping object as the cache knows it.
LEMMA RefType ==
  ASSUME NEW mp \in MappingObjects
  PROVE  /\ Ref(mp) \in Mappings /\ Ref(mp).key = TheKey /\ Ref(mp).gen = mp.gen
         /\ Ref(mp).uid = mp.uid /\ Ref(mp).spec = mp.spec
BY TheOnes DEF Ref, Mappings, MappingObjects

\* The pod store is a list of pods: finite, and with one pod for each identity.
LEMMA StorePodsType == ASSUME PodsOK PROVE StorePods \in PodLists
<1> DEFINE names == {n \in PodNames : pods[n] # NoPod}
<1>1. IsFiniteSet(names)
  BY PodNamesAssumption, FS_Subset
<1>2. IsFiniteSet({pods[n] : n \in names})
  <2> DEFINE image == {pods[n] : n \in names}
             f == [n \in names |-> pods[n]]
  <2>1. f \in Surjection(names, image)
    BY DEF Surjection
  <2> HIDE DEF f, image, names
  <2>2. IsFiniteSet(image)
    BY <1>1, <2>1, FS_Surjection
  <2> QED BY <2>2 DEF image
<1>3. StorePods = {pods[n] : n \in names}
  BY DEF StorePods
<1>4. StorePods \subseteq PodObjects
  BY <1>3 DEF PodsOK
<1>5. ASSUME NEW p \in StorePods, NEW q \in StorePods, p.id = q.id PROVE p = q
  <2>1. PICK n \in names : p = pods[n]
    BY <1>3
  <2>2. PICK l \in names : q = pods[l]
    BY <1>3
  <2>3. <<n, podUID[n]>> = <<l, podUID[l]>>
    BY <1>5, <2>1, <2>2 DEF PodsOK
  <2> QED BY <2>1, <2>2, <2>3
<1> QED BY <1>2, <1>3, <1>4, <1>5 DEF PodLists

\* A pod that is created gets an identity of its name.
LEMMA NewPodType ==
  ASSUME PodsOK, NEW n \in PodNames, podUID[n] < MaxPodUID,
         NEW l \in Labels, NEW ip \in IPs \cup {NoIP}
  PROVE  NewPod(n, l, ip) \in PodObjects /\ NewPod(n, l, ip).id = <<n, podUID[n] + 1>>
<1>1. podUID[n] + 1 \in 1..MaxPodUID
  BY PodNamesAssumption DEF PodsOK
<1>2. <<n, podUID[n] + 1>> \in PodIDs
  BY <1>1, PodIDsAssumption
<1> QED BY <1>2 DEF NewPod, PodObjects
-------------------------------------------------------------------------------
(***************************************************************************)
(* The calls on the cache.                                                 *)
(***************************************************************************)

\* Pod events, invalidations and deletions keep the cache's invariant and make no entry.
LEMMA TouchesCache ==
  ASSUME CacheInv,
         \/ \E m \in Mappings, pod \in PodObjects :
              \/ OnPodAdd(m, pod) \/ OnPodDelete(m, pod)
              \/ \E new \in PodObjects : OnPodUpdate(m, pod, new)
         \/ Invalidate(TheKey) \/ Delete(TheKey) \/ InvalidateNamespace(TheNamespace)
  PROVE  CacheInv' /\ (entries[TheKey] = NoEntries => entries'[TheKey] = NoEntries)
<1>1. PICK K : CacheTypeOK' /\ Touched(K) /\ Thinned(K) /\ Forgotten
  <2>1. ASSUME NEW m \in Mappings, NEW pod \in PodObjects,
               \/ OnPodAdd(m, pod) \/ OnPodDelete(m, pod)
               \/ \E new \in PodObjects : OnPodUpdate(m, pod, new)
        PROVE  \E K : CacheTypeOK' /\ Touched(K) /\ Thinned(K) /\ Forgotten
    BY <2>1, PodEventEffect
  <2>2. CASE Invalidate(TheKey) \/ Delete(TheKey)
    BY <2>2, TheOnes, CleanupKeyStep
  <2>3. CASE InvalidateNamespace(TheNamespace)
    <3> DEFINE K == {k \in Keys : NsOf[k] = TheNamespace}
    <3>1. CacheTypeOK' /\ Touched(K) /\ Thinned(K) /\ Forgotten
      BY <2>3, TheOnes, InvalidateNamespaceStep
    <3> QED BY <3>1
  <2> QED BY <2>1, <2>2, <2>3
<1>2. CacheInv'
  BY <1>1, TouchedInv
<1>3. ASSUME entries[TheKey] = NoEntries PROVE entries'[TheKey] = NoEntries
  <2>1. \A g \in Gens : entries'[TheKey][g] = NoEntry
    BY <1>1, <1>3, TheOnes DEF Thinned, Kept, NoEntries
  <2>2. entries'[TheKey] \in [Gens -> Entries \cup {NoEntry}]
    BY <1>1, TheOnes DEF CacheTypeOK
  <2> QED BY <2>1, <2>2 DEF NoEntries
<1> QED BY <1>2, <1>3

\* Terminal cleanup and invalidation leave no entry.
LEMMA CleanupEmpties ==
  ASSUME CacheTypeOK, Invalidate(TheKey) \/ Delete(TheKey) \/ InvalidateNamespace(TheNamespace)
  PROVE  entries'[TheKey] = NoEntries
<1>1. entries \in [Keys -> [Gens -> Entries \cup {NoEntry}]]
  BY DEF CacheTypeOK
<1> QED BY <1>1, TheOnes DEF Invalidate, Delete, InvalidateNamespace, TheNamespace

\* A step that leaves the cache alone keeps its invariant.
LEMMA CacheUntouched == ASSUME CacheInv, UNCHANGED cacheVars PROVE CacheInv'
BY DEF CacheInv, CacheTypeOK, NewestGenerationOnly, LatestIsNewest, TicketsBehind, FencesHold,
       Version, cacheVars
-------------------------------------------------------------------------------
(***************************************************************************)
(* The invariant.                                                          *)
(***************************************************************************)

\* It holds at the start.
LEMMA SystemInit == Init => SystemInv
<1> SUFFICES ASSUME Init PROVE SystemInv
  OBVIOUS
<1>1. CacheInv
  BY CacheInvInit DEF Init
<1>2. MappingOK
  BY FirstAssumption DEF Init, MappingOK, MappingObjects
<1>3. PodsOK
  BY PodNamesAssumption DEF Init, PodsOK
<1>4. EventsOK /\ HandlerOK /\ RecOK /\ queued \in BOOLEAN /\ resyncGen \in Gens \cup {0}
  BY DEF Init, EventsOK, HandlerOK, RecOK
<1> QED BY <1>1, <1>2, <1>3, <1>4 DEF SystemInv

\* A notification goes to the end of the queue.
LEMMA NotifyType ==
  ASSUME EventsOK, NEW type, NEW old, NEW new,
         [type |-> type, old |-> old, new |-> new] \in Notifications, Notify(type, old, new)
  PROVE  EventsOK'
BY DEF EventsOK, Notify

PodStep(n) == PodAdded(n) \/ PodChanged(n) \/ PodRemoved(n) \/ PodReplaced(n)

\* What users do to a pod.
LEMMA PodStepType ==
  ASSUME SystemInv, NEW n \in PodNames, PodStep(n)
  PROVE  PodsOK' /\ EventsOK'
<1>0. PodsOK /\ EventsOK
  BY DEF SystemInv
<1>1. ASSUME NEW l \in Labels, NEW ip \in IPs \cup {NoIP}, podUID[n] < MaxPodUID,
             pods' = [pods EXCEPT ![n] = NewPod(n, l, ip)], podUID' = [podUID EXCEPT ![n] = @ + 1]
      PROVE  PodsOK' /\ NewPod(n, l, ip) \in PodObjects
  <2>1. NewPod(n, l, ip) \in PodObjects /\ NewPod(n, l, ip).id = <<n, podUID[n] + 1>>
    BY <1>0, <1>1, NewPodType
  <2>2. podUID[n] + 1 \in 0..MaxPodUID
    BY <1>0, <1>1, PodNamesAssumption DEF PodsOK
  <2> DEFINE new == NewPod(n, l, ip)
  <2> HIDE DEF new
  <2>3. new \in PodObjects /\ new.id = <<n, podUID[n] + 1>> /\ pods' = [pods EXCEPT ![n] = new]
    BY <1>1, <2>1 DEF new
  <2>4. /\ pods' \in [PodNames -> PodObjects \cup {NoPod}]
        /\ podUID' \in [PodNames -> 0..MaxPodUID]
    BY <1>0, <1>1, <2>2, <2>3 DEF PodsOK
  <2>5. ASSUME NEW l2 \in PodNames, pods'[l2] # NoPod PROVE pods'[l2].id = <<l2, podUID'[l2]>>
    BY <1>0, <1>1, <2>3, <2>5 DEF PodsOK
  <2> QED BY <2>1, <2>4, <2>5 DEF PodsOK
<1>2. CASE PodAdded(n)
  <2>1. PICK l \in Labels, ip \in IPs \cup {NoIP} :
          pods' = [pods EXCEPT ![n] = NewPod(n, l, ip)] /\ Notify("add", NoPod, NewPod(n, l, ip))
    BY <1>2 DEF PodAdded
  <2>2. PodsOK' /\ NewPod(n, l, ip) \in PodObjects
    BY <1>1, <1>2, <2>1 DEF PodAdded
  <2>3. [type |-> "add", old |-> NoPod, new |-> NewPod(n, l, ip)] \in Notifications
    BY <2>2 DEF Notifications
  <2> QED BY <1>0, <2>1, <2>2, <2>3, NotifyType
<1>3. CASE PodReplaced(n)
  <2>1. PICK l \in Labels, ip \in IPs \cup {NoIP} :
          /\ pods' = [pods EXCEPT ![n] = NewPod(n, l, ip)]
          /\ Notify("update", pods[n], NewPod(n, l, ip))
    BY <1>3 DEF PodReplaced
  <2>2. PodsOK' /\ NewPod(n, l, ip) \in PodObjects /\ pods[n] \in PodObjects
    BY <1>0, <1>1, <1>3, <2>1 DEF PodReplaced, PodsOK
  <2>3. [type |-> "update", old |-> pods[n], new |-> NewPod(n, l, ip)] \in Notifications
    BY <2>2 DEF Notifications
  <2> QED BY <1>0, <2>1, <2>2, <2>3, NotifyType
<1>4. CASE PodChanged(n)
  <2>1. pods[n] \in PodObjects /\ pods[n] # NoPod
    BY <1>0, <1>4 DEF PodChanged, PodsOK
  <2>2. PICK l \in Labels, ip \in IPs \cup {NoIP} :
          LET new == [pods[n] EXCEPT !.label = l, !.ip = ip]
          IN  pods' = [pods EXCEPT ![n] = new] /\ Notify("update", pods[n], new)
    BY <1>4 DEF PodChanged
  <2> DEFINE new == [pods[n] EXCEPT !.label = l, !.ip = ip]
  <2>3. new \in PodObjects /\ new.id = pods[n].id
    BY <2>1 DEF PodObjects
  <2>4. pods' = [pods EXCEPT ![n] = new] /\ Notify("update", pods[n], new)
    BY <2>2
  <2> HIDE DEF new
  <2>5. podUID' = podUID
    BY <1>4 DEF PodChanged
  <2>6. PodsOK'
    BY <1>0, <2>1, <2>3, <2>4, <2>5 DEF PodsOK
  <2>7. [type |-> "update", old |-> pods[n], new |-> new] \in Notifications
    BY <2>1, <2>3 DEF Notifications
  <2> QED BY <1>0, <2>4, <2>6, <2>7, NotifyType
<1>5. CASE PodRemoved(n)
  <2>1. pods[n] \in PodObjects
    BY <1>0, <1>5 DEF PodRemoved, PodsOK
  <2>2. PodsOK'
    BY <1>0, <1>5 DEF PodsOK, PodRemoved
  <2>3. [type |-> "delete", old |-> pods[n], new |-> NoPod] \in Notifications
    BY <2>1 DEF Notifications
  <2> QED BY <1>0, <1>5, <2>2, <2>3, NotifyType DEF PodRemoved
<1> QED BY <1>2, <1>3, <1>4, <1>5 DEF PodStep

\* What users do to the mapping.
LEMMA MappingStepType ==
  ASSUME SystemInv, SpecChanged \/ MappingDeleteRequested \/ MappingCreated
  PROVE  MappingOK' /\ queued' \in BOOLEAN
<1>0. mapping \in MappingObjects \cup {NoMapping}
  BY DEF SystemInv, MappingOK
<1>1. CASE SpecChanged
  <2>1. mapping \in MappingObjects /\ mapping.gen + 1 \in Gens /\ queued' = TRUE
    BY <1>0, <1>1 DEF SpecChanged
  <2>2. PICK s \in Specs : mapping' = [mapping EXCEPT !.gen = @ + 1, !.spec = s]
    BY <1>1 DEF SpecChanged
  <2>3. mapping' \in MappingObjects
    BY <2>1, <2>2 DEF MappingObjects
  <2> QED BY <2>1, <2>3 DEF MappingOK
<1>2. CASE MappingDeleteRequested
  <2>1. mapping \in MappingObjects /\ mapping.gen + 1 \in Gens /\ queued' = TRUE
    BY <1>0, <1>2 DEF MappingDeleteRequested
  <2>2. mapping' \in MappingObjects
    BY <1>2, <2>1 DEF MappingDeleteRequested, MappingObjects
  <2> QED BY <2>1, <2>2 DEF MappingOK
<1>3. CASE MappingCreated
  BY <1>3, FirstAssumption DEF MappingCreated, MappingOK, MappingObjects
<1> QED BY <1>1, <1>2, <1>3

\* Users never reach into the controller.
LEMMA UsersStep ==
  ASSUME SystemInv, Users \/ \E n \in PodNames : PodReplaced(n)
  PROVE  /\ SystemInv'
         /\ UNCHANGED <<cacheVars, rec, resyncGen>>
         /\ (mapping' = mapping /\ queued' = queued) \/ queued' = TRUE
<1>1. ASSUME NEW n \in PodNames, PodStep(n)
      PROVE  /\ SystemInv'
             /\ UNCHANGED <<cacheVars, rec, resyncGen>>
             /\ mapping' = mapping /\ queued' = queued
  <2>1. PodsOK' /\ EventsOK'
    BY <1>1, PodStepType
  <2>2. UNCHANGED <<cacheVars, mapping, handler, queued, rec, resyncGen>>
    BY <1>1 DEF PodStep, PodAdded, PodChanged, PodRemoved, PodReplaced
  <2>3. CacheInv'
    BY <2>2, CacheUntouched DEF SystemInv
  <2> QED BY <2>1, <2>2, <2>3 DEF SystemInv, MappingOK, HandlerOK, RecOK
<1>2. CASE SpecChanged \/ MappingDeleteRequested \/ MappingCreated
  <2>1. MappingOK' /\ queued' \in BOOLEAN
    BY <1>2, MappingStepType
  <2>2. UNCHANGED <<cacheVars, pods, podUID, events, handler, rec, resyncGen>> /\ queued' = TRUE
    BY <1>2 DEF SpecChanged, MappingDeleteRequested, MappingCreated
  <2>3. CacheInv'
    BY <2>2, CacheUntouched DEF SystemInv
  <2>4. PodsOK' /\ EventsOK' /\ HandlerOK' /\ RecOK'
    BY <2>2 DEF SystemInv, PodsOK, EventsOK, HandlerOK, RecOK
  <2> QED BY <2>1, <2>2, <2>3, <2>4 DEF SystemInv
<1> QED BY <1>1, <1>2 DEF Users, PodStep
-------------------------------------------------------------------------------
(***************************************************************************)
(* The pod event handler.                                                  *)
(***************************************************************************)

\* The next notification, and what is left of the queue.
LEMMA NextEvent ==
  ASSUME EventsOK, events # <<>>
  PROVE  Head(events) \in Notifications /\ Tail(events) \in Seq(Notifications)
BY DEF EventsOK

\* matchingMappingsForPodDetailed finds the mapping for a pod, never for the absence of one.
LEMMA MatchingMappingType ==
  ASSUME MappingOK, NEW pod
  PROVE  /\ MatchingMapping(pod) \in Mappings \cup {NoMapping}
         /\ MatchingMapping(pod) # NoMapping => pod # NoPod
BY RefType DEF MatchingMapping, MappingOK

\* The pods of a notification.
LEMMA NotificationPods ==
  ASSUME NEW ev \in Notifications
  PROVE  /\ ev.old \in PodObjects \cup {NoPod} /\ ev.new \in PodObjects \cup {NoPod}
         /\ ev.type = "update" => ev.old \in PodObjects /\ ev.new \in PodObjects
BY DEF Notifications

\* The handler's own state.
LEMMA HandlerType ==
  ASSUME SystemInv, Handler
  PROVE  HandlerOK' /\ EventsOK'
<1>0. EventsOK /\ MappingOK /\ HandlerOK
  BY DEF SystemInv
<1>1. CASE HandlerList
  <2> DEFINE ev == Head(events)
             o == MatchingMapping(ev.old)
             w == MatchingMapping(ev.new)
  <2>1. ev \in Notifications /\ events' \in Seq(Notifications)
    BY <1>0, <1>1, NextEvent DEF HandlerList
  <2>2. /\ o \in Mappings \cup {NoMapping} /\ (o # NoMapping => ev.old \in PodObjects)
        /\ w \in Mappings \cup {NoMapping} /\ (w # NoMapping => ev.new \in PodObjects)
    BY <1>0, <2>1, MatchingMappingType, NotificationPods
  <2>3. handler' = [pc |-> "apply", ev |-> ev, failed |-> FALSE, oldM |-> o, newM |-> w]
    BY <1>1 DEF HandlerList
  <2> HIDE DEF ev, o, w
  <2> QED BY <2>1, <2>2, <2>3 DEF EventsOK, HandlerOK, Handling
<1>2. CASE HandlerListFails
  BY <1>0, <1>2, NextEvent DEF HandlerListFails, EventsOK, HandlerOK
<1>3. CASE HandlerListOld
  <2> DEFINE ev == Head(events)
             o == MatchingMapping(ev.old)
  <2>1. ev \in Notifications /\ events' \in Seq(Notifications)
    BY <1>0, <1>3, NextEvent DEF HandlerListOld
  <2>2. o \in Mappings \cup {NoMapping} /\ (o # NoMapping => ev.old \in PodObjects)
    BY <1>0, <2>1, MatchingMappingType, NotificationPods
  <2>3. \E x \in {o, NoMapping}, f \in BOOLEAN :
          handler' = [pc |-> "listNew", ev |-> ev, failed |-> f, oldM |-> x, newM |-> NoMapping]
    BY <1>3 DEF HandlerListOld
  <2> HIDE DEF ev, o
  <2> QED BY <2>1, <2>2, <2>3 DEF EventsOK, HandlerOK, Handling
<1>4. CASE HandlerListNew
  <2> DEFINE w == MatchingMapping(handler.ev.new)
  <2>1. handler \in Handling /\ (handler.oldM # NoMapping => handler.ev.old \in PodObjects)
    BY <1>0, <1>4 DEF HandlerListNew, HandlerOK, Idle
  <2>2. handler.newM # NoMapping => handler.ev.new \in PodObjects
    BY <1>0, <1>4 DEF HandlerListNew, HandlerOK, Idle
  <2>3. handler.ev \in Notifications
    BY <2>1 DEF Handling
  <2>4. w \in Mappings \cup {NoMapping} /\ (w # NoMapping => handler.ev.new \in PodObjects)
    BY <1>0, <2>3, MatchingMappingType, NotificationPods
  <2>5. \/ handler' = [handler EXCEPT !.pc = "apply", !.newM = w]
        \/ handler' = [handler EXCEPT !.pc = "apply", !.failed = TRUE]
    BY <1>4 DEF HandlerListNew
  <2> HIDE DEF w
  <2>6. CASE handler' = [handler EXCEPT !.pc = "apply", !.newM = w]
    <3>1. handler' \in Handling /\ handler'.ev = handler.ev /\ handler'.oldM = handler.oldM
          /\ handler'.newM = w
      BY <2>1, <2>4, <2>6 DEF Handling
    <3> QED BY <1>0, <1>4, <2>1, <2>4, <3>1 DEF HandlerOK, EventsOK, HandlerListNew
  <2>7. CASE handler' = [handler EXCEPT !.pc = "apply", !.failed = TRUE]
    <3>1. handler' \in Handling /\ handler'.ev = handler.ev /\ handler'.oldM = handler.oldM
          /\ handler'.newM = handler.newM
      BY <2>1, <2>7 DEF Handling
    <3> QED BY <1>0, <1>4, <2>1, <2>2, <3>1 DEF HandlerOK, EventsOK, HandlerListNew
  <2> QED BY <2>5, <2>6, <2>7
<1>5. CASE HandlerResolutionFailed \/ HandlerNoMatch \/ HandlerInvalidate
  BY <1>0, <1>5 DEF HandlerResolutionFailed, HandlerNoMatch, HandlerInvalidate, HandlerOK, EventsOK
<1>6. CASE HandlerApply
  <2>1. events' = events
    BY <1>6 DEF HandlerApply
  <2>2. handler' = Idle \/ handler' = [handler EXCEPT !.pc = "invalidate"]
    BY <1>6 DEF HandlerApply
  <2>3. handler \in Handling /\ (handler.oldM # NoMapping => handler.ev.old \in PodObjects)
        /\ (handler.newM # NoMapping => handler.ev.new \in PodObjects)
    BY <1>0, <1>6 DEF HandlerApply, HandlerOK, Idle
  <2>4. CASE handler' = [handler EXCEPT !.pc = "invalidate"]
    <3>1. handler' \in Handling /\ handler'.ev = handler.ev /\ handler'.oldM = handler.oldM
          /\ handler'.newM = handler.newM
      BY <2>3, <2>4 DEF Handling
    <3> QED BY <1>0, <2>1, <2>3, <3>1 DEF HandlerOK, EventsOK
  <2> QED BY <1>0, <2>1, <2>2, <2>4 DEF HandlerOK, EventsOK
<1> QED BY <1>1, <1>2, <1>3, <1>4, <1>5, <1>6 DEF Handler

\* The handler amends, invalidates or leaves the cache, and never makes an entry; what it
\* does not enqueue stays as it is.
LEMMA HandlerStep ==
  ASSUME SystemInv, Handler
  PROVE  /\ SystemInv'
         /\ UNCHANGED <<mapping, rec, resyncGen>>
         /\ entries[TheKey] = NoEntries => entries'[TheKey] = NoEntries
         /\ queued' = queued \/ queued' = TRUE
<1> DEFINE Calls == \/ \E m \in Mappings, pod \in PodObjects :
                         \/ OnPodAdd(m, pod) \/ OnPodDelete(m, pod)
                         \/ \E new \in PodObjects : OnPodUpdate(m, pod, new)
                    \/ Invalidate(TheKey) \/ Delete(TheKey) \/ InvalidateNamespace(TheNamespace)
<1>1. UNCHANGED cacheVars \/ Calls
  <2>1. CASE HandlerList \/ HandlerListOld \/ HandlerListNew \/ HandlerNoMatch
    BY <2>1 DEF HandlerList, HandlerListOld, HandlerListNew, HandlerNoMatch
  <2>2. CASE HandlerListFails \/ HandlerResolutionFailed
    BY <2>2 DEF HandlerListFails, HandlerResolutionFailed
  <2>3. CASE HandlerInvalidate
    BY <2>3 DEF HandlerInvalidate
  <2>4. CASE HandlerApply
    <3>1. handler \in Handling /\ (handler.oldM # NoMapping => handler.ev.old \in PodObjects)
          /\ (handler.newM # NoMapping => handler.ev.new \in PodObjects)
      BY <2>4 DEF HandlerApply, SystemInv, HandlerOK, Idle
    <3>2. handler.oldM # NoMapping => handler.oldM \in Mappings
      BY <3>1 DEF Handling
    <3>3. handler.newM # NoMapping => handler.newM \in Mappings
      BY <3>1 DEF Handling
    <3>4. \/ Invalidate(TheKey)
          \/ /\ handler.oldM # NoMapping /\ handler.newM # NoMapping
             /\ OnPodUpdate(handler.newM, handler.ev.old, handler.ev.new)
          \/ handler.oldM # NoMapping /\ OnPodDelete(handler.oldM, handler.ev.old)
          \/ handler.newM # NoMapping /\ OnPodAdd(handler.newM, handler.ev.new)
      BY <2>4 DEF HandlerApply, HandledMapping
    <3> QED BY <3>1, <3>2, <3>3, <3>4
  <2> QED BY <2>1, <2>2, <2>3, <2>4 DEF Handler
<1>2. CacheInv' /\ (entries[TheKey] = NoEntries => entries'[TheKey] = NoEntries)
  <2>1. CASE UNCHANGED cacheVars
    BY <2>1, CacheUntouched DEF SystemInv, cacheVars
  <2>2. CASE Calls
    BY <2>2, TouchesCache DEF SystemInv
  <2> QED BY <1>1, <2>1, <2>2
<1> HIDE DEF Calls
<1>3. UNCHANGED <<mapping, pods, podUID, rec, resyncGen>>
  BY DEF Handler, HandlerList, HandlerListFails, HandlerListOld, HandlerListNew, HandlerNoMatch,
         HandlerResolutionFailed, HandlerApply, HandlerInvalidate, HandlerUnchanged, envVars
<1>4. queued' \in BOOLEAN /\ (queued' = queued \/ queued' = TRUE)
  <2>1. queued \in BOOLEAN
    BY DEF SystemInv
  <2>2. CASE HandlerResolutionFailed
    BY <2>1, <2>2 DEF HandlerResolutionFailed
  <2>3. CASE ~HandlerResolutionFailed
    BY <2>1, <2>3 DEF Handler, HandlerList, HandlerListFails, HandlerListOld, HandlerListNew,
                      HandlerNoMatch, HandlerApply, HandlerInvalidate
  <2> QED BY <2>2, <2>3
<1>5. HandlerOK' /\ EventsOK'
  BY HandlerType
<1>6. MappingOK' /\ PodsOK' /\ RecOK' /\ resyncGen' \in Gens \cup {0}
  BY <1>3 DEF SystemInv, MappingOK, PodsOK, RecOK
<1> QED BY <1>2, <1>3, <1>4, <1>5, <1>6 DEF SystemInv
-------------------------------------------------------------------------------
(***************************************************************************)
(* The reconciler.                                                         *)
(***************************************************************************)

\* What the worker knows at each place of Reconcile.
LEMMA RecAt ==
  ASSUME RecOK
  PROVE  /\ rec.pc \in {"invalid", "resolve"} => rec \in Fetched
         /\ rec.pc = "list" => rec \in Listing
         /\ rec.pc = "fresh" => rec \in Rechecking \/ rec \in Computed
         /\ rec.pc \in {"publish", "conflict"} => rec \in Publishing
         /\ rec.pc = "gate" => rec \in Gated
         /\ rec.pc \notin {"idle", "finalize"} => rec.m \in Mappings
<1>1. rec = Idle \/ rec = [pc |-> "finalize"] => rec.pc \in {"idle", "finalize"}
  BY DEF Idle
<1>2. rec \in Fetched => rec.pc \in {"invalid", "resolve"} /\ rec.m \in Mappings
  BY DEF Fetched
<1>3. rec \in Listing => rec.pc = "list" /\ rec.m \in Mappings
  BY DEF Listing
<1>4. rec \in Rechecking \/ rec \in Computed => rec.pc = "fresh" /\ rec.m \in Mappings
  BY DEF Rechecking, Computed
<1>5. rec \in Publishing => rec.pc \in {"publish", "conflict"} /\ rec.m \in Mappings
  BY DEF Publishing
<1>6. rec \in Gated => rec.pc = "gate" /\ rec.m \in Mappings
  BY DEF Gated
<1> QED BY <1>1, <1>2, <1>3, <1>4, <1>5, <1>6 DEF RecOK

\* The worker's own state.
LEMMA RecType ==
  ASSUME SystemInv, Reconcile
  PROVE  RecOK'
<1>0. RecOK /\ MappingOK /\ PodsOK /\ CacheTypeOK
  BY DEF SystemInv, CacheInv
<1>1. CASE RecNotFound
  BY <1>1, <1>0 DEF RecNotFound, RecOK
<1>2. CASE RecDelete
  BY <1>2 DEF RecDelete, RecOK
<1>3. CASE \/ RecRemoveFinalizer \/ RecCleanupFails \/ RecInvalidSpec \/ RecInvalidSpecListFails
           \/ RecListFails \/ RecNotFresh \/ RecAct \/ RecStale
  BY <1>3 DEF RecRemoveFinalizer, RecCleanupFails, RecInvalidSpec, RecInvalidSpecListFails,
              RecListFails, RecNotFresh, RecAct, RecStale, Requeue, RecOK
<1>4. CASE RecFetch
  <2>1. Ref(mapping) \in Mappings
    BY <1>0, <1>4, RefType DEF RecFetch, MappingOK
  <2>2. \E pc \in {"resolve", "invalid"} : rec' = [pc |-> pc, m |-> Ref(mapping)]
    BY <1>4 DEF RecFetch
  <2> QED BY <2>1, <2>2 DEF RecOK, Fetched
<1>5. CASE RecHit
  <2>1. rec.m \in Mappings
    BY <1>0, <1>5, RecAt DEF RecHit
  <2>2. rec.m.key = TheKey /\ rec.m.gen \in Gens /\ HasEntry(rec.m)
    BY <1>5, <2>1, TheOnes DEF RecHit, Hit, Mappings
  <2>3. Stored(rec.m) \in Contents
    BY <1>0, <2>1, <2>2, StoredType
  <2>4. entries[TheKey][rec.m.gen].state.desired \in [Targets -> SUBSET CIDRs]
    BY <2>2, <2>3 DEF Stored, Contents
  <2> QED BY <1>5, <2>1, <2>4 DEF RecHit, RecOK, Gated
<1>6. CASE RecMiss
  <2>1. rec.m \in Mappings
    BY <1>0, <1>6, RecAt DEF RecMiss
  <2> QED BY <1>6, <2>1 DEF RecMiss, RecOK, Listing
<1>7. CASE RecList
  <2>1. rec \in Listing /\ rec.m \in Mappings /\ rec.m.spec \in Specs
    BY <1>0, <1>7, RecAt DEF RecList, Mappings
  <2> DEFINE arts == Artifacts(rec.m.spec, StorePods)
  <2>2. arts \in Contents
    BY <1>0, <2>1, StorePodsType, ArtifactsType
  <2>3. rec' = [pc |-> IF rec.retry THEN "publish" ELSE "fresh", m |-> rec.m,
                forced |-> rec.forced, retry |-> rec.retry, arts |-> arts]
    BY <1>7 DEF RecList
  <2> HIDE DEF arts
  <2>4. CASE rec.retry
    BY <2>1, <2>2, <2>3, <2>4 DEF Listing, RecOK, Publishing
  <2>5. CASE ~rec.retry
    BY <2>1, <2>2, <2>3, <2>5 DEF Listing, RecOK, Computed
  <2> QED BY <2>4, <2>5
<1>8. CASE RecFresh
  <2>1. CASE rec \in Rechecking
    <3>1. rec' = [rec EXCEPT !.pc = "list"]
      BY <1>8, <2>1 DEF RecFresh, Rechecking
    <3> QED BY <2>1, <3>1 DEF RecOK, Rechecking, Listing
  <2>2. CASE rec \in Computed
    <3>1. rec' = [rec EXCEPT !.pc = "publish"]
      BY <1>8, <2>2 DEF RecFresh, Computed
    <3> QED BY <2>2, <3>1 DEF RecOK, Computed, Publishing
  <2> QED BY <1>0, <1>8, <2>1, <2>2, RecAt DEF RecFresh
<1>9. CASE RecPublish
  <2>1. rec \in Publishing
    BY <1>0, <1>9, RecAt DEF RecPublish
  <2>2. rec.m \in Mappings /\ rec.arts.desired \in [Targets -> SUBSET CIDRs]
    BY <2>1 DEF Publishing, Contents
  <2> QED BY <1>9, <2>2 DEF RecPublish, RecOK, Gated
<1>10. CASE RecRejected
  <2>1. rec \in Publishing
    BY <1>0, <1>10, RecAt DEF RecRejected
  <2>2. rec' = Idle \/ rec' = [rec EXCEPT !.pc = "conflict"]
    BY <1>10 DEF RecRejected, Requeue
  <2>3. CASE rec' = [rec EXCEPT !.pc = "conflict"]
    BY <2>1, <2>3 DEF RecOK, Publishing
  <2> QED BY <2>2, <2>3 DEF RecOK
<1>11. CASE RecRetry
  <2>1. rec.m \in Mappings /\ rec.forced \in BOOLEAN
    BY <1>0, <1>11, RecAt DEF RecRetry, Publishing
  <2> QED BY <1>11, <2>1 DEF RecRetry, RecOK, Rechecking
<1> QED BY <1>1, <1>2, <1>3, <1>4, <1>5, <1>6, <1>7, <1>8, <1>9, <1>10, <1>11 DEF Reconcile

\* The worker uses the cache only through its methods.
LEMMA RecCache ==
  ASSUME SystemInv, Reconcile
  PROVE  CacheInv'
<1>0. CacheInv /\ RecOK /\ TheWorker \in Workers
  BY TheOnes DEF SystemInv
<1>1. CASE RecNotFound \/ RecDelete
  BY <1>0, <1>1, TouchesCache DEF RecNotFound, RecDelete
<1>2. CASE RecInvalidSpec
  BY <1>0, <1>2, TouchesCache, CacheUntouched DEF RecInvalidSpec
<1>3. CASE \/ RecRemoveFinalizer \/ RecCleanupFails \/ RecFetch \/ RecInvalidSpecListFails
           \/ RecHit \/ RecList \/ RecFresh \/ RecAct \/ RecStale
  BY <1>0, <1>3, CacheUntouched
     DEF RecRemoveFinalizer, RecCleanupFails, RecFetch, RecInvalidSpecListFails, RecHit, RecList,
         RecFresh, RecAct, RecStale
<1>4. CASE RecMiss \/ RecRetry
  BY <1>0, <1>4, RecAt, GetWithVersionStep DEF RecMiss, RecRetry
<1>5. CASE RecListFails \/ RecNotFresh \/ RecRejected
  BY <1>0, <1>5, GiveUpStep DEF RecListFails, RecNotFresh, RecRejected
<1>6. CASE RecPublish
  <2>1. rec.arts \in Contents
    BY <1>0, <1>6, RecAt DEF RecPublish, Publishing
  <2> QED BY <1>0, <1>6, <2>1, PublishStep DEF RecPublish
<1> QED BY <1>1, <1>2, <1>3, <1>4, <1>5, <1>6 DEF Reconcile

\* A reconcile step preserves the invariant.
LEMMA ReconcileStep ==
  ASSUME SystemInv, Reconcile
  PROVE  SystemInv'
<1>1. CacheInv' /\ RecOK'
  BY RecCache, RecType
<1>2. UNCHANGED <<pods, podUID, events, handler>>
  BY DEF Reconcile, RecUnchanged, RecNotFound, RecDelete, RecRemoveFinalizer, RecCleanupFails,
         RecFetch, RecInvalidSpec, RecInvalidSpecListFails, RecHit, RecMiss, RecList,
         RecListFails, RecFresh, RecNotFresh, RecPublish, RecRejected, RecRetry, RecAct, RecStale
<1>3. PodsOK' /\ EventsOK' /\ HandlerOK'
  BY <1>2 DEF SystemInv, PodsOK, EventsOK, HandlerOK
<1>4. mapping' \in {mapping, NoMapping} /\ queued' \in {queued, TRUE, FALSE}
  BY DEF Reconcile, RecNotFound, RecDelete, RecRemoveFinalizer, RecCleanupFails, Requeue,
         RecFetch, RecInvalidSpec, RecInvalidSpecListFails, RecHit, RecMiss, RecList,
         RecListFails, RecFresh, RecNotFresh, RecPublish, RecRejected, RecRetry, RecAct, RecStale
<1>5. resyncGen' \in {resyncGen, 0} \/ RecPublish
  BY DEF Reconcile, RecNotFound, RecDelete, RecRemoveFinalizer, RecCleanupFails,
         RecFetch, RecInvalidSpec, RecInvalidSpecListFails, RecHit, RecMiss, RecList,
         RecListFails, RecFresh, RecNotFresh, RecRejected, RecRetry, RecAct, RecStale
<1>6. RecPublish => resyncGen' \in Gens
  BY RecAt DEF SystemInv, RecPublish, Mappings
<1>7. MappingOK' /\ queued' \in BOOLEAN /\ resyncGen' \in Gens \cup {0}
  BY <1>4, <1>5, <1>6 DEF SystemInv, MappingOK
<1> QED BY <1>1, <1>3, <1>7 DEF SystemInv

\* Users, handler and worker, with or without relists.
LEMMA SystemStep ==
  ASSUME SystemInv, [Next \/ \E n \in PodNames : PodReplaced(n)]_vars
  PROVE  SystemInv'
<1>1. CASE UNCHANGED vars
  <2>1. CacheInv'
    BY <1>1, CacheUntouched DEF SystemInv, vars
  <2> QED BY <1>1, <2>1 DEF vars, SystemInv, MappingOK, PodsOK, EventsOK, HandlerOK, RecOK
<1> QED BY <1>1, UsersStep, HandlerStep, ReconcileStep DEF Next

\* The invariant gives the types the run checks.
LEMMA SystemTypes == SystemInv => TypeOK
<1> SUFFICES ASSUME SystemInv PROVE TypeOK
  OBVIOUS
<1>1. handler.pc \in {"idle", "listNew", "apply", "invalidate"}
  BY DEF SystemInv, HandlerOK, Idle, Handling
<1>2. rec.pc \in {"idle", "finalize", "invalid", "resolve", "list", "fresh", "publish",
                  "conflict", "gate"}
  <2>1. rec = Idle \/ rec = [pc |-> "finalize"] => rec.pc \in {"idle", "finalize"}
    BY DEF Idle
  <2>2. rec \in Fetched \/ rec \in Listing => rec.pc \in {"invalid", "resolve", "list"}
    BY DEF Fetched, Listing
  <2>3. rec \in Rechecking \/ rec \in Computed => rec.pc = "fresh"
    BY DEF Rechecking, Computed
  <2>4. rec \in Publishing \/ rec \in Gated => rec.pc \in {"publish", "conflict", "gate"}
    BY DEF Publishing, Gated
  <2> QED BY <2>1, <2>2, <2>3, <2>4 DEF SystemInv, RecOK
<1> QED BY <1>1, <1>2 DEF SystemInv, CacheInv, MappingOK, MappingObjects, PodsOK, TypeOK

\* Whatever the interleaving of pod events, listing failures, recomputations, retries and
\* mapping changes, all state keeps its type; in particular the match and pending counts of
\* a cache entry never go below zero (desired_state_cache.go:267-370).
THEOREM TypeCorrect == Spec => []TypeOK
<1>1. SystemInv /\ [Next]_vars => SystemInv'
  BY SystemStep
<1> QED BY <1>1, SystemInit, SystemTypes, PTL DEF Spec
-------------------------------------------------------------------------------
(***************************************************************************)
(* Terminal cleanup.                                                       *)
(***************************************************************************)

\* A reconcile that ends without enqueueing the mapping again has found it gone, or cleaned
\* up after an invalid spec, and both empty the cache.
LEMMA CleanupHolds ==
  ASSUME SystemInv, NothingLeftBehind, Next
  PROVE  NothingLeftBehind'
<1> SUFFICES ASSUME mapping' = NoMapping, ~queued', rec' = Idle
             PROVE  entries'[TheKey] = NoEntries /\ resyncGen' = 0
  BY DEF NothingLeftBehind
<1>1. CASE Users
  BY <1>1, UsersStep DEF NothingLeftBehind, cacheVars
<1>2. CASE Handler
  BY <1>2, HandlerStep DEF NothingLeftBehind
<1>3. CASE Reconcile
  <2>1. RecNotFound \/ RecInvalidSpec
    <3>1. rec'.pc = "idle"
      BY DEF Idle
    <3>2. ~(RecDelete \/ RecFetch \/ RecHit \/ RecMiss \/ RecList \/ RecPublish \/ RecRetry)
      BY <3>1 DEF RecDelete, RecFetch, RecHit, RecMiss, RecList, RecPublish, RecRetry
    <3>3. ~(RecRemoveFinalizer \/ RecCleanupFails \/ RecInvalidSpecListFails \/ RecListFails
            \/ RecNotFresh \/ RecAct \/ RecStale)
      BY DEF RecRemoveFinalizer, RecCleanupFails, RecInvalidSpecListFails, RecListFails,
             RecNotFresh, RecAct, RecStale, Requeue
    <3>4. ~RecFresh
      <4> SUFFICES ASSUME RecFresh PROVE FALSE
        OBVIOUS
      <4>1. rec \in Rechecking \/ rec \in Computed
        BY RecAt DEF RecFresh, SystemInv
      <4>2. rec' = [rec EXCEPT !.pc = "list"] \/ rec' = [rec EXCEPT !.pc = "publish"]
        BY DEF RecFresh
      <4> QED BY <3>1, <4>1, <4>2 DEF Rechecking, Computed
    <3>5. ~RecRejected
      <4> SUFFICES ASSUME RecRejected PROVE FALSE
        OBVIOUS
      <4>1. rec \in Publishing
        BY RecAt DEF RecRejected, SystemInv
      <4>2. rec' = [rec EXCEPT !.pc = "conflict"]
        BY DEF RecRejected, Requeue
      <4> QED BY <3>1, <4>1, <4>2 DEF Publishing
    <3> QED BY <1>3, <3>2, <3>3, <3>4, <3>5 DEF Reconcile
  <2>2. mapping' = mapping
    BY <2>1 DEF RecNotFound, RecInvalidSpec
  <2>3. Delete(TheKey) /\ resyncGen' = 0
    BY <2>1, <2>2 DEF RecNotFound, RecInvalidSpec
  <2> QED BY <2>3, CleanupEmpties DEF SystemInv, CacheInv
<1> QED BY <1>1, <1>2, <1>3 DEF Next

\* When a mapping is gone and its last reconcile has run, the cache holds no entry and no
\* resync state for it, even if a pod event was handled or a recomputation was under way
\* when it went (mapping_reconciler.go:103-117, 134-166).
THEOREM CleanupIsComplete == Spec => []NothingLeftBehind
<1>1. Init => NothingLeftBehind
  BY DEF Init, NothingLeftBehind
<1>2. SystemInv /\ NothingLeftBehind /\ [Next]_vars => NothingLeftBehind'
  <2> SUFFICES ASSUME SystemInv, NothingLeftBehind, [Next]_vars PROVE NothingLeftBehind'
    OBVIOUS
  <2>1. CASE UNCHANGED vars
    BY <2>1 DEF vars, cacheVars, NothingLeftBehind
  <2> QED BY <2>1, CleanupHolds
<1>3. SystemInv /\ [Next]_vars => SystemInv'
  BY SystemStep
<1> QED BY <1>1, <1>2, <1>3, SystemInit, PTL DEF Spec
===============================================================================
