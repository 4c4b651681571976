---------------------------- MODULE PodCacheSystem ----------------------------
(***************************************************************************)
(* The desired-state cache among its users, for one PodASGMapping:         *)
(*                                                                         *)
(*  - the pod informer, whose store is updated before its events reach the *)
(*    handlers (events is the FIFO of undelivered notifications);          *)
(*  - PodToMappingEventHandler, which lists the mappings a pod matches and *)
(*    then amends the cache and enqueues the mapping;                      *)
(*  - the cache-first part of MappingReconciler.Reconcile, from fetching   *)
(*    the mapping to the freshness gate in front of its side effects.      *)
(*                                                                         *)
(* The three run concurrently; every call on the cache or on an informer   *)
(* store is a step.  Pods and mappings change under them, at most          *)
(* MaxChanges times.  The reader of both stores is the informer cache, so  *)
(* mapping and pods are what every actor sees.                             *)
(***************************************************************************)
EXTENDS DesiredStateCache, Sequences

CONSTANTS
  PodNames,
  MaxPodUID,      \* incarnations of a pod name
  ValidSpecs,     \* specs whose ASG resource ids all parse
  MaxChanges,     \* bound on the changes users make
  MaxFailures,    \* bound on failing API calls
  LateHandler,    \* TRUE: a notification may still be in the handler's hands when its
                  \* mapping has been deleted, finalized and created again
  NoPod, NoMapping

ASSUME OneKey == \E k \in Keys : Keys = {k}
ASSUME OneWorker == \E w \in Workers : Workers = {w}
ASSUME PodIDsAssumption == PodIDs = PodNames \X (1..MaxPodUID)
ASSUME ValidSpecsAssumption == ValidSpecs \subseteq Specs
ASSUME PodNamesAssumption == IsFiniteSet(PodNames) /\ MaxPodUID \in Nat
ASSUME FirstAssumption == 1 \in Gens /\ 1 \in UIDs /\ UIDs \subseteq Nat
ASSUME NoPodAssumption == NoPod \notin PodObjects
ASSUME NoMappingAssumption ==
  NoMapping \notin Mappings /\ NoMapping \notin [gen : Gens, uid : UIDs, spec : Specs, deleting : BOOLEAN]
ASSUME LateHandlerAssumption == LateHandler \in BOOLEAN

VARIABLES
  mapping,     \* the PodASGMapping object, or NoMapping
  mappingUID,  \* the last UID given to it
  pods,        \* the pod informer's store
  podUID,      \* the last UID given to each pod name
  events,      \* pod notifications not yet handled, oldest first
  handler,     \* the pod event handler
  queued,      \* the mapping is in the work queue
  rec,         \* the reconcile worker
  resyncGen,   \* desiredStateResyncState: generation of the last full recompute
  acted,       \* the desired state the last reconcile went on to apply
  changes, failures

envVars == <<mapping, mappingUID, pods, podUID, changes>>
vars == <<cacheVars, mapping, mappingUID, pods, podUID, events, handler, queued, rec,
          resyncGen, acted, changes, failures>>

TheKey == CHOOSE k \in Keys : TRUE
TheWorker == CHOOSE w \in Workers : TRUE
TheNamespace == NsOf[TheKey]

Idle == [pc |-> "idle"]
NoDesired == [t \in Targets |-> {}]

\* The mapping object as the cache knows it.
Ref(mp) == [key |-> TheKey, gen |-> mp.gen, uid |-> mp.uid, spec |-> mp.spec]
StorePods == {pods[n] : n \in {q \in PodNames : pods[q] # NoPod}}

Init ==
  /\ CacheInit
  /\ \E s \in Specs : mapping = [gen |-> 1, uid |-> 1, spec |-> s, deleting |-> FALSE]
  /\ mappingUID = 1
  /\ pods = [n \in PodNames |-> NoPod]
  /\ podUID = [n \in PodNames |-> 0]
  /\ events = <<>>
  /\ handler = Idle
  /\ queued = TRUE
  /\ rec = Idle
  /\ resyncGen = 0
  /\ acted = [gen |-> 0, uid |-> 0, desired |-> NoDesired]
  /\ changes = 0
  /\ failures = 0
-------------------------------------------------------------------------------
(***************************************************************************)
(* Users: pods come, change and go; the mapping's spec changes, the        *)
(* mapping is deleted and created again.  PodPredicate lets creations,     *)
(* deletions and changes of labels or address through; MappingPredicate    *)
(* lets every change made here through.                                    *)
(***************************************************************************)
Change == changes < MaxChanges /\ changes' = changes + 1
Notify(type, old, new) == events' = Append(events, [type |-> type, old |-> old, new |-> new])
NewPod(n, l, ip) == [id |-> <<n, podUID[n] + 1>>, label |-> l, ip |-> ip]

PodAdded(n) ==
  /\ Change
  /\ pods[n] = NoPod /\ podUID[n] < MaxPodUID
  /\ \E l \in Labels, ip \in IPs \cup {NoIP} :
       /\ pods' = [pods EXCEPT ![n] = NewPod(n, l, ip)]
       /\ Notify("add", NoPod, NewPod(n, l, ip))
  /\ podUID' = [podUID EXCEPT ![n] = @ + 1]
  /\ UNCHANGED <<cacheVars, mapping, mappingUID, handler, queued, rec, resyncGen, acted, failures>>

podLabelOrIPChanged(old, new) == old.label # new.label \/ old.ip # new.ip

PodChanged(n) ==
  /\ Change
  /\ pods[n] # NoPod
  /\ \E l \in Labels, ip \in IPs \cup {NoIP} :
       LET new == [pods[n] EXCEPT !.label = l, !.ip = ip]
       IN  /\ podLabelOrIPChanged(pods[n], new)
           /\ pods' = [pods EXCEPT ![n] = new]
           /\ Notify("update", pods[n], new)
  /\ UNCHANGED <<cacheVars, mapping, mappingUID, podUID, handler, queued, rec, resyncGen, acted, failures>>

PodRemoved(n) ==
  /\ Change
  /\ pods[n] # NoPod
  /\ pods' = [pods EXCEPT ![n] = NoPod]
  /\ Notify("delete", pods[n], NoPod)
  /\ UNCHANGED <<cacheVars, mapping, mappingUID, podUID, handler, queued, rec, resyncGen, acted, failures>>

\* After a broken watch the informer relists: a pod deleted and created again under
\* its name meanwhile shows up as one update from the old to the new incarnation.
PodReplaced(n) ==
  /\ Change
  /\ pods[n] # NoPod /\ podUID[n] < MaxPodUID
  /\ \E l \in Labels, ip \in IPs \cup {NoIP} :
       /\ podLabelOrIPChanged(pods[n], NewPod(n, l, ip))
       /\ pods' = [pods EXCEPT ![n] = NewPod(n, l, ip)]
       /\ Notify("update", pods[n], NewPod(n, l, ip))
  /\ podUID' = [podUID EXCEPT ![n] = @ + 1]
  /\ UNCHANGED <<cacheVars, mapping, mappingUID, handler, queued, rec, resyncGen, acted, failures>>

SpecChanged ==
  /\ Change
  /\ mapping # NoMapping /\ ~mapping.deleting /\ mapping.gen + 1 \in Gens
  /\ \E s \in Specs \ {mapping.spec} :
       mapping' = [mapping EXCEPT !.gen = @ + 1, !.spec = s]
  /\ queued' = TRUE
  /\ UNCHANGED <<cacheVars, mappingUID, pods, podUID, events, handler, rec, resyncGen, acted, failures>>

\* The controller's finalizer keeps the object; the API server counts the deletion
\* request as a new generation.
MappingDeleteRequested ==
  /\ Change
  /\ mapping # NoMapping /\ ~mapping.deleting /\ mapping.gen + 1 \in Gens
  /\ mapping' = [mapping EXCEPT !.gen = @ + 1, !.deleting = TRUE]
  /\ queued' = TRUE
  /\ UNCHANGED <<cacheVars, mappingUID, pods, podUID, events, handler, rec, resyncGen, acted, failures>>

MappingCreated ==
  /\ Change
  /\ mapping = NoMapping /\ mappingUID + 1 \in UIDs
  /\ LateHandler \/ handler = Idle
  /\ \E s \in Specs :
       mapping' = [gen |-> 1, uid |-> mappingUID + 1, spec |-> s, deleting |-> FALSE]
  /\ mappingUID' = mappingUID + 1
  /\ queued' = TRUE
  /\ UNCHANGED <<cacheVars, pods, podUID, events, handler, rec, resyncGen, acted, failures>>

Users == \/ \E n \in PodNames : PodAdded(n) \/ PodChanged(n) \/ PodRemoved(n)
         \/ SpecChanged \/ MappingDeleteRequested \/ MappingCreated
-------------------------------------------------------------------------------
(***************************************************************************)
(* PodToMappingEventHandler.  A handler first lists the mappings (one call *)
(* for Create and Delete, one each for the old and the new pod in Update), *)
(* then amends the cache, then enqueues.                                   *)
(***************************************************************************)

\* matchingMappingsForPodDetailed, for a namespace with this one mapping.
MatchingMapping(pod) ==
  IF mapping # NoMapping /\ pod # NoPod /\ matchPodToRuleIndices(mapping.spec, pod) # {}
  THEN Ref(mapping) ELSE NoMapping

HandlerUnchanged == UNCHANGED <<envVars, rec, resyncGen, acted>>
CallFails == failures < MaxFailures /\ failures' = failures + 1

\* Create and Delete: the only listing of the event.
HandlerList ==
  /\ handler = Idle /\ events # <<>>
  /\ Head(events).type # "update"
  /\ events' = Tail(events)
  /\ handler' = [pc |-> "apply", ev |-> Head(events), failed |-> FALSE,
                 oldM |-> MatchingMapping(Head(events).old),
                 newM |-> MatchingMapping(Head(events).new)]
  /\ HandlerUnchanged /\ UNCHANGED <<cacheVars, queued, failures>>

\* Mutant: the event is dropped without invalidating the namespace.
HandlerListFailsSilently ==
  /\ handler = Idle /\ events # <<>>
  /\ Head(events).type # "update"
  /\ CallFails
  /\ events' = Tail(events)
  /\ HandlerUnchanged /\ UNCHANGED <<cacheVars, handler, queued>>

\* Create and Delete on a listing error: the namespace is invalidated, nothing is
\* enqueued.
HandlerListFails ==
  /\ handler = Idle /\ events # <<>>
  /\ Head(events).type # "update"
  /\ CallFails
  /\ events' = Tail(events)
  /\ InvalidateNamespace(TheNamespace)
  /\ HandlerUnchanged /\ UNCHANGED <<handler, queued>>

HandlerListOld ==
  /\ handler = Idle /\ events # <<>>
  /\ Head(events).type = "update"
  /\ events' = Tail(events)
  /\ \/ /\ handler' = [pc |-> "listNew", ev |-> Head(events), failed |-> FALSE,
                       oldM |-> MatchingMapping(Head(events).old), newM |-> NoMapping]
        /\ UNCHANGED failures
     \/ /\ CallFails
        /\ handler' = [pc |-> "listNew", ev |-> Head(events), failed |-> TRUE,
                       oldM |-> NoMapping, newM |-> NoMapping]
  /\ HandlerUnchanged /\ UNCHANGED <<cacheVars, queued>>

HandlerListNew ==
  /\ handler.pc = "listNew"
  /\ \/ /\ handler' = [handler EXCEPT !.pc = "apply", !.newM = MatchingMapping(handler.ev.new)]
        /\ UNCHANGED failures
     \/ /\ CallFails
        /\ handler' = [handler EXCEPT !.pc = "apply", !.failed = TRUE]
  /\ HandlerUnchanged /\ UNCHANGED <<cacheVars, queued, events>>

\* Update after a listing error: invalidate, then enqueue whatever was resolved.
HandlerResolutionFailed ==
  /\ handler.pc = "apply" /\ handler.failed
  /\ InvalidateNamespace(TheNamespace)
  /\ queued' = (queued \/ handler.oldM # NoMapping \/ handler.newM # NoMapping)
  /\ handler' = Idle
  /\ HandlerUnchanged /\ UNCHANGED <<events, failures>>

HandlerNoMatch ==
  /\ handler.pc = "apply" /\ ~handler.failed
  /\ handler.oldM = NoMapping /\ handler.newM = NoMapping
  /\ handler' = Idle
  /\ HandlerUnchanged /\ UNCHANGED <<cacheVars, queued, events, failures>>

\* The mapping object the cache is amended for.
HandledMapping == IF handler.newM # NoMapping THEN handler.newM ELSE handler.oldM

\* The cache call for one matched mapping, then the enqueue.  When OnPodUpdate
\* declines, Invalidate is a second call (HandlerInvalidate).
HandlerApply ==
  /\ handler.pc = "apply" /\ ~handler.failed
  /\ HandledMapping # NoMapping
  /\ \/ /\ HandledMapping.spec \notin ValidSpecs
        /\ Invalidate(TheKey)
        /\ handler' = Idle /\ queued' = TRUE
     \/ /\ HandledMapping.spec \in ValidSpecs
        /\ handler.oldM # NoMapping /\ handler.newM # NoMapping
        /\ OnPodUpdate(handler.newM, handler.ev.old, handler.ev.new)
        /\ IF OnPodUpdateApplies(handler.newM)
           THEN handler' = Idle /\ queued' = TRUE
           ELSE handler' = [handler EXCEPT !.pc = "invalidate"] /\ UNCHANGED queued
     \/ /\ HandledMapping.spec \in ValidSpecs
        /\ handler.newM = NoMapping
        /\ OnPodDelete(handler.oldM, handler.ev.old)
        /\ handler' = Idle /\ queued' = TRUE
     \/ /\ HandledMapping.spec \in ValidSpecs
        /\ handler.oldM = NoMapping
        /\ OnPodAdd(handler.newM, handler.ev.new)
        /\ handler' = Idle /\ queued' = TRUE
  /\ HandlerUnchanged /\ UNCHANGED <<events, failures>>

HandlerInvalidate ==
  /\ handler.pc = "invalidate"
  /\ Invalidate(TheKey)
  /\ handler' = Idle /\ queued' = TRUE
  /\ HandlerUnchanged /\ UNCHANGED <<events, failures>>

Handler == \/ HandlerList \/ HandlerListFails \/ HandlerListOld \/ HandlerListNew
           \/ HandlerResolutionFailed \/ HandlerNoMatch \/ HandlerApply \/ HandlerInvalidate
-------------------------------------------------------------------------------
(***************************************************************************)
(* Reconcile up to its side effects.                                       *)
(***************************************************************************)
RecUnchanged == UNCHANGED <<pods, podUID, mappingUID, changes, events, handler>>
Start == rec = Idle /\ queued
Requeue == rec' = Idle /\ queued' = TRUE

\* mappingStillCurrent
StillCurrent(m) == mapping # NoMapping /\ Ref(mapping) = m /\ ~mapping.deleting

RecNotFound ==
  /\ Start /\ mapping = NoMapping
  /\ Delete(TheKey)
  /\ queued' = FALSE /\ resyncGen' = 0
  /\ RecUnchanged /\ UNCHANGED <<mapping, rec, acted, failures>>

\* The deletion path fences the cache before it cleans up Azure and removes the
\* finalizer.
RecDelete ==
  /\ Start /\ mapping # NoMapping /\ mapping.deleting
  /\ Delete(TheKey)
  /\ queued' = FALSE /\ rec' = [pc |-> "finalize"]
  /\ RecUnchanged /\ UNCHANGED <<mapping, resyncGen, acted, failures>>

RecRemoveFinalizer ==
  /\ rec.pc = "finalize"
  /\ mapping' = NoMapping
  /\ resyncGen' = 0
  /\ Requeue
  /\ RecUnchanged /\ UNCHANGED <<cacheVars, acted, failures>>

\* Azure cleanup failed: the finalizer stays and the work queue retries.
RecCleanupFails ==
  /\ rec.pc = "finalize"
  /\ CallFails
  /\ Requeue
  /\ RecUnchanged /\ UNCHANGED <<cacheVars, mapping, resyncGen, acted>>

RecFetch ==
  /\ Start /\ mapping # NoMapping /\ ~mapping.deleting
  /\ queued' = FALSE
  /\ rec' = [pc |-> IF mapping.spec \in ValidSpecs THEN "resolve" ELSE "invalid",
             m |-> Ref(mapping)]
  /\ RecUnchanged /\ UNCHANGED <<cacheVars, mapping, resyncGen, acted, failures>>

\* A spec that does not validate ends the reconcile for good: its status is written,
\* unless a newer generation has arrived, and the cache forgets the mapping.
RecInvalidSpec ==
  /\ rec.pc = "invalid"
  /\ rec' = Idle
  /\ \/ /\ mapping # NoMapping /\ mapping.gen > rec.m.gen
        /\ UNCHANGED <<cacheVars, resyncGen>>
     \/ /\ mapping = NoMapping \/ mapping.gen <= rec.m.gen
        /\ Delete(TheKey)
        /\ resyncGen' = 0
  /\ RecUnchanged /\ UNCHANGED <<mapping, queued, acted, failures>>

RecInvalidSpecListFails ==
  /\ rec.pc = "invalid"
  /\ CallFails
  /\ Requeue
  /\ RecUnchanged /\ UNCHANGED <<cacheVars, mapping, resyncGen, acted>>

\* Cache hit: the resync interval has not elapsed for this generation.
RecHit ==
  /\ rec.pc = "resolve"
  /\ resyncGen = rec.m.gen /\ Hit(rec.m)
  /\ rec' = [pc |-> "gate", m |-> rec.m, desired |-> entries[TheKey][rec.m.gen].state.desired]
  /\ RecUnchanged /\ UNCHANGED <<cacheVars, mapping, queued, resyncGen, acted, failures>>

\* Cache miss, or shouldForceDesiredStateRecompute: no or another generation's last
\* recompute, or the resync interval has elapsed (which it may have at any time).
RecMiss ==
  /\ rec.pc = "resolve"
  /\ \E forced \in BOOLEAN :
       /\ ~forced => resyncGen = rec.m.gen /\ ~Hit(rec.m)
       /\ rec' = [pc |-> "list", m |-> rec.m, forced |-> forced, retry |-> FALSE]
  /\ GetWithVersion(TheWorker, rec.m)
  /\ RecUnchanged /\ UNCHANGED <<mapping, queued, resyncGen, acted, failures>>

\* The pod list and the recomputation.  The first attempt rechecks the mapping after
\* it, the retry has rechecked before.
RecList ==
  /\ rec.pc = "list"
  /\ rec' = [pc |-> IF rec.retry THEN "publish" ELSE "fresh", m |-> rec.m, forced |-> rec.forced,
             retry |-> rec.retry, arts |-> Artifacts(rec.m.spec, StorePods)]
  /\ RecUnchanged /\ UNCHANGED <<cacheVars, mapping, queued, resyncGen, acted, failures>>

RecListFails ==
  /\ rec.pc = "list"
  /\ CallFails
  /\ AbandonRecompute(TheWorker)
  /\ Requeue
  /\ RecUnchanged /\ UNCHANGED <<mapping, resyncGen, acted>>

\* mappingStillCurrent before a publication (first attempt) or before the second
\* listing (retry).
RecFresh ==
  /\ rec.pc = "fresh" /\ StillCurrent(rec.m)
  /\ rec' = [rec EXCEPT !.pc = IF rec.retry THEN "list" ELSE "publish"]
  /\ RecUnchanged /\ UNCHANGED <<cacheVars, mapping, queued, resyncGen, acted, failures>>

RecNotFresh ==
  /\ rec.pc = "fresh" /\ ~StillCurrent(rec.m)
  /\ AbandonRecompute(TheWorker)
  /\ Requeue
  /\ RecUnchanged /\ UNCHANGED <<mapping, resyncGen, acted, failures>>

RecPublish ==
  /\ rec.pc = "publish"
  /\ Publish(TheWorker, rec.arts)
  /\ resyncGen' = rec.m.gen
  /\ rec' = [pc |-> "gate", m |-> rec.m, desired |-> rec.arts.desired]
  /\ RecUnchanged /\ UNCHANGED <<mapping, queued, acted, failures>>

\* A rejected publication: the first time the worker looks for another way, the
\* second time it gives up until later.
RecRejected ==
  /\ rec.pc = "publish"
  /\ PublishRejected(TheWorker)
  /\ IF rec.retry THEN Requeue
     ELSE rec' = [rec EXCEPT !.pc = "conflict"] /\ UNCHANGED queued
  /\ RecUnchanged /\ UNCHANGED <<mapping, resyncGen, acted, failures>>

\* The conflict path.  A forced recomputation does not look at the cache again.  One that
\* was not forced rereads it and acts on a hit, but there is none: the work queue runs one
\* reconcile of a mapping at a time, so nobody has published since this worker missed, and
\* pod events only amend entries that exist.
RecRetry ==
  /\ rec.pc = "conflict" /\ (rec.forced \/ ~Hit(rec.m))
  /\ GetWithVersion(TheWorker, rec.m)
  /\ rec' = [pc |-> "fresh", m |-> rec.m, forced |-> rec.forced, retry |-> TRUE]
  /\ RecUnchanged /\ UNCHANGED <<mapping, queued, resyncGen, acted, failures>>

\* The freshness gate.  Behind it the desired state is acted upon, and the mapping
\* comes back after the resync interval.
RecAct ==
  /\ rec.pc = "gate" /\ StillCurrent(rec.m)
  /\ acted' = [gen |-> rec.m.gen, uid |-> rec.m.uid, desired |-> rec.desired]
  /\ Requeue
  /\ RecUnchanged /\ UNCHANGED <<cacheVars, mapping, resyncGen, failures>>

RecStale ==
  /\ rec.pc = "gate" /\ ~StillCurrent(rec.m)
  /\ Requeue
  /\ RecUnchanged /\ UNCHANGED <<cacheVars, mapping, resyncGen, acted, failures>>

Reconcile ==
  \/ RecNotFound \/ RecDelete \/ RecRemoveFinalizer \/ RecCleanupFails \/ RecFetch
  \/ RecInvalidSpec \/ RecInvalidSpecListFails
  \/ RecHit \/ RecMiss \/ RecList \/ RecListFails \/ RecFresh \/ RecNotFresh
  \/ RecPublish \/ RecRejected \/ RecRetry \/ RecAct \/ RecStale

Next == Users \/ Handler \/ Reconcile

\* The handler goroutine and the reconcile worker keep running; the work queue hands
\* out what it holds.  Users need do nothing.
Fairness == WF_vars(Handler) /\ WF_vars(Reconcile)

Spec == Init /\ [][Next]_vars /\ Fairness

\* The same system when the pod watch may break and relist.
RelistSpec == Init /\ [][Next \/ \E n \in PodNames : PodReplaced(n)]_vars
-------------------------------------------------------------------------------
\* Types; with CacheTypeOK the match and pending counts of a cache entry never go below
\* zero, whatever double deliveries do to them (desired_state_cache.go:267-370).
TypeOK ==
  /\ CacheTypeOK
  /\ mapping \in [gen : Gens, uid : UIDs, spec : Specs, deleting : BOOLEAN] \cup {NoMapping}
  /\ pods \in [PodNames -> PodObjects \cup {NoPod}]
  /\ handler.pc \in {"idle", "listNew", "apply", "invalidate"}
  /\ rec.pc \in {"idle", "finalize", "invalid", "resolve", "list", "fresh", "publish", "conflict", "gate"}
  /\ queued \in BOOLEAN
  /\ resyncGen \in Gens \cup {0}

\* Every notification has been handled.
Delivered == events = <<>> /\ handler = Idle
Cached(m) == entries[TheKey][m.gen].state
Serving == mapping # NoMapping /\ ~mapping.deleting /\ Hit(Ref(mapping))
Recomputed == Artifacts(mapping.spec, StorePods)

\* Parity contract (desired_state_snapshot.go:189), for what drives Azure: when every
\* pod event has been delivered, whatever the order in which recomputations were
\* published between them, the cached addresses are what a recomputation from the pod
\* store would give.
DesiredParity ==
  Delivered /\ Serving => Cached(Ref(mapping)).desired = Recomputed.desired

\* The part of the contract that keeps pods reachable: no address is missing from a target
\* that one rule feeds, although removals and additions are replayed over recomputations
\* that have already seen them (OnPodUpdate, OnPodDelete: hasOtherContributor).
Unshared(s, t) == \A i, j \in Rules : t \in RuleTargets[s][i] /\ t \in RuleTargets[s][j] => i = j
NoAddressMissing ==
  Delivered /\ Serving =>
    \A t \in Targets : Unshared(mapping.spec, t) =>
      Recomputed.desired[t] \subseteq Cached(Ref(mapping)).desired[t]

\* The whole contract for a mapping with one rule (the others of its spec are blank): no
\* address is missing and none is left over.
Blank(s, i) == Selector[s][i] = {} /\ RuleTargets[s][i] = {}
OneRule(s) == \A i, j \in Rules : ~Blank(s, i) /\ ~Blank(s, j) => i = j
OneRuleParity ==
  Delivered /\ Serving /\ OneRule(mapping.spec) =>
    Cached(Ref(mapping)).desired = Recomputed.desired

\* The contract for what later removals rely on: the snapshot and the record of which pods
\* contribute to which rules, for any number of rules and however they share targets.
ContributorParity ==
  Delivered /\ Serving =>
    LET c == Cached(Ref(mapping)) IN
      /\ c.snapshot = Recomputed.snapshot
      /\ c.tracked = Recomputed.tracked
      /\ c.podRules = Recomputed.podRules

\* Once users stop, the reconciler ends up acting, for good, on the desired state of
\* the current spec and the current pods: no event is lost between the informer, the
\* handler, the cache and the work queue.
EventuallyActsOnTruth ==
  <>[](mapping # NoMapping /\ ~mapping.deleting /\ mapping.spec \in ValidSpecs =>
         acted = [gen |-> mapping.gen, uid |-> mapping.uid,
                  desired |-> DesiredOf(mapping.spec, StorePods)])

\* Terminal cleanup leaves nothing behind: when the mapping object is gone, its last
\* reconcile has run and the pod events are delivered, no recomputation or pod event
\* that was in flight has brought an entry or resync state of it back
\* (mapping_reconciler.go:103-117, 134-166).
NothingLeftBehind ==
  mapping = NoMapping /\ ~queued /\ rec = Idle => entries[TheKey] = NoEntries /\ resyncGen = 0
===============================================================================
