--------------------------- MODULE MappingReconciler ---------------------------
(***************************************************************************)
(* MappingReconciler.Reconcile from the freshness gate on: the side        *)
(* effects of one PodASGMapping on its API object (finalizer, ownership    *)
(* annotation, status) and on the Azure prefix sets that carry its         *)
(* ownership key.  How the desired state is obtained is PodCacheSystem's   *)
(* subject; here it is what the pods and the spec give.                    *)
(*                                                                         *)
(* Every call to the API server and to Azure is a step, may fail, and      *)
(* interleaves with users who change the spec, delete the mapping, change  *)
(* pods or edit prefix sets, and with a crash of the controller.  The work *)
(* queue never runs one key twice at a time.  A spec's resource ids parse: *)
(* what Reconcile does otherwise is in PodCacheSystem too.                 *)
(***************************************************************************)
EXTENDS Integers, FiniteSets

CONSTANTS
  Targets,      \* ASG targets
  Specs,        \* mapping specs
  SpecTargets,  \* SpecTargets[s]: the targets named in spec s
  IPs,          \* addresses
  None,         \* the content of a prefix set that does not exist
  MaxGen,       \* bound on metadata.generation
  Lag,          \* TRUE: the informer behind the reconciler's reads may lag
  MaxChanges,   \* bound on what users do
  MaxFailures,  \* bound on failing calls and crashes
  NoMapping

ASSUME SpecTargetsAssumption == SpecTargets \in [Specs -> SUBSET Targets]
ASSUME NoneAssumption == \A ips \in SUBSET IPs : None # ips
ASSUME BoundsAssumption == MaxGen \in Nat \ {0} /\ MaxChanges \in Nat /\ MaxFailures \in Nat
ASSUME LagAssumption == Lag \in BOOLEAN

VARIABLES
  api,       \* the PodASGMapping in the API server, or NoMapping
  cached,    \* the informer's copy of it, which every Get returns
  want,      \* want[t]: the addresses of the pods whose rules may send them to t
  azure,     \* azure[t]: the prefix set at t with this mapping's ownership key
  late,      \* the targets with a DELETE that was given up and may still arrive
  queued,    \* the mapping is in the work queue, or a timer will put it there
  rec,       \* the reconcile worker
  debounce,  \* generation of the last success within MinReconcileInterval, or 0
  changes, failures

users == <<want, changes>>
vars == <<api, cached, want, azure, late, queued, rec, debounce, changes, failures>>

Gens == 1..MaxGen
Addresses == SUBSET IPs
Contents == Addresses \cup {None}

\* applied is history: the spec behind the results the status reports.
Statuses == [gen : 0..MaxGen, reconciled : BOOLEAN, applied : Specs]
Objects == [gen : Gens, spec : Specs, deleting : BOOLEAN, finalizer : BOOLEAN,
            owned : SUBSET Targets, status : Statuses]
ASSUME NoMappingAssumption == NoMapping \notin Objects

\* What the worker uses of the object it fetched, or of a patch's response.
Local(o) == [gen |-> o.gen, spec |-> o.spec, deleting |-> o.deleting,
             finalizer |-> o.finalizer, owned |-> o.owned]
Locals == [gen : Gens, spec : Specs, deleting : BOOLEAN, finalizer : BOOLEAN,
           owned : SUBSET Targets]

\* The worker's states: spec and desired are what was resolved before the gate, seen and
\* todo what ReadAzure found, done what succeeded of it and failed what did not.  An action
\* of the plan has one result, and nothing else has.
Idle == [pc |-> "idle"]
Fetched == [pc : {"fetched"}, m : Locals]
Resolved == [pc : {"gate", "pending", "read"}, m : Locals, spec : Specs,
             desired : [Targets -> Addresses]]
Planned ==
  {r \in [pc : {"prepatch", "act", "final", "syserr"}, m : Locals, spec : Specs,
          desired : [Targets -> Addresses], seen : [Targets -> Contents],
          todo : SUBSET Targets, done : SUBSET Targets, failed : SUBSET Targets] :
     r.done \cup r.failed \subseteq r.todo /\ r.done \cap r.failed = {}}
Cleaning == [pc : {"cleanup"}, m : Locals, todo : SUBSET Targets, failed : SUBSET Targets]

\* Types of the object, its informer copy, Azure and the worker.  Every action of a plan has
\* at most one result, a success or a failure (Executor.Execute, mapping_reconciler.go:482);
\* the informer copy is the object itself when it does not lag.
TypeOK ==
  /\ api \in Objects \cup {NoMapping}
  /\ cached \in Objects \cup {NoMapping}
  /\ ~Lag => cached = api
  /\ want \in [Targets -> Addresses]
  /\ azure \in [Targets -> Contents]
  /\ late \subseteq Targets
  /\ queued \in BOOLEAN
  /\ \/ rec = Idle
     \/ rec \in Fetched \/ rec \in Resolved \/ rec \in Planned \/ rec \in Cleaning
  /\ debounce \in 0..MaxGen
  /\ changes \in 0..MaxChanges
  /\ failures \in 0..MaxFailures

Init ==
  /\ \E s \in Specs :
       api = [gen |-> 1, spec |-> s, deleting |-> FALSE, finalizer |-> FALSE, owned |-> {},
              status |-> [gen |-> 0, reconciled |-> FALSE, applied |-> s]]
  /\ cached = api
  /\ want \in [Targets -> Addresses]
  /\ azure = [t \in Targets |-> None]
  /\ late = {}
  /\ queued = TRUE
  /\ rec = Idle
  /\ debounce = 0
  /\ changes = 0
  /\ failures = 0
-------------------------------------------------------------------------------
(***************************************************************************)
(* The API server and the informer.                                        *)
(***************************************************************************)

\* mappingSpecOrLifecycleChanged, and creation and deletion: annotation and status
\* updates do not reach the queue.
Notified(old, new) ==
  \/ old = NoMapping \/ new = NoMapping
  \/ old.spec # new.spec \/ old.finalizer # new.finalizer \/ old.deleting # new.deleting

\* The API object becomes new; again: the mapping is queued in any case.
Store(new, again) ==
  /\ api' = new
  /\ cached' = IF Lag THEN cached ELSE new
  /\ queued' = (again \/ (~Lag /\ Notified(api, new)))

CatchUp ==
  /\ cached # api
  /\ cached' = api
  /\ queued' = (queued \/ Notified(cached, api))
  /\ UNCHANGED <<api, azure, late, rec, debounce, failures, users>>
-------------------------------------------------------------------------------
(***************************************************************************)
(* Users.                                                                  *)
(***************************************************************************)
Change == changes < MaxChanges /\ changes' = changes + 1

SpecChanged ==
  /\ Change
  /\ api # NoMapping /\ ~api.deleting /\ api.gen < MaxGen
  /\ \E s \in Specs \ {api.spec} : Store([api EXCEPT !.gen = @ + 1, !.spec = s], queued)
  /\ UNCHANGED <<want, azure, late, rec, debounce, failures>>

\* With the finalizer in place a deletion request only marks the object.
DeleteRequested ==
  /\ Change
  /\ api # NoMapping /\ ~api.deleting
  /\ \/ api.finalizer /\ api.gen < MaxGen
        /\ Store([api EXCEPT !.gen = @ + 1, !.deleting = TRUE], queued)
     \/ ~api.finalizer /\ Store(NoMapping, queued)
  /\ UNCHANGED <<want, azure, late, rec, debounce, failures>>

PodsChanged ==
  /\ Change
  /\ \E t \in Targets, ips \in Addresses :
       ips # want[t] /\ want' = [want EXCEPT ![t] = ips]
  /\ queued' = TRUE
  /\ UNCHANGED <<api, cached, azure, late, rec, debounce, failures>>

\* Somebody edits or removes a prefix set of ours.
Drift ==
  /\ Change
  /\ \E t \in Targets, c \in Contents :
       azure[t] # None /\ c # azure[t] /\ azure' = [azure EXCEPT ![t] = c]
  /\ UNCHANGED <<api, cached, want, late, queued, rec, debounce, failures>>

Users == SpecChanged \/ DeleteRequested \/ PodsChanged \/ Drift
-------------------------------------------------------------------------------
(***************************************************************************)
(* What the steps of Reconcile are made of.                                *)
(***************************************************************************)
At(pc) == rec.pc = pc
m == rec.m

Works == UNCHANGED failures
Fails == failures < MaxFailures /\ failures' = failures + 1

ObjectUntouched == UNCHANGED <<api, cached>>
Requeue == rec' = Idle /\ queued' = TRUE
GoTo(pc) == rec' = [rec EXCEPT !.pc = pc]

\* Patches (client.MergeFrom) send no resource version: one overwrites what it names and
\* nothing else, and its response replaces the local copy.
\* A patch that reports an error may have been applied; again: the mapping is queued in
\* any case.
PatchErrs(new, again) ==
  /\ Fails
  /\ (ObjectUntouched /\ queued' = again) \/ Store(new, again)

\* The sentinels of a status write: the object is gone, or a newer generation is there
\* and has queued the mapping itself.
ObjectGone == cached = NoMapping
StaleGeneration == cached # NoMapping /\ cached.gen > m.gen
SentinelReturn ==
  /\ ObjectGone \/ StaleGeneration
  /\ debounce' = IF ObjectGone THEN 0 ELSE debounce
  /\ rec' = Idle
  /\ ObjectUntouched /\ UNCHANGED queued /\ Works

\* UpdateStatus carries the resource version that was read: it conflicts, in every one of
\* its attempts, while the informer is behind.
StatusWritten(reconciled, applied, again) ==
  /\ ~ObjectGone /\ ~StaleGeneration /\ cached = api
  /\ Store([api EXCEPT !.status = [gen |-> m.gen, reconciled |-> reconciled,
                                   applied |-> applied]], again)
  /\ Works
StatusErrs ==
  /\ ~ObjectGone /\ ~StaleGeneration
  /\ Fails \/ (cached # api /\ Works)
  /\ ObjectUntouched

\* finalizeSystemError: a best-effort failure status, then a requeue.
SystemError ==
  /\ At("syserr")
  /\ \/ SentinelReturn
     \/ StatusWritten(FALSE, rec.spec, TRUE) /\ rec' = Idle /\ UNCHANGED debounce
     \/ StatusErrs /\ Requeue /\ UNCHANGED debounce
  /\ UNCHANGED <<azure, late, users>>
-------------------------------------------------------------------------------
(***************************************************************************)
(* Reconcile, from the fetch to the side effects.                          *)
(***************************************************************************)
FetchGone ==
  /\ At("idle") /\ queued /\ cached = NoMapping
  /\ queued' = FALSE
  /\ debounce' = 0
  /\ UNCHANGED <<api, cached, azure, late, rec, failures, users>>

Fetch ==
  /\ At("idle") /\ queued /\ cached # NoMapping
  /\ queued' = FALSE
  /\ rec' = [pc |-> "fetched", m |-> Local(cached)]
  /\ UNCHANGED <<api, cached, azure, late, debounce, failures, users>>

\* Added, or not: Reconcile returns and runs again.
ensureFinalizer ==
  /\ At("fetched") /\ ~m.deleting /\ ~m.finalizer
  /\ \/ /\ api # NoMapping
        /\ LET new == [api EXCEPT !.finalizer = TRUE]
           IN  (Store(new, TRUE) /\ Works) \/ PatchErrs(new, TRUE)
     \/ api = NoMapping /\ ObjectUntouched /\ queued' = TRUE /\ Works
  /\ rec' = Idle
  /\ UNCHANGED <<azure, late, debounce, users>>

\* Mutant: an early return without RequeueAfter.
DebouncedDrops ==
  /\ At("fetched") /\ ~m.deleting /\ m.finalizer
  /\ debounce = m.gen
  /\ rec' = Idle
  /\ UNCHANGED <<api, cached, azure, late, queued, debounce, failures, users>>

Debounced ==
  /\ At("fetched") /\ ~m.deleting /\ m.finalizer
  /\ debounce = m.gen
  /\ Requeue
  /\ UNCHANGED <<api, cached, azure, late, debounce, failures, users>>

\* MinReconcileInterval has passed since the last success.
DebounceExpires ==
  /\ debounce # 0
  /\ debounce' = 0
  /\ UNCHANGED <<api, cached, azure, late, queued, rec, failures, users>>

\* The desired state, from the pods and from the spec that was fetched; targets without
\* addresses are dropped before they are used, which is the empty set here.
Resolve ==
  /\ At("fetched") /\ ~m.deleting /\ m.finalizer
  /\ debounce # m.gen
  /\ rec' = [pc |-> "gate", m |-> m, spec |-> m.spec,
             desired |-> [t \in Targets |-> IF t \in SpecTargets[m.spec] THEN want[t] ELSE {}]]
  /\ UNCHANGED <<api, cached, azure, late, queued, debounce, failures, users>>

\* mappingStillCurrent before the side effects.
mappingStillCurrent == cached # NoMapping /\ cached.gen = m.gen /\ ~cached.deleting
Gate ==
  /\ At("gate")
  /\ IF mappingStillCurrent THEN GoTo("pending") /\ UNCHANGED queued ELSE Requeue
  /\ UNCHANGED <<api, cached, azure, late, debounce, failures, users>>

\* UpdatePending; its errors are logged and no more.
UpdatePending ==
  /\ At("pending")
  /\ \/ SentinelReturn
     \/ StatusWritten(FALSE, rec.spec, queued) /\ GoTo("read") /\ UNCHANGED debounce
     \/ StatusErrs /\ GoTo("read") /\ UNCHANGED <<queued, debounce>>
  /\ UNCHANGED <<azure, late, users>>

desiredTargets == {t \in Targets : rec.desired[t] # {}}

\* Mutant: an owned target that Azure does not have needs no action.
StepsIfPresent(all) ==
  {t \in all : IF rec.desired[t] = {} THEN azure[t] # None ELSE azure[t] # rec.desired[t]}

\* ComputeDiff: an owned target that is no longer desired is deleted even when Azure does
\* not have it.
Steps(all) == {t \in all : rec.desired[t] = {} \/ azure[t] # rec.desired[t]}

\* listActualForTargets and ComputeDiff.
ReadAzure ==
  /\ At("read")
  /\ LET todo == Steps(m.owned \cup desiredTargets)
         next == [pc |-> "prepatch", m |-> m, spec |-> rec.spec, desired |-> rec.desired,
                  seen |-> [t \in Targets |-> IF t \in todo THEN azure[t] ELSE None],
                  todo |-> todo, done |-> {}, failed |-> {}]
     IN  \/ Works /\ rec' = next
         \/ Fails /\ rec' = [next EXCEPT !.pc = "syserr"]
  /\ UNCHANGED <<api, cached, azure, late, queued, debounce, users>>

\* UpdateOwnedASGsAfterResults before the actions: the annotation is widened first.
preOwned == m.owned \cup desiredTargets
PrePatch ==
  /\ At("prepatch")
  /\ \/ preOwned = m.owned /\ GoTo("act") /\ ObjectUntouched /\ UNCHANGED queued /\ Works
     \/ /\ preOwned # m.owned
        /\ LET new == [api EXCEPT !.owned = preOwned]
           IN  \/ /\ Store(new, queued) /\ Works
                  /\ rec' = [rec EXCEPT !.pc = "act", !.m = Local(new)]
               \/ PatchErrs(new, queued) /\ GoTo("syserr")
  /\ UNCHANGED <<azure, late, debounce, users>>

\* What a successful action leaves at t.  A PatchPrefixSet applies the delta against what
\* was seen to what is there now; every other action, and every action recomputed after a
\* conflict, leaves what is desired.
Written(t) ==
  IF rec.desired[t] = {} THEN {None}
  ELSE {rec.desired[t]} \cup
       IF rec.seen[t] # None /\ azure[t] # None
       THEN {(azure[t] \ (rec.seen[t] \ rec.desired[t])) \cup (rec.desired[t] \ rec.seen[t])}
       ELSE {}

\* A DELETE names no etag: one that timed out on the way may arrive at any later time.
DeleteErrs(t) ==
  \/ UNCHANGED <<azure, late>>
  \/ azure' = [azure EXCEPT ![t] = None] /\ UNCHANGED late
  \/ late' = late \cup {t} /\ UNCHANGED azure

LateDelete(t) ==
  /\ t \in late
  /\ late' = late \ {t}
  /\ azure' = [azure EXCEPT ![t] = None]
  /\ UNCHANGED <<api, cached, queued, rec, debounce, failures, users>>

\* Mutant: an action that failed is run again and has two results.
ExecuteAgain(t) ==
  /\ At("act") /\ t \in rec.todo \ rec.done
  /\ \/ /\ \E c \in Written(t) : azure' = [azure EXCEPT ![t] = c]
        /\ rec' = [rec EXCEPT !.done = @ \cup {t}]
        /\ Works /\ UNCHANGED late
     \/ /\ UNCHANGED <<azure, late>>
        /\ rec' = [rec EXCEPT !.failed = @ \cup {t}]
        /\ Fails
  /\ UNCHANGED <<api, cached, queued, debounce, users>>

\* Executor.Execute runs the actions in parallel; a failed one may have been applied.
Execute(t) ==
  /\ At("act") /\ t \in rec.todo \ (rec.done \cup rec.failed)
  /\ \/ /\ \E c \in Written(t) : azure' = [azure EXCEPT ![t] = c]
        /\ rec' = [rec EXCEPT !.done = @ \cup {t}]
        /\ Works /\ UNCHANGED late
     \/ /\ IF rec.desired[t] = {} THEN DeleteErrs(t)
           ELSE /\ UNCHANGED azure \/ \E c \in Written(t) : azure' = [azure EXCEPT ![t] = c]
                /\ UNCHANGED late
        /\ rec' = [rec EXCEPT !.failed = @ \cup {t}]
        /\ Fails
  /\ UNCHANGED <<api, cached, queued, debounce, users>>

\* Mutant: a target that was to be deleted leaves the annotation though that failed.
postOwnedForgetful == m.owned \ {t \in rec.done \cup rec.failed : rec.desired[t] = {}}

\* UpdateOwnedASGsAfterResults after the actions: only a target whose prefix set has been
\* deleted leaves the annotation.
postOwned == m.owned \ {t \in rec.done : rec.desired[t] = {}}
PostPatch ==
  /\ At("act") /\ rec.todo \subseteq rec.done \cup rec.failed
  /\ \/ postOwned = m.owned /\ GoTo("final") /\ ObjectUntouched /\ UNCHANGED queued /\ Works
     \/ /\ postOwned # m.owned
        /\ LET new == [api EXCEPT !.owned = postOwned]
           IN  \/ /\ Store(new, queued) /\ Works
                  /\ rec' = [rec EXCEPT !.pc = "final", !.m = Local(new)]
               \/ PatchErrs(new, queued) /\ GoTo("syserr")
  /\ UNCHANGED <<azure, late, debounce, users>>

\* Mutant: an error of the last status write ends the reconcile without a requeue.
UpdateErrorDropped ==
  /\ At("final")
  /\ \/ SentinelReturn
     \/ /\ StatusWritten(rec.failed = {}, rec.spec, TRUE)
        /\ rec' = Idle
        /\ debounce' = IF rec.failed = {} THEN m.gen ELSE debounce
     \/ StatusErrs /\ rec' = Idle /\ UNCHANGED <<queued, debounce>>
  /\ UNCHANGED <<azure, late, users>>

\* UpdateAfterReconcile, markReconcileSuccess when nothing failed, and the requeue.
UpdateAfterReconcile ==
  /\ At("final")
  /\ \/ SentinelReturn
     \/ /\ StatusWritten(rec.failed = {}, rec.spec, TRUE)
        /\ rec' = Idle
        /\ debounce' = IF rec.failed = {} THEN m.gen ELSE debounce
     \/ StatusErrs /\ Requeue /\ UNCHANGED debounce
  /\ UNCHANGED <<azure, late, users>>
-------------------------------------------------------------------------------
(***************************************************************************)
(* The deletion path, and a crash.                                         *)
(***************************************************************************)

\* The candidates of reconcileDelete: the owned targets or, when the annotation is absent
\* or holds none, the spec's.
BeginDelete ==
  /\ At("fetched") /\ m.deleting /\ m.finalizer
  /\ rec' = [pc |-> "cleanup", m |-> m, failed |-> {},
             todo |-> IF m.owned # {} THEN m.owned ELSE SpecTargets[m.spec]]
  /\ UNCHANGED <<api, cached, azure, late, queued, debounce, failures, users>>

Cleanup(t) ==
  /\ At("cleanup") /\ t \in rec.todo
  /\ \/ /\ azure' = [azure EXCEPT ![t] = None]
        /\ rec' = [rec EXCEPT !.todo = @ \ {t}]
        /\ Works /\ UNCHANGED late
     \/ /\ DeleteErrs(t)
        /\ rec' = [rec EXCEPT !.todo = @ \ {t}, !.failed = @ \cup {t}]
        /\ Fails
  /\ UNCHANGED <<api, cached, queued, debounce, users>>

CleanupFailed ==
  /\ At("cleanup") /\ rec.todo = {} /\ rec.failed # {}
  /\ Requeue
  /\ UNCHANGED <<api, cached, azure, late, debounce, failures, users>>

\* The object is gone once its last finalizer is.
RemoveFinalizer ==
  /\ At("cleanup") /\ rec.todo = {} /\ rec.failed = {}
  /\ rec' = Idle
  /\ \/ api # NoMapping /\ Store(NoMapping, queued) /\ Works /\ debounce' = 0
     \/ api # NoMapping /\ PatchErrs(NoMapping, TRUE) /\ UNCHANGED debounce
     \/ api = NoMapping /\ ObjectUntouched /\ queued' = TRUE /\ Works /\ UNCHANGED debounce
  /\ UNCHANGED <<azure, late, users>>

\* The controller stops anywhere; the next one lists the mappings and queues each.
Crash ==
  /\ Fails
  /\ rec # Idle \/ debounce # 0
  /\ rec' = Idle
  /\ debounce' = 0
  /\ cached' = api
  /\ queued' = (api # NoMapping)
  /\ UNCHANGED <<api, azure, late, users>>
-------------------------------------------------------------------------------
Worker ==
  \/ FetchGone \/ Fetch \/ ensureFinalizer \/ Debounced \/ Resolve \/ Gate
  \/ UpdatePending \/ ReadAzure \/ PrePatch \/ (\E t \in Targets : Execute(t))
  \/ PostPatch \/ UpdateAfterReconcile \/ SystemError
  \/ BeginDelete \/ (\E t \in Targets : Cleanup(t)) \/ CleanupFailed \/ RemoveFinalizer

Next == Worker \/ DebounceExpires \/ Users \/ (\E t \in Targets : LateDelete(t)) \/ Crash

\* The worker goroutine keeps running and MinReconcileInterval ends.
Fairness == WF_vars(Worker) /\ WF_vars(DebounceExpires)
Spec == Init /\ [][Next]_vars /\ Fairness

\* The same controller when its reads come from an informer that may lag.
LagSpec == Init /\ [][Next \/ CatchUp]_vars
-------------------------------------------------------------------------------
(***************************************************************************)
(* Properties.                                                             *)
(***************************************************************************)

\* Whatever fails or crashes between the annotation patches, the Azure calls and the
\* finalizer patch (mapping_reconciler.go:465-541, reconcileDelete): every prefix set this
\* mapping has in Azure is recorded in the annotation of a mapping that still exists.
NoOrphans == \A t \in Targets : azure[t] # None => api # NoMapping /\ t \in api.owned

\* Reconciled=True is reported only with an annotation that names exactly the targets that
\* were to have addresses: widening it, deleting what is no longer desired, and narrowing it
\* after the deletions (mapping_reconciler.go:430-541) have then all happened.
ReconciledMeansOwnershipExact ==
  [][At("final") /\ api' # NoMapping /\ api' # api /\ api'.status # api.status
        /\ api'.status.reconciled
      => api'.owned = desiredTargets]_vars

Ideal(t) == IF t \in SpecTargets[api.spec] /\ want[t] # {} THEN want[t] ELSE None

Converged ==
  /\ \A t \in Targets : azure[t] = Ideal(t)
  /\ api.owned = {t \in Targets : Ideal(t) # None}

\* Once users and failures stop, the prefix sets and the annotation become what the spec and
\* the pods ask for, or the mapping, if deleted, goes away
\* (the requeue on every path of Reconcile, mapping_reconciler.go:94-613).
EventuallyConverged ==
  <>[](IF api = NoMapping THEN \A t \in Targets : azure[t] = None
       ELSE ~api.deleting /\ Converged)

\* Once users and failures stop, the status comes to say, again after every pending one, that
\* the current generation is reconciled, from the results of the current spec: no failed or
\* crashed status write, and no status that was computed for an older spec, is the last word
\* (mapping_reconciler.go:545-613).
EventuallyReconciled ==
  []<>(\/ api = NoMapping
       \/ /\ api.status.reconciled /\ api.status.gen = api.gen
          /\ api.status.applied = api.spec)

\* What the status says of the current generation is about the current spec
\* (mapping.Generation at mapping_reconciler.go:546).
StatusTruth ==
  api # NoMapping /\ api.status.reconciled /\ api.status.gen = api.gen
     => api.status.applied = api.spec
===============================================================================
