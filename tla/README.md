# Verification of the pod NSG controller

TLA+ models, TLC runs and TLAPS proofs for the controller that keeps Azure
*address prefix sets* in step with the pods a `PodASGMapping` selects.

## 1. The system

A `PodASGMapping` lists rules: a pod selector and the application security groups
(ASGs) the selected pods' addresses belong to. For every ASG the controller owns one
prefix set, named by the *ownership key* `cluster-namespace-name`.

| component | state it keeps | operations |
|---|---|---|
| desired-state computation (`internal/engine/desired_state*.go`) | none | one pass over the pods: addresses per target, match counts, snapshot, contributors |
| desired-state cache (`internal/engine/desired_state_cache.go`) | one entry per (key, generation); per-key version, per-namespace epoch, per-key lifecycle epoch; generation history | `OnPodAdd/Update/Delete`, `Invalidate`, `InvalidateNamespace`, `Delete`, `Get`, `GetWithVersion`, `SetFromRecomputeArtifactsIfVersion` |
| pod event handler (`internal/controller/pod_handler.go`) | none of its own | `Create`, `Update`, `Delete`: list mappings, amend the cache, enqueue |
| mapping reconciler (`internal/controller/mapping_reconciler.go`) | resync and debounce maps; through the API: finalizer, ownership annotation, status | `Reconcile`, `reconcileDelete` |
| status updater (`status_updater.go`, `status.go`) | status subresource | `UpdatePending`, `UpdateAfterReconcile` |
| diff engine (`internal/engine/diff.go`) | none | create / update / patch / delete per target |
| Azure executor (`internal/azure/executor.go`) | semaphore, results | `Execute`, ETag retry, recomputation |
| prefix-set client, retry policy, rate limiter, credentials (`internal/azure`) | token cache, limiter map | GET / PUT / DELETE / LIST, resend |
| convergence tracker (`internal/metrics/convergence.go`) | one token per mapping, target and generation | start, stage, commit, prune, forget |
| initial-reconcile tracker (`internal/metrics/reconcile.go`, `initial_reconcile_initializer.go`) | initial and completed keys, two flags, a gauge | `EnsureInitialized` from a startup runnable or a worker, `MarkTerminal` |
| other metrics (`internal/metrics`) | churn windows, counters | observation only |

They interact as follows. The pod informer updates its store and then delivers an
event; the handler amends the cache under the cache's mutex and enqueues the mapping.
A reconcile worker, never two at a time for one mapping, reads the cache or recomputes
from the pod store *outside* the mutex and publishes with compare-and-set fences.
Behind a freshness gate it writes a pending status, reads Azure, widens the ownership
annotation, executes the diff in parallel goroutines, narrows the annotation and writes
the final status. Deletion cleans up what the annotation names and then removes the
finalizer. Everything is retried by the work queue.

What is hard: the store is ahead of the events; recomputations race amendments,
invalidations and lifecycle fences; generations and incarnations (UIDs) of a mapping
overtake each other; any API or Azure call may fail after it took effect; the
controller may stop between any two of them; the informer may lag behind the
controller's own writes; other writers share the prefix sets. `PROJECT.json` lists
these places as hazards, each with the properties that watch it.

What makes each part correct:

* cache: a recomputation is published only if nothing touched its key meanwhile; only
  the newest generation is served; an amended entry equals a recomputation (how much of
  this is true is the subject of section 4);
* handler, cache and reconciler together: nothing of a deleted mapping comes back, and
  no event is lost between the informer and the worker;
* reconciler: no prefix set without a record of it, `Reconciled=True` only when it is
  true, convergence once the world is quiet;
* executor: success means converged, no write of others is undone unseen, it returns;
* status updater: the rows belong to the spec of the object they are written to and their
  sync times to their rules, and a mapping is reported on again after every change;
* trackers: a token is neither leaked nor committed for the wrong action, and the
  initial reconcile is complete when, and only when, every initial mapping is done.

## 2. Modules

| module | models | lines up with |
|---|---|---|
| `DesiredState` | recomputation and the three amendments, as operators on an entry's contents | one operator per function; targets, labels and resource ids are model values; `toCIDR` tells IPv4 from IPv6 |
| `DesiredStateCache` (extends it) | the cache; one action per method, each atomic because the method holds the mutex | `entries`, `keyVersions`, `namespaceEpoch`, `lifecycleEpoch`, `knownGenerations`, `latestGeneration` are the fields; `recompute[w]` is the ticket a worker holds between `GetWithVersion` and the publication; `spoilt` is history |
| `OptimisticPublish` | what the cache promises, without counters | abstract specification |
| `PodCacheSystem` (extends the cache) | informer, handler and the cache-first half of `Reconcile`, for one mapping | `events` is the informer's FIFO; `handler` and `rec` are the two goroutines' program counters and locals; `acted` is the desired state that passed the gate |
| `MappingReconciler` | `Reconcile` from the fetch to the final status, `reconcileDelete`, status writes | `api` and `cached` are the object and the informer's copy; `azure[t]` the prefix set; `rec` the worker; `queued` a queue entry or a timer |
| `Executor` | `Executor.Execute` and the client below it | `go[t]` is the goroutine of target t; `store[t]` holds content and ETag; `action[t]`, `result[t]` as in the code |
| `StatusUpdater` | `UpdatePending`, `UpdateAfterReconcile`, `ComputeStatus` and the convergence tracker, as the reconciles of one mapping drive them | `api`, `cached`, `watch` are the object, the informer's copy and what lies between them; `tokens` is `ConvergenceTracker.pending`; `rec` the worker; `dirty` the targets the next diff will find; `inc` fields are history |
| `InitialReconcile` | the initial-reconcile tracker, the startup runnable and `markInitialTerminal` in several workers | the tracker's four fields by name; `starter` and `worker[w]` are goroutines between two calls that take the tracker's mutex |
| `*Proofs` | the theorems of section 5, one module per component; `CacheParityProofs` extends `PodCacheSystemProofs`, which extends `DesiredStateCacheProofs` | |
| `MC*` | instances | |

Three modules look at the same `Reconcile` from different sides. `PodCacheSystem` stops where `MappingReconciler` starts: at the freshness gate. In
`MappingReconciler` the desired state is what the pods and the fetched spec give, and
one Azure action is one step that may fail after it took effect, or whose DELETE may
arrive at any later time; `Executor` opens that step up. `StatusUpdater` leaves Azure
open (any subset of `dirty` may succeed, fail or turn out a no-op) and opens the status
writes up: each attempt, its conflict, the re-read after the last one, and the rows.

Every call on the cache, on an informer store, on the API server and on Azure is a step
of its own. What the code does between two such calls is part of one of them.

## 3. Runs

| run | question | result |
|---|---|---|
| `cache_fences` | the cache under any caller in any order: are the fences exact, is one generation served, does it implement `OptimisticPublish`? | holds |
| `pod_events` | two pods, one rule or two with disjoint targets: after any interleaving, are snapshot and contributor records those of a recomputation, is no address missing, and, with one rule, none left over? | holds |
| `mapping_lifecycle` | spec changes, an invalid spec, deletion and recreation, one failing call: are the addresses right, is nothing left behind, does the worker end up acting on the truth? | holds |
| `mapping_side_effects` | failures, crashes, drift, spec changes, deletion: no orphans, exact ownership with `Reconciled=True`, convergence of Azure and annotation (`EventuallyConverged`) and of the status (`EventuallyReconciled`) | holds |
| `executor` | lost requests and answers, conflicting writers, cancellation under a full semaphore | holds |
| `status_convergence` | conflicts, lagging reads, spec changes, deletion, recreation, a crash: do written rows belong to the spec (`RowsOfSpec`) and stay under its generation (`RowsOfGeneration`), and sync times to their rules (`LastSyncKept`), do tokens neither leak nor pile up nor get committed for another action, is a valid mapping always reported on again? | holds |
| `initial_reconcile` | startup listing, fallback listings and marks of two workers, creation and deletion: is completion right, reported, and reached? | holds |
| `shared_target`, `pod_relist` | the parity contract of `desired_state_snapshot.go` in the cases the passing runs exclude | violated |
| `stale_informer` | `NoOrphans` when the informer lags behind the controller's own patch | violated |
| `status_generation` | does the status speak of the spec its generation names? | violated |
| `invalid_status` | is a mapping whose spec does not validate always reported on, though one status write fails? | violated |

### Bounds

* `cache_fences`: two keys of one namespace (so that a namespace epoch moves a key that
  was not touched itself), two generations, two UIDs, one recomputation in flight, and
  counters up to 2 (`MaxVersion`): a fence can move twice between capture and
  publication. The theorems hold for any number of all of these.
* `pod_events`: two pods are needed for the shared-address rule of `HasOtherContributor`;
  four changes let both appear, change labels or address and go, in any order with
  recomputations (four is what the counterexample to the full contract takes, section 4).
  Pod names are symmetric. API calls do not fail here.
* `mapping_lifecycle`: one rule; three changes cover spec change, deletion, recreation; three
  generations, two incarnations of the mapping and of the pod; one failing call.
* `mapping_side_effects`: two targets, two addresses, specs that name one target each, so
  that a spec change needs a creation and a deletion; two user changes; two failures or
  crashes, so that the repair of a failure fails too; three generations.
* `executor`: every diff over two addresses at one target next to a create or a delete at
  another that competes for the single slot; two attempts, one resend, two foreign writes.
  `Threshold` is 50 so that updates and patches both occur.

* `status_convergence`: two rules in either order (so that rows move), one of which has the
  empty selector and is, alone, the spec that does not validate (so that statuses with and
  without a hash follow each other); two user changes, so that a change can be followed by a
  deletion or by a recreation; three generations; two attempts per write, the code has
  three, so that the first and the last are different; one failing call or crash; one target that
  ever needs an action, since tokens of different targets do not interact. The clock counts
  reconciles and stays at 2.
* `initial_reconcile`: two mappings, one of which may be the one that is late; two workers;
  two creations or deletions, so that a mapping can come and go before the informer knows;
  one failing listing or reconcile.

`CHECK_DEADLOCK FALSE` is set where the system really may stop: a deleted mapping leaves
the queue for good, and so does one whose spec does not validate.

### Fairness

`PodCacheSystem`: weak fairness of the handler and of the reconcile worker: goroutines
that the Go scheduler runs, fed by queues that retry. `MappingReconciler`: weak fairness
of the worker and of `DebounceExpires` (an interval of the clock ends). `Executor`: weak
fairness of every goroutine. `StatusUpdater`: weak fairness of the worker and of the
watch. `InitialReconcile`: weak fairness of the runnable, of a worker's steps and of the
watch, and strong fairness of taking a given mapping from the work queue, which is first
in, first out, so that mappings that are put back do not starve the others. Nothing is assumed of users, failures, crashes, other
writers or cancellation; they are bounded in number, which is what "once they stop"
means in the liveness properties. `queued` stands for a queue entry or a pending
`RequeueAfter` timer; delays are left out. Since a pending status precedes every final one and
reconciles go on for ever, what the status converges to is stated with `[]<>`. In `MappingReconciler` the lag of
the informer has its own specification (`LagSpec`), and in `PodCacheSystem` so has a
relisting watch (`RelistSpec`); both are used for safety only. A DELETE that arrives late
has no fairness: it may also never arrive.

## 4. Findings

Each is a run that TLC refutes; the trace is short and can be replayed with the `.cfg`.

1. **Two rules, one target** (`shared_target`): `OnPodUpdate` asks whether another *pod*
   contributes the old address to the *same rule*. If another rule with the same ASG has
   just added it for the same pod, it is removed from the prefix set.
2. **Relist** (`pod_relist`): an update whose old and new pod have different UIDs leaves
   the old incarnation in the cache as a contributor, and its address stays.
3. **Lagging informer** (`stale_informer`): the annotation is rebuilt from the informer's
   copy and patched without a resource version; a target recorded by the previous
   reconcile can be overwritten while its prefix set exists.
4. **Status generation** (`status_generation`): a patch's response replaces the local
   object, so the final status carries the generation of a spec it did not process.
5. **Invalid spec** (`invalid_status`): the only status write of that path is not retried,
   and nothing else brings the mapping back.

### What is left of the parity contract

`desired_state_snapshot.go:189` asks that amending an entry be equivalent to recomputing
it. `DesiredParity` states that for the addresses, once every notification is handled; it
is the property of the two refuted runs, and the attempt to prove it for the remaining
cases found two more counterexamples, kept as `.cfg` files beside the runs:

* `tlc -config MCLatePublication.cfg MCPodCacheSystem`: two rules with disjoint targets,
  four pod changes, no failure, no relist. Pods p (label x) and q (label y) appear with the
  same address a, p goes, q becomes (label x, no address). A recomputation that sees only the
  end is published: q is in rule x. Then the older notifications are replayed over it. The
  addition of p puts a into rule x's target; the addition of q extends q's contributor record
  to both rules and gives q the address a; the removal of p takes q for another contributor
  of a to rule x (`desired_state_cache.go:333-346`); the update of q removes a from rule y's
  target only. The address stays until the resync
  interval forces a recomputation.
* `tlc -config MCLateHandler.cfg MCPodCacheSystem`: a handler has listed the mappings, then
  the mapping is deleted, cleaned up and created again, and its new entry, of the same
  generation, is amended with the old object. The publication compares UIDs
  (`desired_state_cache.go:667, 727`), the three amendments do not. It takes a handler that
  is slower than a whole deletion; `LateHandler = FALSE` leaves it out.

So the contract is split into what does hold: the records later amendments rely on are
exact (`ContributorParity`), for any rules; no address is missing from a target that one
rule feeds (`NoAddressMissing`); and a mapping with one rule has exactly the right
addresses (`OneRuleParity`). All three are proved. Under relists they are
not claimed: `MCPodRelist.cfg` refutes the first and the last in place of `DesiredParity`.

### What is left of the status rows

Two statements about `StatusUpdater` are weaker than one would like; the stronger ones are
defined beside them and refuted by `.cfg` files of their own:

* `tlc -config MCFormerIncarnation.cfg MCStatusUpdater` refutes `RowsOfEveryWriter`. A
  reconcile at generation 2 is past the gate when its mapping is removed and created again.
  `UpdatePending` and `UpdateAfterReconcile` read by name and compare generations, not UIDs
  (`status_updater.go:57-66, 116-125`), and the read gives them the new object's resource
  version, so the status goes to the new object: with the rows of its spec, but under
  generation 2. When the new object's spec changes, its generation is 2 as well, and until the next
  status write the rows of the older spec stand under it. `RowsOfSpec` says of every write,
  also of these, that the rows are those of the object's spec at that time;
  `RowsOfGeneration` speaks of the statuses that a reconcile of the present object wrote
  (`status.inc = api.inc`, a history field).
* `tlc -config MCEmptySelector.cfg MCStatusUpdater` refutes `LastSyncOfItsRule`. An empty
  `matchLabels` selects every pod (`selector.go:9-12`) and its hash is the empty string
  (`status.go:314-316`), which also marks rows from before hashes existed. After a status
  whose rows all have the empty selector, times are therefore preserved by position
  (`status.go:93-98`), and a different rule inherits the time. `LastSyncKept` states both
  cases: by rule when the previous status has a hash, by position when it has none.

Met while modelling, and kept out of the properties:

* match and pending counts of a cache entry drift when a recomputation has already seen a
  pod whose event is still on its way; they may come out too high (add counted twice) or
  too low (delete subtracted twice) until the next full recomputation. Snapshot and
  contributors do not (`pod_events`);
* the convergence tracker keys a token by namespace, name, target and generation
  (`convergence.go:109-113`), and the patches of a reconcile name only the object. If a
  mapping is deleted and recreated while a reconcile of the old object runs, a token of the
  old object can be committed late, by a reconcile of the new one that has reached its
  generation; TLC shows it with four changes. `ObservedWhenCompleted` therefore
  speaks of durations whose object still exists;
* after a lost answer a resent PUT meets 412, the recomputation finds the target converged
  and the result is flagged `NoOp` although the action did change Azure;
* `mappingSpecOrLifecycleChanged` compares specs, not generations. If a relist merges a
  change and its reversal into one event, a reconcile that ended with
  `ErrStatusStaleGeneration` is not followed by another one. `StatusUpdater` lets the
  predicate see every event of the watch;
* `CompletionReported` and `EventuallyComplete` name what the tracker does not promise: when
  the startup listing failed and there is no mapping, or the fallback finds none, the gauge
  stays 0; and when a *fallback* listing fails, a mark may be lost for good.

## 5. Proofs

Everything here holds for all sets of keys, pods, labels, addresses, targets, rules, specs,
generations, mappings and workers and all numbers of changes, failures, attempts and
resends, under the `ASSUME`s of the modules. These say that selectors and targets are
functions on the rules, that generations and UIDs are numbers starting at 1, that the null
values (`NoEntry`, `NoTicket`, `NoPod`, `NoMapping`, `NoResult`, `None`) are none of the real
ones, that the sets of pod names and of mappings are finite (they are counted), and, for
`PodCacheSystem`, that there is one key and one worker, as the module says. The bounds of the runs occur only in guards of the
environment, and the proofs do not use their values.

| module | theorem | statement |
|---|---|---|
| `DesiredStateCacheProofs` | `CacheServesNewestGeneration` | `CacheSpec => []NewestGenerationOnly` |
| | `CacheFencesExact` | `CacheSpec => []FencesExact` |
| | `CacheImplementsOptimisticPublish` | `CacheSpec => ImplementsOptimisticPublish` |
| `PodCacheSystemProofs` | `TypeCorrect` | `Spec => []TypeOK` |
| | `CleanupIsComplete` | `Spec => []NothingLeftBehind` |
| `CacheParityProofs` | `ContributorsExact` | `~LateHandler` gives `Spec => []ContributorParity` |
| | `NoAddressLost` | `~LateHandler` gives `Spec => []NoAddressMissing` |
| | `OneRuleIsExact` | `~LateHandler` gives `Spec => []OneRuleParity` |
| `MappingReconcilerProofs` | `TypeCorrect`, `LagTypeCorrect` | `Spec => []TypeOK`, `LagSpec => []TypeOK` |
| | `NothingOrphaned` | `~Lag` gives `Spec => []NoOrphans` |
| | `ReconciledIsExact` | `~Lag` gives `Spec => ReconciledMeansOwnershipExact` |
| `ExecutorProofs` | `TypeCorrect` | `Spec => []TypeOK` |
| | `SuccessIsTrue` | `Spec => []SuccessMeansConverged` |
| | `NoUpdateIsLost` | `Spec => NoLostUpdate` |
| `StatusUpdaterProofs` | `TypeCorrect` | `Spec => []TypeOK` |
| | `RowsMatchSpec` | `Spec => RowsOfSpec` |
| | `RowsMatchGeneration` | `Spec => []RowsOfGeneration` |
| | `TokensDoNotPileUp` | `Spec => []OneTokenPerTarget` |
| | `GoneIsForgotten` | `Spec => []NoTokenWithoutMapping` |
| | `ObservedIsOwn` | `Spec => ObservedWhenCompleted` |
| | `SyncTimesKept` | `DistinctSelectors` gives `Spec => LastSyncKept` |
| `InitialReconcileProofs` | `TypeCorrect` | `Spec => []TypeOK` |
| | `CompletionIsReal` | `Spec => []CompleteMeansReconciled` |
| | `CompletionIsReported` | `Spec => []CompletionReported` |

The three hypotheses are the cases of section 4 in which the statement is false: `Lag`
(`stale_informer`), `LateHandler` (`MCLateHandler.cfg`), and two rules with one selector,
where rows have no identity (`status.go:201`). Nothing is assumed of the selectors
otherwise; one of them may be the empty one.

**The cache alone.** `CacheInv` conjoins `CacheTypeOK`, `NewestGenerationOnly`,
`LatestIsNewest` and `TicketsBehind`. `NewestGenerationOnly` alone is not inductive: a
publication compares its generation with `latestGeneration`, so the proof needs that
this number is the largest of the known generations also while no entry exists.
`FencesExact` is not inductive either: a counter that could go back might return to a
captured value, so `TicketsBehind` says that the ticket of a spoilt worker is strictly
behind its key's version and that of any other worker equals its key's counters. The
refinement maps tickets to transactions and entries to published states; each action maps
to `Begin`, `Touch`, `Publish`, `Abandon` or a stutter, one lemma each.

**Parity.** What an entry says about a pod may be the pod's present, its past or, after a
replay, a mixture of both, so no invariant can say what an entry contains in the middle of
things. `ParityInv` says instead that whatever it contains ends well. `EndsIn(L, P, id, S)`:
the store has the pod in one of the states S, or some pending notification of the pod leaves
S. For every pod and rule, the record of the entry is right in the states S where a
recomputation would make the same record; `RecordsRight` says that each pod `EndsIn` them,
`NothingMissing` and `NothingLeftOver` the same of addresses. `QueueSettles` is the property
of the informer this rests on: the notifications of a pod form a chain that leads to the
store, so a set of states that one notification enters is either where the pod is or left by a
later notification. A pod event is then described by what it does to these sets
(`Handles`): a record changes into one that the notification's new state justifies, or stays
unless the notification leaves its states. That suffices for any order of replays. A
publication starts from a listing that the store justifies (`ComputedRight`), and if it was
overtaken, its ticket is `spoilt` and the fences reject it (`FencesExact`, from `CacheInv`). `CopiesKnown` orders the generations and UIDs of the copies of
the mapping in the handler, the worker and the cache; it is where `~LateHandler` is used.
`NothingLeftOver` is claimed for one rule only: with two, the chain of one pod does not
protect the address another pod keeps for it, which is what `MCLatePublication.cfg` shows.

**Cleanup.** `NothingLeftBehind` needs of `SystemInv` only types: every reconcile of the one
worker that ends with the mapping gone puts it back into the queue, unless it has run `Delete`
itself (not found, or an invalid spec), and pod events amend entries but never create one.

**Side effects.** `TypeInv` needs that an object with the finalizer cannot go while a worker is
past the gate (`ObjectLives`, `DeletionStays`). `OwnershipInv` conjoins nine facts around
`NoOrphans`: what the executor may write is in the annotation because the annotation was
widened first and the worker's copy of it is the object's (`Widened`, `CopyInSync`); what
leaves the annotation, or goes with the finalizer, has been deleted (`DeletedIsGone`,
`CleanedIsGone`); an object that goes without the deletion path owns nothing, since owning
takes the finalizer (`OwnedSafely`); and at the final status the annotation has been narrowed
to the targets with addresses unless an action failed (`Narrowed`).

**Executor.** `ExecutorInv` adds to the success property that at all times the delta of a patch
turns what nobody else has touched into what is desired, also after a PUT of our own whose
answer was lost (`DeltaExact`), that an accepted PUT has read what it replaces
(`ReadCurrent`), and that a goroutine sends the requests of its action's kind (`Phase`).

**Status and tokens.** The steps of `StatusUpdater` are first summarised by their effects, and
three invariants are proved per effect. `TokenInv` orders the generations of tokens, worker,
informer's copy and object. `QueueInv` follows the event of a deletion from the watch to the
queue. `RowsOfSpec` needs only types: a write whose resource
version is accepted was computed from the object itself. `RowsOfGeneration` is not inductive,
since a spec change could raise the generation to that of the status; `StatusInv` adds that no status which a
reconcile of this object wrote is ahead of it, which `TokenInv` gives for the worker.
`LastSyncKept` needs that no two rows have one hash unless all hashes are empty
(`HashesDistinct`).

**Initial reconcile.** `TrackerInv`: a listing that has not been used yet contains the mappings
that have been there since the start (`Listed`), what `MarkTerminal` counts has been reached
(`Reached`), a full count is a full set (`Complete`, finite cardinalities), and the runnable does
not end before the tracker is initialised unless its listing failed (`Started`).

Only model-checked: the liveness properties `EventuallyActsOnTruth`, `EventuallyConverged`,
`EventuallyReconciled`, `EventuallyReturns`, `ValidEventuallyReported` and `EventuallyComplete`, since liveness under
fairness and `ENABLED` are out of the prover's reach. All other properties of
the passing runs are proved.

## 6. Not modelled

* rates, delays and back-off (time is not in the models; a timer ends eventually);
* the rate limiter, token cache, credential chain, LRO polling, LIST paging and decoding;
* a PUT that reaches Azure after the client has given up on it and the mapping has been
  deleted (it would create a prefix set nobody owns; only DELETE is modelled that late);
* the re-read of the cache after a rejected publication, which a hit never follows while the
  work queue runs one reconcile of a mapping at a time (a hit there would leave the worker
  of `PodCacheSystem` without a step and break `EventuallyActsOnTruth`);
* formats: resource ids and ownership keys are model values, so two mappings with one
  ownership key, or ids that differ in case, need an instance of their own;
* two rules with the same selector in one status: their rows have no identity to keep;
* messages, match counts and the `Accepted` condition of a status, other metrics,
  configuration and its reload, and the legacy pod controller, which nothing starts;
* permanent failures, such as the credential error that `sync.Once` keeps until a restart;
* `InitialReconcileTracker.Forget`, which has no caller;
* `SetFromRecompute` and `SetFromRecomputeIfVersion`, which have no caller outside tests,
  and the cache-less path of the handler.

## 7. Plan

Done: the modules above, in the order of section 2, and a proof of every safety property
of the passing runs.

Next, in this order:

1. `Execute` of `MappingReconciler` refined by `Executor` for one target: what the one-step
   action may leave in Azure is what the goroutine's requests may leave;
2. `NoAddressMissing` for targets that several rules feed and pods that only ever match one
   of them, the case `shared_target` leaves open;
3. a bound on the left-over addresses of a mapping with several rules: every one of them was
   the address of a pod that some notification of the current entry has shown;
4. action properties of the cache that follow from `CacheInv` (versions and epochs only grow).
