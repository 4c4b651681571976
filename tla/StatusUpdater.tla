----------------------------- MODULE StatusUpdater -----------------------------
(***************************************************************************)
(* MappingStatusUpdater and the convergence tracker, as the reconciles of  *)
(* one PodASGMapping drive them: UpdatePending, ComputeStatus with its     *)
(* per-rule rows, the retry loop of UpdateAfterReconcile, and the tokens   *)
(* that measure how long a change took to reach Azure.                     *)
(*                                                                         *)
(* What a reconcile finds in Azure and how its actions end is free here    *)
(* (MappingReconciler and Executor model it).  Reads come from an informer *)
(* that may lag; an attempt (Get, then Update with the resource version    *)
(* that was read) is one step, since a write of somebody else in between   *)
(* is the same as a lagging read.  Time is the number of the reconcile.    *)
(***************************************************************************)
EXTENDS Integers, Sequences, FiniteSets

CONSTANTS
  Targets,      \* ASG targets
  Changing,     \* the targets whose prefix sets ever need an action
  Selectors,    \* selector hashes
  Specs,        \* specs: sequences of rules [sel, targets]
  Invalid,      \* the specs that do not pass validateASGResourceIDs
  MaxAttempts,  \* MappingStatusUpdater.MaxAttempts
  MaxGen,       \* bound on metadata.generation
  MaxTime,      \* bound on the clock, which stays there
  MaxChanges,   \* bound on what users do
  MaxFailures,  \* bound on failing calls and crashes
  NoMapping,
  NoHash        \* the empty hash: of an empty selector, and of rows written before hashes

ASSUME SpecsAssumption ==
  /\ Specs \subseteq Seq([sel : Selectors, targets : SUBSET Targets])
  /\ Invalid \subseteq Specs
  /\ Changing \subseteq Targets
ASSUME BoundsAssumption ==
  /\ MaxAttempts \in Nat \ {0} /\ MaxGen \in Nat \ {0} /\ MaxTime \in Nat \ {0}
  /\ MaxChanges \in Nat /\ MaxFailures \in Nat

VARIABLES
  api,       \* the PodASGMapping in the API server, or NoMapping
  cached,    \* the informer's copy of it, which every Get returns
  watch,     \* the kinds of events between that copy and the object
  dirty,     \* the targets whose prefix sets need an action
  tokens,    \* ConvergenceTracker.pending of this mapping
  observed,  \* what the last reconcile added to the convergence histogram
  queued,    \* the mapping is in the work queue, or a timer will put it there
  rec,       \* the reconcile worker
  now,       \* the clock
  changes, failures

object == <<api, cached, watch>>
tracker == <<tokens, observed>>
vars == <<object, dirty, tracker, queued, rec, now, changes, failures>>

Gens == 1..MaxGen
Times == 0..MaxTime   \* 0: the zero time
Incarnations == 1..(MaxChanges + 1)

\* Rows and status.  inc is history: the incarnation whose reconcile wrote it, or 0.
Rows == [hash : Selectors \cup {NoHash}, state : {"Pending", "Synced", "Error"}, sync : Times]
Statuses == [reconciled : {"Absent", "Unknown", "True", "False"}, gen : 0..MaxGen,
             inc : 0..(MaxChanges + 1), rows : Seq(Rows)]
Objects == [inc : Incarnations, gen : Gens, spec : Specs, deleting : BOOLEAN, status : Statuses]

\* completed = 0: no action has succeeded yet.  inc is history.
Tokens == [target : Targets, gen : Gens, inc : Incarnations, detected : Times, completed : Times]

Ends == {"none", "ok", "noop", "failed"}
Results == [Targets -> Ends]
NoResults == [t \in Targets |-> "none"]

\* why: how Reconcile came to write the final status.
Idle == [pc |-> "idle"]
Busy == [pc : {"fetched", "pending", "diff", "prepatch", "execute", "postpatch", "final",
               "refetch"},
         inc : Incarnations, gen : Gens, spec : Specs, deleting : BOOLEAN,
         todo : SUBSET Changing, results : Results,
         why : {"results", "system", "invalid"}, attempt : 1..MaxAttempts]

\* Types; a mapping's tokens are told apart by target and generation.
TypeOK ==
  /\ api \in Objects \cup {NoMapping}
  /\ cached \in Objects \cup {NoMapping}
  /\ watch \subseteq {"quiet", "enqueue"} /\ (watch = {} => cached = api)
  /\ dirty \subseteq Changing
  /\ tokens \subseteq Tokens /\ observed \subseteq Tokens
  /\ \A a, b \in tokens : a.target = b.target /\ a.gen = b.gen => a = b
  /\ queued \in BOOLEAN
  /\ rec = Idle \/ rec \in Busy
  /\ now \in Times
  /\ changes \in 0..MaxChanges
  /\ failures \in 0..MaxFailures

Fresh == [reconciled |-> "Absent", gen |-> 0, inc |-> 0, rows |-> <<>>]

\* A status of a controller that did not write hashes yet.
Legacy(s) == [reconciled |-> "True", gen |-> 1, inc |-> 0,
              rows |-> [i \in DOMAIN s |-> [hash |-> NoHash, state |-> "Synced", sync |-> 1]]]

Init ==
  /\ \E s \in Specs : \E status \in {Fresh, Legacy(s)} :
       api = [inc |-> 1, gen |-> 1, spec |-> s, deleting |-> FALSE, status |-> status]
  /\ cached = api /\ watch = {}
  /\ dirty = Changing
  /\ tokens = {} /\ observed = {}
  /\ queued = TRUE
  /\ rec = Idle
  /\ now = 0
  /\ changes = 0 /\ failures = 0
-------------------------------------------------------------------------------
(***************************************************************************)
(* ComputeStatus.                                                          *)
(***************************************************************************)

\* preserveLastSyncTime: row i keeps the time of row i.
preserveLastSyncTime(prev, i) == IF i <= Len(prev) THEN prev[i].sync ELSE 0

\* preserveLastSyncTimeBySelector: the times of the previous rows with a hash are a queue,
\* from which the rows with that hash that are not in sync take theirs in turn.
preserveLastSyncTimeBySelector(prev, spec, states, i) ==
  LET queue == {j \in DOMAIN prev : prev[j].hash = spec[i].sel}
      taken == {j \in 1..(i - 1) : spec[j].sel = spec[i].sel /\ states[j] # "Synced"}
      head == {j \in queue : Cardinality({k \in queue : k < j}) = Cardinality(taken)}
  IN  IF head = {} THEN 0 ELSE prev[CHOOSE j \in head : TRUE].sync

\* Mutant: rows keep their time by position.
preservedByIndex(prev, spec, states, i) == preserveLastSyncTime(prev, i)

\* By selector if the previous status has a hash.  One whose rows all have the empty selector
\* is taken for a status without hashes.
preserved(prev, spec, states, i) ==
  IF \E j \in DOMAIN prev : prev[j].hash # NoHash
  THEN preserveLastSyncTimeBySelector(prev, spec, states, i)
  ELSE preserveLastSyncTime(prev, i)

failedTargets(results) == {t \in Targets : results[t] = "failed"}
isSystemicFailure(why, results) == why = "system" /\ results = NoResults

RowState(phase, why, results, rule) ==
  CASE why = "invalid" -> "Error"
    [] why # "invalid" /\ phase = "Pending" -> "Pending"
    [] OTHER -> IF isSystemicFailure(why, results) \/ rule.targets \cap failedTargets(results) # {}
                THEN "Error" ELSE "Synced"

\* The new status of object o at time now, for the worker's generation and outcome.
ComputeStatus(o, phase) ==
  LET states == [i \in DOMAIN o.spec |-> RowState(phase, rec.why, rec.results, o.spec[i])]
  IN  [reconciled |-> IF phase = "Pending" THEN "Unknown"
                      ELSE IF rec.why # "results" \/ failedTargets(rec.results) # {} THEN "False"
                      ELSE "True",
       gen |-> rec.gen,
       inc |-> rec.inc,
       rows |-> [i \in DOMAIN o.spec |->
                   [hash |-> o.spec[i].sel, state |-> states[i],
                    sync |-> IF states[i] = "Synced" THEN now
                             ELSE preserved(o.status.rows, o.spec, states, i)]]]
-------------------------------------------------------------------------------
(***************************************************************************)
(* ConvergenceTracker.                                                     *)
(***************************************************************************)
StartOrKeep(ts) ==
  {[target |-> t, gen |-> rec.gen, inc |-> rec.inc, detected |-> now, completed |-> 0] :
     t \in {t \in ts : \A k \in tokens : k.target # t \/ k.gen # rec.gen}} \cup tokens

StageSuccessfulAction(ts) ==
  {IF k.gen = rec.gen /\ k.target \in ts THEN [k EXCEPT !.completed = now] ELSE k : k \in tokens}

\* Mutant: older generations are not pruned.
PruneNothing(gen) == tokens

PruneStaleGenerations(gen) == {k \in tokens : k.gen >= gen}
ForgetGeneration(gen) == {k \in tokens : k.gen # gen}

\* Mutant: the mapping's tokens stay.
ForgetNothing == tokens

Forget == {}

\* Mutant: a no-op is committed like a change.
CommittedNoOps == {k \in tokens : k.gen = rec.gen /\ k.completed # 0
                                  /\ rec.results[k.target] \in {"ok", "noop"}}

\* CommitConvergence for the successful results.
Committed == {k \in tokens : k.gen = rec.gen /\ k.completed # 0 /\ rec.results[k.target] = "ok"}

\* ForgetTarget for the results that changed nothing.
Forgotten == {k \in tokens : k.gen = rec.gen /\ rec.results[k.target] = "noop"}

\* The committer main.go gives to the status updater.
notifyConvergence ==
  /\ tokens' = tokens \ (Committed \cup Forgotten)
  /\ observed' = observed \cup Committed
-------------------------------------------------------------------------------
(***************************************************************************)
(* The API server, the informer and users.                                 *)
(***************************************************************************)
\* mappingSpecOrLifecycleChanged, creation and deletion.
Enqueues(old, new) ==
  \/ old = NoMapping \/ new = NoMapping
  \/ old.inc # new.inc \/ old.spec # new.spec \/ old.deleting # new.deleting

\* The predicate sees every event of the watch, also of those that follow each other quickly.
Store(new) ==
  /\ api' = new
  /\ watch' = watch \cup {IF api # new /\ Enqueues(api, new) THEN "enqueue" ELSE "quiet"}
  /\ UNCHANGED cached

CatchUp ==
  /\ watch # {}
  /\ cached' = api /\ watch' = {}
  /\ queued' = (queued \/ "enqueue" \in watch)
  /\ UNCHANGED <<api, dirty, tracker, rec, now, changes, failures>>

Budget == changes < MaxChanges /\ changes' = changes + 1
Change(new) ==
  /\ Budget
  /\ Store(new)
  /\ UNCHANGED <<dirty, tracker, queued, rec, now, failures>>

SpecChanged ==
  /\ api # NoMapping /\ ~api.deleting /\ api.gen < MaxGen
  /\ \E s \in Specs \ {api.spec} : Change([api EXCEPT !.gen = @ + 1, !.spec = s])

DeleteRequested ==
  /\ api # NoMapping /\ ~api.deleting /\ api.gen < MaxGen
  /\ Change([api EXCEPT !.gen = @ + 1, !.deleting = TRUE])

\* Somebody deletes the object and takes its finalizer off.
ForceDeleted == api # NoMapping /\ Change(NoMapping)

\* A new object under the same name; generations start again.
Recreated ==
  /\ api = NoMapping
  /\ \E s \in Specs :
       Change([inc |-> changes + 2, gen |-> 1, spec |-> s, deleting |-> FALSE, status |-> Fresh])

\* Pods change, or somebody edits a prefix set.
PodsChanged ==
  /\ Budget
  /\ dirty' = Changing /\ dirty # Changing
  /\ queued' = TRUE
  /\ UNCHANGED <<object, tracker, rec, now, failures>>

Users == PodsChanged \/ SpecChanged \/ DeleteRequested \/ ForceDeleted \/ Recreated
-------------------------------------------------------------------------------
(***************************************************************************)
(* Reconcile.                                                              *)
(***************************************************************************)
At(pc) == rec.pc = pc
Works == UNCHANGED failures
Fails == failures < MaxFailures /\ failures' = failures + 1
Environment == <<dirty, now, changes>>

Requeue == rec' = Idle /\ queued' = TRUE
NoRequeue == rec' = Idle /\ UNCHANGED queued
GoTo(pc) == rec' = [rec EXCEPT !.pc = pc, !.attempt = 1] /\ UNCHANGED queued
GoToFinal(why) == rec' = [rec EXCEPT !.pc = "final", !.attempt = 1, !.why = why] /\ UNCHANGED queued

FetchGone ==
  /\ At("idle") /\ queued /\ cached = NoMapping
  /\ queued' = FALSE
  /\ tokens' = Forget
  /\ UNCHANGED <<object, observed, rec, failures, Environment>>

Fetch ==
  /\ At("idle") /\ queued /\ cached # NoMapping
  /\ queued' = FALSE
  /\ rec' = [pc |-> "fetched", inc |-> cached.inc, gen |-> cached.gen, spec |-> cached.spec,
             deleting |-> cached.deleting, todo |-> {}, results |-> NoResults,
             why |-> "results", attempt |-> 1]
  /\ tokens' = PruneStaleGenerations(cached.gen)
  /\ observed' = {}
  /\ now' = IF now < MaxTime THEN now + 1 ELSE now
  /\ UNCHANGED <<object, dirty, changes, failures>>

\* reconcileDelete and the finalizer patch.  The patch names the object and nothing else; an
\* error, also that of a patch that was applied, leaves the tokens to a later reconcile.
Delete ==
  /\ At("fetched") /\ rec.deleting
  /\ \/ /\ api # NoMapping /\ Works
        /\ Store(IF api.inc = rec.inc THEN NoMapping ELSE api)
        /\ tokens' = Forget
        /\ NoRequeue
     \/ /\ Fails
        /\ UNCHANGED object \/ (api # NoMapping /\ api.inc = rec.inc /\ Store(NoMapping))
        /\ UNCHANGED tokens
        /\ Requeue
     \/ api = NoMapping /\ Works /\ UNCHANGED <<object, tokens>> /\ Requeue
  /\ UNCHANGED <<observed, Environment>>

\* An invalid spec goes straight to its final status; a failed listing of the pods to one
\* that reports it.
Validate ==
  /\ At("fetched") /\ ~rec.deleting
  /\ \/ rec.spec \in Invalid /\ Works /\ GoToFinal("invalid")
     \/ Fails /\ GoToFinal("system")
  /\ UNCHANGED <<object, tracker, Environment>>

\* The freshness gate after the resolution of a valid spec.
Gate ==
  /\ At("fetched") /\ ~rec.deleting /\ rec.spec \notin Invalid
  /\ IF cached # NoMapping /\ cached.inc = rec.inc /\ cached.gen = rec.gen /\ ~cached.deleting
     THEN GoTo("pending") ELSE Requeue
  /\ UNCHANGED <<object, tracker, failures, Environment>>
-------------------------------------------------------------------------------
(***************************************************************************)
(* Status writes.                                                          *)
(***************************************************************************)
Readable == cached # NoMapping /\ cached.gen <= rec.gen

\* ErrStatusObjectNotFound, from the read or from the update, and ErrStatusStaleGeneration.
Sentinel ==
  /\ \/ /\ cached = NoMapping \/ (Readable /\ api = NoMapping)
        /\ tokens' = Forget
     \/ /\ cached # NoMapping /\ cached.gen > rec.gen
        /\ tokens' = ForgetGeneration(rec.gen)
  /\ NoRequeue
  /\ Works /\ UNCHANGED <<object, observed>>

\* statusSemanticEqual, without messages and match counts.
SemanticEqual(phase) ==
  Readable /\ [cached.status EXCEPT !.inc = rec.inc] = ComputeStatus(cached, phase)

\* Mutant: the resource version is not sent.
ConflictNever == FALSE

Conflict == watch # {}

\* The status subresource alone is replaced.
Written(phase) == Store([api EXCEPT !.status = ComputeStatus(cached, phase)])

\* The update of one attempt, when there is something to change.
Updates(phase) == Readable /\ ~SemanticEqual(phase) /\ api # NoMapping
StatusWritten(phase) ==
  /\ Updates(phase) /\ ~Conflict
  /\ Written(phase)
  /\ Works
\* An update with another error, which may have been applied.
UpdateErrs(phase) ==
  /\ Updates(phase)
  /\ UNCHANGED object \/ (watch = {} /\ Written(phase))
  /\ Fails
ReadErrs == Fails /\ UNCHANGED object

Conflicted(phase) == Updates(phase) /\ Conflict /\ Works /\ UNCHANGED object

\* Mutant: one attempt too many.
RetryTooOften ==
  rec.attempt <= MaxAttempts /\ rec' = [rec EXCEPT !.attempt = @ + 1] /\ UNCHANGED queued

Retry == rec.attempt < MaxAttempts /\ rec' = [rec EXCEPT !.attempt = @ + 1] /\ UNCHANGED queued

\* Errors other than the sentinels are logged and no more.
UpdatePending ==
  /\ At("pending")
  /\ \/ Sentinel
     \/ /\ \/ SemanticEqual("Pending") /\ Works /\ UNCHANGED object
           \/ StatusWritten("Pending")
           \/ UpdateErrs("Pending")
           \/ ReadErrs
           \/ Conflicted("Pending") /\ rec.attempt = MaxAttempts
        /\ GoTo("diff")
        /\ UNCHANGED tracker
     \/ Conflicted("Pending") /\ Retry /\ UNCHANGED tracker
  /\ UNCHANGED Environment

\* Tokens start for the actions that change addresses, and not for the deletion of an owned
\* prefix set that Azure does not have.
startConvergenceTracking == \E changed \in SUBSET dirty : tokens' = StartOrKeep(changed)

\* Azure is read and compared.
Diff ==
  /\ At("diff")
  /\ \/ /\ startConvergenceTracking
        /\ rec' = [rec EXCEPT !.pc = "prepatch", !.todo = dirty]
        /\ UNCHANGED <<queued, observed>> /\ Works
     \/ Fails /\ GoToFinal("system") /\ UNCHANGED tracker
  /\ UNCHANGED <<object, Environment>>

\* A patch of the annotation answers with the object and so with its newest generation.
Patched == Store(api) /\ Works
PatchFails == Fails /\ (UNCHANGED object \/ (api # NoMapping /\ Store(api)))
NotPatched == Works /\ UNCHANGED object
Refresh(pc) == rec' = [rec EXCEPT !.pc = pc, !.gen = api.gen, !.attempt = 1] /\ UNCHANGED queued

\* The annotation only changes when there is something to do.
Patch(pc, next) ==
  /\ At(pc)
  /\ \/ NotPatched /\ GoTo(next)
     \/ /\ rec.todo # {}
        /\ \/ api # NoMapping /\ Patched /\ Refresh(next)
           \/ PatchFails /\ GoToFinal("system")
           \/ api = NoMapping /\ NotPatched /\ GoToFinal("system")
  /\ UNCHANGED <<tracker, Environment>>

PrePatch == Patch("prepatch", "execute")
PostPatch == Patch("postpatch", "final")

stageConvergenceResults(results) ==
  tokens' = StageSuccessfulAction({t \in Targets : results[t] = "ok"})

\* Executor.Execute, and the times of the actions that changed something.
Execute ==
  /\ At("execute")
  /\ \E results \in Results :
       /\ {t \in Targets : results[t] # "none"} = rec.todo
       /\ IF failedTargets(results) = {} THEN Works ELSE Fails
       /\ stageConvergenceResults(results)
       /\ dirty' = (dirty \ rec.todo) \cup failedTargets(results)
       /\ rec' = [rec EXCEPT !.pc = "postpatch", !.results = results]
  /\ UNCHANGED <<object, observed, queued, now, changes>>

\* What Reconcile returns after the final status.  An invalid spec waits for a new one.
\* Mutant: an error of the status write ends the reconcile.
ReturnsErrorMasked == NoRequeue

ReturnsError == IF rec.why = "invalid" THEN NoRequeue ELSE Requeue
ReturnsOK == IF rec.why = "invalid" THEN NoRequeue ELSE Requeue

UpdateAfterReconcile ==
  /\ At("final")
  /\ \/ Sentinel
     \/ SemanticEqual("Final") /\ Works /\ UNCHANGED object /\ notifyConvergence /\ ReturnsOK
     \/ StatusWritten("Final") /\ notifyConvergence /\ ReturnsOK
     \/ UpdateErrs("Final") /\ notifyConvergence /\ ReturnsError
     \/ ReadErrs /\ UNCHANGED tracker /\ ReturnsError
     \/ Conflicted("Final") /\ Retry /\ UNCHANGED tracker
     \/ Conflicted("Final") /\ rec.attempt = MaxAttempts /\ GoTo("refetch") /\ UNCHANGED tracker
  /\ UNCHANGED Environment

\* The read after the last conflict.
Refetch ==
  /\ At("refetch")
  /\ \/ Sentinel
     \/ SemanticEqual("Final") /\ Works /\ UNCHANGED object /\ notifyConvergence /\ ReturnsOK
     \/ /\ Readable /\ ~SemanticEqual("Final") /\ Works /\ UNCHANGED object
        /\ notifyConvergence /\ ReturnsError
     \/ ReadErrs /\ notifyConvergence /\ ReturnsError
  /\ UNCHANGED Environment

\* The controller stops; the next one lists the mappings, queues each and has no tokens.
Crash ==
  /\ Fails
  /\ rec # Idle \/ tokens # {}
  /\ rec' = Idle
  /\ tokens' = {} /\ observed' = {}
  /\ cached' = api /\ watch' = {}
  /\ queued' = (api # NoMapping)
  /\ UNCHANGED <<api, Environment>>
-------------------------------------------------------------------------------
Worker ==
  \/ FetchGone \/ Fetch \/ Delete \/ Validate \/ Gate \/ UpdatePending \/ Diff
  \/ PrePatch \/ Execute \/ PostPatch \/ UpdateAfterReconcile \/ Refetch

Next == Worker \/ CatchUp \/ Users \/ Crash

\* The worker goroutine keeps running and the watch delivers.
Spec == Init /\ [][Next]_vars /\ WF_vars(Worker) /\ WF_vars(CatchUp)
-------------------------------------------------------------------------------
(***************************************************************************)
(* Properties.                                                             *)
(***************************************************************************)

\* The tracker forgets a mapping that is gone, on whichever of the paths its last reconcile
\* ended: the deletion path, a sentinel of a status write, or the fetch after the deletion
\* (cleanupPerMappingMetricState, mapping_reconciler.go:658-675).
NoTokenWithoutMapping ==
  At("idle") /\ ~queued /\ api = NoMapping /\ cached = NoMapping => tokens = {}

\* However often the spec changes, one incarnation of the mapping has at most one token per
\* target: tokens of abandoned generations do not pile up (PruneStaleGenerations at the start
\* of a reconcile, mapping_reconciler.go:125-131).
OneTokenPerTarget ==
  \A a, b \in tokens : a.target = b.target /\ a.inc = b.inc => a = b

\* A duration reaches the histogram only in the reconcile whose own action completed it, never
\* from what an earlier reconcile staged and could not commit (main.go:148-169,
\* CommitConvergence).  The tokens of an object that has been replaced under the same name are
\* left out: the tracker's key has no UID, and a patch may answer with the new object's
\* generation, under which such a token is committed late.
ObservedWhenCompleted ==
  [][\A k \in observed' \ observed :
       api # NoMapping /\ k.inc = api.inc => k.completed = now /\ k.detected <= k.completed]_vars

\* A step changes the status of the object, and the rows it then has.
StatusChanges == api # NoMapping /\ api' # NoMapping /\ api'.status # api.status
NewRows == IF StatusChanges THEN DOMAIN api'.status.rows ELSE {}

\* New row i has a time of the previous rows with its hash, or none if there are none.
TimeOfRule(i) ==
  LET row == api'.status.rows[i]
      prev == api.status.rows
      same == {j \in DOMAIN prev : prev[j].hash = row.hash}
  IN  IF same = {} THEN row.sync = 0 ELSE \E j \in same : row.sync = prev[j].sync

\* T6.4: through pending and final writes, conflicts, failures and reordered rules, the time of
\* a rule that is not in sync is the one it had, or none, if some previous row has a hash.  If
\* none has, which is so of old statuses and when every rule has the empty selector, it is the
\* time of the row at its place, whose rule may be another one (status.go:89-223).
LastSyncKept ==
  [][\A i \in NewRows :
       api'.status.rows[i].state # "Synced" =>
         IF \E j \in DOMAIN api.status.rows : api.status.rows[j].hash # NoHash THEN TimeOfRule(i)
         ELSE api'.status.rows[i].sync = preserveLastSyncTime(api.status.rows, i)]_vars

\* The same without that exception, for the statuses this controller has written.  It does not
\* hold: after a status whose rows all have the empty selector, other rules inherit their times
\* (MCEmptySelector.cfg).
LastSyncOfItsRule ==
  [][\A i \in NewRows :
       api'.status.rows[i].state # "Synced" /\ api.status.inc # 0 => TimeOfRule(i)]_vars

\* The status of o has one row for each rule of its spec, in order.
RowsFor(o) ==
  [i \in DOMAIN o.status.rows |-> o.status.rows[i].hash] = [i \in DOMAIN o.spec |-> o.spec[i].sel]

\* A status write that reaches an object leaves the rows of the spec the object then has,
\* however far the copy lags that they are computed from, and also when the reconcile that
\* writes it began with an object that has since been replaced (the read and the resource
\* version of each attempt, status_updater.go:115-160).
RowsOfSpec == [][StatusChanges => RowsFor(api')]_vars

\* A status that carries the object's generation has the rows of its spec: although a patch may
\* advance the generation for which a reconcile writes, rows of an older spec do not stay under
\* a newer generation.  Left out are statuses written by a reconcile of a former object of the
\* same name: it reads by name and compares no UID (status_updater.go:115-146), so that its
\* generation may be ahead of the new object's.
RowsOfGeneration ==
  api # NoMapping /\ api.status.inc = api.inc /\ api.status.gen = api.gen => RowsFor(api)

\* The same whoever wrote the status.  It does not hold: a later spec of the new object reaches
\* the generation that the former object's reconcile wrote (MCFormerIncarnation.cfg).
RowsOfEveryWriter ==
  api # NoMapping /\ api.status.inc # 0 /\ api.status.gen = api.gen => RowsFor(api)

Reported ==
  \/ api = NoMapping
  \/ ~api.deleting /\ api.status.gen = api.gen /\ api.status.reconciled \in {"True", "False"}

\* Once users and failures stop, a mapping whose spec is valid gets a final status for its
\* generation, again after every pending one, whatever became of the attempts to write it.
ValidEventuallyReported == []<>(Reported \/ api.spec \in Invalid)

\* The same for every mapping: a status write that failed is not masked.
EventuallyReported == []<>Reported
===============================================================================
