--------------------------- MODULE InitialReconcile ---------------------------
(***************************************************************************)
(* The initial-reconcile tracker.  The runnable that main.go registers     *)
(* lists the mappings when the controller starts; if it is late or its     *)
(* listing fails, the first worker that ends a reconcile lists them        *)
(* instead.  Both run concurrently, and each call of the tracker holds its *)
(* mutex, so a step is what happens between two of its calls.              *)
(***************************************************************************)
EXTENDS Integers, FiniteSets

CONSTANTS
  Keys,         \* names of mappings
  Workers,      \* MaxConcurrentReconciles workers
  MaxChanges,   \* bound on creations and deletions
  MaxFailures   \* bound on failing listings and reconciles

ASSUME KeysAssumption == IsFiniteSet(Keys)
ASSUME BoundsAssumption == MaxChanges \in Nat /\ MaxFailures \in Nat

VARIABLES
  mappings,       \* the mappings in the API server
  informer,       \* those in the informer's cache
  events,         \* mappings with an event that was not delivered
  queue,          \* the work queue, its timers included
  initialKeys, completedKeys, initialized, complete,   \* InitialReconcileTracker
  gauge,          \* initial_reconcile_complete is 1
  starter,        \* InitialReconcileInitializer.Start
  worker,         \* the reconcile workers
  changes, failures,
  original,       \* history: the mappings that are there since the caches synced
  reached,        \* history: mappings with a terminal outcome since then
  failed          \* history: whose listing failed

cluster == <<mappings, informer, events, queue>>
tracker == <<initialKeys, completedKeys, initialized, complete>>
history == <<original, reached, failed>>
vars == <<cluster, tracker, gauge, starter, worker, changes, failures, history>>

Idle == [pc |-> "idle"]
Starters == [pc : {"check", "list", "lock", "gauge", "done"}, keys : SUBSET Keys]
Busy == [pc : {"check", "list", "lock", "mark"}, key : Keys, keys : SUBSET Keys,
         requeue : BOOLEAN]

\* Types; a completed key is one of the initial ones, and the work queue gives a key to one
\* worker at a time.
TypeOK ==
  /\ mappings \subseteq Keys /\ informer \subseteq Keys /\ events \subseteq Keys
  /\ queue \subseteq Keys
  /\ initialKeys \subseteq Keys /\ completedKeys \subseteq initialKeys
  /\ initialized \in BOOLEAN /\ complete \in BOOLEAN /\ gauge \in BOOLEAN
  /\ starter \in Starters
  /\ worker \in [Workers -> Busy \cup {Idle}]
  /\ \A v, w \in Workers : worker[v] # Idle /\ worker[w] # Idle /\ v # w
                             => worker[v].key # worker[w].key
  /\ changes \in 0..MaxChanges /\ failures \in 0..MaxFailures
  /\ original \subseteq Keys /\ reached \subseteq Keys
  /\ failed \subseteq {"startup", "fallback"}

\* The leader starts its runnables and its controller once the caches have synced.
Init ==
  /\ mappings \in SUBSET Keys
  /\ informer = mappings /\ events = {} /\ queue = mappings
  /\ initialKeys = {} /\ completedKeys = {} /\ initialized = FALSE /\ complete = FALSE
  /\ gauge = FALSE
  /\ starter = [pc |-> "check", keys |-> {}]
  /\ worker = [w \in Workers |-> Idle]
  /\ changes = 0 /\ failures = 0
  /\ original = mappings /\ reached = {} /\ failed = {}
-------------------------------------------------------------------------------
Works == UNCHANGED failures
Fails == failures < MaxFailures /\ failures' = failures + 1

\* Mutant: the second look at initialized is missing.
InitializeAgain(keys) ==
  /\ initialKeys' = initialKeys \cup keys
  /\ initialized' = TRUE
  /\ complete' = (complete \/ initialKeys \cup keys = {})
  /\ UNCHANGED completedKeys

\* The second half of EnsureInitialized, after the listing: the first one wins.
EnsureInitialized(keys) ==
  \/ initialized /\ UNCHANGED tracker
  \/ /\ ~initialized
     /\ initialKeys' = keys
     /\ initialized' = TRUE
     /\ complete' = (complete \/ keys = {})
     /\ UNCHANGED completedKeys

\* Mutant: keys that are not initial ones are counted.
MarkTerminalAnyKey(key) ==
  IF complete \/ ~initialized THEN UNCHANGED <<tracker, gauge>>
  ELSE /\ completedKeys' = completedKeys \cup {key}
       /\ complete' = (Cardinality(completedKeys \cup {key}) >= Cardinality(initialKeys))
       /\ gauge' = (gauge \/ complete')
       /\ UNCHANGED <<initialKeys, initialized>>

MarkTerminal(key) ==
  IF complete \/ ~initialized \/ key \notin initialKeys THEN UNCHANGED <<tracker, gauge>>
  ELSE /\ completedKeys' = completedKeys \cup {key}
       /\ complete' = (Cardinality(completedKeys \cup {key}) >= Cardinality(initialKeys))
       /\ gauge' = (gauge \/ complete')
       /\ UNCHANGED <<initialKeys, initialized>>
-------------------------------------------------------------------------------
(***************************************************************************)
(* InitialReconcileInitializer.Start.                                      *)
(***************************************************************************)
StarterGoes(pc, keys) == starter' = [pc |-> pc, keys |-> keys]

StartCheck ==
  /\ starter.pc = "check"
  /\ StarterGoes(IF initialized THEN "gauge" ELSE "list", {})
  /\ UNCHANGED <<cluster, tracker, gauge, worker, changes, failures, history>>

\* The listing asks the API server, not the informer.
StartList ==
  /\ starter.pc = "list"
  /\ \/ Works /\ StarterGoes("lock", mappings) /\ UNCHANGED failed
     \/ Fails /\ StarterGoes("done", {}) /\ failed' = failed \cup {"startup"}
  /\ UNCHANGED <<cluster, tracker, gauge, worker, changes, original, reached>>

StartLock ==
  /\ starter.pc = "lock"
  /\ EnsureInitialized(starter.keys)
  /\ StarterGoes("gauge", {})
  /\ UNCHANGED <<cluster, gauge, worker, changes, failures, history>>

\* Mutant: the completion of an empty startup set is not reported.
StartGaugeNever ==
  /\ starter.pc = "gauge"
  /\ StarterGoes("done", {})
  /\ UNCHANGED <<cluster, tracker, gauge, worker, changes, failures, history>>

StartGauge ==
  /\ starter.pc = "gauge"
  /\ gauge' = (gauge \/ complete)
  /\ StarterGoes("done", {})
  /\ UNCHANGED <<cluster, tracker, worker, changes, failures, history>>

Starter == StartCheck \/ StartList \/ StartLock \/ StartGauge
-------------------------------------------------------------------------------
(***************************************************************************)
(* Reconcile and markInitialTerminal.                                      *)
(***************************************************************************)
WorkerGoes(w, pc) == worker' = [worker EXCEPT ![w].pc = pc]

\* The work queue gives a key to one worker at a time.
Takes(w, key) ==
  /\ worker[w] = Idle /\ key \in queue
  /\ \A v \in Workers : worker[v] # Idle => worker[v].key # key

Ends(w, key, requeue) ==
  /\ queue' = queue \ {key}
  /\ reached' = reached \cup {key}
  /\ worker' = [worker EXCEPT ![w] = [pc |-> "check", key |-> key, keys |-> {},
                                      requeue |-> requeue]]
  /\ Works

\* Reconcile up to a terminal outcome.  A mapping that is gone and one with an invalid spec
\* end without a timer, a success with one; the deletion path removes the mapping itself.
\* Any other outcome marks nothing and comes back: by a timer, by the queue's retry or, when a
\* status write found a newer generation, by the event of the spec change.
Reconcile(w, key) ==
  /\ Takes(w, key)
  /\ \/ /\ \E requeue \in IF key \in informer THEN BOOLEAN ELSE {FALSE} : Ends(w, key, requeue)
        /\ UNCHANGED <<mappings, events, changes, original>>
     \/ /\ key \in informer \cap mappings /\ changes < MaxChanges
        /\ Ends(w, key, FALSE)
        /\ mappings' = mappings \ {key} /\ events' = events \cup {key}
        /\ original' = original \ {key}
        /\ changes' = changes + 1
     \/ /\ key \in informer /\ Fails
        /\ UNCHANGED <<mappings, events, queue, worker, changes, original, reached>>
  /\ UNCHANGED <<informer, tracker, gauge, starter, failed>>

\* Mutant: markInitialTerminal does not fall back to a listing of its own.
MarkCheckNoFallback(w) ==
  /\ worker[w] # Idle /\ worker[w].pc = "check"
  /\ WorkerGoes(w, "mark")
  /\ UNCHANGED <<cluster, tracker, gauge, starter, changes, failures, history>>

\* IsInitialized, which EnsureInitialized asks once more.
MarkCheck(w) ==
  /\ worker[w] # Idle /\ worker[w].pc = "check"
  /\ WorkerGoes(w, IF initialized THEN "mark" ELSE "list")
  /\ UNCHANGED <<cluster, tracker, gauge, starter, changes, failures, history>>

\* The listing of ensureInitialTrackerFallback asks the informer; its error is ignored.
FallbackList(w) ==
  /\ worker[w] # Idle /\ worker[w].pc = "list"
  /\ \/ /\ Works /\ UNCHANGED failed
        /\ worker' = [worker EXCEPT ![w].pc = "lock", ![w].keys = informer]
     \/ Fails /\ WorkerGoes(w, "mark") /\ failed' = failed \cup {"fallback"}
  /\ UNCHANGED <<cluster, tracker, gauge, starter, changes, original, reached>>

FallbackLock(w) ==
  /\ worker[w] # Idle /\ worker[w].pc = "lock"
  /\ EnsureInitialized(worker[w].keys)
  /\ WorkerGoes(w, "mark")
  /\ UNCHANGED <<cluster, gauge, starter, changes, failures, history>>

Mark(w) ==
  /\ worker[w] # Idle /\ worker[w].pc = "mark"
  /\ MarkTerminal(worker[w].key)
  /\ queue' = IF worker[w].requeue THEN queue \cup {worker[w].key} ELSE queue
  /\ worker' = [worker EXCEPT ![w] = Idle]
  /\ UNCHANGED <<mappings, informer, events, starter, changes, failures, history>>

markInitialTerminal(w) == MarkCheck(w) \/ FallbackList(w) \/ FallbackLock(w) \/ Mark(w)
-------------------------------------------------------------------------------
(***************************************************************************)
(* Users and the informer.                                                 *)
(***************************************************************************)
Change(new, key) ==
  /\ changes < MaxChanges /\ changes' = changes + 1
  /\ mappings' = new /\ events' = events \cup {key}
  /\ original' = original \cap new
  /\ UNCHANGED <<informer, queue, tracker, gauge, starter, worker, failures, reached, failed>>

Created(key) == key \notin mappings /\ Change(mappings \cup {key}, key)
Deleted(key) == key \in mappings /\ Change(mappings \ {key}, key)

\* The events of a mapping reach the informer, and its handler queues the mapping.
CatchUp(key) ==
  /\ key \in events
  /\ events' = events \ {key}
  /\ informer' = IF key \in mappings THEN informer \cup {key} ELSE informer \ {key}
  /\ queue' = queue \cup {key}
  /\ UNCHANGED <<mappings, tracker, gauge, starter, worker, changes, failures, history>>

Next ==
  \/ Starter
  \/ \E w \in Workers : markInitialTerminal(w) \/ (\E key \in Keys : Reconcile(w, key))
  \/ \E key \in Keys : Created(key) \/ Deleted(key) \/ CatchUp(key)

\* The runnable and the workers keep running, the watch delivers, and the work queue is a
\* queue: a mapping in it is taken, however often others are put back.
Spec ==
  /\ Init /\ [][Next]_vars
  /\ WF_vars(Starter)
  /\ \A w \in Workers : WF_vars(markInitialTerminal(w))
  /\ \A key \in Keys : WF_vars(CatchUp(key)) /\ SF_vars(\E w \in Workers : Reconcile(w, key))
-------------------------------------------------------------------------------
(***************************************************************************)
(* Properties.                                                             *)
(***************************************************************************)

\* T8.11: whoever listed the mappings, and whatever was created, deleted or listed a second
\* time meanwhile, the initial reconcile is only complete when every mapping that is there since
\* the start, and every one that was listed, has been reconciled to the end or found gone
\* (EnsureInitialized and MarkTerminal, reconcile.go:173-221).
CompleteMeansReconciled ==
  complete => initialKeys \subseteq reached /\ original \subseteq reached

\* The gauge agrees with the tracker but for two cases, both of an empty startup set: Start is
\* yet to report it, or Start's own listing failed and the fallback's found nothing
\* (initial_reconcile_initializer.go:57-66, reconcile.go:195-197).
CompletionReported ==
  /\ gauge => complete
  /\ complete /\ ~gauge => initialKeys = {} /\ (starter.pc # "done" \/ "startup" \in failed)

\* The initial reconcile completes, also when Start's listing failed, was slow or raced with
\* that of a worker, unless a worker's listing failed as well or there is no mapping whose
\* reconcile could take over from Start (markInitialTerminal, mapping_reconciler.go:626-656).
EventuallyComplete ==
  <>(complete \/ "fallback" \in failed \/ ("startup" \in failed /\ ~initialized /\ mappings = {}))
===============================================================================
