------------------------ MODULE InitialReconcileProofs ------------------------
(***************************************************************************)
(* What the initial-reconcile tracker guarantees for every finite set of   *)
(* mappings and every set of workers.                                      *)
(*                                                                         *)
(* TrackerInv is the inductive invariant.  CompleteMeansReconciled alone   *)
(* is not inductive: a late listing may become the startup set, so every   *)
(* listing that has not been used yet must hold the mappings that are      *)
(* there since the start (Listed); MarkTerminal counts keys, so what it    *)
(* counts must have been reached (Reached) and a full count must mean a    *)
(* full set (Complete).  CompletionReported needs that the runnable does   *)
(* not end before the tracker is initialized unless its listing failed     *)
(* (Started).                                                              *)
(***************************************************************************)
EXTENDS InitialReconcile, FiniteSetTheorems, TLAPS

Uninitialized ==
  ~initialized => initialKeys = {} /\ completedKeys = {} /\ ~complete /\ ~gauge

Reached ==
  /\ completedKeys \subseteq reached
  /\ \A w \in Workers : worker[w] # Idle => worker[w].key \in reached

Listed ==
  /\ original \subseteq mappings /\ original \subseteq informer
  /\ starter.pc = "lock" => original \subseteq starter.keys
  /\ \A w \in Workers : worker[w] # Idle /\ worker[w].pc = "lock" => original \subseteq worker[w].keys
  /\ initialized => original \subseteq initialKeys

Complete == complete => initialKeys \subseteq completedKeys

Started == starter.pc \in {"gauge", "done"} => initialized \/ "startup" \in failed

TrackerInv ==
  TypeOK /\ Uninitialized /\ Reached /\ Listed /\ Complete /\ Started /\ CompletionReported
\* What the tracker and the gauge have to satisfy after a step that leaves the rest of the
\* invariant alone.
TrackerSound ==
  /\ initialKeys \subseteq Keys /\ completedKeys \subseteq initialKeys
  /\ initialized \in BOOLEAN /\ complete \in BOOLEAN /\ gauge \in BOOLEAN
  /\ completedKeys \subseteq reached
  /\ initialized => original \subseteq initialKeys
  /\ Uninitialized /\ Complete /\ CompletionReported

\* A worker that is busy is not idle.
LEMMA BusyIsNotIdle == ASSUME NEW b \in Busy PROVE b # Idle
BY DEF Busy, Idle

\* A worker that goes on keeps its key and its listing.
LEMMA WorkerMoves ==
  ASSUME TypeOK, NEW w \in Workers, worker[w] # Idle,
         NEW pc \in {"check", "list", "lock", "mark"}, NEW keys \in SUBSET Keys,
         \/ WorkerGoes(w, pc)
         \/ worker' = [worker EXCEPT ![w].pc = pc, ![w].keys = keys]
  PROVE  /\ worker' \in [Workers -> Busy \cup {Idle}]
         /\ \A v \in Workers \ {w} : worker'[v] = worker[v]
         /\ worker'[w] # Idle /\ worker'[w].pc = pc /\ worker'[w].key = worker[w].key
         /\ worker'[w].keys = worker[w].keys \/ worker'[w].keys = keys
         /\ \A u, v \in Workers : worker'[u] # Idle /\ worker'[v] # Idle /\ u # v
                                  => worker'[u].key # worker'[v].key
<1>1. worker \in [Workers -> Busy \cup {Idle}] /\ worker[w] \in Busy
  BY DEF TypeOK
<1> DEFINE b == worker'[w]
<1>2. /\ b \in Busy /\ b.pc = pc /\ b.key = worker[w].key /\ b.keys \in {worker[w].keys, keys}
      /\ worker' = [worker EXCEPT ![w] = b]
  <2>1. CASE WorkerGoes(w, pc)
    <3>1. b = [worker[w] EXCEPT !.pc = pc] /\ worker' = [worker EXCEPT ![w] = b]
      BY <1>1, <2>1 DEF WorkerGoes
    <3> QED BY <1>1, <3>1 DEF Busy
  <2>2. CASE worker' = [worker EXCEPT ![w].pc = pc, ![w].keys = keys]
    <3>1. /\ b = [worker[w] EXCEPT !.pc = pc, !.keys = keys]
          /\ worker' = [worker EXCEPT ![w] = b]
      BY <1>1, <2>2
    <3> QED BY <1>1, <3>1 DEF Busy
  <2> QED BY <2>1, <2>2
<1> HIDE DEF b
<1>3. b # Idle
  BY <1>2, BusyIsNotIdle
<1>4. worker' \in [Workers -> Busy \cup {Idle}] /\ \A v \in Workers \ {w} : worker'[v] = worker[v]
  BY <1>1, <1>2
<1>5. worker'[w] = b
  BY <1>1, <1>2
<1>6. ASSUME NEW u \in Workers, NEW v \in Workers, worker'[u] # Idle, worker'[v] # Idle, u # v
      PROVE  worker'[u].key # worker'[v].key
  <2>1. \A x \in Workers : worker'[x] # Idle => worker[x] # Idle /\ worker'[x].key = worker[x].key
    BY <1>2, <1>4, <1>5
  <2> QED BY <1>6, <2>1 DEF TypeOK
<1> QED BY <1>2, <1>3, <1>4, <1>5, <1>6

\* The listing that wins becomes the startup set (EnsureInitialized).
LEMMA InitializeSound ==
  ASSUME TrackerInv, NEW keys \in SUBSET Keys, original \subseteq keys, EnsureInitialized(keys),
         UNCHANGED <<gauge, original, reached, failed>>,
         starter'.pc = "done" => starter.pc = "done"
  PROVE  TrackerSound' /\ initialized'
<1>1. CASE initialized
  <2>1. UNCHANGED <<initialKeys, completedKeys, initialized, complete>>
    BY <1>1 DEF EnsureInitialized, tracker
  <2> QED BY <1>1, <2>1
      DEF TrackerInv, TrackerSound, TypeOK, Uninitialized, Reached, Listed, Complete,
          CompletionReported
<1>2. CASE ~initialized
  <2>1. initialKeys' = keys /\ initialized' = TRUE /\ complete' = (keys = {}) /\ completedKeys' = {}
    BY <1>2 DEF EnsureInitialized, TrackerInv, Uninitialized
  <2>2. gauge = FALSE /\ gauge' = FALSE
    BY <1>2 DEF TrackerInv, Uninitialized, TypeOK
  <2>3. starter'.pc = "done" => "startup" \in failed'
    BY <1>2 DEF TrackerInv, Started
  <2> QED BY <2>1, <2>2, <2>3 DEF TrackerSound, Uninitialized, Complete, CompletionReported
<1> QED BY <1>1, <1>2

\* MarkTerminal counts, but a full count is a full set.
LEMMA MarkSound ==
  ASSUME TrackerInv, NEW key \in Keys, key \in reached, MarkTerminal(key),
         UNCHANGED <<original, reached, failed, starter>>
  PROVE  TrackerSound' /\ initialized' = initialized
<1>1. CASE complete \/ ~initialized \/ key \notin initialKeys
  <2>1. UNCHANGED <<initialKeys, completedKeys, initialized, complete, gauge>>
    BY <1>1 DEF MarkTerminal, tracker
  <2> QED BY <2>1
      DEF TrackerInv, TrackerSound, TypeOK, Uninitialized, Reached, Listed, Complete,
          CompletionReported
<1>2. CASE ~complete /\ initialized /\ key \in initialKeys
  <2> DEFINE all == completedKeys \cup {key}
  <2>1. /\ completedKeys' = all /\ UNCHANGED <<initialKeys, initialized>>
        /\ complete' = (Cardinality(all) >= Cardinality(initialKeys))
        /\ gauge' = (gauge \/ complete')
    BY <1>2 DEF MarkTerminal
  <2>2. all \subseteq initialKeys /\ initialKeys \subseteq Keys /\ all \subseteq reached
    BY <1>2 DEF TrackerInv, TypeOK, Reached
  <2>3. IsFiniteSet(initialKeys)
    BY <2>2, KeysAssumption, FS_Subset
  <2>4. complete' => all = initialKeys
    <3>1. /\ IsFiniteSet(all) /\ Cardinality(all) <= Cardinality(initialKeys)
          /\ Cardinality(initialKeys) = Cardinality(all) => initialKeys = all
      BY <2>2, <2>3, FS_Subset
    <3>2. Cardinality(all) \in Nat /\ Cardinality(initialKeys) \in Nat
      BY <2>3, <3>1, FS_CardinalityType
    <3>3. complete' => Cardinality(all) >= Cardinality(initialKeys)
      BY <2>1
    <3> HIDE DEF all
    <3> QED BY <3>1, <3>2, <3>3
  <2>5. gauge = FALSE
    BY <1>2 DEF TrackerInv, CompletionReported, TypeOK
  <2> HIDE DEF all
  <2>6. complete' \in BOOLEAN /\ gauge' = complete'
    <3>1. complete' \in BOOLEAN
      BY <2>1
    <3> QED BY <2>1, <2>5, <3>1
  <2> QED BY <1>2, <2>1, <2>2, <2>4, <2>6
      DEF TrackerInv, TrackerSound, TypeOK, Uninitialized, Listed, Complete, CompletionReported
<1> QED BY <1>1, <1>2
\* The controller starts in such a state.
LEMMA TrackerInit == Init => TrackerInv
<1> SUFFICES ASSUME Init PROVE TrackerInv
  OBVIOUS
<1>1. \A w \in Workers : worker[w] = Idle
  BY DEF Init
<1>2. starter.pc = "check" /\ starter \in Starters
  BY DEF Init, Starters
<1>3. TypeOK
  <2>1. worker \in [Workers -> Busy \cup {Idle}]
    BY DEF Init
  <2>2. changes \in 0..MaxChanges /\ failures \in 0..MaxFailures
    BY BoundsAssumption DEF Init
  <2> QED BY <1>1, <1>2, <2>1, <2>2 DEF Init, TypeOK
<1> QED BY <1>1, <1>2, <1>3
    DEF Init, TrackerInv, Uninitialized, Reached, Listed, Complete, Started, CompletionReported

\* The runnable: also a listing that took long holds the mappings that were there and stayed.
LEMMA StarterStep ==
  ASSUME TrackerInv, Starter
  PROVE  TrackerInv'
<1>1. CASE StartCheck
  <2>1. starter' \in Starters /\ starter'.pc = IF initialized THEN "gauge" ELSE "list"
    BY <1>1 DEF StartCheck, StarterGoes, Starters
  <2>2. TypeOK'
    BY <1>1, <2>1 DEF StartCheck, TrackerInv, TypeOK, cluster, tracker, history
  <2>3. Started' /\ CompletionReported'
    BY <1>1, <2>1 DEF StartCheck, TrackerInv, Started, CompletionReported, tracker, history
  <2>4. Listed'
    BY <1>1, <2>1 DEF StartCheck, TrackerInv, Listed, cluster, tracker, history
  <2> QED BY <1>1, <2>2, <2>3, <2>4
      DEF StartCheck, TrackerInv, Uninitialized, Reached, Complete, tracker, history
<1>2. CASE StartList
  <2>1. failures' \in 0..MaxFailures
    BY <1>2, BoundsAssumption DEF StartList, Works, Fails, TrackerInv, TypeOK
  <2>2. \/ starter'.pc = "lock" /\ starter'.keys = mappings /\ failed' = failed
        \/ starter'.pc = "done" /\ starter'.keys = {} /\ failed' = failed \cup {"startup"}
    BY <1>2 DEF StartList, StarterGoes
  <2>3. starter' \in Starters
    BY <1>2 DEF StartList, StarterGoes, Starters, TrackerInv, TypeOK
  <2>4. TypeOK'
    BY <1>2, <2>1, <2>2, <2>3 DEF StartList, TrackerInv, TypeOK, cluster, tracker
  <2>5. Started' /\ CompletionReported'
    BY <1>2, <2>2 DEF StartList, TrackerInv, Started, CompletionReported, tracker
  <2>6. Listed'
    BY <1>2, <2>2 DEF StartList, TrackerInv, Listed, cluster, tracker
  <2> QED BY <1>2, <2>4, <2>5, <2>6
      DEF StartList, TrackerInv, Uninitialized, Reached, Complete, tracker
<1>3. CASE StartLock
  <2>1. starter.keys \in SUBSET Keys /\ original \subseteq starter.keys
    BY <1>3 DEF StartLock, TrackerInv, TypeOK, Starters, Listed
  <2>2. starter' \in Starters /\ starter'.pc = "gauge"
    BY <1>3 DEF StartLock, StarterGoes, Starters
  <2>3. TrackerSound' /\ initialized'
    BY <1>3, <2>1, <2>2, InitializeSound DEF StartLock, history
  <2>4. TypeOK'
    BY <1>3, <2>2, <2>3 DEF StartLock, TrackerInv, TrackerSound, TypeOK, cluster, history
  <2>5. Listed'
    BY <1>3, <2>2, <2>3 DEF StartLock, TrackerInv, TrackerSound, Listed, cluster, history
  <2>6. Reached'
    BY <1>3, <2>3 DEF StartLock, TrackerInv, TrackerSound, Reached, history
  <2> QED BY <2>3, <2>4, <2>5, <2>6 DEF TrackerInv, TrackerSound, Started
<1>4. CASE StartGauge
  <2>1. starter' \in Starters /\ starter'.pc = "done"
    BY <1>4 DEF StartGauge, StarterGoes, Starters
  <2>2. gauge' \in BOOLEAN
    BY <1>4 DEF StartGauge
  <2>3. TypeOK'
    BY <1>4, <2>1, <2>2 DEF StartGauge, TrackerInv, TypeOK, cluster, tracker, history
  <2>4. Started'
    BY <1>4, <2>1 DEF StartGauge, TrackerInv, Started, tracker, history
  <2>5. CompletionReported' /\ Uninitialized'
    BY <1>4, <2>1
       DEF StartGauge, TrackerInv, CompletionReported, Uninitialized, TypeOK, tracker, history
  <2>6. Listed'
    BY <1>4, <2>1 DEF StartGauge, TrackerInv, Listed, cluster, tracker, history
  <2> QED BY <1>4, <2>3, <2>4, <2>5, <2>6
      DEF StartGauge, TrackerInv, Reached, Complete, tracker, history
<1> QED BY <1>1, <1>2, <1>3, <1>4 DEF Starter

\* The end of a reconcile, with the fallback's own listing.
LEMMA MarkStep ==
  ASSUME TrackerInv, NEW w \in Workers, markInitialTerminal(w)
  PROVE  TrackerInv'
<1>1. worker[w] # Idle /\ worker[w] \in Busy
  BY DEF markInitialTerminal, MarkCheck, FallbackList, FallbackLock, Mark, TrackerInv, TypeOK
<1>2. TypeOK
  BY DEF TrackerInv
<1>3. CASE MarkCheck(w)
  <2>1. PICK pc \in {"mark", "list"} : WorkerGoes(w, pc)
    BY <1>3 DEF MarkCheck
  <2>2. /\ worker' \in [Workers -> Busy \cup {Idle}]
        /\ \A v \in Workers \ {w} : worker'[v] = worker[v]
        /\ worker'[w] # Idle /\ worker'[w].pc = pc /\ worker'[w].key = worker[w].key
        /\ \A u, v \in Workers : worker'[u] # Idle /\ worker'[v] # Idle /\ u # v
                                  => worker'[u].key # worker'[v].key
    BY <1>1, <1>2, <2>1, WorkerMoves
  <2>3. TypeOK'
    BY <1>3, <2>2 DEF MarkCheck, TrackerInv, TypeOK, cluster, tracker, history
  <2>4. Listed'
    BY <1>3, <2>2 DEF MarkCheck, TrackerInv, Listed, cluster, tracker, history
  <2>5. Reached'
    BY <1>1, <1>3, <2>2 DEF MarkCheck, TrackerInv, Reached, tracker, history
  <2> QED BY <1>3, <2>3, <2>4, <2>5
      DEF MarkCheck, TrackerInv, Uninitialized, Complete, Started, CompletionReported, tracker,
          history
<1>4. CASE FallbackList(w)
  <2>1. failures' \in 0..MaxFailures /\ failed' \in {failed, failed \cup {"fallback"}}
    BY <1>4, BoundsAssumption DEF FallbackList, Works, Fails, TrackerInv, TypeOK
  <2>2. PICK pc \in {"lock", "mark"} :
          \/ pc = "lock" /\ worker' = [worker EXCEPT ![w].pc = pc, ![w].keys = informer]
          \/ pc = "mark" /\ WorkerGoes(w, pc)
    BY <1>4 DEF FallbackList
  <2>3. informer \in SUBSET Keys
    BY <1>2 DEF TypeOK
  <2>4. /\ worker' \in [Workers -> Busy \cup {Idle}]
        /\ \A v \in Workers \ {w} : worker'[v] = worker[v]
        /\ worker'[w] # Idle /\ worker'[w].pc = pc /\ worker'[w].key = worker[w].key
        /\ \A u, v \in Workers : worker'[u] # Idle /\ worker'[v] # Idle /\ u # v
                                  => worker'[u].key # worker'[v].key
    <3>1. WorkerGoes(w, pc) \/ worker' = [worker EXCEPT ![w].pc = pc, ![w].keys = informer]
      BY <2>2
    <3>2. pc \in {"check", "list", "lock", "mark"}
      OBVIOUS
    <3> QED BY <1>1, <1>2, <2>3, <3>1, <3>2, WorkerMoves
  <2>5. worker'[w].pc = "lock" => worker'[w].keys = informer
    <3> SUFFICES ASSUME pc = "lock" PROVE worker'[w].keys = informer
      BY <2>4
    <3>1. worker'[w] = [worker[w] EXCEPT !.pc = pc, !.keys = informer]
      BY <1>2, <2>2 DEF TypeOK
    <3> QED BY <1>1, <3>1 DEF Busy
  <2>6. TypeOK'
    BY <1>4, <2>1, <2>4 DEF FallbackList, TrackerInv, TypeOK, cluster, tracker
  <2>7. Listed'
    BY <1>4, <2>4, <2>5 DEF FallbackList, TrackerInv, Listed, cluster, tracker
  <2>8. Reached'
    BY <1>1, <1>4, <2>4 DEF FallbackList, TrackerInv, Reached, tracker
  <2> QED BY <1>4, <2>1, <2>6, <2>7, <2>8
      DEF FallbackList, TrackerInv, Uninitialized, Complete, Started, CompletionReported, tracker
<1>5. CASE FallbackLock(w)
  <2>1. worker[w].keys \in SUBSET Keys /\ original \subseteq worker[w].keys
    BY <1>1, <1>5 DEF FallbackLock, Busy, TrackerInv, Listed
  <2>2. TrackerSound' /\ initialized'
    BY <1>5, <2>1, InitializeSound DEF FallbackLock, history
  <2>3. WorkerGoes(w, "mark")
    BY <1>5 DEF FallbackLock
  <2>4. /\ worker' \in [Workers -> Busy \cup {Idle}]
        /\ \A v \in Workers \ {w} : worker'[v] = worker[v]
        /\ worker'[w] # Idle /\ worker'[w].pc = "mark" /\ worker'[w].key = worker[w].key
        /\ \A u, v \in Workers : worker'[u] # Idle /\ worker'[v] # Idle /\ u # v
                                  => worker'[u].key # worker'[v].key
    BY <1>1, <1>2, <2>3, WorkerMoves
  <2>5. TypeOK'
    BY <1>5, <2>2, <2>4 DEF FallbackLock, TrackerInv, TrackerSound, TypeOK, cluster, history
  <2>6. Listed'
    BY <1>5, <2>2, <2>4 DEF FallbackLock, TrackerInv, TrackerSound, Listed, cluster, history
  <2>7. Reached'
    BY <1>1, <1>5, <2>2, <2>4 DEF FallbackLock, TrackerInv, TrackerSound, Reached, history
  <2> QED BY <1>5, <2>2, <2>5, <2>6, <2>7 DEF TrackerInv, TrackerSound, Started
<1>6. CASE Mark(w)
  <2>1. worker[w].key \in Keys /\ worker[w].key \in reached
    BY <1>1 DEF Busy, TrackerInv, Reached
  <2>2. TrackerSound' /\ initialized' = initialized
    BY <1>6, <2>1, MarkSound DEF Mark, history
  <2>3. worker' = [worker EXCEPT ![w] = Idle]
    BY <1>6 DEF Mark
  <2>4. /\ worker' \in [Workers -> Busy \cup {Idle}]
        /\ \A v \in Workers : worker'[v] = Idle \/ worker'[v] = worker[v]
    BY <1>2, <2>3 DEF TypeOK
  <2>5. queue' \subseteq Keys
    BY <1>2, <1>6, <2>1 DEF Mark, TypeOK
  <2>6. TypeOK'
    BY <1>6, <2>2, <2>4, <2>5 DEF Mark, TrackerInv, TrackerSound, TypeOK, history
  <2>7. Listed'
    BY <1>6, <2>2, <2>4 DEF Mark, TrackerInv, TrackerSound, Listed, history
  <2>8. Reached'
    BY <1>6, <2>2, <2>4 DEF Mark, TrackerInv, TrackerSound, Reached, history
  <2> QED BY <1>6, <2>2, <2>6, <2>7, <2>8 DEF Mark, TrackerInv, TrackerSound, Started, history
<1> QED BY <1>3, <1>4, <1>5, <1>6 DEF markInitialTerminal
\* A reconcile up to its terminal outcome.
LEMMA ReconcileStep ==
  ASSUME TrackerInv, NEW w \in Workers, NEW key \in Keys, Reconcile(w, key)
  PROVE  TrackerInv'
<1>1. worker[w] = Idle /\ key \in queue /\ \A v \in Workers : worker[v] # Idle => worker[v].key # key
  BY DEF Reconcile, Takes
<1>2. UNCHANGED <<informer, initialKeys, completedKeys, initialized, complete, gauge, starter, failed>>
  BY DEF Reconcile, tracker
<1>3. CASE \E requeue \in BOOLEAN : Ends(w, key, requeue)
  <2>1. PICK requeue \in BOOLEAN : Ends(w, key, requeue)
    BY <1>3
  <2> DEFINE b == [pc |-> "check", key |-> key, keys |-> {}, requeue |-> requeue]
  <2>2. b \in Busy /\ b # Idle /\ b.key = key /\ b.pc = "check"
    BY BusyIsNotIdle DEF Busy
  <2>3. worker' = [worker EXCEPT ![w] = b] /\ worker \in [Workers -> Busy \cup {Idle}]
    BY <2>1 DEF Ends, TrackerInv, TypeOK
  <2> HIDE DEF b
  <2>4. /\ worker' \in [Workers -> Busy \cup {Idle}] /\ worker'[w] = b
        /\ \A v \in Workers \ {w} : worker'[v] = worker[v]
    BY <2>2, <2>3
  <2>5. \A u, v \in Workers : worker'[u] # Idle /\ worker'[v] # Idle /\ u # v
                               => worker'[u].key # worker'[v].key
    BY <1>1, <2>2, <2>4 DEF TrackerInv, TypeOK
  <2>6. queue' = queue \ {key} /\ reached' = reached \cup {key} /\ failures' = failures
    BY <2>1 DEF Ends, Works
  <2>7. /\ mappings' \subseteq Keys /\ events' \subseteq Keys /\ changes' \in 0..MaxChanges
        /\ original' \subseteq original /\ original' \subseteq mappings'
    <3>1. CASE UNCHANGED <<mappings, events, changes, original>>
      BY <3>1 DEF TrackerInv, TypeOK, Listed
    <3>2. CASE /\ changes < MaxChanges /\ changes' = changes + 1
               /\ mappings' = mappings \ {key} /\ events' = events \cup {key}
               /\ original' = original \ {key}
      <4>1. changes' \in 0..MaxChanges
        BY <3>2, BoundsAssumption DEF TrackerInv, TypeOK
      <4> QED BY <3>2, <4>1 DEF TrackerInv, TypeOK, Listed
    <3>3. UNCHANGED <<mappings, events, changes, original>>
            \/ /\ changes < MaxChanges /\ changes' = changes + 1
               /\ mappings' = mappings \ {key} /\ events' = events \cup {key}
               /\ original' = original \ {key}
      BY DEF Reconcile
    <3> QED BY <3>1, <3>2, <3>3
  <2>8. TypeOK'
    BY <1>2, <2>4, <2>5, <2>6, <2>7 DEF TrackerInv, TypeOK
  <2>9. Reached' /\ Listed'
    BY <1>2, <2>2, <2>4, <2>6, <2>7 DEF TrackerInv, Reached, Listed
  <2> QED BY <1>2, <2>8, <2>9
      DEF TrackerInv, Uninitialized, Complete, Started, CompletionReported
<1>4. CASE Fails /\ UNCHANGED <<mappings, events, queue, worker, changes, original, reached>>
  <2>1. failures' \in 0..MaxFailures
    BY <1>4, BoundsAssumption DEF Fails, TrackerInv, TypeOK
  <2>2. TypeOK'
    BY <1>2, <1>4, <2>1 DEF TrackerInv, TypeOK
  <2> QED BY <1>2, <1>4, <2>2
      DEF TrackerInv, Uninitialized, Reached, Listed, Complete, Started, CompletionReported
<1> QED BY <1>3, <1>4 DEF Reconcile

\* Users create and delete mappings, and the informer follows.
LEMMA ClusterStep ==
  ASSUME TrackerInv, NEW key \in Keys, Created(key) \/ Deleted(key) \/ CatchUp(key)
  PROVE  TrackerInv'
<1>1. CASE Created(key) \/ Deleted(key)
  <2>1. PICK new \in {mappings \cup {key}, mappings \ {key}} : Change(new, key)
    BY <1>1 DEF Created, Deleted
  <2>2. changes' \in 0..MaxChanges
    BY <2>1, BoundsAssumption DEF Change, TrackerInv, TypeOK
  <2>3. TypeOK'
    BY <2>1, <2>2 DEF Change, TrackerInv, TypeOK, tracker
  <2>4. Listed'
    BY <2>1 DEF Change, TrackerInv, Listed, tracker
  <2> QED BY <2>1, <2>3, <2>4
      DEF Change, TrackerInv, Uninitialized, Reached, Complete, Started, CompletionReported, tracker
<1>2. CASE CatchUp(key)
  <2>1. TypeOK'
    BY <1>2 DEF CatchUp, TrackerInv, TypeOK, tracker, history
  <2>2. Listed'
    BY <1>2 DEF CatchUp, TrackerInv, Listed, tracker, history
  <2> QED BY <1>2, <2>1, <2>2
      DEF CatchUp, TrackerInv, Uninitialized, Reached, Complete, Started, CompletionReported,
          tracker, history
<1> QED BY <1>1, <1>2

\* Every step keeps the invariant.
LEMMA TrackerStep == TrackerInv /\ [Next]_vars => TrackerInv'
<1> SUFFICES ASSUME TrackerInv, [Next]_vars PROVE TrackerInv'
  OBVIOUS
<1>1. CASE Next
  BY <1>1, StarterStep, MarkStep, ReconcileStep, ClusterStep DEF Next
<1>2. CASE UNCHANGED vars
  <2>1. TypeOK'
    BY <1>2 DEF TrackerInv, TypeOK, vars, cluster, tracker, history
  <2> QED BY <1>2, <2>1
      DEF TrackerInv, Uninitialized, Reached, Listed, Complete, Started, CompletionReported, vars,
          cluster, tracker, history
<1> QED BY <1>1, <1>2
-------------------------------------------------------------------------------
(***************************************************************************)
(* The theorems.                                                           *)
(***************************************************************************)

\* The tracker's state stays well typed: completed keys are initial ones and no two workers
\* have the same mapping.
THEOREM TypeCorrect == Spec => []TypeOK
<1>1. TrackerInv => TypeOK
  BY DEF TrackerInv
<1> QED BY <1>1, TrackerInit, TrackerStep, PTL DEF Spec

\* Whichever of the concurrent listings wins, and whatever is created, deleted or fails
\* meanwhile: when the initial reconcile is complete, every mapping that was there at the start
\* and stayed, and every one that was listed, has been reconciled to the end or found gone.
THEOREM CompletionIsReal == Spec => []CompleteMeansReconciled
<1>1. TrackerInv => CompleteMeansReconciled
  BY DEF TrackerInv, CompleteMeansReconciled, Complete, Reached, Listed, Uninitialized, TypeOK
<1> QED BY <1>1, TrackerInit, TrackerStep, PTL DEF Spec

\* The gauge is never set early; it is missing only for an empty startup set that the runnable
\* has yet to report, or cannot report since its own listing failed.
THEOREM CompletionIsReported == Spec => []CompletionReported
<1>1. TrackerInv => CompletionReported
  BY DEF TrackerInv
<1> QED BY <1>1, TrackerInit, TrackerStep, PTL DEF Spec
===============================================================================
