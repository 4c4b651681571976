--------------------------- MODULE DesiredStateCache ---------------------------
(***************************************************************************)
(* engine.DesiredStateCache: the mapping-scoped cache of desired state.    *)
(* Every method takes the cache's mutex, so every method is one step.      *)
(*                                                                         *)
(* A full recomputation happens outside the mutex: GetWithVersion hands    *)
(* out the fences (mutation version and lifecycle epoch), the pods are     *)
(* listed, and SetFromRecomputeArtifactsIfVersion publishes the result     *)
(* only if the fences have not moved.  recompute[w] is such a ticket, kept *)
(* by the reconcile worker w between the two calls.                        *)
(***************************************************************************)
EXTENDS DesiredState

CONSTANTS
  Keys,        \* PodASGMapping namespaced names
  Namespaces,
  NsOf,        \* NsOf[k]: the namespace of key k
  Gens,        \* metadata.generation values; the API server counts from 1
  UIDs,        \* incarnations of a mapping object
  Workers,     \* reconcile workers
  NoEntry,     \* absent cache entry
  NoTicket,    \* no recomputation under way
  MaxVersion   \* bound on the version counters of a key

ASSUME NsAssumption == NsOf \in [Keys -> Namespaces]
ASSUME GensAssumption == Gens \subseteq Nat \ {0}
ASSUME NoEntryAssumption == NoEntry \notin [uid : UIDs, state : Contents]
ASSUME BoundAssumption == MaxVersion \in Nat

VARIABLES
  entries,          \* entries[k][g]: the cached state of generation g, or NoEntry
  keyVersions,      \* per-key mutation version
  namespaceEpoch,   \* per-namespace fence bumped by InvalidateNamespace
  lifecycleEpoch,   \* per-key fence bumped by Delete
  knownGenerations, \* generations committed for a key since its last Delete
  latestGeneration, \* highest of them; 0 stands for an absent map entry
  recompute,        \* recompute[w]: the ticket worker w holds, or NoTicket
  spoilt            \* history: the workers whose key was touched since they took their
                    \* ticket.  No action reads it; the properties compare it with the fences

fences == <<keyVersions, namespaceEpoch, lifecycleEpoch>>
generations == <<knownGenerations, latestGeneration>>
cacheVars == <<entries, keyVersions, namespaceEpoch, lifecycleEpoch,
               knownGenerations, latestGeneration, recompute, spoilt>>

\* What the cache reads of a PodASGMapping object.
Mappings == [key : Keys, gen : Gens, uid : UIDs, spec : Specs]
Tickets == [key : Keys, gen : Gens, uid : UIDs, spec : Specs, version : Nat, epoch : Nat]
Entries == [uid : UIDs, state : Contents]

ASSUME NoTicketAssumption ==
  NoTicket \notin Tickets /\ NoTicket \notin [key : Keys, gen : Gens, uid : UIDs]

CacheInit ==
  /\ entries = [k \in Keys |-> [g \in Gens |-> NoEntry]]
  /\ keyVersions = [k \in Keys |-> 0]
  /\ namespaceEpoch = [n \in Namespaces |-> 0]
  /\ lifecycleEpoch = [k \in Keys |-> 0]
  /\ knownGenerations = [k \in Keys |-> {}]
  /\ latestGeneration = [k \in Keys |-> 0]
  /\ recompute = [w \in Workers |-> NoTicket]
  /\ spoilt = {}

HasEntry(m) == entries[m.key][m.gen] # NoEntry
NoEntries == [g \in Gens |-> NoEntry]

\* The cached contents for mapping m, and their replacement by c.
Stored(m) == entries[m.key][m.gen].state
Amend(m, c) ==
  entries' = [entries EXCEPT ![m.key] =
    [g \in Gens |-> IF g = m.gen THEN [uid |-> entries[m.key][g].uid, state |-> c]
                    ELSE entries[m.key][g]]]

\* The mutation fence: a key's version plus its namespace's epoch.  Mutant: the
\* namespace epoch is left out.
VersionWithoutNamespace(k) == keyVersions[k]
Version(k) == keyVersions[k] + namespaceEpoch[NsOf[k]]

BumpVersion(k) == keyVersions' = [keyVersions EXCEPT ![k] = @ + 1]

\* History: something happens to the keys K.
Spoil(K) == spoilt' = spoilt \cup {w \in Workers : recompute[w] # NoTicket /\ recompute[w].key \in K}
-------------------------------------------------------------------------------
(***************************************************************************)
(* Pod events.  Each one advances the version, entry or no entry.          *)
(***************************************************************************)

\* Mutant: the version is bumped only when there is an entry to amend.
OnPodAddBumpOnHit(m, pod) ==
  /\ IF HasEntry(m)
     THEN /\ Amend(m, AddPod(m.spec, Stored(m), pod))
          /\ BumpVersion(m.key)
     ELSE UNCHANGED <<entries, keyVersions>>
  /\ Spoil({m.key})
  /\ UNCHANGED <<namespaceEpoch, lifecycleEpoch, generations, recompute>>

OnPodAdd(m, pod) ==
  /\ BumpVersion(m.key)
  /\ IF HasEntry(m) THEN Amend(m, AddPod(m.spec, Stored(m), pod)) ELSE UNCHANGED entries
  /\ Spoil({m.key})
  /\ UNCHANGED <<namespaceEpoch, lifecycleEpoch, generations, recompute>>

OnPodDelete(m, pod) ==
  /\ BumpVersion(m.key)
  /\ IF HasEntry(m) THEN Amend(m, DeletePod(m.spec, Stored(m), pod)) ELSE UNCHANGED entries
  /\ Spoil({m.key})
  /\ UNCHANGED <<namespaceEpoch, lifecycleEpoch, generations, recompute>>

\* The return value: FALSE asks the caller to invalidate, because only another
\* generation has an entry.
OnPodUpdateApplies(m) == HasEntry(m) \/ entries[m.key] = NoEntries

OnPodUpdate(m, old, new) ==
  /\ BumpVersion(m.key)
  /\ IF HasEntry(m) THEN Amend(m, UpdatePod(m.spec, Stored(m), old, new)) ELSE UNCHANGED entries
  /\ Spoil({m.key})
  /\ UNCHANGED <<namespaceEpoch, lifecycleEpoch, generations, recompute>>
-------------------------------------------------------------------------------
(***************************************************************************)
(* Invalidation and terminal cleanup.                                      *)
(***************************************************************************)
Invalidate(k) ==
  /\ BumpVersion(k)
  /\ entries' = [entries EXCEPT ![k] = NoEntries]
  /\ Spoil({k})
  /\ UNCHANGED <<namespaceEpoch, lifecycleEpoch, generations, recompute>>

InvalidateNamespace(n) ==
  /\ namespaceEpoch' = [namespaceEpoch EXCEPT ![n] = @ + 1]
  /\ keyVersions' = [k \in Keys |->
                       IF NsOf[k] = n
                       THEN keyVersions[k] + Cardinality({g \in Gens : entries[k][g] # NoEntry})
                       ELSE keyVersions[k]]
  /\ entries' = [k \in Keys |-> IF NsOf[k] = n THEN NoEntries ELSE entries[k]]
  /\ Spoil({k \in Keys : NsOf[k] = n})
  /\ UNCHANGED <<lifecycleEpoch, generations, recompute>>

\* Mutant: terminal cleanup drops the generation history but not the entries.
DeleteKeepsEntries(k) ==
  /\ lifecycleEpoch' = [lifecycleEpoch EXCEPT ![k] = @ + 1]
  /\ BumpVersion(k)
  /\ knownGenerations' = [knownGenerations EXCEPT ![k] = {}]
  /\ latestGeneration' = [latestGeneration EXCEPT ![k] = 0]
  /\ Spoil({k})
  /\ UNCHANGED <<entries, namespaceEpoch, recompute>>

Delete(k) ==
  /\ lifecycleEpoch' = [lifecycleEpoch EXCEPT ![k] = @ + 1]
  /\ BumpVersion(k)
  /\ entries' = [entries EXCEPT ![k] = NoEntries]
  /\ knownGenerations' = [knownGenerations EXCEPT ![k] = {}]
  /\ latestGeneration' = [latestGeneration EXCEPT ![k] = 0]
  /\ Spoil({k})
  /\ UNCHANGED <<namespaceEpoch, recompute>>
-------------------------------------------------------------------------------
(***************************************************************************)
(* Lookup, fences and compare-and-set publication.                         *)
(***************************************************************************)

\* Get's hit condition: generation and incarnation both match.
Hit(m) == HasEntry(m) /\ entries[m.key][m.gen].uid = m.uid

\* GetWithVersion as the start of a recomputation by worker w.
GetWithVersion(w, m) ==
  /\ recompute' = [recompute EXCEPT ![w] =
        [key |-> m.key, gen |-> m.gen, uid |-> m.uid, spec |-> m.spec,
         version |-> Version(m.key), epoch |-> lifecycleEpoch[m.key]]]
  /\ spoilt' = spoilt \ {w}
  /\ UNCHANGED <<entries, fences, generations>>

\* The four guards of a publication.  Mutants: only the lifecycle epoch is compared;
\* any generation may publish.
FencesHoldEpochOnly(tk) == tk.epoch = lifecycleEpoch[tk.key]
FencesHold(tk) == tk.version = Version(tk.key) /\ tk.epoch = lifecycleEpoch[tk.key]
UIDGuard(tk) == entries[tk.key][tk.gen] # NoEntry => entries[tk.key][tk.gen].uid = tk.uid
GenerationGuardNone(tk) == TRUE
GenerationGuard(tk) == tk.gen >= latestGeneration[tk.key]
Publishable(tk) == FencesHold(tk) /\ UIDGuard(tk) /\ GenerationGuard(tk)

\* SetFromRecomputeArtifactsIfVersion, committed: the entry is stored, and a newer
\* generation prunes the entries of the older ones.
Publish(w, arts) ==
  LET tk == recompute[w]
      newer == tk.gen > latestGeneration[tk.key]
      kept(g) == IF newer /\ g < tk.gen THEN NoEntry ELSE entries[tk.key][g]
  IN  /\ tk # NoTicket
      /\ Publishable(tk)
      /\ entries' = [entries EXCEPT ![tk.key] =
           [g \in Gens |-> IF g = tk.gen THEN [uid |-> tk.uid, state |-> arts] ELSE kept(g)]]
      /\ knownGenerations' = [knownGenerations EXCEPT ![tk.key] = @ \cup {tk.gen}]
      /\ latestGeneration' = [latestGeneration EXCEPT ![tk.key] = IF newer THEN tk.gen ELSE @]
      /\ recompute' = [recompute EXCEPT ![w] = NoTicket]
      /\ UNCHANGED <<fences, spoilt>>

\* SetFromRecomputeArtifactsIfVersion, rejected.
PublishRejected(w) ==
  /\ recompute[w] # NoTicket
  /\ ~Publishable(recompute[w])
  /\ recompute' = [recompute EXCEPT ![w] = NoTicket]
  /\ spoilt' = spoilt \ {w}
  /\ UNCHANGED <<entries, fences, generations>>

\* The worker returns from Reconcile without publishing.
AbandonRecompute(w) ==
  /\ recompute[w] # NoTicket
  /\ recompute' = [recompute EXCEPT ![w] = NoTicket]
  /\ spoilt' = spoilt \ {w}
  /\ UNCHANGED <<entries, fences, generations>>
-------------------------------------------------------------------------------
(***************************************************************************)
(* The cache on its own: any caller, any order.  MaxVersion bounds the     *)
(* counters; no method of the cache looks at it.                           *)
(***************************************************************************)
Room(k) == Version(k) < MaxVersion /\ lifecycleEpoch[k] < MaxVersion

PodEvent ==
  \E m \in Mappings : \E pod \in PodObjects :
    /\ Room(m.key)
    /\ \/ OnPodAdd(m, pod)
       \/ OnPodDelete(m, pod)
       \/ \E new \in PodObjects : OnPodUpdate(m, pod, new)

Cleanup ==
  \/ \E k \in Keys : Room(k) /\ (Invalidate(k) \/ Delete(k))
  \/ \E n \in Namespaces : /\ namespaceEpoch[n] < MaxVersion
                           /\ \A k \in Keys : NsOf[k] = n => Room(k)
                           /\ InvalidateNamespace(n)

Recomputation ==
  \E w \in Workers :
    \/ \E m \in Mappings : GetWithVersion(w, m)
    \/ \E pods \in PodLists : recompute[w] # NoTicket /\ Publish(w, Artifacts(recompute[w].spec, pods))
    \/ PublishRejected(w)
    \/ AbandonRecompute(w)

CacheNext == PodEvent \/ Cleanup \/ Recomputation

CacheSpec == CacheInit /\ [][CacheNext]_cacheVars
-------------------------------------------------------------------------------
\* Types of the cache's maps (desired_state_cache.go:24-57), a part of the type invariant of
\* PodCacheSystem.
CacheTypeOK ==
  /\ entries \in [Keys -> [Gens -> Entries \cup {NoEntry}]]
  /\ keyVersions \in [Keys -> Nat]
  /\ namespaceEpoch \in [Namespaces -> Nat]
  /\ lifecycleEpoch \in [Keys -> Nat]
  /\ knownGenerations \in [Keys -> SUBSET Gens]
  /\ latestGeneration \in [Keys -> Nat]
  /\ recompute \in [Workers -> Tickets \cup {NoTicket}]
  /\ spoilt \subseteq Workers

\* The cache never serves a superseded spec: whatever pod events, invalidations and
\* racing publications happen, the only generation of a key that can have an entry is
\* the newest one committed since the key's last Delete
\* (desired_state_cache.go, generation-rollover guard and pruning).
NewestGenerationOnly ==
  \A k \in Keys : \A g \in Gens :
    entries[k][g] # NoEntry => /\ g = latestGeneration[k]
                               /\ g \in knownGenerations[k]
                               /\ \A h \in knownGenerations[k] : h <= g

\* The fences are exact: a recomputation sees its version and its epoch unmoved if
\* and only if nothing touched its key since it captured them (GetWithVersion and
\* SetFromRecomputeArtifactsIfVersion), so no two touches cancel out and none, not
\* even the invalidation of a namespace in which the key has no entry, goes unseen.
FencesExact ==
  \A w \in Workers : recompute[w] # NoTicket => (FencesHold(recompute[w]) <=> w \notin spoilt)

\* The transactions and the published states of OptimisticPublish, read off the cache.
Transaction(tk) == IF tk = NoTicket THEN NoTicket
                   ELSE [key |-> tk.key, gen |-> tk.gen, uid |-> tk.uid]
Held(row) == {<<g, row[g].uid>> : g \in {h \in Gens : row[h] # NoEntry}}

\* The cache implements the optimistic protocol of OptimisticPublish: a recomputation
\* is published only if nothing touched its key meanwhile, and a publication leaves
\* one state for its key.
Abstract == INSTANCE OptimisticPublish WITH
  txn <- [w \in Workers |-> Transaction(recompute[w])],
  held <- [k \in Keys |-> Held(entries[k])]

ImplementsOptimisticPublish == Abstract!Spec
================================================================================
