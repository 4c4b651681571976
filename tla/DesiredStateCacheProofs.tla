------------------------ MODULE DesiredStateCacheProofs ------------------------
(***************************************************************************)
(* What the desired-state cache guarantees for every set of keys,          *)
(* namespaces, generations, workers, pods and rules.                       *)
(*                                                                         *)
(* CacheInv is the inductive invariant.  NewestGenerationOnly alone is not *)
(* inductive: a publication for the newest generation is safe only because *)
(* no committed generation is above it, entry or no entry                  *)
(* (LatestIsNewest).  FencesExact alone is not inductive either: a touch   *)
(* must never bring a version back to a value that some ticket still       *)
(* holds, which is what TicketsBehind says.                                *)
(***************************************************************************)
EXTENDS DesiredStateCache, FiniteSetTheorems, TLAPS

\* The contents of an entry computed from a pod list are well typed
\* (ComputeDesiredStateRecomputeArtifacts).
LEMMA ArtifactsType ==
  ASSUME NEW s \in Specs, NEW pods \in PodLists
  PROVE  Artifacts(s, pods) \in Contents
<1> DEFINE matched == Matching(s, pods)
           ids == {p.id : p \in matched}
           PodOf(id) == CHOOSE p \in matched : p.id = id
<1>1. IsFiniteSet(pods) /\ pods \subseteq PodObjects
  BY DEF PodLists
<1>2. \A id \in ids : PodOf(id) \in PodObjects
  BY <1>1 DEF Matching
<1>3. ids \subseteq PodIDs
  BY <1>1 DEF Matching, PodObjects
<1>4. DesiredOf(s, pods) \in [Targets -> SUBSET CIDRs]
  BY <1>1 DEF DesiredOf, WithIP, CIDRs, PodObjects
<1>5. [id \in PodIDs |-> IF id \in ids THEN PodOf(id).ip ELSE NoIP] \in [PodIDs -> IPs \cup {NoIP}]
  BY <1>2 DEF PodObjects
<1>6. [i \in Rules |-> Cardinality({p \in pods : i \in matchPodToRuleIndices(s, p)})]
        \in [Rules -> Nat]
  <2>1. \A i \in Rules : Cardinality({p \in pods : i \in matchPodToRuleIndices(s, p)}) \in Nat
    <3> TAKE i \in Rules
    <3>1. IsFiniteSet({p \in pods : i \in matchPodToRuleIndices(s, p)})
      BY <1>1, FS_Subset
    <3> QED BY <3>1, FS_CardinalityType
  <2> QED BY <2>1
<1>7. [id \in PodIDs |-> IF id \in ids THEN matchPodToRuleIndices(s, PodOf(id)) ELSE {}]
        \in [PodIDs -> SUBSET Rules]
  BY DEF matchPodToRuleIndices
<1>8. Cardinality(matched \ WithIP(matched)) \in Nat
  <2>1. IsFiniteSet(matched \ WithIP(matched))
    BY <1>1, FS_Subset DEF Matching
  <2> QED BY <2>1, FS_CardinalityType
<1> QED BY <1>3, <1>4, <1>5, <1>6, <1>7, <1>8 DEF Artifacts, Contents

\* A pod event leaves the contents of an entry well typed (OnPodAdd).
LEMMA AddPodType ==
  ASSUME NEW s \in Specs, NEW c \in Contents, NEW pod \in PodObjects
  PROVE  AddPod(s, c, pod) \in Contents
<1> DEFINE rules == matchPodToRuleIndices(s, pod)
<1>1. rules \subseteq Rules
  BY DEF matchPodToRuleIndices
<1>2. AddedIPs(s, c, pod) \in [Targets -> SUBSET CIDRs]
  BY DEF AddedIPs, Contents, CIDRs, PodObjects
<1>3. [i \in Rules |-> IF i \in rules THEN c.matched[i] + 1 ELSE c.matched[i]] \in [Rules -> Nat]
  BY DEF Contents
<1> QED BY <1>1, <1>2, <1>3 DEF AddPod, Contents, PodObjects

\* The same for OnPodDelete: the counters stop at zero.
LEMMA DeletePodType ==
  ASSUME NEW s \in Specs, NEW c \in Contents, NEW pod \in PodObjects
  PROVE  DeletePod(s, c, pod) \in Contents
<1> DEFINE rules == c.podRules[pod.id] \cup matchPodToRuleIndices(s, pod)
           Less(i) == IF i \in rules /\ c.matched[i] > 0 THEN c.matched[i] - 1 ELSE c.matched[i]
<1>1. [i \in Rules |-> Less(i)] \in [Rules -> Nat]
  BY DEF Contents
<1>2. (IF pod.id \in c.tracked /\ c.snapshot[pod.id] = NoIP /\ c.pending > 0
       THEN c.pending - 1 ELSE c.pending) \in Nat
  BY DEF Contents
<1> HIDE DEF Less
<1> QED BY <1>1, <1>2 DEF DeletePod, Contents, PodObjects, Less

\* The same for OnPodUpdate.
LEMMA UpdatePodType ==
  ASSUME NEW s \in Specs, NEW c \in Contents, NEW old \in PodObjects, NEW new \in PodObjects
  PROVE  UpdatePod(s, c, old, new) \in Contents
<1> DEFINE was == matchPodToRuleIndices(s, old)
           now == matchPodToRuleIndices(s, new)
<1>1. was \subseteq Rules /\ now \subseteq Rules
  BY DEF matchPodToRuleIndices
<1>2. \A t \in Targets : UpdatedIPs(s, c, old, new, t) \in SUBSET CIDRs
  BY DEF UpdatedIPs, Contents, CIDRs, PodObjects
<1>3. [i \in Rules |-> IF i \in now \ was THEN c.matched[i] + 1
                       ELSE IF i \in was \ now /\ c.matched[i] > 0 THEN c.matched[i] - 1
                       ELSE c.matched[i]] \in [Rules -> Nat]
  BY DEF Contents
<1> HIDE DEF was, now
<1>4. UpdatePod(s, c, old, new).pending \in Nat
  BY DEF UpdatePod, Contents
<1> QED BY <1>1, <1>2, <1>3, <1>4 DEF UpdatePod, Contents, PodObjects, was, now
-------------------------------------------------------------------------------
(***************************************************************************)
(* The inductive invariant.                                                *)
(***************************************************************************)
LatestIsNewest == \A k \in Keys : \A h \in knownGenerations[k] : h <= latestGeneration[k]

TicketsBehind ==
  \A w \in Workers : recompute[w] # NoTicket =>
    /\ w \in spoilt => recompute[w].version < Version(recompute[w].key)
    /\ w \notin spoilt => FencesHold(recompute[w])

CacheInv == CacheTypeOK /\ NewestGenerationOnly /\ LatestIsNewest /\ TicketsBehind

\* What every pod event, invalidation and cleanup does to the fences of the keys K it
\* concerns and of the others.
Touched(K) ==
  /\ recompute' = recompute
  /\ Spoil(K)
  /\ \A k \in K \cap Keys : Version(k)' > Version(k)
  /\ \A k \in Keys \ K : Version(k)' = Version(k) /\ lifecycleEpoch'[k] = lifecycleEpoch[k]

\* What it does to the entries: each key keeps its entries, with their incarnation, or
\* is one of K and loses them all.
Kept(k) ==
  \A g \in Gens :
    /\ (entries'[k][g] = NoEntry) <=> (entries[k][g] = NoEntry)
    /\ entries[k][g] # NoEntry => entries'[k][g].uid = entries[k][g].uid

Thinned(K) ==
  \A k \in Keys : Kept(k) \/ (k \in K /\ \A g \in Gens : entries'[k][g] = NoEntry)

\* Versions are numbers.
LEMMA VersionType ==
  ASSUME CacheTypeOK, NEW k \in Keys
  PROVE  Version(k) \in Nat
BY NsAssumption DEF CacheTypeOK, Version

\* A touch keeps every ticket behind the version of its key.
LEMMA TouchedTickets ==
  ASSUME CacheInv, CacheTypeOK', NEW K, Touched(K)
  PROVE  TicketsBehind'
<1> SUFFICES ASSUME NEW w \in Workers, recompute[w] # NoTicket
             PROVE  /\ w \in spoilt' => recompute[w].version < Version(recompute[w].key)'
                    /\ w \notin spoilt' => FencesHold(recompute[w])'
  BY DEF TicketsBehind, Touched, FencesHold
<1> DEFINE tk == recompute[w]
<1>1. tk \in Tickets
  BY DEF CacheInv, CacheTypeOK
<1>2. tk.key \in Keys /\ tk.version \in Nat /\ Version(tk.key) \in Nat
  BY <1>1, VersionType DEF Tickets, CacheInv
<1>2a. Version(tk.key)' \in Nat
  BY <1>2, NsAssumption DEF Touched, CacheTypeOK, Version
<1>3. CASE tk.key \in K
  <2>1. w \in spoilt'
    BY <1>3 DEF Touched, Spoil
  <2>2. tk.version <= Version(tk.key)
    BY <1>2 DEF CacheInv, TicketsBehind, FencesHold
  <2>3. Version(tk.key)' > Version(tk.key)
    BY <1>2, <1>3 DEF Touched
  <2> QED BY <2>1, <2>2, <2>3, <1>2, <1>2a
<1>4. CASE tk.key \notin K
  <2>1. w \in spoilt' <=> w \in spoilt
    BY <1>4 DEF Touched, Spoil
  <2>2. Version(tk.key)' = Version(tk.key) /\ lifecycleEpoch'[tk.key] = lifecycleEpoch[tk.key]
    BY <1>2, <1>4 DEF Touched
  <2>3. recompute' = recompute
    BY DEF Touched
  <2> QED BY <2>1, <2>2, <2>3 DEF CacheInv, TicketsBehind, FencesHold
<1> QED BY <1>3, <1>4

\* The generation history of a key changes only when the key loses its entries.
Forgotten ==
  \A k \in Keys :
    \/ /\ knownGenerations'[k] = knownGenerations[k]
       /\ latestGeneration'[k] = latestGeneration[k]
    \/ /\ knownGenerations'[k] = {}
       /\ \A g \in Gens : entries'[k][g] = NoEntry

\* Such a touch keeps the whole invariant.
LEMMA TouchedInv ==
  ASSUME CacheInv, CacheTypeOK', NEW K, Touched(K), Thinned(K), Forgotten
  PROVE  CacheInv'
<1>1. NewestGenerationOnly'
  <2> SUFFICES ASSUME NEW k \in Keys, NEW g \in Gens, entries'[k][g] # NoEntry
               PROVE  /\ g = latestGeneration'[k]
                      /\ g \in knownGenerations'[k]
                      /\ \A h \in knownGenerations'[k] : h <= g
    BY DEF NewestGenerationOnly
  <2>1. entries[k][g] # NoEntry
    BY DEF Thinned, Kept
  <2>2. knownGenerations'[k] = knownGenerations[k] /\ latestGeneration'[k] = latestGeneration[k]
    BY DEF Forgotten
  <2> QED BY <2>1, <2>2 DEF CacheInv, NewestGenerationOnly
<1>2. LatestIsNewest'
  BY DEF Forgotten, CacheInv, LatestIsNewest
<1>3. TicketsBehind'
  BY TouchedTickets
<1> QED BY <1>1, <1>2, <1>3 DEF CacheInv

\* Bumping one key's version touches that key.
LEMMA BumpTouches ==
  ASSUME CacheInv, NEW k \in Keys, BumpVersion(k), Spoil({k}),
         UNCHANGED <<namespaceEpoch, recompute>>,
         \A j \in Keys \ {k} : lifecycleEpoch'[j] = lifecycleEpoch[j]
  PROVE  keyVersions' \in [Keys -> Nat] /\ spoilt' \subseteq Workers /\ Touched({k})
<1>1. keyVersions \in [Keys -> Nat] /\ namespaceEpoch \in [Namespaces -> Nat] /\ spoilt \subseteq Workers
  BY DEF CacheInv, CacheTypeOK
<1>2. keyVersions' \in [Keys -> Nat] /\ spoilt' \subseteq Workers
  BY <1>1 DEF BumpVersion, Spoil
<1>3. Version(k)' > Version(k)
  BY <1>1, NsAssumption DEF BumpVersion, Version
<1>4. \A j \in Keys \ {k} : Version(j)' = Version(j)
  BY <1>1, NsAssumption DEF BumpVersion, Version
<1> QED BY <1>2, <1>3, <1>4 DEF Touched

\* A pod event amends at most one entry, in place (OnPodAdd, OnPodDelete, OnPodUpdate).
LEMMA PodEventTouches ==
  ASSUME CacheInv, NEW m \in Mappings, NEW c, HasEntry(m) => c \in Contents,
         BumpVersion(m.key), Spoil({m.key}),
         IF HasEntry(m) THEN Amend(m, c) ELSE UNCHANGED entries,
         UNCHANGED <<namespaceEpoch, lifecycleEpoch, generations, recompute>>
  PROVE  CacheTypeOK' /\ Touched({m.key}) /\ Thinned({m.key}) /\ Forgotten
<1>1. m.key \in Keys /\ m.gen \in Gens
  BY DEF Mappings
<1>2. entries \in [Keys -> [Gens -> Entries \cup {NoEntry}]]
  BY DEF CacheInv, CacheTypeOK
<1>3. keyVersions' \in [Keys -> Nat] /\ spoilt' \subseteq Workers /\ Touched({m.key})
  BY <1>1, BumpTouches
<1>4. entries' \in [Keys -> [Gens -> Entries \cup {NoEntry}]] /\ Thinned({m.key})
  <2>1. CASE HasEntry(m)
    <3>1. [uid |-> entries[m.key][m.gen].uid, state |-> c] \in Entries
      BY <1>1, <1>2, <2>1 DEF HasEntry, Entries
    <3>2. [uid |-> entries[m.key][m.gen].uid, state |-> c] # NoEntry
      BY <3>1, NoEntryAssumption DEF Entries
    <3>3. entries' \in [Keys -> [Gens -> Entries \cup {NoEntry}]]
      BY <1>1, <1>2, <2>1, <3>1 DEF Amend
    <3>4. \A k \in Keys : Kept(k)
      BY <1>1, <1>2, <2>1, <3>2 DEF Amend, Kept, HasEntry
    <3> QED BY <3>3, <3>4 DEF Thinned
  <2>2. CASE ~HasEntry(m)
    BY <1>2, <2>2 DEF Thinned, Kept
  <2> QED BY <2>1, <2>2
<1>5. CacheTypeOK'
  BY <1>3, <1>4 DEF CacheInv, CacheTypeOK, generations
<1>6. Forgotten
  BY DEF Forgotten, generations
<1> QED BY <1>3, <1>4, <1>5, <1>6

\* What a cached entry holds is well typed.
LEMMA StoredType ==
  ASSUME CacheTypeOK, NEW m \in Mappings, HasEntry(m)
  PROVE  Stored(m) \in Contents
BY DEF CacheTypeOK, Mappings, HasEntry, Stored, Entries

\* A pod event touches the key of its mapping and keeps its entry, if there is one.
LEMMA PodEventEffect ==
  ASSUME CacheInv, NEW m \in Mappings, NEW pod \in PodObjects,
         \/ OnPodAdd(m, pod)
         \/ OnPodDelete(m, pod)
         \/ \E new \in PodObjects : OnPodUpdate(m, pod, new)
  PROVE  CacheTypeOK' /\ Touched({m.key}) /\ Thinned({m.key}) /\ Forgotten
<1>1. m.key \in Keys /\ m.spec \in Specs
  BY DEF Mappings
<1>2. HasEntry(m) => Stored(m) \in Contents
  BY StoredType DEF CacheInv
<1>3. CASE OnPodAdd(m, pod)
  <2> DEFINE c == AddPod(m.spec, Stored(m), pod)
  <2>1. HasEntry(m) => c \in Contents
    BY <1>1, <1>2, AddPodType
  <2> HIDE DEF c
  <2> QED BY <1>3, <2>1, PodEventTouches DEF OnPodAdd, c
<1>4. CASE OnPodDelete(m, pod)
  <2> DEFINE c == DeletePod(m.spec, Stored(m), pod)
  <2>1. HasEntry(m) => c \in Contents
    BY <1>1, <1>2, DeletePodType
  <2> HIDE DEF c
  <2> QED BY <1>4, <2>1, PodEventTouches DEF OnPodDelete, c
<1>5. ASSUME NEW new \in PodObjects, OnPodUpdate(m, pod, new)
      PROVE  CacheTypeOK' /\ Touched({m.key}) /\ Thinned({m.key}) /\ Forgotten
  <2> DEFINE c == UpdatePod(m.spec, Stored(m), pod, new)
  <2>1. HasEntry(m) => c \in Contents
    BY <1>1, <1>2, UpdatePodType
  <2> HIDE DEF c
  <2> QED BY <1>5, <2>1, PodEventTouches DEF OnPodUpdate, c
<1> QED BY <1>3, <1>4, <1>5

\* The pod events.
LEMMA PodEventStep ==
  ASSUME CacheInv, PodEvent
  PROVE  CacheTypeOK' /\ \E K \in SUBSET Keys : Touched(K) /\ Thinned(K) /\ Forgotten
<1>1. PICK m \in Mappings, pod \in PodObjects :
        \/ OnPodAdd(m, pod)
        \/ OnPodDelete(m, pod)
        \/ \E new \in PodObjects : OnPodUpdate(m, pod, new)
  BY DEF PodEvent
<1>2. {m.key} \in SUBSET Keys
  BY DEF Mappings
<1> QED BY <1>1, <1>2, PodEventEffect

\* Invalidate and Delete drop all entries of one key.
LEMMA CleanupKeyStep ==
  ASSUME CacheInv, NEW k \in Keys, Invalidate(k) \/ Delete(k)
  PROVE  CacheTypeOK' /\ Touched({k}) /\ Thinned({k}) /\ Forgotten
<1>1. entries' = [entries EXCEPT ![k] = NoEntries] /\ BumpVersion(k) /\ Spoil({k})
      /\ UNCHANGED <<namespaceEpoch, recompute>>
  BY DEF Invalidate, Delete
<1>2. CacheTypeOK
  BY DEF CacheInv
<1>3. /\ lifecycleEpoch' \in [Keys -> Nat]
      /\ \A j \in Keys \ {k} : lifecycleEpoch'[j] = lifecycleEpoch[j]
  BY <1>2 DEF Invalidate, Delete, CacheTypeOK
<1>4. keyVersions' \in [Keys -> Nat] /\ spoilt' \subseteq Workers /\ Touched({k})
  BY <1>1, <1>3, BumpTouches
<1>5. entries' \in [Keys -> [Gens -> Entries \cup {NoEntry}]]
  BY <1>1, <1>2 DEF CacheTypeOK, NoEntries
<1>5a. Thinned({k})
  BY <1>1, <1>2 DEF CacheTypeOK, NoEntries, Thinned, Kept
<1>6. /\ knownGenerations' \in [Keys -> SUBSET Gens]
      /\ latestGeneration' \in [Keys -> Nat]
      /\ Forgotten
  <2>1. CASE Invalidate(k)
    BY <1>2, <2>1 DEF Invalidate, CacheTypeOK, Forgotten, generations
  <2>2. CASE Delete(k)
    <3>1. /\ knownGenerations' = [knownGenerations EXCEPT ![k] = {}]
          /\ latestGeneration' = [latestGeneration EXCEPT ![k] = 0]
      BY <2>2 DEF Delete
    <3>2. \A g \in Gens : entries'[k][g] = NoEntry
      BY <1>1, <1>2 DEF CacheTypeOK, NoEntries
    <3> QED BY <1>2, <3>1, <3>2 DEF CacheTypeOK, Forgotten
  <2> QED BY <2>1, <2>2
<1>7. CacheTypeOK'
  BY <1>1, <1>2, <1>3, <1>4, <1>5, <1>6 DEF CacheTypeOK
<1> QED BY <1>4, <1>5a, <1>6, <1>7

\* InvalidateNamespace drops the entries of all keys of a namespace, and moves the
\* version of each of them, whether it had an entry or not.
LEMMA InvalidateNamespaceStep ==
  ASSUME CacheInv, NEW n \in Namespaces, InvalidateNamespace(n)
  PROVE  LET K == {k \in Keys : NsOf[k] = n}
         IN  CacheTypeOK' /\ Touched(K) /\ Thinned(K) /\ Forgotten
<1> DEFINE K == {k \in Keys : NsOf[k] = n}
           held(k) == {g \in Gens : entries[k][g] # NoEntry}
<1>1. CacheTypeOK /\ NewestGenerationOnly
  BY DEF CacheInv
<1>2. \A k \in Keys : Cardinality(held(k)) \in Nat
  <2> TAKE k \in Keys
  <2>1. held(k) \subseteq {latestGeneration[k]}
    BY <1>1 DEF NewestGenerationOnly
  <2>2. IsFiniteSet(held(k))
    BY <2>1, FS_Singleton, FS_Subset
  <2> QED BY <2>2, FS_CardinalityType
<1> HIDE DEF held
<1>3. /\ namespaceEpoch' = [namespaceEpoch EXCEPT ![n] = @ + 1]
      /\ keyVersions' = [k \in Keys |-> IF NsOf[k] = n
                                        THEN keyVersions[k] + Cardinality(held(k))
                                        ELSE keyVersions[k]]
      /\ Spoil(K)
      /\ UNCHANGED <<lifecycleEpoch, knownGenerations, latestGeneration, recompute>>
  BY DEF InvalidateNamespace, held, generations
<1>4. entries' = [k \in Keys |-> IF NsOf[k] = n THEN NoEntries ELSE entries[k]]
  BY DEF InvalidateNamespace
<1>5. /\ namespaceEpoch' \in [Namespaces -> Nat]
      /\ keyVersions' \in [Keys -> Nat]
      /\ spoilt' \subseteq Workers
  BY <1>1, <1>2, <1>3 DEF CacheTypeOK, Spoil
<1>6. \A k \in K : Version(k)' > Version(k)
  BY <1>1, <1>2, <1>3, NsAssumption DEF CacheTypeOK, Version
<1>7. \A k \in Keys \ K : Version(k)' = Version(k)
  BY <1>1, <1>3, NsAssumption DEF CacheTypeOK, Version
<1>8. Touched(K)
  BY <1>3, <1>6, <1>7 DEF Touched
<1>9. entries' \in [Keys -> [Gens -> Entries \cup {NoEntry}]] /\ Thinned(K)
  BY <1>1, <1>4 DEF CacheTypeOK, NoEntries, Thinned, Kept
<1>10. CacheTypeOK' /\ Forgotten
  BY <1>1, <1>3, <1>5, <1>9 DEF CacheTypeOK, Forgotten
<1> QED BY <1>8, <1>9, <1>10

\* Taking a ticket (GetWithVersion).
LEMMA GetWithVersionStep ==
  ASSUME CacheInv, NEW w \in Workers, NEW m \in Mappings, GetWithVersion(w, m)
  PROVE  CacheInv'
<1> DEFINE tk == [key |-> m.key, gen |-> m.gen, uid |-> m.uid, spec |-> m.spec,
                  version |-> Version(m.key), epoch |-> lifecycleEpoch[m.key]]
<1>1. CacheTypeOK /\ TicketsBehind
  BY DEF CacheInv
<1>2. tk \in Tickets
  BY <1>1, VersionType DEF Tickets, Mappings, CacheTypeOK
<1>3. recompute' = [recompute EXCEPT ![w] = tk] /\ spoilt' = spoilt \ {w}
      /\ UNCHANGED <<entries, keyVersions, namespaceEpoch, lifecycleEpoch,
                     knownGenerations, latestGeneration>>
  BY DEF GetWithVersion, fences, generations
<1>4. CacheTypeOK'
  BY <1>1, <1>2, <1>3 DEF CacheTypeOK
<1>5. TicketsBehind'
  <2> SUFFICES ASSUME NEW v \in Workers, recompute'[v] # NoTicket
               PROVE  /\ v \in spoilt' => recompute'[v].version < Version(recompute[v].key)'
                      /\ v \notin spoilt' => FencesHold(recompute[v])'
    BY DEF TicketsBehind
  <2>1. CASE v = w
    <3>1. recompute'[v] = tk /\ v \notin spoilt'
      BY <1>1, <1>3, <2>1 DEF CacheTypeOK
    <3> QED BY <1>3, <3>1 DEF FencesHold, Version
  <2>2. CASE v # w
    <3>1. recompute'[v] = recompute[v] /\ (v \in spoilt' <=> v \in spoilt)
      BY <1>1, <1>3, <2>2 DEF CacheTypeOK
    <3> QED BY <1>1, <1>3, <3>1 DEF TicketsBehind, FencesHold, Version
  <2> QED BY <2>1, <2>2
<1>6. NewestGenerationOnly' /\ LatestIsNewest'
  BY <1>3 DEF CacheInv, NewestGenerationOnly, LatestIsNewest
<1> QED BY <1>4, <1>5, <1>6 DEF CacheInv

\* Giving a ticket back, with or without a rejected publication.
LEMMA GiveUpStep ==
  ASSUME CacheInv, NEW w \in Workers, PublishRejected(w) \/ AbandonRecompute(w)
  PROVE  CacheInv'
<1>1. recompute' = [recompute EXCEPT ![w] = NoTicket] /\ spoilt' = spoilt \ {w}
      /\ UNCHANGED <<entries, keyVersions, namespaceEpoch, lifecycleEpoch,
                     knownGenerations, latestGeneration>>
  BY DEF PublishRejected, AbandonRecompute, fences, generations
<1>2. CacheTypeOK'
  BY <1>1 DEF CacheInv, CacheTypeOK
<1>3. TicketsBehind'
  <2> SUFFICES ASSUME NEW v \in Workers, recompute'[v] # NoTicket
               PROVE  /\ v \in spoilt' => recompute'[v].version < Version(recompute[v].key)'
                      /\ v \notin spoilt' => FencesHold(recompute[v])'
    BY DEF TicketsBehind
  <2>1. recompute'[v] = recompute[v] /\ (v \in spoilt' <=> v \in spoilt)
    BY <1>1 DEF CacheInv, CacheTypeOK
  <2> QED BY <1>1, <2>1 DEF CacheInv, TicketsBehind, FencesHold, Version
<1>4. NewestGenerationOnly' /\ LatestIsNewest'
  BY <1>1 DEF CacheInv, NewestGenerationOnly, LatestIsNewest
<1> QED BY <1>2, <1>3, <1>4 DEF CacheInv

\* Publication (SetFromRecomputeArtifactsIfVersion).
LEMMA PublishStep ==
  ASSUME CacheInv, NEW w \in Workers, NEW arts \in Contents, Publish(w, arts)
  PROVE  /\ CacheInv'
         /\ \A g \in Gens : entries'[recompute[w].key][g] # NoEntry <=> g = recompute[w].gen
         /\ entries'[recompute[w].key][recompute[w].gen].uid = recompute[w].uid
         /\ \A k \in Keys \ {recompute[w].key} : entries'[k] = entries[k]
<1> DEFINE tk == recompute[w]
           newer == tk.gen > latestGeneration[tk.key]
           row == [g \in Gens |-> IF g = tk.gen THEN [uid |-> tk.uid, state |-> arts]
                                  ELSE IF newer /\ g < tk.gen THEN NoEntry
                                  ELSE entries[tk.key][g]]
<1>1. /\ CacheTypeOK /\ NewestGenerationOnly /\ LatestIsNewest /\ TicketsBehind
      /\ tk # NoTicket
      /\ tk.gen >= latestGeneration[tk.key]
  BY DEF CacheInv, Publish, Publishable, GenerationGuard
<1>2. /\ entries' = [entries EXCEPT ![tk.key] = row]
      /\ knownGenerations' = [knownGenerations EXCEPT ![tk.key] = @ \cup {tk.gen}]
      /\ latestGeneration' = [latestGeneration EXCEPT ![tk.key] = IF newer THEN tk.gen ELSE @]
      /\ recompute' = [recompute EXCEPT ![w] = NoTicket]
      /\ UNCHANGED <<keyVersions, namespaceEpoch, lifecycleEpoch, spoilt>>
  BY DEF Publish, fences
<1>3. /\ tk.key \in Keys /\ tk.gen \in Gens /\ tk.gen \in Nat /\ tk.uid \in UIDs
      /\ latestGeneration[tk.key] \in Nat
  BY <1>1, GensAssumption DEF CacheTypeOK, Tickets
<1>4. [uid |-> tk.uid, state |-> arts] \in Entries /\ [uid |-> tk.uid, state |-> arts] # NoEntry
  BY <1>3, NoEntryAssumption DEF Entries
<1>5. row \in [Gens -> Entries \cup {NoEntry}]
  BY <1>1, <1>3, <1>4 DEF CacheTypeOK
<1>6. \A g \in Gens : row[g] # NoEntry <=> g = tk.gen
  BY <1>1, <1>3, <1>4, GensAssumption DEF NewestGenerationOnly
<1>7. row[tk.gen].uid = tk.uid
  BY <1>3
<1>8. entries'[tk.key] = row /\ \A k \in Keys \ {tk.key} : entries'[k] = entries[k]
  BY <1>1, <1>2, <1>3 DEF CacheTypeOK
<1> HIDE DEF row
<1>9. CacheTypeOK'
  BY <1>1, <1>2, <1>3, <1>5 DEF CacheTypeOK
<1>10. \A k \in Keys \ {tk.key} : /\ knownGenerations'[k] = knownGenerations[k]
                                  /\ latestGeneration'[k] = latestGeneration[k]
  BY <1>1, <1>2 DEF CacheTypeOK
<1>11. /\ latestGeneration'[tk.key] = tk.gen
       /\ knownGenerations'[tk.key] = knownGenerations[tk.key] \cup {tk.gen}
       /\ \A h \in knownGenerations[tk.key] : h \in Nat /\ h <= tk.gen
  BY <1>1, <1>2, <1>3, GensAssumption DEF CacheTypeOK, LatestIsNewest
<1>12. NewestGenerationOnly'
  BY <1>1, <1>3, <1>6, <1>8, <1>10, <1>11 DEF NewestGenerationOnly
<1>13. LatestIsNewest'
  BY <1>1, <1>3, <1>10, <1>11 DEF LatestIsNewest
<1>14. TicketsBehind'
  <2> SUFFICES ASSUME NEW v \in Workers, recompute'[v] # NoTicket
               PROVE  /\ v \in spoilt' => recompute'[v].version < Version(recompute[v].key)'
                      /\ v \notin spoilt' => FencesHold(recompute[v])'
    BY DEF TicketsBehind
  <2>1. recompute'[v] = recompute[v]
    BY <1>1, <1>2 DEF CacheTypeOK
  <2> QED BY <1>1, <1>2, <2>1 DEF TicketsBehind, FencesHold, Version
<1> QED BY <1>6, <1>7, <1>8, <1>3, <1>9, <1>12, <1>13, <1>14 DEF CacheInv

-------------------------------------------------------------------------------
(***************************************************************************)
(* The theorems.                                                           *)
(***************************************************************************)

\* A pod event, an invalidation or a cleanup is a touch of some keys.
LEMMA TouchStep ==
  ASSUME CacheInv, PodEvent \/ Cleanup
  PROVE  CacheTypeOK' /\ \E K \in SUBSET Keys : Touched(K) /\ Thinned(K) /\ Forgotten
<1>1. CASE PodEvent
  BY <1>1, PodEventStep
<1>2. ASSUME NEW k \in Keys, Invalidate(k) \/ Delete(k)
      PROVE  CacheTypeOK' /\ \E K \in SUBSET Keys : Touched(K) /\ Thinned(K) /\ Forgotten
  <2>1. CacheTypeOK' /\ Touched({k}) /\ Thinned({k}) /\ Forgotten
    BY <1>2, CleanupKeyStep
  <2> QED BY <2>1
<1>3. ASSUME NEW n \in Namespaces, InvalidateNamespace(n)
      PROVE  CacheTypeOK' /\ \E K \in SUBSET Keys : Touched(K) /\ Thinned(K) /\ Forgotten
  <2> DEFINE K == {k \in Keys : NsOf[k] = n}
  <2>1. CacheTypeOK' /\ Touched(K) /\ Thinned(K) /\ Forgotten
    BY <1>3, InvalidateNamespaceStep
  <2>2. K \in SUBSET Keys
    OBVIOUS
  <2> HIDE DEF K
  <2> QED BY <2>1, <2>2
<1> QED BY <1>1, <1>2, <1>3 DEF Cleanup

\* CacheInv is inductive.
LEMMA CacheInvInit == CacheInit => CacheInv
<1> SUFFICES ASSUME CacheInit PROVE CacheInv
  OBVIOUS
<1>1. CacheTypeOK
  BY DEF CacheInit, CacheTypeOK
<1>2. NewestGenerationOnly /\ LatestIsNewest /\ TicketsBehind
  BY DEF CacheInit, NewestGenerationOnly, LatestIsNewest, TicketsBehind
<1> QED BY <1>1, <1>2 DEF CacheInv

\* Every method of the cache preserves the inductive invariant.
LEMMA CacheInvStep == CacheInv /\ [CacheNext]_cacheVars => CacheInv'
<1> SUFFICES ASSUME CacheInv, [CacheNext]_cacheVars PROVE CacheInv'
  OBVIOUS
<1>1. CASE PodEvent \/ Cleanup
  BY <1>1, TouchStep, TouchedInv
<1>2. CASE Recomputation
  <2>1. PICK w \in Workers :
          \/ \E m \in Mappings : GetWithVersion(w, m)
          \/ \E pods \in PodLists : recompute[w] # NoTicket
                                    /\ Publish(w, Artifacts(recompute[w].spec, pods))
          \/ PublishRejected(w)
          \/ AbandonRecompute(w)
    BY <1>2 DEF Recomputation
  <2>2. ASSUME NEW pods \in PodLists, recompute[w] # NoTicket,
               Publish(w, Artifacts(recompute[w].spec, pods))
        PROVE  CacheInv'
    <3>1. recompute[w].spec \in Specs
      BY <2>2 DEF CacheInv, CacheTypeOK, Tickets
    <3> QED BY <2>2, <3>1, ArtifactsType, PublishStep
  <2> QED BY <2>1, <2>2, GetWithVersionStep, GiveUpStep
<1>3. CASE UNCHANGED cacheVars
  BY <1>3 DEF cacheVars, CacheInv, CacheTypeOK, NewestGenerationOnly, LatestIsNewest,
              TicketsBehind, FencesHold, Version
<1> QED BY <1>1, <1>2, <1>3 DEF CacheNext

\* Every method of the cache, called in any order, keeps the cache well typed: the
\* match and pending counters, in particular, never go below zero.
THEOREM CacheTypeCorrect == CacheSpec => []CacheTypeOK
<1>1. CacheInv => CacheTypeOK
  BY DEF CacheInv
<1> QED BY <1>1, CacheInvInit, CacheInvStep, PTL DEF CacheSpec

\* The cache never serves a superseded generation (SetFromRecomputeArtifactsIfVersion's
\* rollover guard and pruning).
THEOREM CacheServesNewestGeneration == CacheSpec => []NewestGenerationOnly
<1>1. CacheInv => NewestGenerationOnly
  BY DEF CacheInv
<1> QED BY <1>1, CacheInvInit, CacheInvStep, PTL DEF CacheSpec

\* Version and lifecycle epoch detect every touch and nothing else (GetWithVersion,
\* SetFromRecomputeArtifactsIfVersion).
THEOREM CacheFencesExact == CacheSpec => []FencesExact
<1>1. CacheInv => FencesExact
  <2> SUFFICES ASSUME CacheInv, NEW w \in Workers, recompute[w] # NoTicket
               PROVE  FencesHold(recompute[w]) <=> w \notin spoilt
    BY DEF FencesExact
  <2>1. recompute[w].version \in Nat /\ Version(recompute[w].key) \in Nat
    BY VersionType DEF CacheInv, CacheTypeOK, Tickets
  <2> QED BY <2>1 DEF CacheInv, TicketsBehind, FencesHold
<1> QED BY <1>1, CacheInvInit, CacheInvStep, PTL DEF CacheSpec

-------------------------------------------------------------------------------
(***************************************************************************)
(* Refinement: touches map to Touch, GetWithVersion to Begin, Publish to   *)
(* Publish, and giving up to Abandon.                                      *)
(***************************************************************************)

\* A ticket is a transaction, and no ticket is none.
LEMMA TransactionFacts ==
  ASSUME CacheTypeOK, NEW w \in Workers
  PROVE  /\ Transaction(recompute[w]) # NoTicket <=> recompute[w] # NoTicket
         /\ recompute[w] # NoTicket =>
              /\ Transaction(recompute[w]) \in Abstract!Transactions
              /\ Transaction(recompute[w]).key = recompute[w].key
              /\ Transaction(recompute[w]).gen = recompute[w].gen
              /\ Transaction(recompute[w]).uid = recompute[w].uid
BY NoTicketAssumption DEF CacheTypeOK, Tickets, Transaction, Abstract!Transactions

\* The states a row of entries stands for.
LEMMA HeldType ==
  ASSUME NEW row \in [Gens -> Entries \cup {NoEntry}]
  PROVE  Held(row) \in SUBSET (Gens \X UIDs)
BY DEF Held, Entries

\* An empty cache maps to the initial state of OptimisticPublish.
LEMMA RefinementInit == CacheInit => Abstract!Init
<1> SUFFICES ASSUME CacheInit PROVE Abstract!Init
  OBVIOUS
<1>1. \A w \in Workers : Transaction(recompute[w]) = NoTicket
  BY DEF CacheInit, Transaction
<1>2. \A k \in Keys : Held(entries[k]) = {}
  BY DEF CacheInit, Held
<1> QED BY <1>1, <1>2 DEF CacheInit, Abstract!Init

\* A touch of K is the abstract Touch(K).
LEMMA RefinementTouch ==
  ASSUME CacheInv, CacheTypeOK', NEW K \in SUBSET Keys, Touched(K), Thinned(K)
  PROVE  Abstract!Touch(K)
<1>1. \A w \in Workers :
        (Transaction(recompute[w]) # NoTicket /\ Transaction(recompute[w]).key \in K)
        <=> (recompute[w] # NoTicket /\ recompute[w].key \in K)
  BY TransactionFacts DEF CacheInv
<1>2. spoilt' = spoilt \cup {w \in Workers : /\ Transaction(recompute[w]) # NoTicket
                                             /\ Transaction(recompute[w]).key \in K}
  BY <1>1 DEF Touched, Spoil
<1>3. \A k \in Keys : Held(entries'[k]) \in SUBSET (Gens \X UIDs)
  BY HeldType DEF CacheTypeOK
<1>4. ASSUME NEW k \in Keys
      PROVE  Held(entries'[k]) = Held(entries[k]) \/ (k \in K /\ Held(entries'[k]) = {})
  <2>1. CASE Kept(k)
    BY <2>1 DEF Kept, Held
  <2>2. CASE k \in K /\ \A g \in Gens : entries'[k][g] = NoEntry
    BY <2>2 DEF Held
  <2> QED BY <2>1, <2>2 DEF Thinned
<1>5. recompute' = recompute
  BY DEF Touched
<1> QED BY <1>2, <1>3, <1>4, <1>5 DEF Abstract!Touch

\* Taking a ticket begins a transaction.
LEMMA RefinementBegin ==
  ASSUME CacheInv, CacheTypeOK', NEW w \in Workers, NEW m \in Mappings, GetWithVersion(w, m)
  PROVE  \E t \in Abstract!Transactions : Abstract!Begin(w, t)
<1>1. /\ recompute' = [recompute EXCEPT ![w] =
            [key |-> m.key, gen |-> m.gen, uid |-> m.uid, spec |-> m.spec,
             version |-> Version(m.key), epoch |-> lifecycleEpoch[m.key]]]
      /\ spoilt' = spoilt \ {w}
      /\ entries' = entries
  BY DEF GetWithVersion
<1>2. recompute \in [Workers -> Tickets \cup {NoTicket}] /\ recompute'[w] \in Tickets
  BY <1>1, VersionType DEF CacheInv, CacheTypeOK, Tickets, Mappings
<1>3. recompute'[w] # NoTicket
  BY <1>2, NoTicketAssumption
<1>4. Transaction(recompute'[w]) \in Abstract!Transactions
  BY <1>2, <1>3 DEF Transaction, Tickets, Abstract!Transactions
<1>5. \A v \in Workers \ {w} : recompute'[v] = recompute[v]
  BY <1>1, <1>2
<1>6. Abstract!Begin(w, Transaction(recompute'[w]))
  <2>1. [v \in Workers |-> Transaction(recompute'[v])] =
          [[v \in Workers |-> Transaction(recompute[v])] EXCEPT ![w] = Transaction(recompute'[w])]
    BY <1>5
  <2> QED BY <1>1, <2>1 DEF Abstract!Begin
<1> QED BY <1>4, <1>6

\* Giving a ticket back abandons a transaction.
LEMMA RefinementAbandon ==
  ASSUME CacheInv, NEW w \in Workers, PublishRejected(w) \/ AbandonRecompute(w)
  PROVE  Abstract!Abandon(w)
<1>1. /\ recompute[w] # NoTicket
      /\ recompute' = [recompute EXCEPT ![w] = NoTicket]
      /\ spoilt' = spoilt \ {w}
      /\ entries' = entries
  BY DEF PublishRejected, AbandonRecompute
<1>2. recompute \in [Workers -> Tickets \cup {NoTicket}] /\ Transaction(recompute[w]) # NoTicket
  BY <1>1, TransactionFacts DEF CacheInv, CacheTypeOK
<1>3. /\ \A v \in Workers \ {w} : recompute'[v] = recompute[v]
      /\ Transaction(recompute'[w]) = NoTicket
  BY <1>1, <1>2 DEF Transaction
<1>4. [v \in Workers |-> Transaction(recompute'[v])] =
        [[v \in Workers |-> Transaction(recompute[v])] EXCEPT ![w] = NoTicket]
  BY <1>3
<1> QED BY <1>1, <1>2, <1>4 DEF Abstract!Abandon

\* A publication is the abstract one: its worker is not spoilt, because the fences are
\* exact, and it leaves one state, because of the generation guard and the pruning.
LEMMA RefinementPublish ==
  ASSUME CacheInv, NEW w \in Workers, NEW arts \in Contents, Publish(w, arts)
  PROVE  Abstract!Publish(w)
<1> DEFINE tk == recompute[w]
<1>1. /\ tk # NoTicket /\ FencesHold(tk)
      /\ recompute' = [recompute EXCEPT ![w] = NoTicket]
      /\ spoilt' = spoilt
  BY DEF Publish, Publishable
<1>2. /\ recompute \in [Workers -> Tickets \cup {NoTicket}]
      /\ tk.key \in Keys /\ tk.gen \in Gens /\ tk.version \in Nat
      /\ Version(tk.key) \in Nat
  BY <1>1, VersionType DEF CacheInv, CacheTypeOK, Tickets
<1>3. w \notin spoilt
  BY <1>1, <1>2 DEF CacheInv, TicketsBehind, FencesHold
<1>4. /\ Transaction(tk) # NoTicket
      /\ Transaction(tk).key = tk.key /\ Transaction(tk).gen = tk.gen /\ Transaction(tk).uid = tk.uid
  BY <1>1, TransactionFacts DEF CacheInv
<1>5. /\ \A v \in Workers \ {w} : recompute'[v] = recompute[v]
      /\ Transaction(recompute'[w]) = NoTicket
  BY <1>1, <1>2 DEF Transaction
<1>6. [v \in Workers |-> Transaction(recompute'[v])] =
        [[v \in Workers |-> Transaction(recompute[v])] EXCEPT ![w] = NoTicket]
  BY <1>5
<1>7. /\ \A g \in Gens : entries'[tk.key][g] # NoEntry <=> g = tk.gen
      /\ entries'[tk.key][tk.gen].uid = tk.uid
      /\ \A k \in Keys \ {tk.key} : entries'[k] = entries[k]
  BY PublishStep
<1>8. Held(entries'[tk.key]) = {<<tk.gen, tk.uid>>}
  BY <1>2, <1>7 DEF Held
<1>9. [k \in Keys |-> Held(entries'[k])] =
        [[k \in Keys |-> Held(entries[k])] EXCEPT ![tk.key] = {<<tk.gen, tk.uid>>}]
  BY <1>2, <1>7, <1>8
<1> HIDE DEF tk
<1> QED BY <1>1, <1>3, <1>4, <1>6, <1>9 DEF Abstract!Publish, tk

\* The cache, with its counters, implements the counter-free protocol: no
\* recomputation is ever published over a pod event, an invalidation or a cleanup it
\* did not see (GetWithVersion and SetFromRecomputeArtifactsIfVersion).
THEOREM CacheImplementsOptimisticPublish == CacheSpec => ImplementsOptimisticPublish
<1>1. CacheInit => Abstract!Init
  BY RefinementInit
<1>2. CacheInv /\ CacheInv' /\ [CacheNext]_cacheVars => [Abstract!Next]_(Abstract!avars)
  <2> SUFFICES ASSUME CacheInv, CacheInv', [CacheNext]_cacheVars
               PROVE  [Abstract!Next]_(Abstract!avars)
    OBVIOUS
  <2>0. CacheTypeOK'
    BY DEF CacheInv
  <2>1. CASE PodEvent \/ Cleanup
    <3>1. PICK K \in SUBSET Keys : Touched(K) /\ Thinned(K)
      BY <2>1, TouchStep
    <3>2. Abstract!Touch(K)
      BY <2>0, <3>1, RefinementTouch
    <3> QED BY <3>2 DEF Abstract!Next
  <2>2. CASE Recomputation
    <3>1. PICK w \in Workers :
            \/ \E m \in Mappings : GetWithVersion(w, m)
            \/ \E pods \in PodLists : recompute[w] # NoTicket
                                      /\ Publish(w, Artifacts(recompute[w].spec, pods))
            \/ PublishRejected(w)
            \/ AbandonRecompute(w)
      BY <2>2 DEF Recomputation
    <3>2. ASSUME NEW m \in Mappings, GetWithVersion(w, m)
          PROVE  Abstract!Next
      <4>1. \E t \in Abstract!Transactions : Abstract!Begin(w, t)
        BY <2>0, <3>2, RefinementBegin
      <4> QED BY <4>1 DEF Abstract!Next
    <3>3. ASSUME NEW pods \in PodLists, recompute[w] # NoTicket,
                 Publish(w, Artifacts(recompute[w].spec, pods))
          PROVE  Abstract!Next
      <4>1. recompute[w].spec \in Specs
        BY <3>3 DEF CacheInv, CacheTypeOK, Tickets
      <4>2. Abstract!Publish(w)
        BY <3>3, <4>1, ArtifactsType, RefinementPublish
      <4> QED BY <4>2 DEF Abstract!Next
    <3>4. CASE PublishRejected(w) \/ AbandonRecompute(w)
      <4>1. Abstract!Abandon(w)
        BY <3>4, RefinementAbandon
      <4> QED BY <4>1 DEF Abstract!Next
    <3> QED BY <3>1, <3>2, <3>3, <3>4
  <2>3. CASE UNCHANGED cacheVars
    BY <2>3 DEF cacheVars, Abstract!avars
  <2> QED BY <2>1, <2>2, <2>3 DEF CacheNext
<1> QED BY <1>1, <1>2, CacheInvInit, CacheInvStep, PTL
        DEF CacheSpec, ImplementsOptimisticPublish, Abstract!Spec
===============================================================================
