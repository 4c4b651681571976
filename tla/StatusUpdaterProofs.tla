------------------------- MODULE StatusUpdaterProofs -------------------------
(***************************************************************************)
(* What the status updater and the convergence tracker guarantee for every *)
(* set of targets, selectors and specs, every number of attempts and every *)
(* number of changes and failures.                                         *)
(*                                                                         *)
(* The steps are first summarised by their effects (ObjectStep, Ended,     *)
(* Moved, Started, ...), so that each invariant is proved per effect and   *)
(* not per branch of each handler.  Three invariants follow:               *)
(*   TokenInv   OneTokenPerTarget and ObservedWhenCompleted depend on how  *)
(*              the generations of tokens, of the worker, of the           *)
(*              informer's copy and of the object are ordered;             *)
(*   QueueInv   NoTokenWithoutMapping depends on the event of a deletion   *)
(*              staying in the watch until the mapping is in the queue;    *)
(*   StatusInv  RowsOfGeneration depends on no status that a reconcile of  *)
(*              this object wrote being ahead of it.                       *)
(***************************************************************************)
EXTENDS StatusUpdater, SequenceTheorems, TLAPS

ObjectOK ==
  /\ api \in Objects \cup {NoMapping}
  /\ cached \in Objects \cup {NoMapping}
  /\ watch \subseteq {"quiet", "enqueue"} /\ (watch = {} => cached = api)

TrackerOK ==
  /\ tokens \subseteq Tokens /\ observed \subseteq Tokens
  /\ \A a, b \in tokens : a.target = b.target /\ a.gen = b.gen => a = b

WorkerOK == queued \in BOOLEAN /\ (rec = Idle \/ rec \in Busy)

CountersOK ==
  /\ dirty \subseteq Changing /\ now \in Times
  /\ changes \in 0..MaxChanges /\ failures \in 0..MaxFailures

\* The type invariant, by the component it speaks of.
LEMMA TypeParts == TypeOK <=> ObjectOK /\ TrackerOK /\ WorkerOK /\ CountersOK
BY DEF TypeOK, ObjectOK, TrackerOK, WorkerOK, CountersOK
-------------------------------------------------------------------------------
(***************************************************************************)
(* Rows and statuses.                                                      *)
(***************************************************************************)

\* A sequence is a function on its indices.
LEMMA SeqElements ==
  ASSUME NEW S, NEW s \in Seq(S)
  PROVE  Len(s) \in Nat /\ DOMAIN s = 1..Len(s) /\ \A i \in DOMAIN s : s[i] \in S
BY LenProperties, ElementOfSeq

\* The rules of a spec and the rows of a status, one by one.
LEMMA ObjectFields ==
  ASSUME NEW o \in Objects
  PROVE  /\ o.inc \in Incarnations /\ o.gen \in Gens /\ o.spec \in Specs /\ o.deleting \in BOOLEAN
         /\ o.status \in Statuses /\ o.status.rows \in Seq(Rows)
         /\ DOMAIN o.spec = 1..Len(o.spec) /\ Len(o.spec) \in Nat
         /\ DOMAIN o.status.rows = 1..Len(o.status.rows) /\ Len(o.status.rows) \in Nat
         /\ \A i \in DOMAIN o.spec : o.spec[i].sel \in Selectors /\ o.spec[i].targets \subseteq Targets
         /\ \A i \in DOMAIN o.status.rows : o.status.rows[i] \in Rows
<1>1. o.spec \in Seq([sel : Selectors, targets : SUBSET Targets])
  BY SpecsAssumption DEF Objects
<1>2. /\ Len(o.spec) \in Nat /\ DOMAIN o.spec = 1..Len(o.spec)
      /\ \A i \in DOMAIN o.spec : o.spec[i] \in [sel : Selectors, targets : SUBSET Targets]
  BY <1>1, SeqElements
<1>3. o.status.rows \in Seq(Rows)
  BY DEF Objects, Statuses
<1>4. /\ Len(o.status.rows) \in Nat /\ DOMAIN o.status.rows = 1..Len(o.status.rows)
      /\ \A i \in DOMAIN o.status.rows : o.status.rows[i] \in Rows
  BY <1>3, SeqElements
<1>5. \A i \in DOMAIN o.spec : o.spec[i].sel \in Selectors /\ o.spec[i].targets \subseteq Targets
  BY <1>2
<1> QED BY <1>2, <1>3, <1>4, <1>5 DEF Objects

\* A row that is not in sync takes a time of a previous row, or none.
LEMMA PreservedType ==
  ASSUME NEW prev \in Seq(Rows), NEW spec, NEW states, NEW i \in Nat \ {0}
  PROVE  preserved(prev, spec, states, i) \in Times
<1>1. 0 \in Times
  BY BoundsAssumption DEF Times
<1>2. DOMAIN prev = 1..Len(prev) /\ \A j \in DOMAIN prev : prev[j].sync \in Times
  <2>1. DOMAIN prev = 1..Len(prev) /\ \A j \in DOMAIN prev : prev[j] \in Rows
    BY SeqElements
  <2> QED BY <2>1 DEF Rows
<1>3. preserveLastSyncTimeBySelector(prev, spec, states, i) \in Times
  <2> DEFINE queue == {j \in DOMAIN prev : prev[j].hash = spec[i].sel}
             taken == {j \in 1..(i - 1) : spec[j].sel = spec[i].sel /\ states[j] # "Synced"}
             head == {j \in queue : Cardinality({k \in queue : k < j}) = Cardinality(taken)}
  <2>1. head \subseteq DOMAIN prev
    OBVIOUS
  <2>2. preserveLastSyncTimeBySelector(prev, spec, states, i)
          = IF head = {} THEN 0 ELSE prev[CHOOSE j \in head : TRUE].sync
    BY DEF preserveLastSyncTimeBySelector
  <2> HIDE DEF head
  <2>3. head # {} => (CHOOSE j \in head : TRUE) \in head
    OBVIOUS
  <2> QED BY <1>1, <1>2, <2>1, <2>2, <2>3
<1>4. preserveLastSyncTime(prev, i) \in Times
  BY <1>1, <1>2, SeqElements DEF preserveLastSyncTime
<1> QED BY <1>3, <1>4 DEF preserved

\* ComputeStatus writes one row for each rule of the object, with the rule's hash.
LEMMA StatusType ==
  ASSUME TypeOK, rec \in Busy, NEW o \in Objects, NEW phase \in {"Pending", "Final"}
  PROVE  /\ ComputeStatus(o, phase) \in Statuses
         /\ ComputeStatus(o, phase).gen = rec.gen /\ ComputeStatus(o, phase).inc = rec.inc
         /\ DOMAIN ComputeStatus(o, phase).rows = DOMAIN o.spec
         /\ \A i \in DOMAIN o.spec : ComputeStatus(o, phase).rows[i].hash = o.spec[i].sel
<1> DEFINE states == [i \in DOMAIN o.spec |-> RowState(phase, rec.why, rec.results, o.spec[i])]
           row(i) == [hash |-> o.spec[i].sel, state |-> states[i],
                      sync |-> IF states[i] = "Synced" THEN now
                               ELSE preserved(o.status.rows, o.spec, states, i)]
           rows == [i \in DOMAIN o.spec |-> row(i)]
           reconciled == IF phase = "Pending" THEN "Unknown"
                         ELSE IF rec.why # "results" \/ failedTargets(rec.results) # {} THEN "False"
                         ELSE "True"
<1>1. ComputeStatus(o, phase)
        = [reconciled |-> reconciled, gen |-> rec.gen, inc |-> rec.inc, rows |-> rows]
  BY DEF ComputeStatus
<1>2. ASSUME NEW i \in DOMAIN o.spec PROVE row(i) \in Rows
  <2>1. states[i] \in {"Pending", "Synced", "Error"}
    BY DEF RowState
  <2>2. i \in Nat \ {0} /\ o.status.rows \in Seq(Rows) /\ o.spec[i].sel \in Selectors
    BY ObjectFields
  <2> HIDE DEF states
  <2>3. preserved(o.status.rows, o.spec, states, i) \in Times
    BY <2>2, PreservedType
  <2>4. now \in Times
    BY DEF TypeOK
  <2> QED BY <2>1, <2>2, <2>3, <2>4 DEF Rows
<1> HIDE DEF row
<1>3. rows \in Seq(Rows)
  <2>1. rows \in [1..Len(o.spec) -> Rows]
    BY <1>2, ObjectFields
  <2>2. Len(o.spec) \in Nat
    BY ObjectFields
  <2> HIDE DEF rows
  <2> QED BY <2>1, <2>2
<1>4. reconciled \in {"Absent", "Unknown", "True", "False"}
  OBVIOUS
<1>5. rec.gen \in 0..MaxGen /\ rec.inc \in 0..(MaxChanges + 1)
  BY BoundsAssumption DEF Busy, Gens, Incarnations
<1>6. DOMAIN rows = DOMAIN o.spec /\ \A i \in DOMAIN o.spec : rows[i].hash = o.spec[i].sel
  BY DEF row
<1> HIDE DEF rows, reconciled
<1> QED BY <1>1, <1>3, <1>4, <1>5, <1>6 DEF Statuses
-------------------------------------------------------------------------------
(***************************************************************************)
(* What the steps are made of: their effect on the object, on the worker   *)
(* and its tokens, and on the histogram.                                   *)
(***************************************************************************)
Phases == {"Pending", "Final"}

StatusWrite(phase) == rec \in Busy /\ watch = {} /\ api # NoMapping /\ Readable /\ Written(phase)

ObjectStep ==
  \/ UNCHANGED object
  \/ api # NoMapping /\ (Store(api) \/ Store(NoMapping))
  \/ \E phase \in Phases : StatusWrite(phase)

Early == {"fetched", "pending", "diff"}
Unexecuted == Early \cup {"prepatch", "execute"}

\* The worker returns, moves on, perhaps with a newer generation, or starts tokens.
Ended == rec' = Idle /\ tokens' \subseteq tokens
Moved ==
  /\ rec \in Busy /\ rec' \in Busy
  /\ rec'.inc = rec.inc /\ rec'.results = rec.results /\ tokens' = tokens
  /\ rec'.pc \in Early => rec.pc \in Early
  /\ rec'.pc \in Unexecuted => rec.pc \in Unexecuted
  /\ rec'.gen # rec.gen => api # NoMapping /\ rec'.gen = api.gen /\ rec'.pc \notin Early
Started ==
  At("diff") /\ startConvergenceTracking /\ rec' = [rec EXCEPT !.pc = "prepatch", !.todo = dirty]

\* A worker that is somewhere is busy.
LEMMA BusyAt == ASSUME TypeOK, NEW pc, At(pc), pc # "idle" PROVE rec \in Busy
BY DEF TypeOK, At, Idle

\* A busy worker is not idle.
LEMMA BusyIsNotIdle == ASSUME NEW b \in Busy PROVE b # Idle /\ b.pc # "idle"
BY DEF Busy, Idle

\* The ways in which the worker goes on within a reconcile.
LEMMA WorkerMoves ==
  ASSUME rec \in Busy
  PROVE  /\ \A pc \in {"fetched", "pending", "diff", "prepatch", "execute", "postpatch", "final", "refetch"} :
              /\ [rec EXCEPT !.pc = pc, !.attempt = 1] \in Busy
              /\ \A why \in {"results", "system", "invalid"} :
                   [rec EXCEPT !.pc = pc, !.attempt = 1, !.why = why] \in Busy
              /\ \A gen \in Gens : [rec EXCEPT !.pc = pc, !.gen = gen, !.attempt = 1] \in Busy
              /\ \A todo \in SUBSET Changing : [rec EXCEPT !.pc = pc, !.todo = todo] \in Busy
              /\ \A results \in Results : [rec EXCEPT !.pc = pc, !.results = results] \in Busy
         /\ rec.attempt < MaxAttempts => [rec EXCEPT !.attempt = @ + 1] \in Busy
<1>1. 1 \in 1..MaxAttempts
  BY BoundsAssumption
<1>2. rec.attempt < MaxAttempts => rec.attempt + 1 \in 1..MaxAttempts
  BY BoundsAssumption DEF Busy
<1>3. ASSUME NEW pc \in {"fetched", "pending", "diff", "prepatch", "execute", "postpatch", "final", "refetch"}
      PROVE  /\ [rec EXCEPT !.pc = pc, !.attempt = 1] \in Busy
             /\ \A why \in {"results", "system", "invalid"} :
                  [rec EXCEPT !.pc = pc, !.attempt = 1, !.why = why] \in Busy
             /\ \A gen \in Gens : [rec EXCEPT !.pc = pc, !.gen = gen, !.attempt = 1] \in Busy
  BY <1>1 DEF Busy
<1>4. ASSUME NEW pc \in {"fetched", "pending", "diff", "prepatch", "execute", "postpatch", "final", "refetch"}
      PROVE  /\ \A todo \in SUBSET Changing : [rec EXCEPT !.pc = pc, !.todo = todo] \in Busy
             /\ \A results \in Results : [rec EXCEPT !.pc = pc, !.results = results] \in Busy
  BY DEF Busy
<1>5. rec.attempt < MaxAttempts => [rec EXCEPT !.attempt = @ + 1] \in Busy
  BY <1>2 DEF Busy
<1> QED BY <1>3, <1>4, <1>5

\* Every way to go on is a move, as long as it does not go back.
LEMMA MovesOn ==
  ASSUME rec \in Busy, tokens' = tokens,
         NEW pc \in {"pending", "diff", "execute", "final", "refetch"},
         pc \in Early => rec.pc \in Early, pc \in Unexecuted => rec.pc \in Unexecuted,
         \/ GoTo(pc)
         \/ \E why \in {"system", "invalid"} : pc = "final" /\ GoToFinal(why)
         \/ Refresh(pc) /\ api \in Objects /\ api # NoMapping /\ pc \notin Early
         \/ Retry
  PROVE  Moved
<1>1. CASE GoTo(pc)
  <2>1. rec' \in Busy
    BY <1>1, WorkerMoves DEF GoTo
  <2>2. rec'.pc = pc /\ rec'.inc = rec.inc /\ rec'.gen = rec.gen /\ rec'.results = rec.results
    BY <1>1 DEF GoTo, Busy
  <2> QED BY <2>1, <2>2 DEF Moved
<1>2. ASSUME NEW why \in {"system", "invalid"}, pc = "final", GoToFinal(why) PROVE Moved
  <2>1. rec' \in Busy
    BY <1>2, WorkerMoves DEF GoToFinal
  <2>2. rec'.pc = pc /\ rec'.inc = rec.inc /\ rec'.gen = rec.gen /\ rec'.results = rec.results
    BY <1>2 DEF GoToFinal, Busy
  <2> QED BY <2>1, <2>2 DEF Moved
<1>3. CASE Refresh(pc) /\ api \in Objects /\ api # NoMapping /\ pc \notin Early
  <2>1. api.gen \in Gens
    BY <1>3 DEF Objects
  <2>2. rec' \in Busy
    BY <1>3, <2>1, WorkerMoves DEF Refresh
  <2>3. rec'.pc = pc /\ rec'.inc = rec.inc /\ rec'.gen = api.gen /\ rec'.results = rec.results
    BY <1>3 DEF Refresh, Busy
  <2> QED BY <1>3, <2>2, <2>3 DEF Moved
<1>4. CASE Retry
  <2>1. rec' \in Busy
    BY <1>4, WorkerMoves DEF Retry
  <2>2. rec'.pc = rec.pc /\ rec'.inc = rec.inc /\ rec'.gen = rec.gen /\ rec'.results = rec.results
    BY <1>4 DEF Retry, Busy
  <2> QED BY <2>1, <2>2 DEF Moved
<1> QED BY <1>1, <1>2, <1>3, <1>4

\* What remains of the tokens when some are forgotten.
LEMMA Forgets ==
  /\ Forget \subseteq tokens
  /\ \A gen : ForgetGeneration(gen) \subseteq tokens /\ PruneStaleGenerations(gen) \subseteq tokens
  /\ notifyConvergence => tokens' \subseteq tokens
BY DEF Forget, ForgetGeneration, PruneStaleGenerations, notifyConvergence

\* The status writes end or go on, and write at most a status computed from a current read.
LEMMA StatusEffect ==
  ASSUME TypeOK, UpdatePending \/ UpdateAfterReconcile \/ Refetch
  PROVE  ObjectStep /\ (Ended \/ Moved)
<1>1. ASSUME NEW phase \in Phases, rec \in Busy,
             StatusWritten(phase) \/ UpdateErrs(phase) \/ Conflicted(phase)
      PROVE  ObjectStep
  BY <1>1 DEF StatusWritten, UpdateErrs, Conflicted, Updates, Conflict, ObjectStep, StatusWrite
<1>2. ASSUME Sentinel PROVE ObjectStep /\ Ended
  BY <1>2, Forgets DEF Sentinel, ObjectStep, Ended, NoRequeue
<1>3. ReturnsOK \/ ReturnsError => rec' = Idle
  BY DEF ReturnsOK, ReturnsError, Requeue, NoRequeue
<1>4. CASE UpdatePending
  <2>1. rec \in Busy /\ rec.pc \in Early
    BY <1>4, BusyAt DEF UpdatePending, At, Early
  <2>2. GoTo("diff") /\ UNCHANGED tracker => Moved
    BY <2>1, MovesOn DEF Early, Unexecuted, tracker
  <2>3. Retry /\ UNCHANGED tracker => Moved
    BY <2>1, MovesOn DEF Early, Unexecuted, tracker
  <2>4. Sentinel \/ ObjectStep
    BY <1>1, <1>4, <2>1 DEF UpdatePending, Phases, ReadErrs, ObjectStep
  <2> QED BY <1>2, <1>4, <2>2, <2>3, <2>4 DEF UpdatePending
<1>5. CASE UpdateAfterReconcile
  <2>1. rec \in Busy /\ rec.pc = "final"
    BY <1>5, BusyAt DEF UpdateAfterReconcile, At
  <2>2. GoTo("refetch") /\ UNCHANGED tracker => Moved
    BY <2>1, MovesOn DEF Early, Unexecuted, tracker
  <2>3. Retry /\ UNCHANGED tracker => Moved
    BY <2>1, MovesOn DEF Early, Unexecuted, tracker
  <2>4. Sentinel \/ ObjectStep
    BY <1>1, <1>5, <2>1 DEF UpdateAfterReconcile, Phases, ReadErrs, ObjectStep
  <2>5. (notifyConvergence \/ UNCHANGED tracker) /\ (ReturnsOK \/ ReturnsError) => Ended
    BY <1>3, Forgets DEF Ended, tracker
  <2> QED BY <1>2, <1>5, <2>2, <2>3, <2>4, <2>5 DEF UpdateAfterReconcile
<1>6. CASE Refetch
  <2>1. Sentinel \/ (ObjectStep /\ Ended)
    BY <1>3, <1>6, Forgets DEF Refetch, ReadErrs, ObjectStep, Ended
  <2> QED BY <1>2, <2>1
<1> QED BY <1>4, <1>5, <1>6

\* So does every other step of the worker that does not start tokens, stage or fetch.
LEMMA WorkerEffect ==
  ASSUME TypeOK, Worker
  PROVE  /\ ObjectStep /\ UNCHANGED <<cached, changes>>
         /\ Ended \/ Moved \/ Fetch \/ Started \/ Execute
<1>1. CASE FetchGone
  BY <1>1, Forgets, TypeParts
     DEF FetchGone, ObjectStep, Ended, Environment, object, At, WorkerOK, Busy
<1>2. CASE Fetch
  BY <1>2 DEF Fetch, ObjectStep, object
<1>3. CASE Delete
  <2>1. ObjectStep
    BY <1>3 DEF Delete, ObjectStep
  <2>2. Ended
    BY <1>3, Forgets DEF Delete, Ended, Requeue, NoRequeue
  <2>3. UNCHANGED <<cached, changes>>
    BY <1>3 DEF Delete, Store, object, Environment
  <2> QED BY <2>1, <2>2, <2>3
<1>4. CASE Validate
  <2>1. rec \in Busy /\ rec.pc = "fetched"
    BY <1>4, BusyAt DEF Validate, At
  <2>2. Moved
    BY <1>4, <2>1, MovesOn DEF Validate, Early, Unexecuted, tracker
  <2> QED BY <1>4, <2>2 DEF Validate, ObjectStep, object, Environment
<1>5. CASE Gate
  <2>1. rec \in Busy /\ rec.pc = "fetched"
    BY <1>5, BusyAt DEF Gate, At
  <2>2. GoTo("pending") => Moved
    BY <1>5, <2>1, MovesOn DEF Gate, Early, Unexecuted, tracker
  <2>3. Requeue => Ended
    BY <1>5 DEF Gate, Requeue, Ended, tracker
  <2> QED BY <1>5, <2>2, <2>3 DEF Gate, ObjectStep, object, Environment
<1>6. CASE Diff
  <2>1. rec \in Busy /\ rec.pc = "diff"
    BY <1>6, BusyAt DEF Diff, At
  <2>2. ASSUME GoToFinal("system"), UNCHANGED tracker PROVE Moved
    BY <2>1, <2>2, MovesOn DEF Early, Unexecuted, tracker
  <2> QED BY <1>6, <2>2 DEF Diff, ObjectStep, object, Environment, Started
<1>7. CASE UpdatePending \/ UpdateAfterReconcile \/ Refetch
  <2>1. UNCHANGED <<cached, changes>>
    BY <1>7
       DEF UpdatePending, UpdateAfterReconcile, Refetch, Environment, Sentinel, StatusWritten,
           UpdateErrs, ReadErrs, Conflicted, Written, Store, object
  <2> QED BY <1>7, <2>1, StatusEffect
<1>8. ASSUME NEW pc \in {"prepatch", "postpatch"}, NEW next \in {"execute", "final"}, Patch(pc, next),
             next \in Unexecuted => pc \in Unexecuted
      PROVE  ObjectStep /\ UNCHANGED <<cached, changes>> /\ Moved
  <2>1. rec \in Busy /\ rec.pc = pc /\ tokens' = tokens
    BY <1>8, BusyAt DEF Patch, At, tracker
  <2>2. ObjectStep /\ UNCHANGED <<cached, changes>>
    BY <1>8 DEF Patch, Patched, PatchFails, NotPatched, ObjectStep, object, Store, Environment
  <2>3. CASE GoTo(next)
    BY <1>8, <2>1, <2>2, <2>3, MovesOn DEF Early
  <2>4. CASE GoToFinal("system")
    BY <2>1, <2>2, <2>4, MovesOn DEF Early, Unexecuted
  <2>5. CASE api # NoMapping /\ Refresh(next)
    <3>1. api \in Objects
      BY <2>5 DEF TypeOK
    <3> QED BY <1>8, <2>1, <2>2, <2>5, <3>1, MovesOn DEF Early
  <2> QED BY <1>8, <2>2, <2>3, <2>4, <2>5 DEF Patch
<1>9. CASE PrePatch
  BY <1>8, <1>9 DEF PrePatch, Unexecuted
<1>10. CASE PostPatch
  BY <1>8, <1>10 DEF PostPatch, Unexecuted, Early
<1>11. CASE Execute
  BY <1>11 DEF Execute, ObjectStep, object
<1> QED BY <1>1, <1>2, <1>3, <1>4, <1>5, <1>6, <1>7, <1>9, <1>10, <1>11 DEF Worker

\* What the worker's steps do to the rest.
LEMMA WorkerFrame ==
  ASSUME TypeOK, Worker
  PROVE  /\ queued' \in BOOLEAN
         /\ queued => queued' \/ FetchGone \/ Fetch
         /\ Works \/ Fails
         /\ dirty' \subseteq Changing
         /\ now' = now \/ Fetch
         /\ \/ observed' \subseteq observed
            \/ rec \in Busy /\ rec.pc \in {"final", "refetch"} /\ observed' = observed \cup Committed
<1> USE DEF Environment, tracker, object
<1>1. /\ Requeue => queued' = TRUE
      /\ \A pc : GoTo(pc) \/ Refresh(pc) => queued' = queued
      /\ \A why : GoToFinal(why) => queued' = queued
      /\ NoRequeue \/ Retry => queued' = queued
      /\ ReturnsOK \/ ReturnsError => queued' = TRUE \/ queued' = queued
  BY DEF Requeue, GoTo, Refresh, GoToFinal, NoRequeue, Retry, ReturnsOK, ReturnsError
<1>2. queued \in BOOLEAN /\ dirty \subseteq Changing
  BY DEF TypeOK
<1>3. CASE FetchGone
  BY <1>2, <1>3 DEF FetchGone, Works
<1>4. CASE Fetch
  BY <1>2, <1>4 DEF Fetch, Works
<1>5. CASE Delete
  BY <1>1, <1>2, <1>5 DEF Delete
<1>6. CASE Validate \/ Gate
  BY <1>1, <1>2, <1>6 DEF Validate, Gate, Works
<1>7. CASE Diff
  BY <1>1, <1>2, <1>7 DEF Diff
<1>8. CASE PrePatch \/ PostPatch
  BY <1>1, <1>2, <1>8 DEF PrePatch, PostPatch, Patch, Patched, PatchFails, NotPatched
<1>9. CASE Execute
  <2>1. PICK results \in Results :
          /\ IF failedTargets(results) = {} THEN Works ELSE Fails
          /\ {t \in Targets : results[t] # "none"} = rec.todo
          /\ dirty' = (dirty \ rec.todo) \cup failedTargets(results)
    BY <1>9 DEF Execute
  <2>2. rec.todo \subseteq Changing
    BY <1>9, BusyAt DEF Execute, Busy
  <2>3. dirty' \subseteq Changing
    BY <1>2, <2>1, <2>2 DEF failedTargets
  <2> QED BY <1>2, <1>9, <2>1, <2>3 DEF Execute
<1>10. Sentinel => Works /\ queued' = queued /\ observed' = observed
  BY <1>1 DEF Sentinel
<1>11. \A phase : StatusWritten(phase) \/ UpdateErrs(phase) \/ Conflicted(phase) \/ ReadErrs
                   => Works \/ Fails
  BY DEF StatusWritten, UpdateErrs, Conflicted, ReadErrs
<1>12. CASE UpdatePending
  BY <1>1, <1>2, <1>10, <1>11, <1>12 DEF UpdatePending
<1>13. CASE UpdateAfterReconcile \/ Refetch
  <2>1. rec \in Busy /\ rec.pc \in {"final", "refetch"}
    BY <1>13, BusyAt DEF UpdateAfterReconcile, Refetch, At
  <2>2. notifyConvergence => observed' = observed \cup Committed
    BY DEF notifyConvergence
  <2>3. CASE UpdateAfterReconcile
    BY <1>1, <1>2, <1>10, <1>11, <2>1, <2>2, <2>3 DEF UpdateAfterReconcile
  <2>4. CASE Refetch
    BY <1>1, <1>2, <1>10, <1>11, <2>1, <2>2, <2>4 DEF Refetch
  <2> QED BY <1>13, <2>3, <2>4
<1> QED BY <1>3, <1>4, <1>5, <1>6, <1>7, <1>8, <1>9, <1>12, <1>13 DEF Worker
-------------------------------------------------------------------------------
(***************************************************************************)
(* Types.                                                                  *)
(***************************************************************************)

\* Storing an object leaves an event in the watch.
LEMMA StoreType ==
  ASSUME ObjectOK, NEW new \in Objects \cup {NoMapping}, Store(new)
  PROVE  ObjectOK' /\ watch' # {} /\ api' = new /\ cached' = cached
BY DEF ObjectOK, Store

\* A status write replaces the status and nothing else of the object that the API server has.
LEMMA StatusWriteFacts ==
  ASSUME TypeOK, NEW phase \in Phases, StatusWrite(phase)
  PROVE  /\ api \in Objects /\ api' \in Objects /\ cached = api /\ Store(api')
         /\ api' = [api EXCEPT !.status = ComputeStatus(api, phase)]
         /\ api'.status = ComputeStatus(api, phase)
         /\ api'.inc = api.inc /\ api'.gen = api.gen /\ api'.spec = api.spec
         /\ api'.deleting = api.deleting
         /\ api.gen <= rec.gen
<1>1. api \in Objects /\ cached = api
  BY DEF TypeOK, StatusWrite
<1>2. ComputeStatus(api, phase) \in Statuses
  BY <1>1, StatusType DEF StatusWrite, Phases
<1>3. Store([api EXCEPT !.status = ComputeStatus(api, phase)])
  BY <1>1 DEF StatusWrite, Written
<1>4. api' = [api EXCEPT !.status = ComputeStatus(api, phase)]
  BY <1>3 DEF Store
<1>5. api.gen <= rec.gen
  BY <1>1 DEF StatusWrite, Readable
<1> QED BY <1>1, <1>2, <1>3, <1>4, <1>5 DEF Objects

\* The worker leaves the object well typed and its identity, generation and spec as they are.
LEMMA ObjectStepFacts ==
  ASSUME TypeOK, ObjectStep
  PROVE  /\ ObjectOK'
         /\ api' # NoMapping =>
              /\ api \in Objects /\ api # NoMapping
              /\ api'.inc = api.inc /\ api'.gen = api.gen /\ api'.spec = api.spec
              /\ api'.deleting = api.deleting
<1>0. ObjectOK
  BY TypeParts
<1>1. CASE UNCHANGED object
  BY <1>0, <1>1 DEF object, ObjectOK
<1>2. CASE api # NoMapping /\ Store(api)
  <2>1. ObjectOK' /\ api' = api
    BY <1>0, <1>2, StoreType DEF ObjectOK
  <2> QED BY <1>0, <1>2, <2>1 DEF ObjectOK
<1>3. CASE api # NoMapping /\ Store(NoMapping)
  BY <1>0, <1>3, StoreType
<1>4. ASSUME NEW phase \in Phases, StatusWrite(phase)
      PROVE  /\ ObjectOK' /\ api \in Objects /\ api # NoMapping
             /\ api'.inc = api.inc /\ api'.gen = api.gen /\ api'.spec = api.spec
             /\ api'.deleting = api.deleting
  <2>1. ObjectOK'
    BY <1>0, <1>4, StatusWriteFacts, StoreType
  <2> QED BY <1>4, <2>1, StatusWriteFacts DEF StatusWrite
<1> QED BY <1>1, <1>2, <1>3, <1>4 DEF ObjectStep

\* startConvergenceTracking adds well-typed tokens for targets that had none at this generation.
LEMMA StartedFacts ==
  ASSUME TypeOK, Started
  PROVE  /\ rec \in Busy /\ rec.pc = "diff" /\ rec' \in Busy /\ rec'.pc = "prepatch"
         /\ rec'.inc = rec.inc /\ rec'.gen = rec.gen /\ rec'.results = rec.results
         /\ tokens \subseteq tokens' /\ tokens' \subseteq Tokens
         /\ \A k \in tokens' \ tokens :
              /\ k.inc = rec.inc /\ k.gen = rec.gen /\ k.detected = now /\ k.completed = 0
              /\ \A l \in tokens : l.target # k.target \/ l.gen # rec.gen
         /\ \A k, l \in tokens' \ tokens : k.target = l.target => k = l
<1>1. rec \in Busy /\ rec.pc = "diff"
  BY BusyAt DEF Started, At
<1>2. rec' \in Busy
  BY <1>1, WorkerMoves DEF Started, TypeOK
<1>3. rec'.pc = "prepatch" /\ rec'.inc = rec.inc /\ rec'.gen = rec.gen /\ rec'.results = rec.results
  BY <1>1 DEF Started, Busy
<1>4. PICK changed \in SUBSET dirty : tokens' = StartOrKeep(changed)
  BY DEF Started, startConvergenceTracking
<1> DEFINE token(t) == [target |-> t, gen |-> rec.gen, inc |-> rec.inc, detected |-> now, completed |-> 0]
           started == {t \in changed : \A k \in tokens : k.target # t \/ k.gen # rec.gen}
<1>5. tokens' = {token(t) : t \in started} \cup tokens
  BY <1>4 DEF StartOrKeep
<1>6. ASSUME NEW t \in started PROVE token(t) \in Tokens
  <2>1. t \in Targets
    BY SpecsAssumption DEF TypeOK
  <2>2. rec.gen \in Gens /\ rec.inc \in Incarnations
    BY <1>1 DEF Busy
  <2>3. now \in Times /\ 0 \in Times
    BY BoundsAssumption DEF TypeOK, Times
  <2> QED BY <2>1, <2>2, <2>3 DEF Tokens
<1>7. \A k \in tokens' \ tokens : \E t \in started : k = token(t)
  BY <1>5
<1>8. \A t \in started : \A l \in tokens : l.target # t \/ l.gen # rec.gen
  OBVIOUS
<1> HIDE DEF started
<1>9. tokens' \subseteq Tokens
  BY <1>5, <1>6 DEF TypeOK
<1>10. ASSUME NEW k \in tokens' \ tokens
       PROVE  /\ k.inc = rec.inc /\ k.gen = rec.gen /\ k.detected = now /\ k.completed = 0
              /\ \A l \in tokens : l.target # k.target \/ l.gen # rec.gen
  BY <1>7, <1>8
<1>11. \A k, l \in tokens' \ tokens : k.target = l.target => k = l
  BY <1>7
<1> QED BY <1>1, <1>2, <1>3, <1>5, <1>9, <1>10, <1>11

\* Execute stages the tokens of this generation whose action was successful.
LEMMA ExecuteFacts ==
  ASSUME TypeOK, Execute
  PROVE  /\ rec \in Busy /\ rec.pc = "execute" /\ rec' \in Busy /\ rec'.pc = "postpatch"
         /\ rec'.inc = rec.inc /\ rec'.gen = rec.gen
         /\ tokens' \subseteq Tokens
         /\ \A k \in tokens' : \E l \in tokens :
              /\ k.target = l.target /\ k.gen = l.gen /\ k.inc = l.inc /\ k.detected = l.detected
              /\ IF l.gen = rec.gen /\ rec'.results[l.target] = "ok"
                 THEN k = [l EXCEPT !.completed = now] /\ k.completed = now ELSE k = l
<1>1. rec \in Busy /\ rec.pc = "execute"
  BY BusyAt DEF Execute, At
<1>2. PICK results \in Results :
        /\ stageConvergenceResults(results)
        /\ rec' = [rec EXCEPT !.pc = "postpatch", !.results = results]
  BY DEF Execute
<1>3. rec' \in Busy
  BY <1>1, <1>2, WorkerMoves
<1>4. rec'.pc = "postpatch" /\ rec'.inc = rec.inc /\ rec'.gen = rec.gen /\ rec'.results = results
  BY <1>1, <1>2 DEF Busy
<1> DEFINE staged(k) == IF k.gen = rec.gen /\ k.target \in {t \in Targets : results[t] = "ok"}
                        THEN [k EXCEPT !.completed = now] ELSE k
<1>5. tokens' = {staged(k) : k \in tokens}
  BY <1>2 DEF stageConvergenceResults, StageSuccessfulAction
<1>6. ASSUME NEW l \in tokens
      PROVE  /\ staged(l) \in Tokens
             /\ staged(l).target = l.target /\ staged(l).gen = l.gen /\ staged(l).inc = l.inc
             /\ staged(l).detected = l.detected
             /\ IF l.gen = rec.gen /\ results[l.target] = "ok"
                THEN staged(l) = [l EXCEPT !.completed = now] /\ staged(l).completed = now
                ELSE staged(l) = l
  <2>1. l \in Tokens /\ now \in Times
    BY DEF TypeOK
  <2> QED BY <2>1 DEF Tokens
<1> HIDE DEF staged
<1> QED BY <1>1, <1>3, <1>4, <1>5, <1>6

\* The tokens of one mapping stay apart by target and generation.
LEMMA TrackerType ==
  ASSUME TypeOK, Worker
  PROVE  TrackerOK'
<1>1. TrackerOK
  BY TypeParts
<1>2. observed' \subseteq Tokens
  BY <1>1, WorkerFrame DEF TrackerOK, Committed
<1>3. tokens' \subseteq tokens => TrackerOK'
  BY <1>1, <1>2 DEF TrackerOK
<1>4. CASE Ended \/ Moved
  BY <1>3, <1>4 DEF Ended, Moved
<1>5. CASE Fetch
  BY <1>3, <1>5, Forgets DEF Fetch
<1>6. CASE Started
  <2>1. ASSUME NEW k \in tokens', NEW l \in tokens', k.target = l.target, k.gen = l.gen
        PROVE  k = l
    BY <1>1, <1>6, <2>1, StartedFacts DEF TrackerOK
  <2> QED BY <1>2, <1>6, <2>1, StartedFacts DEF TrackerOK
<1>7. CASE Execute
  <2>1. ASSUME NEW k \in tokens', NEW l \in tokens', k.target = l.target, k.gen = l.gen
        PROVE  k = l
    <3>1. PICK p \in tokens :
            /\ k.target = p.target /\ k.gen = p.gen
            /\ IF p.gen = rec.gen /\ rec'.results[p.target] = "ok"
               THEN k = [p EXCEPT !.completed = now] ELSE k = p
      BY <1>7, ExecuteFacts
    <3>2. PICK q \in tokens :
            /\ l.target = q.target /\ l.gen = q.gen
            /\ IF q.gen = rec.gen /\ rec'.results[q.target] = "ok"
               THEN l = [q EXCEPT !.completed = now] ELSE l = q
      BY <1>7, ExecuteFacts
    <3>3. p = q
      BY <1>1, <2>1, <3>1, <3>2 DEF TrackerOK
    <3> QED BY <3>1, <3>2, <3>3
  <2> QED BY <1>2, <1>7, <2>1, ExecuteFacts DEF TrackerOK
<1> QED BY <1>4, <1>5, <1>6, <1>7, WorkerEffect

\* A fetch starts the reconcile of the copy that was read.
LEMMA FetchFacts ==
  ASSUME TypeOK, Fetch
  PROVE  /\ cached \in Objects /\ cached # NoMapping
         /\ rec' \in Busy /\ rec'.pc = "fetched" /\ rec'.inc = cached.inc /\ rec'.gen = cached.gen
         /\ rec'.results = NoResults
         /\ now' \in Times /\ now <= now'
<1>1. cached \in Objects /\ cached # NoMapping
  BY DEF Fetch, TypeOK
<1>2. NoResults \in Results /\ 1 \in 1..MaxAttempts
  BY BoundsAssumption DEF NoResults, Results, Ends
<1>3. cached.inc \in Incarnations /\ cached.gen \in Gens /\ cached.spec \in Specs
      /\ cached.deleting \in BOOLEAN
  BY <1>1 DEF Objects
<1>4. now' \in Times /\ now <= now'
  BY BoundsAssumption DEF Fetch, TypeOK, Times
<1>5. rec' = [pc |-> "fetched", inc |-> cached.inc, gen |-> cached.gen, spec |-> cached.spec,
              deleting |-> cached.deleting, todo |-> {}, results |-> NoResults,
              why |-> "results", attempt |-> 1]
  BY DEF Fetch
<1> HIDE DEF NoResults
<1>6. rec' \in Busy
  BY <1>2, <1>3, <1>5 DEF Busy
<1> QED BY <1>1, <1>4, <1>5, <1>6

\* The type invariant holds at the start.
LEMMA TypeInit == Init => TypeOK
<1> SUFFICES ASSUME Init PROVE TypeOK
  OBVIOUS
<1>1. PICK s \in Specs : \E status \in {Fresh, Legacy(s)} :
        api = [inc |-> 1, gen |-> 1, spec |-> s, deleting |-> FALSE, status |-> status]
  BY DEF Init
<1>2. s \in Seq([sel : Selectors, targets : SUBSET Targets])
  BY SpecsAssumption
<1>3. Len(s) \in Nat /\ DOMAIN s = 1..Len(s)
  BY <1>2, SeqElements
<1>4. 1 \in Times /\ 0 \in Times /\ 1 \in Gens /\ 1 \in Incarnations
  BY BoundsAssumption DEF Times, Gens, Incarnations
<1>5. Fresh \in Statuses
  <2>1. <<>> \in Seq(Rows)
    BY EmptySeq
  <2>2. 0 \in 0..MaxGen /\ 0 \in 0..(MaxChanges + 1)
    BY BoundsAssumption
  <2> QED BY <2>1, <2>2 DEF Fresh, Statuses
<1>6. Legacy(s) \in Statuses
  <2> DEFINE rows == [i \in DOMAIN s |-> [hash |-> NoHash, state |-> "Synced", sync |-> 1]]
  <2>1. rows \in [1..Len(s) -> Rows]
    BY <1>3, <1>4 DEF Rows
  <2>2. rows \in Seq(Rows)
    <3> HIDE DEF rows
    <3> QED BY <1>3, <2>1
  <2>3. 1 \in 0..MaxGen /\ 0 \in 0..(MaxChanges + 1)
    BY BoundsAssumption
  <2>4. Legacy(s) = [reconciled |-> "True", gen |-> 1, inc |-> 0, rows |-> rows]
    BY DEF Legacy
  <2> HIDE DEF rows
  <2> QED BY <2>2, <2>3, <2>4 DEF Statuses
<1>7. api \in Objects
  BY <1>1, <1>4, <1>5, <1>6 DEF Objects
<1>8. ObjectOK /\ TrackerOK /\ WorkerOK
  BY <1>7 DEF Init, ObjectOK, TrackerOK, WorkerOK
<1>9. CountersOK
  BY <1>4, BoundsAssumption DEF Init, CountersOK
<1> QED BY <1>8, <1>9, TypeParts

\* What users do leaves an object of the next generation, or of a new incarnation, or none.
LEMMA UserFacts ==
  ASSUME TypeOK, Users
  PROVE  /\ ObjectOK' /\ cached' = cached /\ (UNCHANGED object \/ Store(api'))
         /\ changes' = changes + 1 /\ changes' \in 0..MaxChanges
         /\ UNCHANGED <<tracker, rec, now, failures>>
         /\ dirty' \subseteq Changing /\ queued' \in BOOLEAN /\ (queued => queued')
         /\ \/ UNCHANGED api
            \/ Store(NoMapping) /\ api # NoMapping /\ api' = NoMapping
            \/ /\ api \in Objects /\ api # NoMapping /\ api' \in Objects
               /\ api'.inc = api.inc /\ api'.gen = api.gen + 1 /\ api'.status = api.status
            \/ /\ api = NoMapping /\ api' \in Objects
               /\ api'.inc = changes + 2 /\ api'.gen = 1 /\ api'.status = Fresh
<1>0. ObjectOK /\ changes \in 0..MaxChanges
  BY TypeParts DEF CountersOK
<1>1. ASSUME NEW new \in Objects \cup {NoMapping}, Change(new)
      PROVE  /\ ObjectOK' /\ cached' = cached /\ Store(api') /\ api' = new
             /\ changes' = changes + 1 /\ changes' \in 0..MaxChanges
             /\ UNCHANGED <<tracker, rec, now, failures>>
             /\ dirty' \subseteq Changing /\ queued' \in BOOLEAN /\ (queued => queued')
  <2>1. changes' = changes + 1 /\ changes' \in 0..MaxChanges
    BY <1>0, <1>1, BoundsAssumption DEF Change, Budget
  <2> QED BY <1>0, <1>1, <2>1, StoreType, TypeParts DEF Change, Store, CountersOK, WorkerOK
<1>2. CASE PodsChanged
  <2>1. changes' = changes + 1 /\ changes' \in 0..MaxChanges
    BY <1>0, <1>2, BoundsAssumption DEF PodsChanged, Budget
  <2> QED BY <1>0, <1>2, <2>1 DEF PodsChanged, object, ObjectOK
<1>3. CASE SpecChanged
  <2>1. api \in Objects /\ api # NoMapping /\ api.gen + 1 \in Gens
    <3>1. api \in Objects /\ api # NoMapping /\ api.gen < MaxGen
      BY <1>3 DEF SpecChanged, TypeOK
    <3>2. api.gen \in Gens
      BY <3>1 DEF Objects
    <3> QED BY <3>1, <3>2, BoundsAssumption DEF Gens
  <2>2. PICK s \in Specs : Change([api EXCEPT !.gen = @ + 1, !.spec = s])
    BY <1>3 DEF SpecChanged
  <2> DEFINE new == [api EXCEPT !.gen = @ + 1, !.spec = s]
  <2>3. new \in Objects /\ new.inc = api.inc /\ new.gen = api.gen + 1 /\ new.status = api.status
    BY <2>1 DEF Objects
  <2> HIDE DEF new
  <2>4. Change(new)
    BY <2>2 DEF new
  <2> QED BY <1>1, <2>1, <2>3, <2>4
<1>4. CASE DeleteRequested
  <2>1. api \in Objects /\ api # NoMapping /\ api.gen + 1 \in Gens
    <3>1. api \in Objects /\ api # NoMapping /\ api.gen < MaxGen
      BY <1>4 DEF DeleteRequested, TypeOK
    <3>2. api.gen \in Gens
      BY <3>1 DEF Objects
    <3> QED BY <3>1, <3>2, BoundsAssumption DEF Gens
  <2> DEFINE new == [api EXCEPT !.gen = @ + 1, !.deleting = TRUE]
  <2>2. Change(new)
    BY <1>4 DEF DeleteRequested
  <2>3. new \in Objects /\ new.inc = api.inc /\ new.gen = api.gen + 1 /\ new.status = api.status
    BY <2>1 DEF Objects
  <2> HIDE DEF new
  <2> QED BY <1>1, <2>1, <2>2, <2>3
<1>5. CASE ForceDeleted
  BY <1>1, <1>5 DEF ForceDeleted, Change
<1>6. CASE Recreated
  <2>1. PICK s \in Specs :
          Change([inc |-> changes + 2, gen |-> 1, spec |-> s, deleting |-> FALSE, status |-> Fresh])
    BY <1>6 DEF Recreated
  <2> DEFINE new == [inc |-> changes + 2, gen |-> 1, spec |-> s, deleting |-> FALSE, status |-> Fresh]
  <2>2. changes + 2 \in Incarnations /\ 1 \in Gens
    BY <1>0, <2>1, BoundsAssumption DEF Change, Budget, Incarnations, Gens
  <2>3. Fresh \in Statuses
    <3>1. <<>> \in Seq(Rows)
      BY EmptySeq
    <3>2. 0 \in 0..MaxGen /\ 0 \in 0..(MaxChanges + 1)
      BY BoundsAssumption
    <3> QED BY <3>1, <3>2 DEF Fresh, Statuses
  <2>4. new \in Objects /\ new.inc = changes + 2 /\ new.gen = 1 /\ new.status = Fresh
    BY <2>2, <2>3 DEF Objects
  <2>5. Change(new)
    BY <2>1
  <2> HIDE DEF new
  <2> QED BY <1>1, <1>6, <2>4, <2>5 DEF Recreated
<1> QED BY <1>2, <1>3, <1>4, <1>5, <1>6 DEF Users

\* Every step keeps the types.
LEMMA TypeStep == TypeOK /\ [Next]_vars => TypeOK'
<1> SUFFICES ASSUME TypeOK, [Next]_vars PROVE TypeOK'
  OBVIOUS
<1>1. CASE Worker
  <2>1. ObjectOK' /\ TrackerOK' /\ queued' \in BOOLEAN
    BY <1>1, WorkerEffect, WorkerFrame, ObjectStepFacts, TrackerType
  <2>2. rec' = Idle \/ rec' \in Busy
    BY <1>1, WorkerEffect, FetchFacts, StartedFacts, ExecuteFacts DEF Ended, Moved
  <2>3. now' \in Times
    BY <1>1, WorkerFrame, FetchFacts DEF TypeOK
  <2>4. failures' \in 0..MaxFailures
    BY <1>1, WorkerFrame, BoundsAssumption DEF TypeOK, Works, Fails
  <2>5. dirty' \subseteq Changing /\ changes' \in 0..MaxChanges
    BY <1>1, WorkerFrame, WorkerEffect DEF TypeOK
  <2> QED BY <2>1, <2>2, <2>3, <2>4, <2>5, TypeParts DEF TypeOK, ObjectOK, TrackerOK
<1>2. CASE CatchUp
  BY <1>2 DEF CatchUp, TypeOK, tracker
<1>3. CASE Users
  <2>1. TrackerOK' /\ rec' = rec /\ now' = now /\ failures' = failures
    BY <1>3, UserFacts, TypeParts DEF TrackerOK, tracker
  <2> QED BY <1>3, <2>1, UserFacts DEF TypeOK, ObjectOK, TrackerOK
<1>4. CASE Crash
  <2>1. failures' \in 0..MaxFailures
    BY <1>4, BoundsAssumption DEF Crash, Fails, TypeOK
  <2>2. ObjectOK' /\ TrackerOK' /\ WorkerOK'
    BY <1>4 DEF Crash, TypeOK, ObjectOK, TrackerOK, WorkerOK
  <2>3. dirty' = dirty /\ now' = now /\ changes' = changes
    BY <1>4 DEF Crash, Environment
  <2> QED BY <2>1, <2>2, <2>3 DEF TypeOK, ObjectOK, TrackerOK, WorkerOK
<1>5. CASE UNCHANGED vars
  BY <1>5 DEF vars, object, tracker, TypeOK
<1> QED BY <1>1, <1>2, <1>3, <1>4, <1>5 DEF Next
-------------------------------------------------------------------------------
(***************************************************************************)
(* Tokens, generations and incarnations.                                   *)
(***************************************************************************)

\* Generation g of incarnation i is not newer than the object o; i has been created.
NotAfter(i, g, o) == o # NoMapping => i < o.inc \/ (i = o.inc /\ g <= o.gen)
Born(i) == i <= changes + 1

\* The informer's copy is not newer than the object.
ObjectsOrdered ==
  /\ api # NoMapping => Born(api.inc)
  /\ cached # NoMapping => Born(cached.inc) /\ NotAfter(cached.inc, cached.gen, api)

\* No token is newer than what the informer has shown.
TokensKnown ==
  \A k \in tokens :
    Born(k.inc) /\ NotAfter(k.inc, k.gen, cached) /\ NotAfter(k.inc, k.gen, api) /\ k.detected <= now

\* No worker is newer than the object, and until it patches, none is newer than the informer's
\* copy; until then the tokens of its incarnation are those of its generation.
WorkerKnown ==
  rec # Idle =>
    /\ Born(rec.inc) /\ NotAfter(rec.inc, rec.gen, api)
    /\ \A k \in tokens : k.inc <= rec.inc
    /\ rec.pc \in Early =>
         /\ NotAfter(rec.inc, rec.gen, cached)
         /\ \A k \in tokens : k.inc = rec.inc => k.gen = rec.gen
    /\ rec.pc \in Unexecuted => rec.results = NoResults

\* The worker's incarnation has not been deleted.
StillThere(i) == api # NoMapping /\ api.inc = i

\* While it is there, patches only advance the worker's generation, and so a token that has
\* the worker's generation and a successful action was staged by this worker.
TokensOfWorker ==
  rec # Idle /\ StillThere(rec.inc) =>
    \A k \in tokens : k.inc = rec.inc =>
      /\ k.gen <= rec.gen
      /\ k.gen = rec.gen /\ k.completed # 0 /\ rec.results[k.target] = "ok" => k.completed = now

TokenInv ==
  /\ TypeOK /\ ObjectsOrdered /\ TokensKnown /\ WorkerKnown /\ TokensOfWorker
  /\ OneTokenPerTarget

\* Generations, incarnations and times are numbers.
LEMMA Numbers ==
  ASSUME TypeOK
  PROVE  /\ api # NoMapping => api.inc \in Nat /\ api.gen \in Nat
         /\ cached # NoMapping => cached.inc \in Nat /\ cached.gen \in Nat
         /\ rec # Idle => rec.inc \in Nat /\ rec.gen \in Nat
         /\ \A k \in tokens : /\ k.inc \in Nat /\ k.gen \in Nat /\ k.detected \in Nat
                               /\ k.completed \in Nat /\ k.target \in Targets
         /\ now \in Nat /\ changes \in Nat
<1>1. Incarnations \subseteq Nat /\ Gens \subseteq Nat /\ Times \subseteq Nat
  BY DEF Incarnations, Gens, Times
<1>2. ASSUME NEW o \in Objects PROVE o.inc \in Nat /\ o.gen \in Nat
  BY <1>1 DEF Objects
<1>3. ASSUME NEW k \in Tokens
      PROVE  k.inc \in Nat /\ k.gen \in Nat /\ k.detected \in Nat /\ k.completed \in Nat
             /\ k.target \in Targets
  BY <1>1 DEF Tokens
<1>4. rec \in Busy => rec.inc \in Nat /\ rec.gen \in Nat
  BY <1>1 DEF Busy
<1>5. changes \in Nat
  BY DEF TypeOK
<1> QED BY <1>1, <1>2, <1>3, <1>4, <1>5 DEF TypeOK

\* What the worker does to the object makes nothing newer than it.
LEMMA WorkerKeepsAge ==
  ASSUME TypeOK, ObjectsOrdered, ObjectStep, UNCHANGED <<cached, changes>>
  PROVE  /\ ObjectsOrdered'
         /\ \A i, g : NotAfter(i, g, api) => NotAfter(i, g, api')
         /\ \A i : StillThere(i)' => StillThere(i)
BY ObjectStepFacts DEF ObjectsOrdered, NotAfter, Born, StillThere

\* Nor does what users do; a new incarnation is one that nobody has seen.
LEMMA UsersKeepAge ==
  ASSUME TypeOK, ObjectsOrdered, Users
  PROVE  /\ ObjectsOrdered'
         /\ \A i \in Nat : Born(i) => Born(i)'
         /\ \A i, g \in Nat : Born(i) /\ NotAfter(i, g, api) => NotAfter(i, g, api')
         /\ \A i \in Nat : Born(i) /\ StillThere(i)' => StillThere(i)
<1>1. changes \in Nat /\ changes' = changes + 1 /\ cached' = cached
  BY Numbers, UserFacts
<1>2. \A i \in Nat : Born(i) => Born(i)'
  BY <1>1 DEF Born
<1>3. \A i, g \in Nat : Born(i) /\ NotAfter(i, g, api) => NotAfter(i, g, api')
  BY <1>1, Numbers, UserFacts DEF Born, NotAfter
<1>4. \A i \in Nat : Born(i) /\ StillThere(i)' => StillThere(i)
  BY <1>1, UserFacts DEF Born, StillThere
<1>5. api' # NoMapping => api'.inc <= changes' + 1
  BY <1>1, Numbers, UserFacts DEF Born, ObjectsOrdered
<1>6. cached' # NoMapping => Born(cached.inc)' /\ NotAfter(cached.inc, cached.gen, api')
  BY <1>1, <1>2, <1>3, Numbers DEF ObjectsOrdered
<1> QED BY <1>1, <1>2, <1>3, <1>4, <1>5, <1>6 DEF ObjectsOrdered, NotAfter, Born

\* Tokens that stay are still known, and still one per target.
LEMMA FewerTokens ==
  ASSUME TokenInv, TypeOK', tokens' \subseteq tokens, now <= now',
         ObjectStep, UNCHANGED <<cached, changes>>
  PROVE  ObjectsOrdered' /\ TokensKnown' /\ OneTokenPerTarget'
<1>1. ObjectsOrdered' /\ \A i, g : NotAfter(i, g, api) => NotAfter(i, g, api')
  BY WorkerKeepsAge DEF TokenInv
<1>2. OneTokenPerTarget'
  BY DEF TokenInv, OneTokenPerTarget
<1>3. ASSUME NEW k \in tokens'
      PROVE  /\ Born(k.inc)' /\ NotAfter(k.inc, k.gen, cached') /\ NotAfter(k.inc, k.gen, api')
             /\ k.detected <= now'
  <2>1. k \in tokens /\ Born(k.inc) /\ NotAfter(k.inc, k.gen, cached) /\ NotAfter(k.inc, k.gen, api)
        /\ k.detected <= now
    BY DEF TokenInv, TokensKnown
  <2>2. k.detected \in Nat /\ now \in Nat /\ now' \in Nat
    <3>1. now' \in Nat
      BY Numbers DEF TypeOK, Times
    <3> QED BY <2>1, <3>1, Numbers DEF TokenInv
  <2>3. k.detected <= now'
    BY <2>1, <2>2
  <2> QED BY <1>1, <2>1, <2>3 DEF Born
<1> QED BY <1>1, <1>2, <1>3 DEF TokensKnown, NotAfter, Born

\* A fetch: of the tokens of the incarnation it reads, the pruning leaves those of the
\* generation it reads.
LEMMA TokenFetch == ASSUME TokenInv, Fetch, TypeOK' PROVE TokenInv'
<1>1. ObjectStep /\ UNCHANGED <<cached, changes, api>>
  BY DEF Fetch, ObjectStep, object
<1>2. ObjectsOrdered' /\ TokensKnown' /\ OneTokenPerTarget'
  BY <1>1, FetchFacts, Forgets, FewerTokens DEF Fetch, TokenInv
<1>3. /\ cached # NoMapping /\ rec' \in Busy /\ rec'.pc = "fetched" /\ rec'.inc = cached.inc
      /\ rec'.gen = cached.gen /\ rec'.results = NoResults
  BY FetchFacts DEF TokenInv
<1>4. ASSUME NEW k \in tokens'
      PROVE  k.inc <= cached.inc /\ (k.inc = cached.inc => k.gen = cached.gen)
  <2>1. k \in tokens /\ k.gen >= cached.gen
    BY DEF Fetch, PruneStaleGenerations
  <2>2. k.inc < cached.inc \/ (k.inc = cached.inc /\ k.gen <= cached.gen)
    BY <1>3, <2>1 DEF TokenInv, TokensKnown, NotAfter
  <2> QED BY <1>3, <2>1, <2>2, Numbers DEF TokenInv
<1>5. cached.inc \in Nat /\ cached.gen \in Nat
  BY <1>3, Numbers DEF TokenInv
<1>6. Born(cached.inc) /\ NotAfter(cached.inc, cached.gen, api)
      /\ NotAfter(cached.inc, cached.gen, cached)
  BY <1>3, <1>5 DEF TokenInv, ObjectsOrdered, NotAfter
<1>7. WorkerKnown'
  BY <1>1, <1>3, <1>4, <1>6 DEF WorkerKnown, NotAfter, Born
<1>8. TokensOfWorker'
  <2>1. \A t \in Targets : NoResults[t] # "ok"
    BY DEF NoResults
  <2>2. \A k \in tokens' : k.target \in Targets
    BY DEF TypeOK, Tokens
  <2> QED BY <1>3, <1>4, <1>5, <2>1, <2>2 DEF TokensOfWorker
<1> QED BY <1>2, <1>7, <1>8 DEF TokenInv

\* The end of a reconcile.
LEMMA TokenEnd ==
  ASSUME TokenInv, Ended, TypeOK', now' = now, ObjectStep, UNCHANGED <<cached, changes>>
  PROVE  TokenInv'
<1>1. now <= now'
  BY Numbers DEF TokenInv
<1>2. ObjectsOrdered' /\ TokensKnown' /\ OneTokenPerTarget'
  BY <1>1, FewerTokens DEF Ended
<1> QED BY <1>2 DEF TokenInv, Ended, WorkerKnown, TokensOfWorker

\* A move, in particular one with the generation of the object that a patch answered with.
LEMMA TokenMove ==
  ASSUME TokenInv, Moved, TypeOK', now' = now, ObjectStep, UNCHANGED <<cached, changes>>
  PROVE  TokenInv'
<1>0. TypeOK /\ WorkerKnown /\ TokensOfWorker /\ TokensKnown
  BY DEF TokenInv
<1>1. now <= now'
  BY Numbers DEF TokenInv
<1>2. ObjectsOrdered' /\ TokensKnown' /\ OneTokenPerTarget'
  BY <1>1, FewerTokens DEF Moved
<1>3. /\ \A i, g : NotAfter(i, g, api) => NotAfter(i, g, api')
      /\ \A i : StillThere(i)' => StillThere(i)
  BY WorkerKeepsAge DEF TokenInv
<1>4. rec # Idle /\ rec' # Idle /\ rec.inc \in Nat /\ rec.gen \in Nat
  BY <1>0, BusyIsNotIdle, Numbers DEF Moved
<1>5. NotAfter(rec.inc, rec.gen, api)
  BY <1>0, <1>4 DEF WorkerKnown
<1>6. NotAfter(rec.inc, rec'.gen, api)
  BY <1>0, <1>5, Numbers DEF Moved, NotAfter
<1>7. WorkerKnown'
  <2>1. Born(rec.inc)' /\ NotAfter(rec'.inc, rec'.gen, api') /\ \A k \in tokens' : k.inc <= rec'.inc
    BY <1>0, <1>3, <1>4, <1>6 DEF Moved, WorkerKnown, Born
  <2>2. ASSUME rec'.pc \in Early
        PROVE  /\ NotAfter(rec'.inc, rec'.gen, cached')
               /\ \A k \in tokens' : k.inc = rec'.inc => k.gen = rec'.gen
    BY <1>0, <1>4, <2>2 DEF Moved, WorkerKnown
  <2>3. rec'.pc \in Unexecuted => rec'.results = NoResults
    BY <1>0, <1>4 DEF Moved, WorkerKnown
  <2> QED BY <2>1, <2>2, <2>3 DEF WorkerKnown, NotAfter, Born, Moved
<1>8. TokensOfWorker'
  <2> SUFFICES ASSUME StillThere(rec.inc)', NEW k \in tokens', k.inc = rec'.inc
               PROVE  /\ k.gen <= rec'.gen
                      /\ k.gen = rec'.gen /\ k.completed # 0 /\ rec'.results[k.target] = "ok"
                           => k.completed = now'
    BY DEF TokensOfWorker
  <2>1. StillThere(rec.inc) /\ k \in tokens /\ k.inc = rec.inc /\ k.gen \in Nat
    BY <1>0, <1>3, Numbers DEF Moved, StillThere
  <2>2. /\ k.gen <= rec.gen
        /\ k.gen = rec.gen /\ k.completed # 0 /\ rec.results[k.target] = "ok" => k.completed = now
    BY <1>0, <1>4, <2>1 DEF TokensOfWorker
  <2>3. rec'.gen = rec.gen \/ (rec'.gen = api.gen /\ rec.gen <= api.gen /\ api.gen \in Nat)
    BY <1>0, <1>4, <1>5, <2>1, Numbers DEF Moved, NotAfter, StillThere
  <2> QED BY <1>4, <2>1, <2>2, <2>3 DEF Moved
<1> QED BY <1>2, <1>7, <1>8 DEF TokenInv

\* The start of tokens: the targets that get one have none of this incarnation.
LEMMA TokenStart ==
  ASSUME TokenInv, Started, TypeOK', now' = now, UNCHANGED <<object, changes>>
  PROVE  TokenInv'
<1>0. TypeOK /\ WorkerKnown /\ TokensKnown /\ OneTokenPerTarget /\ UNCHANGED <<api, cached>>
  BY DEF TokenInv, object
<1>1. /\ rec \in Busy /\ rec.pc = "diff" /\ rec' \in Busy /\ rec'.pc = "prepatch"
      /\ rec'.inc = rec.inc /\ rec'.gen = rec.gen /\ rec'.results = rec.results
      /\ tokens \subseteq tokens'
      /\ \A k \in tokens' \ tokens :
           /\ k.inc = rec.inc /\ k.gen = rec.gen /\ k.detected = now /\ k.completed = 0
           /\ \A l \in tokens : l.target # k.target \/ l.gen # rec.gen
      /\ \A k, l \in tokens' \ tokens : k.target = l.target => k = l
  BY <1>0, StartedFacts
<1>2. rec # Idle /\ rec' # Idle /\ rec.pc \in Early /\ rec.pc \in Unexecuted
      /\ rec.inc \in Nat /\ rec.gen \in Nat /\ now \in Nat
  BY <1>0, <1>1, BusyIsNotIdle, Numbers DEF Early, Unexecuted
<1>3. /\ Born(rec.inc) /\ NotAfter(rec.inc, rec.gen, api) /\ NotAfter(rec.inc, rec.gen, cached)
      /\ \A k \in tokens : k.inc <= rec.inc /\ (k.inc = rec.inc => k.gen = rec.gen)
      /\ rec.results = NoResults
  BY <1>0, <1>2 DEF WorkerKnown
<1>4. \A k \in tokens' : k.inc <= rec.inc /\ (k.inc = rec.inc => k.gen = rec.gen)
  BY <1>1, <1>2, <1>3
<1>5. TokensKnown'
  <2> SUFFICES ASSUME NEW k \in tokens'
               PROVE  /\ Born(k.inc) /\ NotAfter(k.inc, k.gen, cached)
                      /\ NotAfter(k.inc, k.gen, api) /\ k.detected <= now
    BY <1>0 DEF TokensKnown, Born, NotAfter
  <2>1. CASE k \in tokens
    BY <1>0, <2>1 DEF TokensKnown
  <2>2. CASE k \notin tokens
    BY <1>1, <1>2, <1>3, <2>2
  <2> QED BY <2>1, <2>2
<1>6. OneTokenPerTarget'
  <2> SUFFICES ASSUME NEW k \in tokens', NEW l \in tokens', k.target = l.target, k.inc = l.inc
               PROVE  k = l
    BY DEF OneTokenPerTarget
  <2>1. k \in tokens /\ l \in tokens => k = l
    BY <1>0 DEF OneTokenPerTarget
  <2>2. k \notin tokens => l \notin tokens
    BY <1>1, <1>3
  <2>3. l \notin tokens => k \notin tokens
    BY <1>1, <1>3
  <2> QED BY <1>1, <2>1, <2>2, <2>3
<1>7. WorkerKnown'
  <2>1. "prepatch" \notin Early
    BY DEF Early
  <2> QED BY <1>0, <1>1, <1>3, <1>4, <2>1 DEF WorkerKnown, Born, NotAfter
<1>8. TokensOfWorker'
  <2>1. \A t \in Targets : NoResults[t] # "ok"
    BY DEF NoResults
  <2>2. \A k \in tokens' : k.target \in Targets
    BY DEF TypeOK, Tokens
  <2> QED BY <1>1, <1>2, <1>3, <1>4, <2>1, <2>2 DEF TokensOfWorker
<1>9. ObjectsOrdered'
  BY <1>0 DEF TokenInv, ObjectsOrdered, NotAfter, Born
<1> QED BY <1>5, <1>6, <1>7, <1>8, <1>9 DEF TokenInv

\* The staging of the actions that were executed.
LEMMA TokenExecute == ASSUME TokenInv, Execute, TypeOK' PROVE TokenInv'
<1>0. /\ TypeOK /\ WorkerKnown /\ TokensKnown /\ TokensOfWorker /\ OneTokenPerTarget
      /\ UNCHANGED <<api, cached, now, changes>>
  BY DEF TokenInv, Execute, object
<1>1. /\ rec \in Busy /\ rec.pc = "execute" /\ rec' \in Busy /\ rec'.pc = "postpatch"
      /\ rec'.inc = rec.inc /\ rec'.gen = rec.gen
      /\ \A k \in tokens' : \E l \in tokens :
           /\ k.target = l.target /\ k.gen = l.gen /\ k.inc = l.inc /\ k.detected = l.detected
           /\ IF l.gen = rec.gen /\ rec'.results[l.target] = "ok"
              THEN k = [l EXCEPT !.completed = now] /\ k.completed = now ELSE k = l
  BY <1>0, ExecuteFacts
<1>2. rec # Idle /\ rec' # Idle /\ "postpatch" \notin Unexecuted /\ "postpatch" \notin Early
  BY <1>1, BusyIsNotIdle DEF Early, Unexecuted
<1>3. TokensKnown'
  <2> SUFFICES ASSUME NEW k \in tokens'
               PROVE  /\ Born(k.inc) /\ NotAfter(k.inc, k.gen, cached)
                      /\ NotAfter(k.inc, k.gen, api) /\ k.detected <= now
    BY <1>0 DEF TokensKnown, Born, NotAfter
  <2> QED BY <1>0, <1>1 DEF TokensKnown
<1>4. OneTokenPerTarget'
  <2> SUFFICES ASSUME NEW k \in tokens', NEW l \in tokens', k.target = l.target, k.inc = l.inc
               PROVE  k = l
    BY DEF OneTokenPerTarget
  <2>1. PICK p \in tokens :
          /\ k.target = p.target /\ k.inc = p.inc
          /\ IF p.gen = rec.gen /\ rec'.results[p.target] = "ok"
             THEN k = [p EXCEPT !.completed = now] ELSE k = p
    BY <1>1
  <2>2. PICK q \in tokens :
          /\ l.target = q.target /\ l.inc = q.inc
          /\ IF q.gen = rec.gen /\ rec'.results[q.target] = "ok"
             THEN l = [q EXCEPT !.completed = now] ELSE l = q
    BY <1>1
  <2>3. p = q
    BY <1>0, <2>1, <2>2 DEF OneTokenPerTarget
  <2> QED BY <2>1, <2>2, <2>3
<1>5. WorkerKnown'
  <2>1. Born(rec.inc) /\ NotAfter(rec.inc, rec.gen, api) /\ \A k \in tokens : k.inc <= rec.inc
    BY <1>0, <1>2 DEF WorkerKnown
  <2>2. \A k \in tokens' : k.inc <= rec.inc
    BY <1>1, <2>1
  <2> QED BY <1>0, <1>1, <1>2, <2>1, <2>2 DEF WorkerKnown, Born, NotAfter
<1>6. TokensOfWorker'
  <2> SUFFICES ASSUME StillThere(rec.inc), NEW k \in tokens', k.inc = rec.inc
               PROVE  /\ k.gen <= rec.gen
                      /\ k.gen = rec.gen /\ k.completed # 0 /\ rec'.results[k.target] = "ok"
                           => k.completed = now
    BY <1>0, <1>1 DEF TokensOfWorker, StillThere
  <2> QED BY <1>0, <1>1, <1>2 DEF TokensOfWorker
<1>7. ObjectsOrdered'
  BY <1>0 DEF TokenInv, ObjectsOrdered, NotAfter, Born
<1> QED BY <1>3, <1>4, <1>5, <1>6, <1>7 DEF TokenInv

\* The invariant holds at the start.
LEMMA TokenInit == Init => TokenInv
<1> SUFFICES ASSUME Init PROVE TokenInv
  OBVIOUS
<1>1. PICK s \in Specs : \E status \in {Fresh, Legacy(s)} :
        api = [inc |-> 1, gen |-> 1, spec |-> s, deleting |-> FALSE, status |-> status]
  BY DEF Init
<1>2. api.inc = 1 /\ api.gen = 1
  BY <1>1
<1>3. cached = api /\ tokens = {} /\ rec = Idle /\ changes = 0
  BY DEF Init
<1>4. ObjectsOrdered
  BY <1>2, <1>3 DEF ObjectsOrdered, Born, NotAfter
<1> QED BY <1>3, <1>4, TypeInit
        DEF TokenInv, TokensKnown, WorkerKnown, TokensOfWorker, OneTokenPerTarget

\* Every step keeps the invariant.
LEMMA TokenStep == TokenInv /\ [Next]_vars => TokenInv'
<1> SUFFICES ASSUME TokenInv, [Next]_vars PROVE TokenInv'
  OBVIOUS
<1>0. TypeOK /\ TypeOK'
  BY TypeStep DEF TokenInv
<1>1. CASE Worker
  <2>1. ObjectStep /\ UNCHANGED <<cached, changes>> /\ (now' = now \/ Fetch)
    BY <1>0, <1>1, WorkerEffect, WorkerFrame
  <2>2. CASE Started /\ ~Fetch
    <3>1. UNCHANGED object
      BY <1>0, <1>1, <2>2, BusyAt
         DEF Worker, Started, At, FetchGone, Delete, Validate, Gate, UpdatePending, Diff, PrePatch,
             PostPatch, Patch, Execute, UpdateAfterReconcile, Refetch
    <3> QED BY <1>0, <2>1, <2>2, <3>1, TokenStart
  <2>3. CASE Fetch \/ Execute
    BY <1>0, <2>3, TokenFetch, TokenExecute
  <2>4. CASE (Ended \/ Moved) /\ ~Fetch
    BY <1>0, <2>1, <2>4, TokenEnd, TokenMove
  <2> QED BY <1>0, <1>1, <2>2, <2>3, <2>4, WorkerEffect
<1>2. CASE CatchUp
  <2>1. UNCHANGED <<api, tokens, rec, now, changes>> /\ cached' = api
    BY <1>2 DEF CatchUp, tracker
  <2>2. ObjectsOrdered'
    BY <2>1, Numbers DEF TokenInv, ObjectsOrdered, NotAfter, Born
  <2>3. TokensKnown' /\ TokensOfWorker' /\ OneTokenPerTarget'
    BY <2>1 DEF TokenInv, TokensKnown, NotAfter, Born, TokensOfWorker, StillThere, OneTokenPerTarget
  <2>4. WorkerKnown'
    BY <2>1 DEF TokenInv, WorkerKnown, NotAfter, Born
  <2> QED BY <1>0, <2>2, <2>3, <2>4 DEF TokenInv
<1>3. CASE Users
  <2>1. UNCHANGED <<tokens, rec, now, cached>>
    BY <1>0, <1>3, UserFacts DEF tracker
  <2>2. /\ ObjectsOrdered'
        /\ \A i \in Nat : Born(i) => Born(i)'
        /\ \A i, g \in Nat : Born(i) /\ NotAfter(i, g, api) => NotAfter(i, g, api')
        /\ \A i \in Nat : Born(i) /\ StillThere(i)' => StillThere(i)
    BY <1>3, UsersKeepAge DEF TokenInv
  <2>3. TokensKnown'
    <3> SUFFICES ASSUME NEW k \in tokens
                 PROVE  /\ Born(k.inc)' /\ NotAfter(k.inc, k.gen, cached')
                        /\ NotAfter(k.inc, k.gen, api') /\ k.detected <= now
      BY <2>1 DEF TokensKnown, NotAfter, Born
    <3>1. k.inc \in Nat /\ k.gen \in Nat
      BY <1>0, Numbers
    <3> QED BY <2>1, <2>2, <3>1 DEF TokenInv, TokensKnown
  <2>4. rec # Idle => rec.inc \in Nat /\ rec.gen \in Nat /\ Born(rec.inc)
    BY <1>0, Numbers DEF TokenInv, WorkerKnown
  <2>5. WorkerKnown'
    <3> SUFFICES ASSUME rec # Idle
                 PROVE  /\ Born(rec.inc)' /\ NotAfter(rec.inc, rec.gen, api')
                        /\ \A k \in tokens : k.inc <= rec.inc
                        /\ rec.pc \in Early =>
                             /\ NotAfter(rec.inc, rec.gen, cached)
                             /\ \A k \in tokens : k.inc = rec.inc => k.gen = rec.gen
                        /\ rec.pc \in Unexecuted => rec.results = NoResults
      BY <2>1 DEF WorkerKnown, NotAfter, Born
    <3>1. WorkerKnown
      BY DEF TokenInv
    <3> QED BY <2>1, <2>2, <2>4, <3>1 DEF WorkerKnown
  <2>6. TokensOfWorker'
    <3>1. rec # Idle /\ StillThere(rec.inc)' => StillThere(rec.inc)
      BY <2>1, <2>2, <2>4 DEF StillThere
    <3> QED BY <2>1, <3>1 DEF TokenInv, TokensOfWorker
  <2> QED BY <1>0, <2>1, <2>2, <2>3, <2>5, <2>6 DEF TokenInv, OneTokenPerTarget
<1>4. CASE Crash
  <2>1. rec' = Idle /\ tokens' = {} /\ api' = api /\ cached' = api /\ changes' = changes
    BY <1>4 DEF Crash, Environment
  <2>2. ObjectsOrdered'
    BY <2>1, Numbers DEF TokenInv, ObjectsOrdered, NotAfter, Born
  <2> QED BY <1>0, <2>1, <2>2
          DEF TokenInv, TokensKnown, WorkerKnown, TokensOfWorker, OneTokenPerTarget
<1>5. CASE UNCHANGED vars
  <2>1. UNCHANGED <<api, cached, tokens, rec, now, changes>>
    BY <1>5 DEF vars, object, tracker
  <2>2. ObjectsOrdered' /\ TokensKnown' /\ OneTokenPerTarget'
    BY <2>1 DEF TokenInv, ObjectsOrdered, TokensKnown, OneTokenPerTarget, NotAfter, Born
  <2>3. WorkerKnown' /\ TokensOfWorker'
    BY <2>1 DEF TokenInv, WorkerKnown, TokensOfWorker, NotAfter, Born, StillThere
  <2> QED BY <1>0, <2>2, <2>3 DEF TokenInv
<1> QED BY <1>1, <1>2, <1>3, <1>4, <1>5 DEF Next
-------------------------------------------------------------------------------
(***************************************************************************)
(* Tokens and the work queue.                                              *)
(***************************************************************************)

\* The informer has yet to deliver a deletion it has not shown.
DeletionAnnounced == api = NoMapping /\ cached # NoMapping => "enqueue" \in watch

\* A reconcile will come for a mapping the informer does not show and the tracker still has.
TokensQueued == cached = NoMapping /\ (rec # Idle \/ tokens # {}) => queued

QueueInv == TypeOK /\ DeletionAnnounced /\ TokensQueued

\* Every write of the object leaves the event of a deletion in the watch.
LEMMA StoreAnnounces ==
  ASSUME DeletionAnnounced, UNCHANGED object \/ \E new : Store(new) PROVE DeletionAnnounced'
BY DEF DeletionAnnounced, Store, Enqueues, object

\* Every step keeps the invariant.
LEMMA QueueStep == QueueInv /\ [Next]_vars => QueueInv'
<1> SUFFICES ASSUME QueueInv, [Next]_vars PROVE QueueInv'
  OBVIOUS
<1>0. TypeOK /\ TypeOK' /\ DeletionAnnounced /\ TokensQueued
  BY TypeStep DEF QueueInv
<1>1. CASE Worker
  <2>1. /\ ObjectStep /\ cached' = cached
        /\ Ended \/ Moved \/ Fetch \/ Started \/ Execute
        /\ queued => queued' \/ FetchGone \/ Fetch
    BY <1>0, <1>1, WorkerEffect, WorkerFrame
  <2>2. DeletionAnnounced'
    BY <1>0, <2>1, StoreAnnounces DEF ObjectStep, StatusWrite, Written
  <2>3. CASE Fetch
    BY <1>0, <2>1, <2>2, <2>3 DEF QueueInv, TokensQueued, Fetch
  <2>4. CASE FetchGone
    <3>1. rec = Idle
      BY <1>0, <2>4, BusyIsNotIdle DEF FetchGone, At, TypeOK
    <3> QED BY <1>0, <2>2, <2>4, <3>1 DEF QueueInv, TokensQueued, FetchGone, Forget
  <2>5. CASE ~Fetch /\ ~FetchGone
    <3>1. rec' # Idle \/ tokens' # {} => rec # Idle \/ tokens # {}
      BY <1>0, <2>1, <2>5, StartedFacts, ExecuteFacts, BusyIsNotIdle DEF Ended, Moved
    <3> QED BY <1>0, <2>1, <2>2, <2>5, <3>1 DEF QueueInv, TokensQueued
  <2> QED BY <2>3, <2>4, <2>5
<1>2. CASE CatchUp
  <2>1. /\ UNCHANGED <<api, tokens, rec>> /\ cached' = api
        /\ queued' = (queued \/ "enqueue" \in watch)
    BY <1>2 DEF CatchUp, tracker
  <2> QED BY <1>0, <2>1 DEF QueueInv, DeletionAnnounced, TokensQueued
<1>3. CASE Users
  <2>1. DeletionAnnounced'
    BY <1>0, <1>3, UserFacts, StoreAnnounces
  <2>2. UNCHANGED <<tokens, rec, cached>> /\ (queued => queued')
    BY <1>0, <1>3, UserFacts DEF tracker
  <2> QED BY <1>0, <2>1, <2>2 DEF QueueInv, TokensQueued
<1>4. CASE Crash
  BY <1>0, <1>4 DEF Crash, QueueInv, DeletionAnnounced, TokensQueued
<1>5. CASE UNCHANGED vars
  BY <1>0, <1>5 DEF vars, object, tracker, QueueInv, DeletionAnnounced, TokensQueued
<1> QED BY <1>1, <1>2, <1>3, <1>4, <1>5 DEF Next
-------------------------------------------------------------------------------
(***************************************************************************)
(* Statuses.                                                               *)
(***************************************************************************)

\* A status that a reconcile of this object wrote is not of a later generation.
StatusNotAhead == api # NoMapping /\ api.status.inc = api.inc => api.status.gen <= api.gen

StatusInv == RowsOfGeneration /\ StatusNotAhead

\* The statuses an object starts with are not of a reconcile of this controller.
LEMMA StatusInit == Init => StatusInv
<1> SUFFICES ASSUME Init PROVE StatusInv
  OBVIOUS
<1>1. PICK s \in Specs : \E status \in {Fresh, Legacy(s)} :
        api = [inc |-> 1, gen |-> 1, spec |-> s, deleting |-> FALSE, status |-> status]
  BY DEF Init
<1>2. api.inc = 1 /\ api.status.inc = 0
  BY <1>1 DEF Fresh, Legacy
<1> QED BY <1>2 DEF StatusInv, RowsOfGeneration, StatusNotAhead

\* A status write leaves one row for each rule of the object, in order.
LEMMA WritesRows ==
  ASSUME TypeOK, NEW phase \in Phases, StatusWrite(phase)
  PROVE  RowsFor(api')
<1>1. /\ api \in Objects /\ rec \in Busy /\ api'.spec = api.spec
      /\ api'.status = ComputeStatus(api, phase)
  BY StatusWriteFacts DEF StatusWrite
<1>2. /\ DOMAIN api'.status.rows = DOMAIN api.spec
      /\ \A i \in DOMAIN api.spec : api'.status.rows[i].hash = api.spec[i].sel
  BY <1>1, StatusType DEF Phases
<1> QED BY <1>1, <1>2 DEF RowsFor

\* Only a status write changes the status of an object that is there before and after.
LEMMA OnlyStatusWrites ==
  ASSUME TypeOK, [Next]_vars, StatusChanges
  PROVE  \E phase \in Phases : StatusWrite(phase)
<1>1. Worker
  BY UserFacts DEF Next, CatchUp, Crash, StatusChanges, vars, object
<1> QED BY <1>1, WorkerEffect DEF ObjectStep, Store, object, StatusChanges

\* Every step keeps the invariant: a status is written for the spec that was read.
LEMMA StatusStep == TokenInv /\ StatusInv /\ [Next]_vars => StatusInv'
<1> SUFFICES ASSUME TokenInv, StatusInv, [Next]_vars PROVE StatusInv'
  OBVIOUS
<1>0. TypeOK /\ WorkerKnown
  BY DEF TokenInv
<1>1. api' = api => StatusInv'
  BY DEF StatusInv, RowsOfGeneration, StatusNotAhead
<1>2. api' = NoMapping => StatusInv'
  BY DEF StatusInv, RowsOfGeneration, StatusNotAhead
<1>3. ASSUME NEW phase \in Phases, StatusWrite(phase) PROVE StatusInv'
  <2>1. /\ api \in Objects /\ api # NoMapping /\ rec \in Busy
        /\ api'.status = ComputeStatus(api, phase) /\ api'.inc = api.inc /\ api'.gen = api.gen
    BY <1>0, <1>3, StatusWriteFacts DEF StatusWrite
  <2>2. api'.status.gen = rec.gen /\ api'.status.inc = rec.inc
    BY <1>0, <2>1, StatusType DEF Phases
  <2>3. RowsFor(api')
    BY <1>0, <1>3, WritesRows
  <2>4. NotAfter(rec.inc, rec.gen, api) /\ rec.inc \in Nat /\ api.inc \in Nat
    BY <1>0, <2>1, BusyIsNotIdle, Numbers DEF WorkerKnown
  <2>5. StatusNotAhead'
    BY <2>1, <2>2, <2>4 DEF StatusNotAhead, NotAfter
  <2> QED BY <2>3, <2>5 DEF StatusInv, RowsOfGeneration
<1>4. CASE Worker
  <2>1. ObjectStep
    BY <1>0, <1>4, WorkerEffect
  <2> QED BY <1>1, <1>2, <1>3, <2>1 DEF ObjectStep, object, Store
<1>5. CASE Users
  <2>1. ASSUME api \in Objects, api # NoMapping, api'.inc = api.inc, api'.gen = api.gen + 1,
               api'.status = api.status
        PROVE  StatusInv'
    <3>1. api.status.inc = api.inc => api.status.gen <= api.gen
      BY <2>1 DEF StatusInv, StatusNotAhead
    <3>2. api.gen \in Nat /\ api.status.gen \in Nat
      BY <1>0, <2>1, Numbers DEF Objects, Statuses
    <3> QED BY <2>1, <3>1, <3>2 DEF StatusInv, RowsOfGeneration, StatusNotAhead
  <2>2. ASSUME api' \in Objects, api'.status = Fresh PROVE StatusInv'
    <3>1. api'.inc \in Incarnations /\ api'.status.inc = 0
      BY <2>2 DEF Objects, Fresh
    <3>2. api'.inc # 0
      BY <3>1 DEF Incarnations
    <3> QED BY <3>1, <3>2 DEF StatusInv, RowsOfGeneration, StatusNotAhead
  <2> QED BY <1>0, <1>1, <1>2, <1>5, <2>1, <2>2, UserFacts
<1>6. CASE CatchUp \/ Crash \/ UNCHANGED vars
  BY <1>1, <1>6 DEF CatchUp, Crash, vars, object
<1> QED BY <1>4, <1>5, <1>6 DEF Next
-------------------------------------------------------------------------------
(***************************************************************************)
(* The times of the rows.                                                  *)
(***************************************************************************)

\* No two rules of a mapping have the same selector.  With two of them the second row takes
\* from a queue that may be empty, and then has no time although the selector had one.
DistinctSelectors == \A s \in Specs : \A i, j \in DOMAIN s : s[i].sel = s[j].sel => i = j

\* Then no two rows of a status with hashes have the same one.
HashesDistinct ==
  api # NoMapping /\ (\E i \in DOMAIN api.status.rows : api.status.rows[i].hash # NoHash) =>
    \A i, j \in DOMAIN api.status.rows :
      api.status.rows[i].hash = api.status.rows[j].hash => i = j

\* A row that is not in sync has the time of the previous row with its hash, or none.
LEMMA TakesItsTime ==
  ASSUME DistinctSelectors, NEW o \in Objects, NEW states, NEW i \in DOMAIN o.spec,
         \E j \in DOMAIN o.status.rows : o.status.rows[j].hash # NoHash,
         \A j, k \in DOMAIN o.status.rows :
           o.status.rows[j].hash = o.status.rows[k].hash => j = k
  PROVE  IF \E j \in DOMAIN o.status.rows : o.status.rows[j].hash = o.spec[i].sel
         THEN \E j \in DOMAIN o.status.rows :
                /\ o.status.rows[j].hash = o.spec[i].sel
                /\ preserved(o.status.rows, o.spec, states, i) = o.status.rows[j].sync
         ELSE preserved(o.status.rows, o.spec, states, i) = 0
<1> DEFINE prev == o.status.rows
           queue == {j \in DOMAIN prev : prev[j].hash = o.spec[i].sel}
           taken == {j \in 1..(i - 1) : o.spec[j].sel = o.spec[i].sel /\ states[j] # "Synced"}
           head == {j \in queue : Cardinality({k \in queue : k < j}) = Cardinality(taken)}
<1>1. /\ o.spec \in Specs /\ DOMAIN o.spec = 1..Len(o.spec) /\ Len(o.spec) \in Nat
      /\ DOMAIN prev = 1..Len(prev) /\ Len(prev) \in Nat
  BY ObjectFields
<1>2. preserveLastSyncTimeBySelector(prev, o.spec, states, i)
        = IF head = {} THEN 0 ELSE prev[CHOOSE j \in head : TRUE].sync
  BY DEF preserveLastSyncTimeBySelector
<1>3. preserved(prev, o.spec, states, i) = preserveLastSyncTimeBySelector(prev, o.spec, states, i)
  BY DEF preserved
<1>4. CASE queue = {}
  <2>1. head = {}
    BY <1>4
  <2> QED BY <1>2, <1>3, <1>4, <2>1
<1>5. CASE queue # {}
  <2>1. PICK q \in DOMAIN prev : prev[q].hash = o.spec[i].sel
    BY <1>5
  <2>2. queue = {q}
    BY <2>1
  <2>3. {k \in queue : k < q} = {}
    BY <1>1, <2>1, <2>2
  <2>4. taken = {}
    <3> SUFFICES ASSUME NEW j \in 1..(i - 1), o.spec[j].sel = o.spec[i].sel PROVE FALSE
      OBVIOUS
    <3>1. j \in DOMAIN o.spec /\ j # i
      BY <1>1
    <3> QED BY <1>1, <3>1 DEF DistinctSelectors
  <2>5. q \in head
    BY <2>1, <2>3, <2>4
  <2>6. head \subseteq {q}
    BY <2>2
  <2> HIDE DEF head
  <2>7. (CHOOSE j \in head : TRUE) = q
    BY <2>5, <2>6
  <2>8. preserved(prev, o.spec, states, i) = prev[q].sync
    BY <1>2, <1>3, <2>5, <2>7
  <2> QED BY <2>1, <2>8
<1> QED BY <1>4, <1>5

\* The rows of the statuses stay distinct.
LEMMA HashesInit == Init => HashesDistinct
<1> SUFFICES ASSUME Init PROVE HashesDistinct
  OBVIOUS
<1>1. PICK s \in Specs : \E status \in {Fresh, Legacy(s)} :
        api = [inc |-> 1, gen |-> 1, spec |-> s, deleting |-> FALSE, status |-> status]
  BY DEF Init
<1>2. api.status.rows = <<>>
      \/ api.status.rows = [i \in DOMAIN s |-> [hash |-> NoHash, state |-> "Synced", sync |-> 1]]
  BY <1>1 DEF Fresh, Legacy
<1>3. DOMAIN <<>> = {}
  OBVIOUS
<1> QED BY <1>2, <1>3 DEF HashesDistinct

\* Every step keeps them distinct: only a status write changes rows.
LEMMA HashesStep ==
  ASSUME DistinctSelectors, TypeOK, HashesDistinct, [Next]_vars PROVE HashesDistinct'
<1>1. api' = api \/ api' = NoMapping => HashesDistinct'
  BY DEF HashesDistinct
<1>2. ASSUME NEW phase \in Phases, StatusWrite(phase) PROVE HashesDistinct'
  <2>1. api \in Objects /\ rec \in Busy /\ api'.status = ComputeStatus(api, phase)
    BY <1>2, StatusWriteFacts DEF StatusWrite
  <2>2. /\ DOMAIN api'.status.rows = DOMAIN api.spec
        /\ \A i \in DOMAIN api.spec : api'.status.rows[i].hash = api.spec[i].sel
    BY <2>1, StatusType DEF Phases
  <2>3. api.spec \in Specs
    BY <2>1 DEF Objects
  <2> QED BY <2>2, <2>3 DEF HashesDistinct, DistinctSelectors
<1>3. CASE Worker
  <2>1. ObjectStep
    BY <1>3, WorkerEffect
  <2> QED BY <1>1, <1>2, <2>1 DEF ObjectStep, object, Store
<1>4. CASE Users
  <2>1. ASSUME api # NoMapping, api'.status = api.status PROVE HashesDistinct'
    BY <2>1 DEF HashesDistinct
  <2>2. ASSUME api'.status = Fresh PROVE HashesDistinct'
    <3>1. DOMAIN api'.status.rows = {}
      BY <2>2 DEF Fresh
    <3> QED BY <3>1 DEF HashesDistinct
  <2> QED BY <1>1, <1>4, <2>1, <2>2, UserFacts
<1>5. CASE CatchUp \/ Crash \/ UNCHANGED vars
  BY <1>1, <1>5 DEF CatchUp, Crash, vars, object
<1> QED BY <1>3, <1>4, <1>5 DEF Next
-------------------------------------------------------------------------------
(***************************************************************************)
(* The theorems.                                                           *)
(***************************************************************************)

\* The state stays well typed: the work of a reconcile, the attempts of a status write, the
\* statuses it computes, and the tokens, which are told apart by target and generation.
THEOREM TypeCorrect == Spec => []TypeOK
BY TypeInit, TypeStep, PTL DEF Spec

\* Tokens of abandoned generations do not pile up, whatever the order of spec changes, informer
\* lag, patches that advance the worker's generation, deletions and recreations.
THEOREM TokensDoNotPileUp == Spec => []OneTokenPerTarget
<1>1. TokenInv => OneTokenPerTarget
  BY DEF TokenInv
<1> QED BY <1>1, TokenInit, TokenStep, PTL DEF Spec

\* The tracker has forgotten a mapping that is gone by the time nothing is left to do for it.
THEOREM GoneIsForgotten == Spec => []NoTokenWithoutMapping
<1>1. Init => QueueInv
  BY TypeInit DEF Init, QueueInv, DeletionAnnounced, TokensQueued
<1>2. QueueInv => NoTokenWithoutMapping
  BY DEF QueueInv, TokensQueued, NoTokenWithoutMapping
<1> QED BY <1>1, <1>2, QueueStep, PTL DEF Spec

\* Every status that is written has the rows of the spec its object then has, whatever copy they
\* were computed from and whichever object the reconcile began with.
THEOREM RowsMatchSpec == Spec => RowsOfSpec
<1>1. TypeOK /\ [Next]_vars => [StatusChanges => RowsFor(api')]_vars
  <2> SUFFICES ASSUME TypeOK, [Next]_vars, StatusChanges PROVE RowsFor(api')
    OBVIOUS
  <2> QED BY OnlyStatusWrites, WritesRows
<1> QED BY <1>1, TypeInit, TypeStep, PTL DEF Spec, RowsOfSpec

\* A status that a reconcile of this object wrote and that carries its generation has the rows
\* of its spec.
THEOREM RowsMatchGeneration == Spec => []RowsOfGeneration
<1>1. StatusInv => RowsOfGeneration
  BY DEF StatusInv
<1> QED BY <1>1, TokenInit, TokenStep, StatusInit, StatusStep, PTL DEF Spec

\* A duration is observed only by the reconcile whose own action completed it, as long as its
\* object is there.
THEOREM ObservedIsOwn == Spec => ObservedWhenCompleted
<1> DEFINE Own == \A k \in observed' \ observed :
                    api # NoMapping /\ k.inc = api.inc => k.completed = now /\ k.detected <= k.completed
<1>1. TokenInv /\ [Next]_vars => [Own]_vars
  <2> SUFFICES ASSUME TokenInv, Next, NEW k \in observed' \ observed,
                      api # NoMapping, k.inc = api.inc
               PROVE  k.completed = now /\ k.detected <= k.completed
    OBVIOUS
  <2>0. TypeOK
    BY DEF TokenInv
  <2>1. Worker
    BY <2>0, UserFacts DEF Next, CatchUp, Crash, tracker
  <2>2. rec \in Busy /\ k \in Committed
    BY <2>0, <2>1, WorkerFrame
  <2>3. k \in tokens /\ k.gen = rec.gen /\ k.completed # 0 /\ rec.results[k.target] = "ok"
    BY <2>2 DEF Committed
  <2>4. rec # Idle
    BY <2>2, BusyIsNotIdle
  <2>5. k.inc <= rec.inc /\ NotAfter(rec.inc, rec.gen, api)
    BY <2>3, <2>4 DEF TokenInv, WorkerKnown
  <2>6. rec.inc = api.inc
    BY <2>0, <2>4, <2>5, Numbers DEF NotAfter
  <2>7. k.completed = now
    BY <2>3, <2>4, <2>6 DEF TokenInv, TokensOfWorker, StillThere
  <2> QED BY <2>3, <2>7 DEF TokenInv, TokensKnown
<1> QED BY <1>1, TokenInit, TokenStep, PTL DEF Spec, ObservedWhenCompleted

\* If the rules of a mapping have different selectors, one of them perhaps empty, a row that is
\* not in sync keeps the time its rule had, through pending and final writes, conflicts, failures
\* and reordered rules, unless the previous status has no hash; then it has the time at its place.
THEOREM SyncTimesKept == ASSUME DistinctSelectors PROVE Spec => LastSyncKept
<1> DEFINE Kept ==
      \A i \in NewRows :
        api'.status.rows[i].state # "Synced" =>
          IF \E j \in DOMAIN api.status.rows : api.status.rows[j].hash # NoHash THEN TimeOfRule(i)
          ELSE api'.status.rows[i].sync = preserveLastSyncTime(api.status.rows, i)
<1>1. TypeOK /\ HashesDistinct /\ [Next]_vars => [Kept]_vars
  <2> SUFFICES ASSUME TypeOK, HashesDistinct, [Next]_vars, StatusChanges,
                      NEW i \in DOMAIN api'.status.rows, api'.status.rows[i].state # "Synced"
               PROVE  IF \E j \in DOMAIN api.status.rows : api.status.rows[j].hash # NoHash
                      THEN TimeOfRule(i)
                      ELSE api'.status.rows[i].sync = preserveLastSyncTime(api.status.rows, i)
    BY DEF NewRows
  <2>1. api # NoMapping
    BY DEF StatusChanges
  <2>2. PICK phase \in Phases : StatusWrite(phase)
    BY OnlyStatusWrites
  <2>3. api \in Objects /\ rec \in Busy /\ api'.status = ComputeStatus(api, phase)
    BY <2>2, StatusWriteFacts DEF StatusWrite
  <2> DEFINE states == [j \in DOMAIN api.spec |->
                          RowState(phase, rec.why, rec.results, api.spec[j])]
  <2>4. /\ i \in DOMAIN api.spec
        /\ api'.status.rows[i].hash = api.spec[i].sel
    BY <2>3, StatusType DEF Phases
  <2>5. /\ api'.status.rows[i].state = states[i]
        /\ api'.status.rows[i].sync = IF states[i] = "Synced" THEN now
                                       ELSE preserved(api.status.rows, api.spec, states, i)
    <3> DEFINE row(k) == [hash |-> api.spec[k].sel, state |-> states[k],
                          sync |-> IF states[k] = "Synced" THEN now
                                   ELSE preserved(api.status.rows, api.spec, states, k)]
    <3>1. ComputeStatus(api, phase).rows = [k \in DOMAIN api.spec |-> row(k)]
      BY DEF ComputeStatus
    <3> HIDE DEF states
    <3>2. api'.status.rows[i] = row(i)
      BY <2>3, <2>4, <3>1
    <3> QED BY <3>2
  <2> HIDE DEF states
  <2>6. api'.status.rows[i].sync = preserved(api.status.rows, api.spec, states, i)
    BY <2>5
  <2>7. CASE \E j \in DOMAIN api.status.rows : api.status.rows[j].hash # NoHash
    <3>1. \A j, k \in DOMAIN api.status.rows :
            api.status.rows[j].hash = api.status.rows[k].hash => j = k
      BY <2>1, <2>7 DEF HashesDistinct
    <3>2. IF \E j \in DOMAIN api.status.rows : api.status.rows[j].hash = api.spec[i].sel
          THEN \E j \in DOMAIN api.status.rows :
                 /\ api.status.rows[j].hash = api.spec[i].sel
                 /\ preserved(api.status.rows, api.spec, states, i) = api.status.rows[j].sync
          ELSE preserved(api.status.rows, api.spec, states, i) = 0
      BY <2>3, <2>4, <2>7, <3>1, TakesItsTime
    <3>3. TimeOfRule(i)
      BY <2>4, <2>6, <3>2 DEF TimeOfRule
    <3> QED BY <2>7, <3>3
  <2>8. CASE ~\E j \in DOMAIN api.status.rows : api.status.rows[j].hash # NoHash
    BY <2>6, <2>8 DEF preserved
  <2> QED BY <2>7, <2>8
<1>2. TypeOK /\ HashesDistinct /\ [Next]_vars => HashesDistinct'
  BY HashesStep
<1> QED BY <1>1, <1>2, TypeInit, TypeStep, HashesInit, PTL DEF Spec, LastSyncKept
===============================================================================
