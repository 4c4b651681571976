----------------------- MODULE MappingReconcilerProofs -----------------------
(***************************************************************************)
(* What the side effects of a reconcile guarantee for every set of         *)
(* targets, specs and addresses and every number of changes and failures.  *)
(*                                                                         *)
(* TypeInv is inductive whether or not the informer lags.  TypeOK alone is *)
(* not: a patch of the annotation is a patch of an object only because an  *)
(* object with the finalizer cannot go while the worker is past the gate   *)
(* (ObjectLives), and the deletion path runs only for objects that are     *)
(* being deleted (DeletionStays).                                          *)
(*                                                                         *)
(* OwnershipInv is inductive when the informer does not lag.  NoOrphans    *)
(* alone is not: what the executor may write is in the annotation because  *)
(* the annotation was widened first and the worker's copy of it is the     *)
(* object's (Widened, CopyInSync); what leaves the annotation, or goes     *)
(* with the finalizer, has been deleted (DeletedIsGone, CleanedIsGone);    *)
(* and an object that goes without the deletion path owns nothing, since   *)
(* owning takes the finalizer (OwnedSafely).                               *)
(***************************************************************************)
EXTENDS MappingReconciler, TLAPS

\* Where the worker is once the resolution is done.
Working == {"gate", "pending", "read", "prepatch", "act", "final", "syserr"}
Lives == api # NoMapping /\ api.finalizer

ObjectLives ==
  /\ rec.pc \in Working => Lives
  /\ rec.pc = "fetched" /\ rec.m.finalizer /\ ~rec.m.deleting => Lives
  /\ cached # NoMapping /\ cached.finalizer /\ ~cached.deleting => Lives

DeletionStays ==
  /\ rec.pc = "cleanup" => rec.m.deleting
  /\ rec.pc \in {"fetched", "cleanup"} /\ rec.m.deleting => cached = NoMapping \/ cached.deleting
  /\ cached = NoMapping => api = NoMapping
  /\ cached # NoMapping /\ cached.deleting => api = NoMapping \/ api.deleting

TypeInv == TypeOK /\ ObjectLives /\ DeletionStays

\* A write leaves the object, its copy and the queue well typed.
LEMMA StoreType ==
  ASSUME TypeOK, NEW new \in Objects \cup {NoMapping}, NEW again \in BOOLEAN, Store(new, again)
  PROVE  /\ api' \in Objects \cup {NoMapping} /\ cached' \in Objects \cup {NoMapping}
         /\ ~Lag => cached' = api'
         /\ queued' \in BOOLEAN
BY DEF TypeOK, Store, Notified

\* Changing a field of an object gives an object.
LEMMA ObjectType ==
  ASSUME NEW o \in Objects
  PROVE  /\ \A s \in Specs : o.gen < MaxGen => [o EXCEPT !.gen = @ + 1, !.spec = s] \in Objects
         /\ o.gen < MaxGen => [o EXCEPT !.gen = @ + 1, !.deleting = TRUE] \in Objects
         /\ [o EXCEPT !.finalizer = TRUE] \in Objects
         /\ \A ts \in SUBSET Targets : [o EXCEPT !.owned = ts] \in Objects
         /\ \A st \in Statuses : [o EXCEPT !.status = st] \in Objects
<1>1. o.gen < MaxGen => o.gen + 1 \in Gens
  BY BoundsAssumption DEF Objects, Gens
<1> QED BY <1>1 DEF Objects

\* What the worker keeps of an object is well typed.
LEMMA LocalType == ASSUME NEW o \in Objects PROVE Local(o) \in Locals
BY DEF Objects, Local, Locals

\* The controller starts with well-typed state.
LEMMA TypeInit == Init => TypeInv
<1> SUFFICES ASSUME Init PROVE TypeInv
  OBVIOUS
<1>1. api \in Objects /\ api.finalizer = FALSE /\ api.deleting = FALSE
  BY BoundsAssumption DEF Init, Objects, Statuses, Gens
<1>2. rec.pc = "idle"
  BY DEF Init, Idle
<1>3. TypeOK
  BY <1>1, BoundsAssumption DEF Init, TypeOK, Contents
<1> QED BY <1>1, <1>2, <1>3, NoMappingAssumption
    DEF Init, TypeInv, ObjectLives, DeletionStays, Working

\* Users keep the types; they cannot remove an object that has the finalizer.
LEMMA TypeUsers ==
  ASSUME TypeInv, Users
  PROVE  TypeInv'
<1>1. CASE SpecChanged
  <2>1. PICK s \in Specs : Store([api EXCEPT !.gen = @ + 1, !.spec = s], queued)
    BY <1>1 DEF SpecChanged
  <2>2. [api EXCEPT !.gen = @ + 1, !.spec = s] \in Objects
    BY <1>1, ObjectType DEF SpecChanged, TypeInv, TypeOK
  <2>3. TypeOK'
    BY <1>1, <2>1, <2>2, StoreType, BoundsAssumption DEF SpecChanged, TypeInv, TypeOK, Change
  <2> QED BY <1>1, <2>1, <2>2, <2>3, NoMappingAssumption
      DEF SpecChanged, TypeInv, TypeOK, Store, ObjectLives, DeletionStays, Lives, Objects
<1>2. CASE DeleteRequested
  <2>1. CASE api.finalizer
    <3>1. [api EXCEPT !.gen = @ + 1, !.deleting = TRUE] \in Objects
      BY <1>2, <2>1, ObjectType DEF DeleteRequested, TypeInv, TypeOK
    <3>2. TypeOK'
      BY <1>2, <2>1, <3>1, StoreType, BoundsAssumption DEF DeleteRequested, TypeInv, TypeOK, Change
    <3> QED BY <1>2, <2>1, <3>1, <3>2, NoMappingAssumption
        DEF DeleteRequested, TypeInv, TypeOK, Store, ObjectLives, DeletionStays, Lives, Objects
  <2>2. CASE ~api.finalizer
    <3>1. TypeOK'
      BY <1>2, <2>2, StoreType, BoundsAssumption DEF DeleteRequested, TypeInv, TypeOK, Change
    <3> QED BY <1>2, <2>2, <3>1, NoMappingAssumption
        DEF DeleteRequested, TypeInv, TypeOK, Store, ObjectLives, DeletionStays, Lives, Objects
  <2> QED BY <2>1, <2>2
<1>3. CASE PodsChanged
  BY <1>3, BoundsAssumption DEF PodsChanged, TypeInv, TypeOK, Change, ObjectLives, DeletionStays, Lives
<1>4. CASE Drift
  BY <1>4, BoundsAssumption DEF Drift, TypeInv, TypeOK, Change, ObjectLives, DeletionStays, Lives
<1> QED BY <1>1, <1>2, <1>3, <1>4 DEF Users

\* Where the worker is tells what it holds.
LEMMA WorkerType ==
  ASSUME TypeOK
  PROVE  /\ At("idle") <=> rec = Idle
         /\ At("fetched") <=> rec \in Fetched
         /\ rec.pc \in {"gate", "pending", "read"} <=> rec \in Resolved
         /\ rec.pc \in {"prepatch", "act", "final", "syserr"} <=> rec \in Planned
         /\ At("cleanup") <=> rec \in Cleaning
         /\ rec # Idle => rec.m \in Locals
BY DEF TypeOK, At, Idle, Fetched, Resolved, Planned, Cleaning

\* A step that leaves the object alone only has to account for the worker.
LEMMA ObjectKept ==
  ASSUME TypeInv, UNCHANGED <<api, cached>>,
         rec'.pc \in Working => rec.pc \in Working,
         rec'.pc \notin {"fetched", "cleanup"}
  PROVE  ObjectLives' /\ DeletionStays'
BY DEF TypeInv, ObjectLives, DeletionStays, Lives

\* The count of failures stays within its bound.
LEMMA FailuresType == ASSUME TypeOK, Works \/ Fails PROVE failures' \in 0..MaxFailures
BY BoundsAssumption DEF TypeOK, Works, Fails

\* A reconcile that ends with a sentinel of a status write keeps the types.
LEMMA SentinelType ==
  ASSUME TypeInv, SentinelReturn, UNCHANGED <<azure, late, users>>
  PROVE  TypeInv'
<1>1. TypeOK'
  BY BoundsAssumption DEF TypeInv, TypeOK, SentinelReturn, ObjectUntouched, Works, users
<1>2. rec'.pc = "idle"
  BY DEF SentinelReturn, Idle
<1> QED BY <1>1, <1>2, ObjectKept DEF TypeInv, SentinelReturn, ObjectUntouched, Working

\* A status write changes nothing of the object but its status.
LEMMA StatusKeepsAnnotation ==
  ASSUME TypeInv, rec.pc \in Working, NEW reconciled \in BOOLEAN, NEW again,
         StatusWritten(reconciled, rec.spec, again)
  PROVE  /\ api \in Objects /\ api # NoMapping /\ api' \in Objects /\ api' # NoMapping
         /\ api'.finalizer = api.finalizer /\ api'.deleting = api.deleting
         /\ api'.owned = api.owned
         /\ cached' \in {api, api'}
<1> DEFINE st == [gen |-> m.gen, reconciled |-> reconciled, applied |-> rec.spec]
<1>1. rec.m \in Locals /\ rec.spec \in Specs
  BY WorkerType DEF TypeInv, Working, Resolved, Planned, TypeOK, Idle, Fetched, Cleaning
<1>2. st \in Statuses
  BY <1>1, BoundsAssumption DEF m, Locals, Statuses, Gens
<1>3. api \in Objects /\ api # NoMapping /\ cached = api
  BY DEF StatusWritten, ObjectGone, TypeInv, TypeOK
<1>4. api' = [api EXCEPT !.status = st] /\ cached' \in {cached, api'}
  BY DEF StatusWritten, Store
<1> HIDE DEF st
<1>5. api' \in Objects
  BY <1>2, <1>3, <1>4, ObjectType
<1> QED BY <1>3, <1>4, <1>5, NoMappingAssumption DEF Objects

\* A status write keeps the types, whatever the worker does next.
LEMMA StatusWriteType ==
  ASSUME TypeInv, NEW reconciled \in BOOLEAN, NEW again \in BOOLEAN, rec.pc \in Working,
         StatusWritten(reconciled, rec.spec, again), rec'.pc \in Working \cup {"idle"}
  PROVE  /\ api' \in Objects /\ cached' \in Objects \cup {NoMapping} /\ (~Lag => cached' = api')
         /\ queued' \in BOOLEAN
         /\ failures' \in 0..MaxFailures
         /\ ObjectLives' /\ DeletionStays'
<1>1. /\ api \in Objects /\ api # NoMapping /\ api' \in Objects /\ api' # NoMapping
      /\ api'.finalizer = api.finalizer /\ api'.deleting = api.deleting
      /\ cached' \in {api, api'}
  BY StatusKeepsAnnotation
<1>2. (~Lag => cached' = api') /\ queued' \in BOOLEAN
  BY DEF StatusWritten, Store, Notified
<1>3. failures' \in 0..MaxFailures
  BY FailuresType DEF StatusWritten, TypeInv
<1>4. cached = api
  BY DEF StatusWritten
<1> QED BY <1>1, <1>2, <1>3, <1>4 DEF TypeInv, ObjectLives, DeletionStays, Lives, Working

\* Fetch, the gate and the early returns keep the types.
LEMMA TypeFetch ==
  ASSUME TypeInv, FetchGone \/ Fetch \/ Debounced \/ DebounceExpires \/ Gate \/ CleanupFailed
  PROVE  TypeInv'
<1>1. CASE FetchGone
  <2>1. queued' \in BOOLEAN /\ UNCHANGED <<api, cached, azure, late, rec, failures, users>>
    BY <1>1 DEF FetchGone
  <2>3. debounce' \in 0..MaxGen
    BY <1>1, BoundsAssumption DEF FetchGone
  <2>2. TypeOK'
    BY <2>1, <2>3 DEF TypeInv, TypeOK, users
  <2> QED BY <2>1, <2>2 DEF TypeInv, ObjectLives, DeletionStays, Lives
<1>2. CASE Fetch
  <2>1. rec' \in Fetched /\ rec'.pc = "fetched" /\ rec'.m = Local(cached)
    BY <1>2, LocalType DEF Fetch, Fetched, TypeInv, TypeOK
  <2>2. TypeOK'
    BY <1>2, <2>1 DEF Fetch, TypeInv, TypeOK, users
  <2> QED BY <1>2, <2>1, <2>2
      DEF Fetch, TypeInv, ObjectLives, DeletionStays, Lives, Local, Working
<1>3. CASE Debounced
  <2>1. TypeOK'
    BY <1>3 DEF Debounced, Requeue, TypeInv, TypeOK, users
  <2>2. rec'.pc = "idle"
    BY <1>3 DEF Debounced, Requeue, Idle
  <2> QED BY <1>3, <2>1, <2>2, ObjectKept DEF Debounced, TypeInv, Working
<1>4. CASE DebounceExpires
  BY <1>4, BoundsAssumption
     DEF DebounceExpires, TypeInv, TypeOK, ObjectLives, DeletionStays, Lives, users
<1>5. CASE Gate
  <2>1. CASE mappingStillCurrent
    <3>1. rec' \in Resolved /\ rec'.pc = "pending"
      BY <1>5, <2>1, WorkerType DEF Gate, GoTo, Resolved, TypeInv, At
    <3>2. TypeOK'
      BY <1>5, <2>1, <3>1 DEF Gate, TypeInv, TypeOK, users
    <3> QED BY <1>5, <3>1, <3>2, ObjectKept DEF Gate, At, TypeInv, Working
  <2>2. CASE ~mappingStillCurrent
    <3>1. TypeOK'
      BY <1>5, <2>2 DEF Gate, Requeue, TypeInv, TypeOK, users
    <3>2. rec'.pc = "idle"
      BY <1>5, <2>2 DEF Gate, Requeue, Idle
    <3> QED BY <1>5, <3>1, <3>2, ObjectKept DEF Gate, TypeInv, Working
  <2> QED BY <2>1, <2>2
<1>6. CASE CleanupFailed
  <2>1. TypeOK'
    BY <1>6 DEF CleanupFailed, Requeue, TypeInv, TypeOK, users
  <2>2. rec'.pc = "idle"
    BY <1>6 DEF CleanupFailed, Requeue, Idle
  <2> QED BY <1>6, <2>1, <2>2, ObjectKept DEF CleanupFailed, TypeInv, Working
<1> QED BY <1>1, <1>2, <1>3, <1>4, <1>5, <1>6

\* ensureFinalizer keeps the types.
LEMMA TypeFinalizer ==
  ASSUME TypeInv, ensureFinalizer
  PROVE  TypeInv'
<1> DEFINE new == [api EXCEPT !.finalizer = TRUE]
<1>1. rec' = Idle /\ rec'.pc = "idle"
  BY DEF ensureFinalizer, Idle
<1>2. failures' \in 0..MaxFailures
  BY FailuresType DEF ensureFinalizer, PatchErrs, TypeInv
<1>3. CASE UNCHANGED <<api, cached>> /\ queued' = TRUE
  <2>1. TypeOK'
    BY <1>1, <1>2, <1>3 DEF ensureFinalizer, TypeInv, TypeOK, users
  <2> QED BY <1>1, <1>3, <2>1, ObjectKept DEF TypeInv, Working
<1>4. CASE api # NoMapping /\ Store(new, TRUE)
  <2>1. api \in Objects /\ new \in Objects /\ new # NoMapping
    BY <1>4, ObjectType, NoMappingAssumption DEF TypeInv, TypeOK
  <2>2. new.finalizer /\ new.deleting = api.deleting
    BY <2>1 DEF Objects
  <2>3. TypeOK'
    BY <1>1, <1>2, <1>4, <2>1, StoreType DEF ensureFinalizer, TypeInv, TypeOK, users
  <2> HIDE DEF new
  <2> QED BY <1>1, <1>4, <2>1, <2>2, <2>3
      DEF TypeInv, TypeOK, Store, ObjectLives, DeletionStays, Lives, Working
<1> QED BY <1>3, <1>4 DEF ensureFinalizer, PatchErrs, ObjectUntouched

\* The resolution and the choice of what to clean up keep the types.
LEMMA TypeResolve ==
  ASSUME TypeInv, Resolve \/ BeginDelete
  PROVE  TypeInv'
<1>1. rec \in Fetched /\ rec.pc = "fetched"
  BY WorkerType DEF Resolve, BeginDelete, At, TypeInv
<1>2. CASE Resolve
  <2>1. [t \in Targets |-> IF t \in SpecTargets[m.spec] THEN want[t] ELSE {}]
           \in [Targets -> Addresses]
    BY DEF TypeInv, TypeOK, Addresses
  <2>2. rec' \in Resolved /\ rec'.pc = "gate"
    BY <1>1, <1>2, <2>1 DEF Resolve, m, Resolved, Fetched, Locals
  <2>3. TypeOK'
    BY <1>2, <2>2 DEF Resolve, TypeInv, TypeOK, users
  <2> QED BY <1>1, <1>2, <2>2, <2>3 DEF Resolve, m, TypeInv, ObjectLives, DeletionStays, Lives
<1>3. CASE BeginDelete
  <2>1. (IF m.owned # {} THEN m.owned ELSE SpecTargets[m.spec]) \in SUBSET Targets
    BY <1>1, SpecTargetsAssumption DEF m, Fetched, Locals
  <2>2. rec' \in Cleaning /\ rec'.pc = "cleanup" /\ rec'.m = rec.m
    BY <1>1, <1>3, <2>1 DEF BeginDelete, m, Cleaning, Fetched
  <2>3. TypeOK'
    BY <1>3, <2>2 DEF BeginDelete, TypeInv, TypeOK, users
  <2> QED BY <1>1, <1>3, <2>2, <2>3
      DEF BeginDelete, m, TypeInv, ObjectLives, DeletionStays, Lives, Working
<1> QED BY <1>2, <1>3

\* The three status updates keep the types.
LEMMA TypeStatus ==
  ASSUME TypeInv, UpdatePending \/ UpdateAfterReconcile \/ SystemError
  PROVE  TypeInv'
<1>1. CASE SentinelReturn
  BY <1>1, SentinelType DEF UpdatePending, UpdateAfterReconcile, SystemError
<1>2. CASE UpdatePending /\ ~SentinelReturn
  <2>1. rec' \in Resolved /\ rec'.pc = "read"
    BY <1>2, WorkerType DEF UpdatePending, GoTo, Resolved, TypeInv, At
  <2>2. CASE StatusWritten(FALSE, rec.spec, queued)
    <3>1. queued \in BOOLEAN /\ rec.pc \in Working
      BY <1>2 DEF UpdatePending, At, Working, TypeInv, TypeOK
    <3>2. debounce' \in 0..MaxGen
      BY <1>2 DEF UpdatePending, TypeInv, TypeOK
    <3>3. rec'.pc \in Working \cup {"idle"}
      BY <2>1 DEF Working
    <3>4. /\ api' \in Objects /\ cached' \in Objects \cup {NoMapping} /\ (~Lag => cached' = api')
          /\ queued' \in BOOLEAN /\ failures' \in 0..MaxFailures
          /\ ObjectLives' /\ DeletionStays'
      BY <2>2, <3>1, <3>3, StatusWriteType
    <3>5. TypeOK'
      BY <1>2, <2>1, <3>2, <3>4 DEF UpdatePending, TypeInv, TypeOK, users
    <3> QED BY <3>4, <3>5 DEF TypeInv
  <2>3. CASE StatusErrs /\ UNCHANGED <<queued, debounce>>
    <3>1. failures' \in 0..MaxFailures
      BY <2>3, FailuresType DEF StatusErrs, TypeInv
    <3>2. TypeOK'
      BY <1>2, <2>1, <2>3, <3>1
         DEF UpdatePending, StatusErrs, ObjectUntouched, TypeInv, TypeOK, users
    <3> QED BY <1>2, <2>1, <2>3, <3>2, ObjectKept
        DEF UpdatePending, StatusErrs, ObjectUntouched, TypeInv, At, Working
  <2> QED BY <1>2, <2>2, <2>3 DEF UpdatePending
<1>3. CASE (UpdateAfterReconcile \/ SystemError) /\ ~SentinelReturn
  <2>1. /\ rec' = Idle /\ rec'.pc = "idle" /\ rec \in Planned /\ rec.pc \in Working
        /\ UNCHANGED <<azure, late, users>>
    <3>1. rec' = Idle /\ UNCHANGED <<azure, late, users>>
      BY <1>3 DEF UpdateAfterReconcile, SystemError, Requeue
    <3>2. At("final") \/ At("syserr")
      BY <1>3 DEF UpdateAfterReconcile, SystemError
    <3>3. rec \in Planned
      BY <3>2, WorkerType DEF At, TypeInv
    <3> QED BY <3>1, <3>2, <3>3 DEF Idle, At, Working
  <2>2. debounce' \in 0..MaxGen
    <3>1. debounce' \in {debounce, m.gen}
      BY <1>3 DEF UpdateAfterReconcile, SystemError
    <3>2. m.gen \in 0..MaxGen
      BY <2>1, BoundsAssumption DEF Planned, Locals, Gens, m
    <3> QED BY <3>1, <3>2 DEF TypeInv, TypeOK
  <2>3. ASSUME NEW reconciled \in BOOLEAN, StatusWritten(reconciled, rec.spec, TRUE)
        PROVE  TypeInv'
    <3>1. rec'.pc \in Working \cup {"idle"}
      BY <2>1
    <3>2. /\ api' \in Objects /\ cached' \in Objects \cup {NoMapping} /\ (~Lag => cached' = api')
          /\ queued' \in BOOLEAN /\ failures' \in 0..MaxFailures
          /\ ObjectLives' /\ DeletionStays'
      BY <2>1, <2>3, <3>1, StatusWriteType
    <3>3. TypeOK'
      BY <2>1, <2>2, <3>2 DEF TypeInv, TypeOK, users
    <3> QED BY <3>2, <3>3 DEF TypeInv
  <2>4. CASE StatusErrs /\ Requeue
    <3>1. failures' \in 0..MaxFailures
      BY <2>4, FailuresType DEF StatusErrs, TypeInv
    <3>2. TypeOK'
      BY <2>1, <2>2, <2>4, <3>1
         DEF StatusErrs, Requeue, ObjectUntouched, TypeInv, TypeOK, users
    <3> QED BY <2>1, <2>4, <3>2, ObjectKept DEF StatusErrs, ObjectUntouched, TypeInv, Working
  <2> QED BY <1>3, <2>3, <2>4 DEF UpdateAfterReconcile, SystemError
<1> QED BY <1>1, <1>2, <1>3

\* ComputeDiff gives a well-typed plan.
LEMMA TypeRead ==
  ASSUME TypeInv, ReadAzure
  PROVE  TypeInv'
<1> DEFINE todo == Steps(m.owned \cup desiredTargets)
           seen == [t \in Targets |-> IF t \in todo THEN azure[t] ELSE None]
           next == [pc |-> "prepatch", m |-> m, spec |-> rec.spec, desired |-> rec.desired,
                    seen |-> seen, todo |-> todo, done |-> {}, failed |-> {}]
<1>1. rec \in Resolved /\ rec.pc = "read"
  BY WorkerType DEF ReadAzure, At, TypeInv
<1>2. todo \in SUBSET Targets
  BY <1>1 DEF Steps, desiredTargets, m, Resolved, Locals
<1>3. seen \in [Targets -> Contents]
  BY DEF TypeInv, TypeOK, Contents
<1> HIDE DEF todo, seen
<1>4. next \in Planned /\ [next EXCEPT !.pc = "syserr"] \in Planned
  BY <1>1, <1>2, <1>3 DEF m, Resolved, Planned
<1>5. next.pc = "prepatch" /\ [next EXCEPT !.pc = "syserr"].pc = "syserr"
  OBVIOUS
<1>6. rec' = next \/ rec' = [next EXCEPT !.pc = "syserr"]
  BY DEF ReadAzure, todo, seen
<1> HIDE DEF next
<1>7. rec' \in Planned /\ rec'.pc \in {"prepatch", "syserr"}
  BY <1>4, <1>5, <1>6
<1>8. failures' \in 0..MaxFailures
  BY FailuresType DEF ReadAzure, TypeInv
<1>9. TypeOK'
  BY <1>7, <1>8 DEF ReadAzure, TypeInv, TypeOK, users
<1> QED BY <1>1, <1>7, <1>9, ObjectKept DEF ReadAzure, TypeInv, Working

\* A patch of the annotation, applied or not.
\* The types hold after it, since there is an object to patch.
LEMMA TypePatch ==
  ASSUME TypeInv, NEW ts \in SUBSET Targets, NEW pc \in {"act", "final"},
         rec.pc \in {"prepatch", "act"},
         LET new == [api EXCEPT !.owned = ts]
         IN  \/ /\ Store(new, queued) /\ Works
                /\ rec' = [rec EXCEPT !.pc = pc, !.m = Local(new)]
             \/ PatchErrs(new, queued) /\ GoTo("syserr"),
         UNCHANGED <<azure, late, debounce, users>>
  PROVE  TypeInv'
<1> DEFINE new == [api EXCEPT !.owned = ts]
<1>1. rec \in Planned /\ Lives /\ api \in Objects /\ queued \in BOOLEAN
  BY WorkerType DEF TypeInv, TypeOK, ObjectLives, Working, Lives
<1>2. new \in Objects /\ new # NoMapping
  BY <1>1, ObjectType, NoMappingAssumption
<1>3. new.finalizer = api.finalizer /\ new.deleting = api.deleting
  BY <1>1 DEF Objects
<1>4. Local(new) \in Locals
  BY <1>2, LocalType
<1>5. failures' \in 0..MaxFailures
  BY FailuresType DEF PatchErrs, TypeInv
<1>6. (UNCHANGED <<api, cached>> /\ queued' = queued) \/ Store(new, queued)
  BY DEF PatchErrs, ObjectUntouched
<1>7. rec' = [rec EXCEPT !.pc = pc, !.m = Local(new)] \/ rec' = [rec EXCEPT !.pc = "syserr"]
  BY DEF GoTo
<1> HIDE DEF new
<1>8. rec' \in Planned /\ rec'.pc \in Working
  BY <1>1, <1>4, <1>7 DEF Planned, Working
<1>9. /\ api' \in Objects \cup {NoMapping} /\ cached' \in Objects \cup {NoMapping}
      /\ ~Lag => cached' = api'
      /\ queued' \in BOOLEAN
  BY <1>1, <1>2, <1>6, StoreType DEF TypeInv, TypeOK
<1>10. TypeOK'
  BY <1>5, <1>8, <1>9 DEF TypeInv, TypeOK, users
<1>11. CASE UNCHANGED <<api, cached>>
  BY <1>1, <1>8, <1>10, <1>11 DEF TypeInv, ObjectLives, DeletionStays, Lives, Working
<1>12. CASE Store(new, queued)
  <2>1. api' = new /\ cached' \in {cached, new}
    BY <1>12 DEF Store
  <2> QED BY <1>1, <1>2, <1>3, <1>8, <1>10, <2>1
      DEF TypeInv, ObjectLives, DeletionStays, Lives, Working
<1> QED BY <1>6, <1>11, <1>12

\* UpdateOwnedASGsAfterResults before the actions keeps the types.
LEMMA TypePrePatch ==
  ASSUME TypeInv, PrePatch
  PROVE  TypeInv'
<1>1. rec \in Planned /\ rec.pc = "prepatch"
  BY WorkerType DEF PrePatch, At, TypeInv
<1>2. CASE preOwned = m.owned
  <2>1. rec' \in Planned /\ rec'.pc = "act"
    BY <1>1, <1>2 DEF PrePatch, GoTo, Planned
  <2>2. TypeOK'
    BY <1>2, <2>1 DEF PrePatch, ObjectUntouched, Works, TypeInv, TypeOK, users
  <2> QED BY <1>1, <1>2, <2>1, <2>2, ObjectKept DEF PrePatch, ObjectUntouched, TypeInv, Working
<1>3. CASE preOwned # m.owned
  <2>1. preOwned \in SUBSET Targets
    BY <1>1 DEF preOwned, desiredTargets, m, Planned, Locals
  <2> QED BY <1>1, <1>3, <2>1, TypePatch DEF PrePatch
<1> QED BY <1>2, <1>3

\* UpdateOwnedASGsAfterResults after the actions keeps the types.
LEMMA TypePostPatch ==
  ASSUME TypeInv, PostPatch
  PROVE  TypeInv'
<1>1. rec \in Planned /\ rec.pc = "act"
  BY WorkerType DEF PostPatch, At, TypeInv
<1>2. CASE postOwned = m.owned
  <2>1. rec' \in Planned /\ rec'.pc = "final"
    BY <1>1, <1>2 DEF PostPatch, GoTo, Planned
  <2>2. TypeOK'
    BY <1>2, <2>1 DEF PostPatch, ObjectUntouched, Works, TypeInv, TypeOK, users
  <2> QED BY <1>1, <1>2, <2>1, <2>2, ObjectKept DEF PostPatch, ObjectUntouched, TypeInv, Working
<1>3. CASE postOwned # m.owned
  <2>1. postOwned \in SUBSET Targets
    BY <1>1 DEF postOwned, m, Planned, Locals
  <2> QED BY <1>1, <1>3, <2>1, TypePatch DEF PostPatch
<1> QED BY <1>2, <1>3

\* An action of the executor keeps the types.
LEMMA TypeExecute ==
  ASSUME TypeInv, NEW t \in Targets, Execute(t)
  PROVE  TypeInv'
<1>1. rec \in Planned /\ rec.pc = "act"
  BY WorkerType DEF Execute, At, TypeInv
<1>2. Written(t) \subseteq Contents
  BY <1>1 DEF Written, Planned, Contents, Addresses, TypeInv, TypeOK
<1>3. azure' \in [Targets -> Contents] /\ late' \subseteq Targets
  BY <1>2 DEF Execute, DeleteErrs, TypeInv, TypeOK, Contents
<1>4. rec' \in Planned /\ rec'.pc = "act"
  BY <1>1 DEF Execute, Planned
<1>5. failures' \in 0..MaxFailures
  BY FailuresType DEF Execute, TypeInv
<1>6. TypeOK'
  BY <1>3, <1>4, <1>5 DEF Execute, TypeInv, TypeOK, users
<1> QED BY <1>1, <1>4, <1>6, ObjectKept DEF Execute, TypeInv

\* A deletion of reconcileDelete keeps the types.
LEMMA TypeCleanup ==
  ASSUME TypeInv, NEW t \in Targets, Cleanup(t)
  PROVE  TypeInv'
<1>1. rec \in Cleaning /\ rec.pc = "cleanup"
  BY WorkerType DEF Cleanup, At, TypeInv
<1>2. azure' \in [Targets -> Contents] /\ late' \subseteq Targets
  BY DEF Cleanup, DeleteErrs, TypeInv, TypeOK, Contents
<1>3. rec' \in Cleaning /\ rec'.pc = "cleanup" /\ rec'.m = rec.m
  <2>1. CASE rec' = [rec EXCEPT !.todo = @ \ {t}]
    BY <1>1, <2>1 DEF Cleaning
  <2>2. CASE rec' = [rec EXCEPT !.todo = @ \ {t}, !.failed = @ \cup {t}]
    BY <1>1, <2>2 DEF Cleaning
  <2> QED BY <2>1, <2>2 DEF Cleanup
<1>4. failures' \in 0..MaxFailures
  BY FailuresType DEF Cleanup, TypeInv
<1>5. TypeOK'
  BY <1>2, <1>3, <1>4 DEF Cleanup, TypeInv, TypeOK, users
<1> QED BY <1>1, <1>3, <1>5 DEF Cleanup, TypeInv, ObjectLives, DeletionStays, Lives, Working

\* The end of the deletion path keeps the types.
LEMMA TypeRemoveFinalizer ==
  ASSUME TypeInv, RemoveFinalizer
  PROVE  TypeInv'
<1>1. rec.pc = "cleanup" /\ (cached = NoMapping \/ cached.deleting)
  BY DEF RemoveFinalizer, At, TypeInv, DeletionStays
<1>2. rec' = Idle /\ rec'.pc = "idle"
  BY DEF RemoveFinalizer, Idle
<1>3. failures' \in 0..MaxFailures
  BY FailuresType DEF RemoveFinalizer, PatchErrs, TypeInv
<1>4. \/ UNCHANGED <<api, cached>> /\ queued' = TRUE
      \/ \E again \in BOOLEAN : Store(NoMapping, again)
  BY DEF RemoveFinalizer, PatchErrs, ObjectUntouched, TypeInv, TypeOK
<1>5. /\ api' \in Objects \cup {NoMapping} /\ cached' \in Objects \cup {NoMapping}
      /\ ~Lag => cached' = api'
      /\ queued' \in BOOLEAN
  BY <1>4, StoreType DEF TypeInv, TypeOK
<1>6. debounce' \in 0..MaxGen
  <2>1. debounce' \in {0, debounce}
    BY DEF RemoveFinalizer
  <2> QED BY <2>1, BoundsAssumption DEF TypeInv, TypeOK
<1>7. TypeOK'
  BY <1>2, <1>3, <1>5, <1>6 DEF RemoveFinalizer, TypeInv, TypeOK, users
<1>8. UNCHANGED <<api, cached>> \/ (api' = NoMapping /\ cached' \in {cached, NoMapping})
  BY <1>4 DEF Store
<1> QED BY <1>1, <1>2, <1>7, <1>8 DEF TypeInv, ObjectLives, DeletionStays, Lives, Working

\* A crash, an informer that catches up and a late DELETE keep the types.
LEMMA TypeEnvironment ==
  ASSUME TypeInv, Crash \/ CatchUp \/ (\E t \in Targets : LateDelete(t))
  PROVE  TypeInv'
<1>1. CASE Crash
  <2>1. rec' = Idle /\ rec'.pc = "idle" /\ debounce' \in 0..MaxGen
    BY <1>1, BoundsAssumption DEF Crash, Idle
  <2>2. failures' \in 0..MaxFailures
    BY <1>1, FailuresType DEF Crash, TypeInv
  <2>3. TypeOK'
    BY <1>1, <2>1, <2>2 DEF Crash, TypeInv, TypeOK, users
  <2> QED BY <1>1, <2>1, <2>3 DEF Crash, TypeInv, ObjectLives, DeletionStays, Lives, Working
<1>2. CASE CatchUp
  <2>1. TypeOK'
    BY <1>2 DEF CatchUp, Notified, TypeInv, TypeOK, users
  <2> QED BY <1>2, <2>1 DEF CatchUp, TypeInv, ObjectLives, DeletionStays, Lives
<1>3. CASE \E t \in Targets : LateDelete(t)
  <2>1. PICK t \in Targets : LateDelete(t)
    BY <1>3
  <2>2. TypeOK'
    BY <2>1 DEF LateDelete, TypeInv, TypeOK, Contents, users
  <2> QED BY <2>1, <2>2 DEF LateDelete, TypeInv, ObjectLives, DeletionStays, Lives
<1> QED BY <1>1, <1>2, <1>3

\* Every step keeps the types.
LEMMA TypeStep == TypeInv /\ [Next \/ CatchUp]_vars => TypeInv'
<1> SUFFICES ASSUME TypeInv, [Next \/ CatchUp]_vars PROVE TypeInv'
  OBVIOUS
<1>1. CASE Worker
  BY <1>1, TypeFetch, TypeFinalizer, TypeResolve, TypeStatus, TypeRead, TypePrePatch, TypeExecute,
     TypePostPatch, TypeCleanup, TypeRemoveFinalizer DEF Worker
<1>2. CASE Next /\ ~Worker
  BY <1>2, TypeFetch, TypeUsers, TypeEnvironment DEF Next
<1>3. CASE CatchUp
  BY <1>3, TypeEnvironment
<1>4. CASE UNCHANGED vars
  <2>1. TypeOK'
    BY <1>4 DEF vars, TypeInv, TypeOK
  <2> QED BY <1>4, <2>1 DEF vars, TypeInv, ObjectLives, DeletionStays, Lives
<1> QED BY <1>1, <1>2, <1>3, <1>4

\* Also when reads come from an informer that lags, the state stays well typed: no patch of
\* the annotation meets an object that is gone (mapping_reconciler.go:465-541).
THEOREM LagTypeCorrect == LagSpec => []TypeOK
<1>1. TypeInv => TypeOK
  BY DEF TypeInv
<1> QED BY <1>1, TypeInit, TypeStep, PTL DEF LagSpec

\* The state of the reconciler stays well typed, an action has at most one result, and the copy
\* that is read is the object.
THEOREM TypeCorrect == Spec => []TypeOK
<1>1. TypeInv /\ [Next]_vars => TypeInv'
  BY TypeStep
<1>2. TypeInv => TypeOK
  BY DEF TypeInv
<1> QED BY <1>1, <1>2, TypeInit, PTL DEF Spec

-------------------------------------------------------------------------------
(***************************************************************************)
(* Ownership.                                                              *)
(***************************************************************************)
OwnedSafely == api # NoMapping /\ api.owned # {} => api.finalizer
CopyInSync == rec.pc \notin {"idle", "syserr"} /\ api # NoMapping => rec.m.owned = api.owned
DeletionsPlanned ==
  rec.pc \in {"prepatch", "act"} => {t \in rec.m.owned : rec.desired[t] = {}} \subseteq rec.todo
NothingDoneYet == rec.pc = "prepatch" => rec.done = {} /\ rec.failed = {}
Widened == rec.pc = "act" => desiredTargets \subseteq rec.m.owned
DeletedIsGone ==
  rec.pc = "act" => \A t \in rec.done : rec.desired[t] = {} => azure[t] = None
CleanedIsGone ==
  rec.pc = "cleanup" => \A t \in rec.m.owned \ (rec.todo \cup rec.failed) : azure[t] = None
Narrowed == rec.pc = "final" /\ rec.failed = {} => rec.m.owned = desiredTargets

OwnershipInv ==
  /\ TypeInv /\ NoOrphans /\ OwnedSafely /\ CopyInSync /\ DeletionsPlanned /\ NothingDoneYet
  /\ Widened /\ DeletedIsGone /\ CleanedIsGone /\ Narrowed
\* At the start the mapping owns nothing and Azure has nothing of it.
LEMMA OwnershipInit == Init => OwnershipInv
<1> SUFFICES ASSUME Init PROVE OwnershipInv
  OBVIOUS
<1>1. rec.pc = "idle" /\ api.owned = {} /\ \A t \in Targets : azure[t] = None
  BY DEF Init, Idle
<1> QED BY <1>1, TypeInit
    DEF OwnershipInv, NoOrphans, OwnedSafely, CopyInSync, DeletionsPlanned, NothingDoneYet, Widened,
        DeletedIsGone, CleanedIsGone, Narrowed

\* Between two reconciles, and when one only reports an error, nothing but the object counts.
LEMMA OwnershipAtRest ==
  ASSUME TypeInv', NoOrphans', OwnedSafely', rec'.pc \in {"idle", "syserr"}
  PROVE  OwnershipInv'
BY DEF OwnershipInv, CopyInSync, DeletionsPlanned, NothingDoneYet, Widened, DeletedIsGone,
       CleanedIsGone, Narrowed

\* Prefix sets may change their content or go, but not appear.
LEMMA OwnershipAzure ==
  ASSUME OwnershipInv, TypeInv', UNCHANGED <<api, rec>>,
         \A t \in Targets : azure'[t] # None => azure[t] # None
  PROVE  OwnershipInv'
<1>1. NoOrphans'
  BY DEF OwnershipInv, NoOrphans
<1>2. DeletedIsGone'
  <2>1. rec.pc = "act" => rec.done \subseteq Targets
    BY WorkerType DEF OwnershipInv, TypeInv, Planned
  <2> QED BY <2>1 DEF OwnershipInv, DeletedIsGone
<1>3. CleanedIsGone'
  <2>1. rec.pc = "cleanup" => rec.m.owned \subseteq Targets
    BY WorkerType DEF OwnershipInv, TypeInv, Cleaning, Locals, At
  <2> QED BY <2>1 DEF OwnershipInv, CleanedIsGone
<1> QED BY <1>1, <1>2, <1>3
    DEF OwnershipInv, OwnedSafely, CopyInSync, DeletionsPlanned, NothingDoneYet, Widened, Narrowed,
        desiredTargets

\* The object may change in everything but its annotation and its finalizer.
LEMMA OwnershipObject ==
  ASSUME OwnershipInv, TypeInv', UNCHANGED <<azure, rec>>, api # NoMapping, api' # NoMapping,
         api'.owned = api.owned, api'.finalizer = api.finalizer
  PROVE  OwnershipInv'
BY DEF OwnershipInv, NoOrphans, OwnedSafely, CopyInSync, DeletionsPlanned, NothingDoneYet, Widened,
       DeletedIsGone, CleanedIsGone, Narrowed, desiredTargets

\* Users keep ownership: an object without the finalizer owns nothing when it goes.
LEMMA OwnershipUsers ==
  ASSUME OwnershipInv, TypeInv', Users
  PROVE  OwnershipInv'
<1>1. CASE SpecChanged
  <2>1. PICK s \in Specs : Store([api EXCEPT !.gen = @ + 1, !.spec = s], queued)
    BY <1>1 DEF SpecChanged
  <2>2. api \in Objects /\ api.gen < MaxGen /\ api # NoMapping
    BY <1>1 DEF SpecChanged, OwnershipInv, TypeInv, TypeOK
  <2>3. api' \in Objects /\ api'.owned = api.owned /\ api'.finalizer = api.finalizer
    BY <2>1, <2>2, ObjectType DEF Store, Objects
  <2> QED BY <1>1, <2>2, <2>3, OwnershipObject, NoMappingAssumption DEF SpecChanged
<1>2. CASE DeleteRequested
  <2>1. api \in Objects /\ api # NoMapping /\ UNCHANGED <<azure, rec>>
    BY <1>2 DEF DeleteRequested, OwnershipInv, TypeInv, TypeOK
  <2>2. CASE api.finalizer
    <3>1. api.gen < MaxGen /\ Store([api EXCEPT !.gen = @ + 1, !.deleting = TRUE], queued)
      BY <1>2, <2>2 DEF DeleteRequested
    <3>2. api' \in Objects /\ api'.owned = api.owned /\ api'.finalizer = api.finalizer
      BY <2>1, <3>1, ObjectType DEF Store, Objects
    <3> QED BY <2>1, <3>2, OwnershipObject, NoMappingAssumption
  <2>3. CASE ~api.finalizer
    <3>1. api' = NoMapping
      BY <1>2, <2>3 DEF DeleteRequested, Store
    <3>2. \A t \in Targets : azure[t] = None
      BY <2>1, <2>3 DEF OwnershipInv, NoOrphans, OwnedSafely
    <3> QED BY <2>1, <3>1, <3>2
        DEF OwnershipInv, NoOrphans, OwnedSafely, CopyInSync, DeletionsPlanned, NothingDoneYet,
            Widened, DeletedIsGone, CleanedIsGone, Narrowed, desiredTargets
  <2> QED BY <2>2, <2>3
<1>3. CASE PodsChanged
  BY <1>3, OwnershipAzure DEF PodsChanged
<1>4. CASE Drift
  BY <1>4, OwnershipAzure DEF Drift, OwnershipInv, TypeInv, TypeOK
<1> QED BY <1>1, <1>2, <1>3, <1>4 DEF Users

\* The late arrival of a DELETE, a crash and the passing of time.
LEMMA OwnershipEnvironment ==
  ASSUME OwnershipInv, TypeInv',
         Crash \/ DebounceExpires \/ FetchGone \/ (\E t \in Targets : LateDelete(t))
  PROVE  OwnershipInv'
<1>1. CASE Crash
  <2>1. rec'.pc = "idle" /\ UNCHANGED <<api, azure>>
    BY <1>1 DEF Crash, Idle
  <2> QED BY <2>1, OwnershipAtRest DEF OwnershipInv, NoOrphans, OwnedSafely
<1>2. CASE DebounceExpires \/ FetchGone
  BY <1>2, OwnershipAzure DEF DebounceExpires, FetchGone
<1>3. CASE \E t \in Targets : LateDelete(t)
  BY <1>3, OwnershipAzure DEF LateDelete, OwnershipInv, TypeInv, TypeOK
<1> QED BY <1>1, <1>2, <1>3

\* What a step of the worker may do to the object without touching the annotation.
LEMMA OwnershipSameAnnotation ==
  ASSUME OwnershipInv, TypeInv', UNCHANGED azure,
         api' = api \/ (api # NoMapping /\ api' # NoMapping /\ api'.owned = api.owned
                         /\ (api.finalizer => api'.finalizer))
  PROVE  NoOrphans' /\ OwnedSafely'
BY DEF OwnershipInv, NoOrphans, OwnedSafely

\* The steps before the side effects.
LEMMA OwnershipPrepare ==
  ASSUME OwnershipInv, TypeInv', ~Lag,
         Fetch \/ Debounced \/ Resolve \/ Gate \/ CleanupFailed \/ ensureFinalizer
  PROVE  OwnershipInv'
<1>1. CASE Fetch
  <2>1. rec'.pc = "fetched" /\ rec'.m.owned = cached.owned /\ UNCHANGED <<api, azure>>
    BY <1>1 DEF Fetch, Local
  <2>2. cached = api
    BY DEF OwnershipInv, TypeInv, TypeOK
  <2> QED BY <2>1, <2>2
      DEF OwnershipInv, NoOrphans, OwnedSafely, CopyInSync, DeletionsPlanned, NothingDoneYet, Widened,
          DeletedIsGone, CleanedIsGone, Narrowed
<1>2. CASE Debounced \/ CleanupFailed
  <2>1. rec'.pc = "idle" /\ UNCHANGED <<api, azure>>
    BY <1>2 DEF Debounced, CleanupFailed, Requeue, Idle
  <2> QED BY <2>1, OwnershipAtRest, OwnershipSameAnnotation
<1>3. CASE Resolve
  <2>1. /\ rec.pc = "fetched" /\ rec'.pc = "gate" /\ rec'.m = rec.m
        /\ UNCHANGED <<api, azure>>
    BY <1>3 DEF Resolve, At, m
  <2> QED BY <2>1
      DEF OwnershipInv, NoOrphans, OwnedSafely, CopyInSync, DeletionsPlanned, NothingDoneYet, Widened,
          DeletedIsGone, CleanedIsGone, Narrowed
<1>4. CASE Gate
  <2>1. UNCHANGED <<api, azure>>
    BY <1>4 DEF Gate
  <2>2. CASE mappingStillCurrent
    <3>1. rec \in Resolved /\ rec.pc = "gate"
      BY <1>4, WorkerType DEF Gate, At, OwnershipInv, TypeInv
    <3>2. rec'.pc = "pending" /\ rec'.m = rec.m
      BY <1>4, <2>2, <3>1 DEF Gate, GoTo, Resolved
    <3> QED BY <2>1, <3>1, <3>2
        DEF OwnershipInv, NoOrphans, OwnedSafely, CopyInSync, DeletionsPlanned, NothingDoneYet,
            Widened, DeletedIsGone, CleanedIsGone, Narrowed
  <2>3. CASE ~mappingStillCurrent
    <3>1. rec'.pc = "idle"
      BY <1>4, <2>3 DEF Gate, Requeue, Idle
    <3> QED BY <2>1, <3>1, OwnershipAtRest, OwnershipSameAnnotation
  <2> QED BY <2>2, <2>3
<1>5. CASE ensureFinalizer
  <2>1. rec'.pc = "idle" /\ UNCHANGED azure
    BY <1>5 DEF ensureFinalizer, Idle
  <2>2. UNCHANGED api \/ (api # NoMapping /\ api' = [api EXCEPT !.finalizer = TRUE])
    BY <1>5 DEF ensureFinalizer, PatchErrs, ObjectUntouched, Store
  <2>3. CASE api # NoMapping /\ api' = [api EXCEPT !.finalizer = TRUE]
    <3>1. api \in Objects /\ api' \in Objects
      BY <2>3, ObjectType DEF OwnershipInv, TypeInv, TypeOK
    <3>2. api' # NoMapping /\ api'.owned = api.owned /\ api'.finalizer
      BY <2>3, <3>1, NoMappingAssumption DEF Objects
    <3> QED BY <2>1, <2>3, <3>2, OwnershipAtRest, OwnershipSameAnnotation
  <2> QED BY <2>1, <2>2, <2>3, OwnershipAtRest, OwnershipSameAnnotation
<1> QED BY <1>1, <1>2, <1>3, <1>4, <1>5

\* The status writes.
LEMMA OwnershipStatus ==
  ASSUME OwnershipInv, TypeInv', UpdatePending \/ UpdateAfterReconcile \/ SystemError
  PROVE  OwnershipInv'
<1>1. TypeInv /\ UNCHANGED azure /\ rec.pc \in Working
  BY DEF OwnershipInv, UpdatePending, UpdateAfterReconcile, SystemError, At, Working
<1>2. \/ api' = api
      \/ /\ api # NoMapping /\ api' # NoMapping
         /\ api'.owned = api.owned /\ api'.finalizer = api.finalizer
  <2>1. CASE UNCHANGED api
    BY <2>1
  <2>2. ASSUME NEW reconciled \in BOOLEAN, NEW again \in BOOLEAN,
               StatusWritten(reconciled, rec.spec, again)
        PROVE  /\ api # NoMapping /\ api' # NoMapping
               /\ api'.owned = api.owned /\ api'.finalizer = api.finalizer
    BY <1>1, <2>2, StatusKeepsAnnotation
  <2>3. queued \in BOOLEAN
    BY DEF OwnershipInv, TypeInv, TypeOK
  <2> QED BY <2>1, <2>2, <2>3
      DEF UpdatePending, UpdateAfterReconcile, SystemError, SentinelReturn, StatusErrs,
          ObjectUntouched
<1>3. CASE rec' = Idle
  <2>1. rec'.pc = "idle"
    BY <1>3 DEF Idle
  <2> QED BY <1>1, <1>2, <2>1, OwnershipAtRest, OwnershipSameAnnotation
<1>4. CASE UpdatePending /\ rec' # Idle
  <2>1. rec \in Resolved /\ rec.pc = "pending"
    BY <1>4, WorkerType DEF UpdatePending, At, OwnershipInv, TypeInv
  <2>2. rec'.pc = "read" /\ rec'.m = rec.m
    BY <1>4, <2>1 DEF UpdatePending, SentinelReturn, GoTo, Resolved
  <2> QED BY <1>1, <1>2, <2>1, <2>2, OwnershipSameAnnotation
      DEF OwnershipInv, CopyInSync, DeletionsPlanned, NothingDoneYet, Widened, DeletedIsGone,
          CleanedIsGone, Narrowed
<1> QED BY <1>3, <1>4 DEF UpdateAfterReconcile, SystemError, SentinelReturn, Requeue

\* ReadAzure plans the deletion of every owned target that is no longer desired.
LEMMA OwnershipRead ==
  ASSUME OwnershipInv, TypeInv', ReadAzure
  PROVE  OwnershipInv'
<1>1. rec \in Resolved /\ rec.pc = "read"
  BY WorkerType DEF ReadAzure, At, OwnershipInv, TypeInv
<1>2. UNCHANGED <<api, azure>>
  BY DEF ReadAzure
<1>3. CASE rec'.pc = "syserr"
  BY <1>2, <1>3, OwnershipAtRest, OwnershipSameAnnotation
<1>4. CASE rec'.pc # "syserr"
  <2>1. /\ rec'.pc = "prepatch" /\ rec'.m = rec.m /\ rec'.desired = rec.desired
        /\ rec'.todo = Steps(m.owned \cup desiredTargets) /\ rec'.done = {} /\ rec'.failed = {}
    BY <1>4 DEF ReadAzure, m
  <2>2. {t \in rec.m.owned : rec.desired[t] = {}} \subseteq Steps(m.owned \cup desiredTargets)
    BY DEF Steps, m
  <2> QED BY <1>1, <1>2, <2>1, <2>2, OwnershipSameAnnotation
      DEF OwnershipInv, CopyInSync, DeletionsPlanned, NothingDoneYet, Widened, DeletedIsGone,
          CleanedIsGone, Narrowed
<1> QED BY <1>3, <1>4

\* A patch of the annotation leaves the new one in the object, or the old one, and sends the
\* worker on with the annotation the object has.
LEMMA PatchOutcome ==
  ASSUME TypeInv, NEW ts \in SUBSET Targets, NEW pc \in {"act", "final"},
         rec.pc \in {"prepatch", "act"},
         LET new == [api EXCEPT !.owned = ts]
         IN  \/ /\ Store(new, queued) /\ Works
                /\ rec' = [rec EXCEPT !.pc = pc, !.m = Local(new)]
             \/ PatchErrs(new, queued) /\ GoTo("syserr")
  PROVE  /\ Lives /\ (api' = api \/ (Lives' /\ api'.owned = ts))
         /\ \/ rec'.pc = "syserr"
            \/ /\ rec'.pc = pc /\ Lives' /\ api'.owned = ts /\ rec'.m.owned = ts
               /\ rec'.desired = rec.desired /\ rec'.todo = rec.todo
               /\ rec'.done = rec.done /\ rec'.failed = rec.failed
<1> DEFINE new == [api EXCEPT !.owned = ts]
<1>1. rec \in Planned /\ Lives /\ api \in Objects
  BY WorkerType DEF TypeInv, TypeOK, ObjectLives, Working, Lives
<1>2. new # NoMapping /\ new.finalizer = api.finalizer /\ new.owned = ts /\ Local(new).owned = ts
  <2>1. new \in Objects /\ new # NoMapping
    BY <1>1, ObjectType, NoMappingAssumption
  <2>2. new.finalizer = api.finalizer /\ new.owned = ts
    BY <1>1 DEF Objects
  <2> QED BY <2>1, <2>2 DEF Local
<1> HIDE DEF new
<1>3. CASE Store(new, queued) /\ rec' = [rec EXCEPT !.pc = pc, !.m = Local(new)]
  <2>1. Lives' /\ api'.owned = ts
    BY <1>1, <1>2, <1>3 DEF Store, Lives
  <2>2. /\ rec'.pc = pc /\ rec'.m.owned = ts
        /\ rec'.desired = rec.desired /\ rec'.todo = rec.todo
        /\ rec'.done = rec.done /\ rec'.failed = rec.failed
    BY <1>1, <1>2, <1>3 DEF Planned
  <2> QED BY <1>1, <2>1, <2>2
<1>4. CASE PatchErrs(new, queued) /\ GoTo("syserr")
  <2>1. rec'.pc = "syserr"
    BY <1>1, <1>4 DEF GoTo, Planned
  <2>2. api' = api \/ api' = new
    BY <1>4 DEF PatchErrs, ObjectUntouched, Store
  <2> QED BY <1>1, <1>2, <2>1, <2>2 DEF Lives
<1> QED BY <1>3, <1>4 DEF new
\* The annotation is widened before anything is written: what the executor may create is owned.
LEMMA OwnershipPrePatch ==
  ASSUME OwnershipInv, TypeInv', PrePatch
  PROVE  OwnershipInv'
<1>1. rec \in Planned /\ rec.pc = "prepatch" /\ TypeInv /\ UNCHANGED azure
  BY WorkerType DEF PrePatch, At, OwnershipInv, TypeInv
<1>2. Lives
  BY <1>1 DEF TypeInv, ObjectLives, Working
<1>3. rec.done = {} /\ rec.failed = {} /\ {t \in rec.m.owned : rec.desired[t] = {}} \subseteq rec.todo
  BY <1>1 DEF OwnershipInv, NothingDoneYet, DeletionsPlanned
<1>4. rec.m.owned = api.owned
  BY <1>1, <1>2 DEF OwnershipInv, CopyInSync, Lives
<1>5. CASE preOwned = m.owned
  <2>1. UNCHANGED api
    BY <1>5 DEF PrePatch, ObjectUntouched
  <2>2. rec' = [rec EXCEPT !.pc = "act"]
    BY <1>5 DEF PrePatch, GoTo
  <2>3. /\ rec'.pc = "act" /\ rec'.m = rec.m /\ rec'.desired = rec.desired
        /\ rec'.todo = rec.todo /\ rec'.done = rec.done /\ rec'.failed = rec.failed
    BY <1>1, <2>2 DEF Planned
  <2>4. desiredTargets' \subseteq rec'.m.owned
    BY <1>5, <2>3 DEF preOwned, m, desiredTargets
  <2> QED BY <1>1, <1>3, <1>4, <2>1, <2>3, <2>4, OwnershipSameAnnotation
      DEF OwnershipInv, CopyInSync, DeletionsPlanned, NothingDoneYet, Widened, DeletedIsGone,
          CleanedIsGone, Narrowed
<1>6. CASE preOwned # m.owned
  <2>1. preOwned \in SUBSET Targets /\ m.owned \subseteq preOwned /\ desiredTargets \subseteq preOwned
    BY <1>1 DEF preOwned, desiredTargets, m, Planned, Locals
  <2>2. /\ api' = api \/ (Lives' /\ api'.owned = preOwned)
        /\ \/ rec'.pc = "syserr"
           \/ /\ rec'.pc = "act" /\ Lives' /\ api'.owned = preOwned /\ rec'.m.owned = preOwned
              /\ rec'.desired = rec.desired /\ rec'.todo = rec.todo
              /\ rec'.done = rec.done /\ rec'.failed = rec.failed
    BY <1>1, <1>6, <2>1, PatchOutcome DEF PrePatch
  <2>3. NoOrphans' /\ OwnedSafely'
    BY <1>1, <1>2, <1>4, <2>1, <2>2 DEF OwnershipInv, NoOrphans, OwnedSafely, Lives, m
  <2>4. CASE rec'.pc = "syserr"
    BY <2>3, <2>4, OwnershipAtRest
  <2>5. CASE rec'.pc = "act"
    <3>1. desiredTargets' \subseteq rec'.m.owned
      BY <2>1, <2>2, <2>5 DEF desiredTargets
    <3>2. \A t \in preOwned : rec.desired[t] = {} => t \in rec.m.owned
      BY DEF preOwned, desiredTargets, m
    <3>3. {t \in rec'.m.owned : rec'.desired[t] = {}} \subseteq rec'.todo
      BY <1>3, <2>2, <2>5, <3>2
    <3> QED BY <1>3, <2>2, <2>3, <2>5, <3>1, <3>3
        DEF OwnershipInv, CopyInSync, DeletionsPlanned, NothingDoneYet, Widened, DeletedIsGone,
            CleanedIsGone, Narrowed
  <2> QED BY <2>2, <2>4, <2>5
<1> QED BY <1>5, <1>6

\* An action that writes has its target in the annotation; one that deletes leaves nothing.
LEMMA OwnershipExecute ==
  ASSUME OwnershipInv, TypeInv', NEW t \in Targets, Execute(t)
  PROVE  OwnershipInv'
<1>1. rec \in Planned /\ rec.pc = "act" /\ TypeInv /\ UNCHANGED api
  BY WorkerType DEF Execute, At, OwnershipInv, TypeInv
<1>2. Lives /\ rec.m.owned = api.owned /\ desiredTargets \subseteq api.owned
  BY <1>1 DEF OwnershipInv, TypeInv, ObjectLives, Working, CopyInSync, Widened, Lives
<1>3. /\ rec'.pc = "act" /\ rec'.m = rec.m /\ rec'.desired = rec.desired /\ rec'.todo = rec.todo
      /\ rec'.done \in {rec.done, rec.done \cup {t}}
  BY <1>1 DEF Execute, Planned
<1>4. azure \in [Targets -> Contents] /\ azure' \in [Targets -> Contents]
  BY <1>1 DEF TypeInv, TypeOK
<1>5. \A u \in Targets \ {t} : azure'[u] = azure[u]
  BY <1>4 DEF Execute, DeleteErrs
<1>6. rec.desired[t] = {} /\ azure'[t] # None => azure[t] # None
  BY <1>4 DEF Execute, DeleteErrs, Written
<1>7. rec.desired[t] = {} /\ rec'.done # rec.done => azure'[t] = None
  BY <1>1, <1>4 DEF Execute, Written, Planned
<1>8. NoOrphans'
  <2>1. rec.desired[t] # {} => t \in api.owned
    BY <1>2 DEF desiredTargets
  <2> QED BY <1>1, <1>2, <1>5, <1>6, <2>1 DEF OwnershipInv, NoOrphans, Lives
<1>9. DeletedIsGone'
  <2>1. rec.done \subseteq Targets
    BY <1>1 DEF Planned
  <2>2. ASSUME NEW u \in rec'.done, rec.desired[u] = {}
        PROVE  azure'[u] = None
    <3>1. CASE u # t
      BY <1>1, <1>3, <1>5, <2>1, <2>2, <3>1 DEF OwnershipInv, DeletedIsGone
    <3>2. CASE u = t /\ t \in rec.done
      BY <1>1, <1>6, <2>2, <3>2 DEF OwnershipInv, DeletedIsGone
    <3>3. CASE u = t /\ t \notin rec.done
      BY <1>7, <2>2, <3>3
    <3> QED BY <3>1, <3>2, <3>3
  <2> QED BY <1>3, <2>2 DEF DeletedIsGone
<1> QED BY <1>1, <1>3, <1>8, <1>9
    DEF OwnershipInv, OwnedSafely, CopyInSync, DeletionsPlanned, NothingDoneYet, Widened,
        CleanedIsGone, Narrowed, desiredTargets

\* Only targets whose prefix set is gone leave the annotation; without a failure these are all
\* that were not desired.
LEMMA OwnershipPostPatch ==
  ASSUME OwnershipInv, TypeInv', PostPatch
  PROVE  OwnershipInv'
<1>1. /\ rec \in Planned /\ rec.pc = "act" /\ TypeInv /\ UNCHANGED azure
      /\ rec.todo \subseteq rec.done \cup rec.failed
  BY WorkerType DEF PostPatch, At, OwnershipInv, TypeInv
<1>2. Lives /\ rec.m.owned = api.owned /\ desiredTargets \subseteq rec.m.owned
  BY <1>1 DEF OwnershipInv, TypeInv, ObjectLives, Working, CopyInSync, Widened, Lives
<1>3. postOwned \subseteq api.owned /\ \A t \in api.owned \ postOwned : azure[t] = None
  BY <1>1, <1>2 DEF postOwned, m, OwnershipInv, DeletedIsGone
<1>4. rec.failed = {} => postOwned = desiredTargets
  <2>1. {t \in rec.m.owned : rec.desired[t] = {}} \subseteq rec.todo
    BY <1>1 DEF OwnershipInv, DeletionsPlanned
  <2>2. rec.m.owned \subseteq Targets
    BY <1>1 DEF Planned, Locals
  <2> QED BY <1>1, <1>2, <2>1, <2>2 DEF postOwned, desiredTargets, m
<1>5. CASE postOwned = m.owned
  <2>1. UNCHANGED api
    BY <1>5 DEF PostPatch, ObjectUntouched
  <2>2. rec' = [rec EXCEPT !.pc = "final"]
    BY <1>5 DEF PostPatch, GoTo
  <2>3. rec'.pc = "final" /\ rec'.m = rec.m /\ rec'.desired = rec.desired /\ rec'.failed = rec.failed
    BY <1>1, <2>2 DEF Planned
  <2>4. Narrowed'
    BY <1>4, <1>5, <2>3 DEF Narrowed, desiredTargets, m
  <2> QED BY <1>1, <1>2, <2>1, <2>3, <2>4, OwnershipSameAnnotation
      DEF OwnershipInv, CopyInSync, DeletionsPlanned, NothingDoneYet, Widened, DeletedIsGone,
          CleanedIsGone
<1>6. CASE postOwned # m.owned
  <2>1. postOwned \in SUBSET Targets
    BY <1>1 DEF postOwned, m, Planned, Locals
  <2>2. /\ api' = api \/ (Lives' /\ api'.owned = postOwned)
        /\ \/ rec'.pc = "syserr"
           \/ /\ rec'.pc = "final" /\ Lives' /\ api'.owned = postOwned /\ rec'.m.owned = postOwned
              /\ rec'.desired = rec.desired /\ rec'.todo = rec.todo
              /\ rec'.done = rec.done /\ rec'.failed = rec.failed
    BY <1>1, <1>6, <2>1, PatchOutcome DEF PostPatch
  <2>3. NoOrphans' /\ OwnedSafely'
    BY <1>1, <1>2, <1>3, <2>2 DEF OwnershipInv, NoOrphans, OwnedSafely, Lives
  <2>4. CASE rec'.pc = "syserr"
    BY <2>3, <2>4, OwnershipAtRest
  <2>5. CASE rec'.pc = "final"
    <3>1. Narrowed'
      BY <1>4, <2>2, <2>5 DEF Narrowed, desiredTargets
    <3> QED BY <2>2, <2>3, <2>5, <3>1
        DEF OwnershipInv, CopyInSync, DeletionsPlanned, NothingDoneYet, Widened, DeletedIsGone,
            CleanedIsGone
  <2> QED BY <2>2, <2>4, <2>5
<1> QED BY <1>5, <1>6

\* The deletion path: the finalizer goes when every owned prefix set has gone.
LEMMA OwnershipDeletion ==
  ASSUME OwnershipInv, TypeInv', BeginDelete \/ (\E t \in Targets : Cleanup(t)) \/ RemoveFinalizer
  PROVE  OwnershipInv'
<1>1. CASE BeginDelete
  <2>1. /\ rec.pc = "fetched" /\ rec'.pc = "cleanup" /\ rec'.m = rec.m
        /\ rec'.todo = IF rec.m.owned # {} THEN rec.m.owned ELSE SpecTargets[rec.m.spec]
        /\ UNCHANGED <<api, azure>>
    BY <1>1 DEF BeginDelete, At, m
  <2>2. rec'.m.owned \subseteq rec'.todo
    BY <2>1
  <2> QED BY <2>1, <2>2, OwnershipSameAnnotation
      DEF OwnershipInv, CopyInSync, DeletionsPlanned, NothingDoneYet, Widened, DeletedIsGone,
          CleanedIsGone, Narrowed
<1>2. CASE \E t \in Targets : Cleanup(t)
  <2>1. PICK t \in Targets : Cleanup(t)
    BY <1>2
  <2>2. rec \in Cleaning /\ rec.pc = "cleanup" /\ UNCHANGED api /\ azure \in [Targets -> Contents]
    BY <2>1, WorkerType DEF Cleanup, At, OwnershipInv, TypeInv, TypeOK
  <2>3. rec'.pc = "cleanup" /\ rec'.m = rec.m
    BY <2>1, <2>2 DEF Cleanup, Cleaning
  <2>4. \A u \in Targets : azure'[u] # None => azure[u] # None
    BY <2>1, <2>2 DEF Cleanup, DeleteErrs
  <2>5. \A u \in rec'.m.owned \ (rec'.todo \cup rec'.failed) : azure'[u] = None
    <3>1. rec.m.owned \subseteq Targets
      BY <2>2 DEF Cleaning, Locals
    <3>2. CASE azure' = [azure EXCEPT ![t] = None] /\ rec' = [rec EXCEPT !.todo = @ \ {t}]
      <4>1. rec'.todo = rec.todo \ {t} /\ rec'.failed = rec.failed
        BY <2>2, <3>2 DEF Cleaning
      <4> QED BY <2>2, <2>3, <2>4, <3>1, <3>2, <4>1 DEF OwnershipInv, CleanedIsGone
    <3>3. CASE rec' = [rec EXCEPT !.todo = @ \ {t}, !.failed = @ \cup {t}]
      <4>1. rec'.todo = rec.todo \ {t} /\ rec'.failed = rec.failed \cup {t}
        BY <2>2, <3>3 DEF Cleaning
      <4> QED BY <2>2, <2>3, <2>4, <3>1, <4>1 DEF OwnershipInv, CleanedIsGone
    <3> QED BY <2>1, <3>2, <3>3 DEF Cleanup
  <2>6. NoOrphans'
    BY <2>2, <2>4 DEF OwnershipInv, NoOrphans
  <2> QED BY <2>2, <2>3, <2>5, <2>6
      DEF OwnershipInv, OwnedSafely, CopyInSync, DeletionsPlanned, NothingDoneYet, Widened,
          DeletedIsGone, CleanedIsGone, Narrowed
<1>3. CASE RemoveFinalizer
  <2>1. rec.pc = "cleanup" /\ rec.todo = {} /\ rec.failed = {} /\ rec'.pc = "idle" /\ UNCHANGED azure
    BY <1>3 DEF RemoveFinalizer, At, Idle
  <2>2. UNCHANGED api \/ (api # NoMapping /\ api' = NoMapping)
    BY <1>3 DEF RemoveFinalizer, PatchErrs, ObjectUntouched, Store
  <2>3. CASE api # NoMapping /\ api' = NoMapping
    <3>1. \A t \in api.owned : azure[t] = None
      BY <2>1, <2>3 DEF OwnershipInv, CopyInSync, CleanedIsGone
    <3>2. \A t \in Targets : azure[t] = None
      BY <3>1 DEF OwnershipInv, NoOrphans
    <3> QED BY <2>1, <2>3, <3>2, OwnershipAtRest DEF NoOrphans, OwnedSafely
  <2> QED BY <2>1, <2>2, <2>3, OwnershipAtRest, OwnershipSameAnnotation
<1> QED BY <1>1, <1>2, <1>3

\* Every step keeps ownership.
LEMMA OwnershipStep ==
  ASSUME ~Lag
  PROVE  OwnershipInv /\ [Next]_vars => OwnershipInv'
<1> SUFFICES ASSUME OwnershipInv, [Next]_vars PROVE OwnershipInv'
  OBVIOUS
<1>1. TypeInv'
  BY TypeStep DEF OwnershipInv
<1>2. CASE Worker
  BY <1>1, <1>2, OwnershipEnvironment, OwnershipPrepare, OwnershipStatus, OwnershipRead,
     OwnershipPrePatch, OwnershipExecute, OwnershipPostPatch, OwnershipDeletion DEF Worker
<1>3. CASE Next /\ ~Worker
  BY <1>1, <1>3, OwnershipUsers, OwnershipEnvironment DEF Next
<1>4. CASE UNCHANGED vars
  BY <1>1, <1>4, OwnershipAzure DEF vars
<1> QED BY <1>2, <1>3, <1>4

\* Whatever fails, crashes or arrives late, and in whatever order: a prefix set of this mapping
\* is always recorded in the annotation of a mapping that still exists, provided that the
\* reconciler reads what the API server has.
THEOREM NothingOrphaned ==
  ASSUME ~Lag
  PROVE  Spec => []NoOrphans
<1>1. OwnershipInv => NoOrphans
  BY DEF OwnershipInv
<1> QED BY <1>1, OwnershipInit, OwnershipStep, PTL DEF Spec

\* Reconciled=True is only ever written with the annotation that names exactly the targets with
\* addresses, under the same proviso.
THEOREM ReconciledIsExact ==
  ASSUME ~Lag
  PROVE  Spec => ReconciledMeansOwnershipExact
<1> DEFINE Exact ==
      At("final") /\ api' # NoMapping /\ api' # api /\ api'.status # api.status
        /\ api'.status.reconciled => api'.owned = desiredTargets
<1>1. OwnershipInv /\ [Next]_vars => [Exact]_vars
  <2> SUFFICES ASSUME OwnershipInv, Next, At("final"), api' # NoMapping, api'.status # api.status,
                      api'.status.reconciled
               PROVE  api'.owned = desiredTargets
    OBVIOUS
  <2>1. TypeInv /\ rec.pc = "final"
    BY DEF OwnershipInv, At
  <2>2. UpdateAfterReconcile
    <3>1. CASE Worker
      BY <2>1, <3>1
         DEF Worker, FetchGone, Fetch, ensureFinalizer, Debounced, Resolve, Gate, UpdatePending,
             ReadAzure, PrePatch, Execute, PostPatch, SystemError, BeginDelete, Cleanup,
             CleanupFailed, RemoveFinalizer, At
    <3>2. CASE SpecChanged
      BY <2>1, <3>2 DEF SpecChanged, Store, TypeInv, TypeOK, Objects
    <3>3. CASE DeleteRequested
      BY <2>1, <3>3 DEF DeleteRequested, Store, TypeInv, TypeOK, Objects
    <3> QED BY <3>1, <3>2, <3>3
        DEF Next, Users, PodsChanged, Drift, DebounceExpires, LateDelete, Crash
  <2>3. StatusWritten(rec.failed = {}, rec.spec, TRUE)
    BY <2>2 DEF UpdateAfterReconcile, SentinelReturn, StatusErrs, ObjectUntouched
  <2>4. rec.failed = {}
    BY <2>1, <2>3 DEF StatusWritten, ObjectGone, Store, TypeInv, TypeOK, Objects
  <2>5. api # NoMapping /\ api'.owned = api.owned
    BY <2>1, <2>3, StatusKeepsAnnotation DEF Working
  <2> QED BY <2>1, <2>4, <2>5 DEF OwnershipInv, CopyInSync, Narrowed
<1> QED BY <1>1, OwnershipInit, OwnershipStep, PTL DEF Spec, ReconciledMeansOwnershipExact
=============================================================================
