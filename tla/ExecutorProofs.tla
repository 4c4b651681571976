---------------------------- MODULE ExecutorProofs ----------------------------
(***************************************************************************)
(* What Executor.Execute guarantees for every set of targets and           *)
(* addresses, every threshold and every number of retries, resends and     *)
(* writes of others.                                                       *)
(*                                                                         *)
(* ExecutorInv is the inductive invariant.  SuccessMeansConverged alone is *)
(* not inductive: a patch sends the delta of an earlier comparison, so at  *)
(* every time the delta must turn what nobody else has touched into what   *)
(* is desired, also after a PUT of our own whose answer was lost           *)
(* (DeltaExact); a PUT that is accepted must have read what it replaces    *)
(* (ReadCurrent); and a goroutine sends the requests of its action's kind  *)
(* (Phase).                                                                *)
(***************************************************************************)
EXTENDS Executor, TLAPS

\* What holds of a target's prefix set s, action a, goroutine g and result r; mine: nobody else
\* has written to it.
DeltaExact(s, a, mine) ==
  /\ a.kind = "delete" <=> a.ips = {}
  /\ a.kind = "patch" =>
       /\ applyPatchDelta(a.ips, a) = a.ips
       /\ mine => s.ips # None /\ applyPatchDelta(s.ips, a) = a.ips

Phase(a, g) ==
  /\ g.pc \in {"get", "put", "recompute"} => a.kind # "delete"
  /\ g.pc = "delete" => a.kind = "delete"
  /\ g.pc = "put" /\ a.kind = "patch" => g.read # None

ReadCurrent(s, g) ==
  g.pc = "put" => g.etag <= s.etag /\ (g.etag = s.etag => g.read = s.ips)

SuccessTrue(s, a, r, mine) == r # NoResult /\ r.success /\ mine => Converged(a.ips, s.ips)

Sound(s, a, g, r, mine) ==
  /\ (g.pc = "done") = (r # NoResult)
  /\ DeltaExact(s, a, mine) /\ Phase(a, g) /\ ReadCurrent(s, g) /\ SuccessTrue(s, a, r, mine)

ExecutorInv ==
  /\ TypeOK
  /\ \A t \in Targets : Sound(store[t], action[t], go[t], result[t], t \notin touched)
-------------------------------------------------------------------------------
(***************************************************************************)
(* What the steps are made of.                                             *)
(***************************************************************************)
Sets == [ips : Contents, etag : ETags]

\* A goroutine only disturbs what concerns its own target.
LEMMA TargetFrame ==
  ASSUME ExecutorInv, NEW t \in Targets,
         NEW s \in Sets, store' = [store EXCEPT ![t] = s],
         NEW a \in Actions, action' = [action EXCEPT ![t] = a],
         NEW g \in Goroutines, go' = [go EXCEPT ![t] = g],
         NEW r \in Results \cup {NoResult}, result' = [result EXCEPT ![t] = r],
         UNCHANGED <<cancelled, foreign, touched>>,
         Sound(s, a, g, r, t \notin touched)
  PROVE  ExecutorInv'
<1>1. /\ store' \in [Targets -> Sets] /\ action' \in [Targets -> Actions]
      /\ go' \in [Targets -> Goroutines] /\ result' \in [Targets -> Results \cup {NoResult}]
  BY DEF ExecutorInv, TypeOK, Sets
<1>2. ASSUME NEW u \in Targets
      PROVE  Sound(store'[u], action'[u], go'[u], result'[u], u \notin touched')
  <2>1. CASE u = t
    <3>1. store'[u] = s /\ action'[u] = a /\ go'[u] = g /\ result'[u] = r
      BY <2>1 DEF ExecutorInv, TypeOK, Sets
    <3> QED BY <2>1, <3>1
  <2>2. CASE u # t
    <3>1. /\ store'[u] = store[u] /\ action'[u] = action[u] /\ go'[u] = go[u]
          /\ result'[u] = result[u]
      BY <2>2 DEF ExecutorInv, TypeOK, Sets
    <3> QED BY <3>1 DEF ExecutorInv
  <2> QED BY <2>1, <2>2
<1>3. \A u \in Targets : (go'[u].pc = "done") = (result'[u] # NoResult)
  BY <1>2 DEF Sound
<1>4. TypeOK'
  BY <1>1, <1>3 DEF ExecutorInv, TypeOK, Sets
<1> QED BY <1>2, <1>4 DEF ExecutorInv

\* A goroutine that starts a phase without a read is well typed.
LEMMA FreshType ==
  ASSUME NEW pc \in Pcs, NEW attempt \in 1..MaxRetries
  PROVE  /\ Fresh(pc, attempt) \in Goroutines
         /\ Fresh(pc, attempt).pc = pc /\ Fresh(pc, attempt).attempt = attempt
BY PolicyAssumption DEF Fresh, Goroutines, Contents, ETags

\* A goroutine that ends with a failure, or with a success that is true, is sound.
LEMMA FinishSound ==
  ASSUME NEW s, NEW a, NEW mine, NEW success \in BOOLEAN, NEW noOp \in BOOLEAN,
         DeltaExact(s, a, mine), success /\ mine => Converged(a.ips, s.ips)
  PROVE  /\ [success |-> success, noOp |-> noOp] \in Results
         /\ Fresh("done", 1) \in Goroutines
         /\ Sound(s, a, Fresh("done", 1), [success |-> success, noOp |-> noOp], mine)
<1> DEFINE r == [success |-> success, noOp |-> noOp]
           g == Fresh("done", 1)
<1>1. r \in Results /\ r # NoResult /\ r.success = success
  BY NoResultAssumption DEF Results
<1>2. g \in Goroutines /\ g.pc = "done"
  BY FreshType, PolicyAssumption DEF Pcs
<1> HIDE DEF r, g
<1>3. Sound(s, a, g, r, mine)
  BY <1>1, <1>2 DEF Sound, Phase, ReadCurrent, SuccessTrue
<1> QED BY <1>1, <1>2, <1>3 DEF r, g

\* ComputeDiff asks for a deletion exactly when nothing is desired, and the delta of a patch
\* turns the content it was computed from, and the desired content, into the desired content.
LEMMA ComputeDiffSound ==
  ASSUME NEW desired \in Addresses, NEW s \in Sets, NEW mine
  PROVE  /\ ComputeDiff(desired, s.ips) \in Actions
         /\ ComputeDiff(desired, s.ips).ips = desired
         /\ DeltaExact(s, ComputeDiff(desired, s.ips), mine)
         /\ s.ips = None => ComputeDiff(desired, s.ips).kind # "patch"
<1> DEFINE c == s.ips
           d == ComputeDiff(desired, c)
<1>1. c \in Contents
  BY DEF Sets
<1>2. CASE desired = {}
  <2>1. d = [kind |-> "delete", ips |-> {}, add |-> {}, remove |-> {}]
    BY <1>2 DEF ComputeDiff
  <2> QED BY <1>2, <2>1 DEF Actions, Kinds, Addresses, DeltaExact
<1>3. CASE desired # {} /\ c = None
  <2>1. d = [kind |-> "create", ips |-> desired, add |-> {}, remove |-> {}]
    BY <1>3 DEF ComputeDiff
  <2> QED BY <1>3, <2>1 DEF Actions, Kinds, Addresses, DeltaExact
<1>4. CASE desired # {} /\ c # None /\ shouldUsePatch(desired, c)
  <2>1. d = [kind |-> "patch", ips |-> desired, add |-> desired \ c, remove |-> c \ desired]
    BY <1>4 DEF ComputeDiff
  <2>2. c \in Addresses
    BY <1>1, <1>4 DEF Contents
  <2>3. applyPatchDelta(desired, d) = desired /\ applyPatchDelta(c, d) = desired
    BY <2>1, <2>2 DEF applyPatchDelta, Addresses
  <2> QED BY <1>4, <2>1, <2>2, <2>3 DEF Actions, Kinds, Addresses, DeltaExact
<1>5. CASE desired # {} /\ c # None /\ ~shouldUsePatch(desired, c)
  <2>1. d = [kind |-> "update", ips |-> desired, add |-> {}, remove |-> {}]
    BY <1>5 DEF ComputeDiff
  <2> QED BY <1>5, <2>1 DEF Actions, Kinds, Addresses, DeltaExact
<1> QED BY <1>2, <1>3, <1>4, <1>5
\* What a goroutine holds when it takes a step.
LEMMA TargetFacts ==
  ASSUME ExecutorInv, NEW t \in Targets
  PROVE  /\ store[t] \in Sets /\ action[t] \in Actions /\ go[t] \in Goroutines
         /\ result[t] \in Results \cup {NoResult}
         /\ Sound(store[t], action[t], go[t], result[t], t \notin touched)
         /\ store = [store EXCEPT ![t] = store[t]] /\ action = [action EXCEPT ![t] = action[t]]
         /\ result = [result EXCEPT ![t] = result[t]]
BY DEF ExecutorInv, TypeOK, Sets

\* Every way a goroutine ends keeps the invariant when the prefix set it leaves is the one its
\* result speaks of.
LEMMA FinishStep ==
  ASSUME ExecutorInv, NEW t \in Targets, UNCHANGED <<cancelled, foreign, touched>>,
         NEW s \in Sets, store' = [store EXCEPT ![t] = s],
         NEW a \in Actions, action' = [action EXCEPT ![t] = a],
         NEW success \in BOOLEAN, NEW noOp \in BOOLEAN, Finish(t, success, noOp),
         DeltaExact(s, a, t \notin touched),
         success /\ t \notin touched => Converged(a.ips, s.ips)
  PROVE  ExecutorInv'
<1> DEFINE r == [success |-> success, noOp |-> noOp]
           g == Fresh("done", 1)
<1>1. go' = [go EXCEPT ![t] = g] /\ result' = [result EXCEPT ![t] = r]
  BY DEF Finish
<1>2. r \in Results /\ g \in Goroutines /\ Sound(s, a, g, r, t \notin touched)
  BY FinishSound
<1> HIDE DEF r, g
<1> QED BY <1>1, <1>2, TargetFrame

\* A goroutine that fails before it has written anything.
LEMMA GiveUp ==
  ASSUME ExecutorInv, NEW t \in Targets, UNCHANGED <<store, action, cancelled, foreign, touched>>,
         Finish(t, FALSE, FALSE)
  PROVE  ExecutorInv'
BY TargetFacts, FinishStep DEF Sound

\* A goroutine that moves on to a phase without a read.
LEMMA MoveOn ==
  ASSUME ExecutorInv, NEW t \in Targets, UNCHANGED <<store, cancelled, foreign, touched, result>>,
         go[t].pc # "done", NEW a \in Actions, action' = [action EXCEPT ![t] = a],
         DeltaExact(store[t], a, t \notin touched),
         NEW pc \in Pcs \ {"put", "done"}, NEW attempt \in 1..MaxRetries,
         go' = [go EXCEPT ![t] = Fresh(pc, attempt)],
         pc \in {"get", "recompute"} => a.kind # "delete",
         pc = "delete" => a.kind = "delete"
  PROVE  ExecutorInv'
<1> DEFINE g == Fresh(pc, attempt)
<1>1. g \in Goroutines /\ g.pc = pc
  BY FreshType
<1>2. go' = [go EXCEPT ![t] = g]
  OBVIOUS
<1> HIDE DEF g
<1>3. result[t] = NoResult
  BY TargetFacts DEF Sound
<1>4. Sound(store[t], a, g, result[t], t \notin touched)
  BY <1>1, <1>3 DEF Sound, Phase, ReadCurrent, SuccessTrue
<1> QED BY <1>1, <1>2, <1>4, TargetFacts, TargetFrame

\* A request is sent again, with the headers it had, or given up; s is what it has left.
LEMMA ResendStep ==
  ASSUME ExecutorInv, NEW t \in Targets, UNCHANGED <<action, cancelled, foreign, touched>>,
         go[t].pc # "done", Resend(t),
         NEW s \in Sets, store' = [store EXCEPT ![t] = s],
         DeltaExact(s, action[t], t \notin touched), ReadCurrent(s, go[t])
  PROVE  ExecutorInv'
<1>1. CASE go[t].resends < MaxResends
  <2> DEFINE g == [go[t] EXCEPT !.resends = @ + 1]
  <2>1. go[t] \in Goroutines
    BY TargetFacts
  <2>2. go[t].resends + 1 \in 0..MaxResends
    BY <1>1, <2>1, PolicyAssumption DEF Goroutines
  <2>3. /\ g \in Goroutines /\ g.pc = go[t].pc /\ g.read = go[t].read /\ g.etag = go[t].etag
    BY <2>1, <2>2 DEF Goroutines
  <2>4. go' = [go EXCEPT ![t] = g] /\ UNCHANGED result
    BY <1>1 DEF Resend
  <2> HIDE DEF g
  <2>5. Sound(store[t], action[t], go[t], result[t], t \notin touched)
    BY TargetFacts
  <2>6. result[t] = NoResult
    BY <2>5 DEF Sound
  <2>7. Sound(s, action[t], g, result[t], t \notin touched)
    BY <2>3, <2>5, <2>6 DEF Sound, Phase, ReadCurrent, SuccessTrue
  <2> QED BY <2>3, <2>4, <2>7, TargetFacts, TargetFrame
<1>2. CASE ~(go[t].resends < MaxResends)
  BY <1>2, TargetFacts, FinishStep DEF Resend
<1> QED BY <1>1, <1>2

\* The next attempt of executeWithETagRetry, or the end of the loop.
LEMMA AttemptStep ==
  ASSUME ExecutorInv, NEW t \in Targets, UNCHANGED <<store, cancelled, foreign, touched>>,
         go[t].pc \in {"get", "recompute"}, NEW a \in Actions, NextAttempt(t, a),
         DeltaExact(store[t], a, t \notin touched), a.ips = action[t].ips
  PROVE  ExecutorInv'
<1>1. Sound(store[t], action[t], go[t], result[t], t \notin touched) /\ go[t] \in Goroutines
  BY TargetFacts
<1>2. a.kind # "delete"
  BY <1>1 DEF Sound, Phase, DeltaExact
<1>3. action' = [action EXCEPT ![t] = a]
  BY DEF NextAttempt
<1>4. CASE go[t].attempt < MaxRetries
  <2>1. go[t].attempt + 1 \in 1..MaxRetries
    BY <1>1, <1>4, PolicyAssumption DEF Goroutines
  <2>2. go' = [go EXCEPT ![t] = Fresh("get", go[t].attempt + 1)] /\ UNCHANGED result
    BY <1>4 DEF NextAttempt
  <2> QED BY <1>2, <1>3, <2>1, <2>2, MoveOn DEF Pcs
<1>5. CASE ~(go[t].attempt < MaxRetries)
  <2>1. Finish(t, FALSE, FALSE)
    BY <1>5 DEF NextAttempt
  <2> QED BY <1>3, <2>1, TargetFacts, FinishStep
<1> QED BY <1>4, <1>5
-------------------------------------------------------------------------------
(***************************************************************************)
(* The steps.                                                              *)
(***************************************************************************)

\* Execute is called with the reconciler's diff.
LEMMA ExecutorInit == Init => ExecutorInv
<1> SUFFICES ASSUME Init PROVE ExecutorInv
  OBVIOUS
<1>1. PICK call \in Calls :
        /\ store = [t \in Targets |-> [ips |-> call[t].actual, etag |-> 0]]
        /\ action = [t \in Targets |-> ComputeDiff(call[t].desired, call[t].actual)]
  BY DEF Init
<1>2. Fresh("waiting", 1) \in Goroutines /\ Fresh("waiting", 1).pc = "waiting"
  BY FreshType, PolicyAssumption DEF Pcs
<1>3. ASSUME NEW t \in Targets
      PROVE  /\ store[t] \in Sets /\ action[t] \in Actions /\ go[t] \in Goroutines
             /\ go[t].pc = "waiting" /\ result[t] = NoResult
             /\ DeltaExact(store[t], action[t], t \notin touched)
  <2>1. call[t].actual \in Contents /\ call[t].desired \in Addresses
    <3>1. call \in [Targets -> [actual : (SUBSET IPs) \cup {None}, desired : SUBSET IPs]]
      BY CallsAssumption
    <3>2. call[t] \in [actual : (SUBSET IPs) \cup {None}, desired : SUBSET IPs]
      BY <3>1
    <3> QED BY <3>2 DEF Contents, Addresses
  <2>2. store[t] \in Sets /\ store[t].ips = call[t].actual
    BY <1>1, <2>1 DEF Sets, ETags
  <2>3. action[t] = ComputeDiff(call[t].desired, store[t].ips)
    BY <1>1, <2>2
  <2> QED BY <1>2, <2>1, <2>2, <2>3, ComputeDiffSound DEF Init
<1>4. TypeOK
  <2>1. /\ store \in [Targets -> Sets] /\ action \in [Targets -> Actions]
        /\ go \in [Targets -> Goroutines] /\ result \in [Targets -> Results \cup {NoResult}]
    <3>1. store \in [Targets -> Sets]
      BY <1>1, <1>3
    <3>2. action \in [Targets -> Actions]
      BY <1>1, <1>3
    <3>3. go \in [Targets -> Goroutines]
      BY <1>2 DEF Init
    <3>4. result \in [Targets -> Results \cup {NoResult}]
      BY DEF Init
    <3> QED BY <3>1, <3>2, <3>3, <3>4
  <2>2. \A t \in Targets : (go[t].pc = "done") = (result[t] # NoResult)
    BY <1>3
  <2>3. foreign \in 0..MaxForeign
    BY PolicyAssumption DEF Init
  <2>4. cancelled \in BOOLEAN /\ touched \subseteq Targets
    BY DEF Init
  <2> QED BY <2>1, <2>2, <2>3, <2>4 DEF TypeOK, Sets
<1>5. \A t \in Targets : Sound(store[t], action[t], go[t], result[t], t \notin touched)
  BY <1>3 DEF Sound, Phase, ReadCurrent, SuccessTrue
<1> QED BY <1>4, <1>5 DEF ExecutorInv
\* The steps of a goroutine before and between its requests.
LEMMA QueueStep ==
  ASSUME ExecutorInv, NEW t \in Targets, UNCHANGED <<cancelled, foreign, touched>>,
         Acquire(t) \/ WaitCancelled(t) \/ Start(t) \/ RequestFails(t) \/ PreconditionFailed(t)
  PROVE  ExecutorInv'
<1>1. UNCHANGED <<store, action>>
  BY DEF Acquire, WaitCancelled, Start, RequestFails, PreconditionFailed, AzureUntouched
<1>2. /\ action[t] \in Actions /\ go[t].attempt \in 1..MaxRetries
      /\ action' = [action EXCEPT ![t] = action[t]]
      /\ DeltaExact(store[t], action[t], t \notin touched) /\ Phase(action[t], go[t])
  BY <1>1, TargetFacts DEF Sound, Goroutines
<1>3. CASE Finish(t, FALSE, FALSE)
  BY <1>1, <1>3, GiveUp
<1>4. CASE Acquire(t)
  BY <1>1, <1>2, <1>4, MoveOn DEF Acquire, At, GoTo, Pcs
<1>5. CASE Start(t) /\ GoTo(t, IF action[t].kind = "delete" THEN "delete" ELSE "get")
  BY <1>1, <1>2, <1>5, MoveOn DEF Start, At, GoTo, Pcs
<1>6. CASE PreconditionFailed(t) /\ GoTo(t, "recompute")
  <2>1. action[t].kind # "delete" /\ go[t].pc # "done"
    BY <1>2, <1>6 DEF PreconditionFailed, At, Phase
  <2> QED BY <1>1, <1>2, <1>6, <2>1, MoveOn DEF GoTo, Pcs
<1> QED BY <1>3, <1>4, <1>5, <1>6 DEF WaitCancelled, Start, RequestFails, PreconditionFailed

\* The GET before a PUT, and the one after a 412.
LEMMA ReadStep ==
  ASSUME ExecutorInv, NEW t \in Targets, UNCHANGED <<cancelled, foreign, touched>>,
         Get(t) \/ Recompute(t)
  PROVE  ExecutorInv'
<1>1. UNCHANGED store
  BY DEF Get, Recompute, AzureUntouched
<1>2. /\ store[t] \in Sets /\ action[t] \in Actions /\ action[t].ips \in Addresses
      /\ go[t] \in Goroutines
      /\ Sound(store[t], action[t], go[t], result[t], t \notin touched)
  BY TargetFacts DEF Actions
<1>3. CASE Get(t) /\ action[t].kind = "patch" /\ store[t].ips = None
  <2>1. NextAttempt(t, ComputeDiff(action[t].ips, store[t].ips))
    BY <1>3 DEF Get
  <2> QED BY <1>1, <1>2, <1>3, <2>1, ComputeDiffSound, AttemptStep DEF Get, At
<1>4. CASE Get(t) /\ ~(action[t].kind = "patch" /\ store[t].ips = None)
  <2> DEFINE g == [go[t] EXCEPT !.pc = "put", !.resends = 0, !.read = store[t].ips,
                                !.etag = store[t].etag]
  <2>1. go' = [go EXCEPT ![t] = g] /\ UNCHANGED <<action, result>> /\ go[t].pc = "get"
    BY <1>4 DEF Get, At
  <2>2. /\ g \in Goroutines /\ g.pc = "put" /\ g.read = store[t].ips /\ g.etag = store[t].etag
    <3>1. 0 \in 0..MaxResends
      BY PolicyAssumption
    <3>2. store[t].ips \in Contents /\ store[t].etag \in ETags
      BY <1>2 DEF Sets
    <3> QED BY <1>2, <3>1, <3>2 DEF Goroutines, Pcs
  <2> HIDE DEF g
  <2>3. store[t].etag <= store[t].etag
    BY <1>2 DEF Sets, ETags
  <2>4. Sound(store[t], action[t], g, result[t], t \notin touched)
    BY <1>2, <1>4, <2>1, <2>2, <2>3 DEF Sound, Phase, ReadCurrent, SuccessTrue
  <2> QED BY <1>1, <2>1, <2>2, <2>4, TargetFacts, TargetFrame
<1>5. CASE Recompute(t) /\ Converged(action[t].ips, store[t].ips)
  BY <1>1, <1>2, <1>5, TargetFacts, FinishStep DEF Recompute, Sound
<1>6. CASE Recompute(t) /\ ~Converged(action[t].ips, store[t].ips)
  <2>1. NextAttempt(t, ComputeDiff(action[t].ips, store[t].ips))
    BY <1>6 DEF Recompute
  <2> QED BY <1>1, <1>2, <1>6, <2>1, ComputeDiffSound, AttemptStep DEF Recompute, At
<1> QED BY <1>3, <1>4, <1>5, <1>6

\* The requests that write.  A PUT that Azure accepts has read what it replaces, so that on a
\* prefix set of our own the patch's delta gives what is desired.
LEMMA WriteStep ==
  ASSUME ExecutorInv, NEW t \in Targets, UNCHANGED <<cancelled, foreign, touched>>,
         Put(t) \/ Delete(t) \/ RequestLost(t)
  PROVE  ExecutorInv'
<1>1. UNCHANGED action /\ go[t].pc \in Requests
  BY DEF Put, Delete, RequestLost, At, Requests
<1>2. /\ store[t] \in Sets /\ action[t] \in Actions /\ go[t] \in Goroutines
      /\ action' = [action EXCEPT ![t] = action[t]]
      /\ Sound(store[t], action[t], go[t], result[t], t \notin touched)
  BY <1>1, TargetFacts
<1>3. CASE RequestLost(t)
  BY <1>1, <1>2, <1>3, TargetFacts, ResendStep DEF RequestLost, AzureUntouched, Sound, Requests
<1>4. CASE Put(t)
  <2> DEFINE s == [ips |-> Body(t), etag |-> store[t].etag + 1]
  <2>1. go[t].pc = "put" /\ action[t].kind # "delete" /\ go[t].read = store[t].ips
    BY <1>2, <1>4 DEF Put, At, Precondition, Sound, Phase, ReadCurrent
  <2>2. action[t].kind = "patch" => store[t].ips # None /\ store[t].ips \in Addresses
    BY <1>2, <2>1 DEF Sound, Phase, Sets, Contents
  <2>3. Body(t) \in Addresses
    BY <1>2, <2>1, <2>2 DEF Body, applyPatchDelta, Actions, Addresses
  <2>4. s \in Sets /\ store' = [store EXCEPT ![t] = s]
    BY <1>2, <1>4, <2>3 DEF Put, Applied, Sets, Contents, ETags
  <2>5. t \notin touched => Body(t) = action[t].ips
    BY <1>2, <2>1 DEF Body, Sound, DeltaExact
  <2>6. Body(t) # None
    BY <2>3, NoneAssumption DEF Addresses
  <2>7. DeltaExact(s, action[t], t \notin touched)
    BY <1>2, <2>5, <2>6 DEF Sound, DeltaExact
  <2>8. t \notin touched => Converged(action[t].ips, s.ips)
    BY <1>2, <2>1, <2>5 DEF Converged, Sound, DeltaExact
  <2>9. ReadCurrent(s, go[t])
    BY <1>2, <2>1 DEF ReadCurrent, Sound, Sets, Goroutines, ETags
  <2> HIDE DEF s
  <2>10. Finish(t, TRUE, FALSE) \/ Resend(t)
    BY <1>4 DEF Put
  <2> QED BY <1>1, <1>2, <2>1, <2>4, <2>7, <2>8, <2>9, <2>10, FinishStep, ResendStep
<1>5. CASE Delete(t)
  <2> DEFINE s == IF store[t].ips = None THEN store[t]
                  ELSE [ips |-> None, etag |-> store[t].etag + 1]
  <2>1. go[t].pc = "delete" /\ action[t].kind = "delete" /\ action[t].ips = {}
    BY <1>2, <1>5 DEF Delete, At, Sound, Phase, DeltaExact
  <2>2. s \in Sets /\ s.ips = None
    BY <1>2 DEF Sets, Contents, ETags
  <2>3. store' = [store EXCEPT ![t] = s]
    <3>1. CASE store[t].ips = None
      BY <1>5, <3>1, TargetFacts DEF Delete, AzureUntouched
    <3>2. CASE store[t].ips # None
      BY <1>5, <3>2 DEF Delete, Applied
    <3> QED BY <3>1, <3>2
  <2> HIDE DEF s
  <2>4. DeltaExact(s, action[t], t \notin touched) /\ Converged(action[t].ips, s.ips)
    BY <2>1, <2>2 DEF DeltaExact, Converged
  <2>5. ReadCurrent(s, go[t])
    BY <2>1 DEF ReadCurrent
  <2>6. Finish(t, TRUE, FALSE) \/ Resend(t)
    BY <1>5 DEF Delete
  <2> QED BY <1>1, <1>2, <2>1, <2>2, <2>3, <2>4, <2>5, <2>6, FinishStep, ResendStep
<1> QED BY <1>3, <1>4, <1>5

\* A write of somebody else: from now on nothing is claimed of that prefix set.
LEMMA ForeignStep ==
  ASSUME ExecutorInv, NEW t \in Targets, ForeignWrite(t)
  PROVE  ExecutorInv'
<1>1. PICK c \in Contents : store' = [store EXCEPT ![t] = [ips |-> c, etag |-> store[t].etag + 1]]
  BY DEF ForeignWrite
<1> DEFINE s == [ips |-> c, etag |-> store[t].etag + 1]
<1>2. store[t] \in Sets /\ store \in [Targets -> Sets] /\ go[t] \in Goroutines
  BY TargetFacts DEF ExecutorInv, TypeOK, Sets
<1>3. s \in Sets
  BY <1>2 DEF Sets, ETags
<1>4. UNCHANGED <<action, go, result, cancelled>> /\ touched' = touched \cup {t}
  BY DEF ForeignWrite
<1>5. foreign' \in 0..MaxForeign
  BY PolicyAssumption DEF ForeignWrite, ExecutorInv, TypeOK
<1>6. store' \in [Targets -> Sets]
  BY <1>1, <1>2, <1>3
<1>7. TypeOK'
  BY <1>4, <1>5, <1>6 DEF ExecutorInv, TypeOK, Sets
<1>8. ASSUME NEW u \in Targets
      PROVE  Sound(store'[u], action[u], go[u], result[u], u \notin touched')
  <2>1. Sound(store[u], action[u], go[u], result[u], u \notin touched)
    BY DEF ExecutorInv
  <2>2. CASE u # t
    BY <1>1, <1>2, <1>4, <2>1, <2>2
  <2>3. CASE u = t
    <3>1. store'[u] = s /\ s.etag = store[t].etag + 1 /\ t \in touched'
      BY <1>1, <1>2, <1>4, <2>3
    <3>2. ReadCurrent(s, go[t])
      BY <1>2, <2>1, <2>3, <3>1 DEF ReadCurrent, Sound, Sets, Goroutines, ETags
    <3> QED BY <2>1, <2>3, <3>1, <3>2 DEF Sound, DeltaExact, SuccessTrue
  <2> QED BY <2>2, <2>3
<1> QED BY <1>4, <1>7, <1>8 DEF ExecutorInv

\* Every step keeps the invariant.
LEMMA ExecutorStep == ExecutorInv /\ [Next]_vars => ExecutorInv'
<1> SUFFICES ASSUME ExecutorInv, [Next]_vars PROVE ExecutorInv'
  OBVIOUS
<1>1. ASSUME NEW t \in Targets, Step(t) PROVE ExecutorInv'
  BY <1>1, QueueStep, ReadStep, WriteStep DEF Step
<1>2. CASE Cancel
  <2>1. TypeOK'
    BY <1>2 DEF Cancel, ExecutorInv, TypeOK
  <2> QED BY <1>2, <2>1 DEF Cancel, ExecutorInv
<1>3. CASE UNCHANGED vars
  <2>1. TypeOK'
    BY <1>3 DEF vars, ExecutorInv, TypeOK
  <2> QED BY <1>3, <2>1 DEF vars, ExecutorInv
<1> QED BY <1>1, <1>2, <1>3, ForeignStep DEF Next, Returned
-------------------------------------------------------------------------------
(***************************************************************************)
(* The theorems.                                                           *)
(***************************************************************************)

\* The executor's state stays well typed: a goroutine has a result exactly when it is done.
THEOREM TypeCorrect == Spec => []TypeOK
<1>1. ExecutorInv => TypeOK
  BY DEF ExecutorInv
<1> QED BY <1>1, ExecutorInit, ExecutorStep, PTL DEF Spec

\* A success that is reported for a prefix set nobody else has written to is a fact: through
\* lost answers, resent requests, 412s, recomputed actions and the deltas of patches.
THEOREM SuccessIsTrue == Spec => []SuccessMeansConverged
<1>1. ExecutorInv => SuccessMeansConverged
  BY DEF ExecutorInv, Sound, SuccessTrue, SuccessMeansConverged
<1> QED BY <1>1, ExecutorInit, ExecutorStep, PTL DEF Spec

\* A PUT of the executor never replaces a content that its own GET did not return.
THEOREM NoUpdateIsLost == Spec => NoLostUpdate
<1> DEFINE Sees == \A t \in Targets : At(t, "put") /\ store'[t] # store[t] /\ foreign' = foreign
                                       => store[t].ips = go[t].read
<1>1. ExecutorInv /\ [Next]_vars => [Sees]_vars
  <2> SUFFICES ASSUME ExecutorInv, Next, NEW t \in Targets, At(t, "put"), store'[t] # store[t],
                      foreign' = foreign
               PROVE  store[t].ips = go[t].read
    OBVIOUS
  <2>1. store \in [Targets -> Sets] /\ foreign \in Int
    BY DEF ExecutorInv, TypeOK, Sets
  <2>2. PICK u \in Targets : Step(u)
    BY <2>1 DEF Next, ForeignWrite, Cancel, Returned, vars
  <2>3. Put(u) \/ Delete(u)
    BY <2>2
       DEF Step, Acquire, WaitCancelled, Start, RequestFails, RequestLost, Get, PreconditionFailed,
           Recompute, AzureUntouched
  <2>4. u = t
    BY <2>1, <2>3 DEF Put, Delete, Applied, AzureUntouched
  <2>5. Put(t)
    BY <2>3, <2>4 DEF Delete, At
  <2> QED BY <2>5, TargetFacts DEF Put, Precondition, Sound, ReadCurrent, At
<1> QED BY <1>1, ExecutorInit, ExecutorStep, PTL DEF Spec, NoLostUpdate
===============================================================================
