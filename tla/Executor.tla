-------------------------------- MODULE Executor --------------------------------
(***************************************************************************)
(* Executor.Execute and the AddressPrefixSetClient calls beneath it: the   *)
(* actions of one reconcile, each on a target of its own, run in parallel  *)
(* goroutines against Azure under a semaphore.                             *)
(*                                                                         *)
(* Every HTTP request is a step.  A request may be lost, or its answer,    *)
(* and is then sent again with the same headers; others may write the same *)
(* prefix sets; the context may be cancelled.  A prefix set carries an     *)
(* ETag that every write changes.  A long-running operation is applied     *)
(* when it is accepted, and a poll that fails is a lost answer that is not *)
(* retried.                                                                *)
(***************************************************************************)
EXTENDS Integers, FiniteSets

CONSTANTS
  Targets,       \* the targets of the actions
  IPs,           \* addresses
  None,          \* the content of a prefix set that does not exist
  Threshold,     \* patchThresholdPercent
  MaxParallel,   \* the semaphore
  MaxRetries,    \* attempts of executeWithETagRetry
  MaxResends,    \* RetryPolicy.MaxRetries and NetworkMaxRetries
  MaxForeign,    \* bound on writes of others
  Calls,         \* what Execute may be called on: [Targets -> [actual, desired]]
  NoResult

ASSUME NoneAssumption == \A ips \in SUBSET IPs : None # ips
ASSUME PolicyAssumption ==
  /\ Threshold \in 1..100
  /\ MaxParallel \in Nat \ {0} /\ MaxRetries \in Nat \ {0}
  /\ MaxResends \in Nat /\ MaxForeign \in Nat
ASSUME CallsAssumption ==
  Calls \subseteq [Targets -> [actual : (SUBSET IPs) \cup {None}, desired : SUBSET IPs]]

VARIABLES
  store,     \* store[t]: the prefix set in Azure and its ETag
  action,    \* action[t]: what is to be done at t, as last recomputed
  go,        \* go[t]: the goroutine of t's action
  result,    \* result[t]: its ActionResult, or NoResult
  cancelled, \* the context is done
  foreign,   \* how many writes others have made
  touched    \* history: the targets others have written to

vars == <<store, action, go, result, cancelled, foreign, touched>>

Addresses == SUBSET IPs
Contents == Addresses \cup {None}
ETags == Nat
Kinds == {"create", "update", "patch", "delete"}
Actions == [kind : Kinds, ips : Addresses, add : Addresses, remove : Addresses]
Pcs == {"waiting", "start", "get", "put", "delete", "recompute", "done"}

\* read and etag are what the last GET before a PUT returned.
Goroutines == [pc : Pcs, attempt : 1..MaxRetries, resends : 0..MaxResends,
               read : Contents, etag : ETags]
Results == [success : BOOLEAN, noOp : BOOLEAN]
ASSUME NoResultAssumption == NoResult \notin Results

\* Types; a goroutine has a result exactly when it is done.
TypeOK ==
  /\ store \in [Targets -> [ips : Contents, etag : ETags]]
  /\ action \in [Targets -> Actions]
  /\ go \in [Targets -> Goroutines]
  /\ result \in [Targets -> Results \cup {NoResult}]
  /\ \A t \in Targets : (go[t].pc = "done") = (result[t] # NoResult)
  /\ cancelled \in BOOLEAN
  /\ foreign \in 0..MaxForeign
  /\ touched \subseteq Targets
-------------------------------------------------------------------------------
(***************************************************************************)
(* ComputeDiff for one target; desired = {} is a target without addresses, *)
(* which the reconciler dropped from the desired state.                    *)
(***************************************************************************)
shouldUsePatch(desired, actual) ==
  LET delta == Cardinality(desired \ actual) + Cardinality(actual \ desired)
      denominator == Cardinality(desired) + Cardinality(actual)
  IN  denominator # 0 /\ 100 * delta <= Threshold * denominator

Converged(desired, actual) == IF desired = {} THEN actual = None ELSE actual = desired

ComputeDiff(desired, actual) ==
  CASE desired = {} -> [kind |-> "delete", ips |-> {}, add |-> {}, remove |-> {}]
    [] desired # {} /\ actual = None ->
         [kind |-> "create", ips |-> desired, add |-> {}, remove |-> {}]
    [] OTHER -> IF shouldUsePatch(desired, actual)
                THEN [kind |-> "patch", ips |-> desired,
                      add |-> desired \ actual, remove |-> actual \ desired]
                ELSE [kind |-> "update", ips |-> desired, add |-> {}, remove |-> {}]

\* Mutant: the removals are forgotten.
applyPatchDeltaAddOnly(current, a) == current \cup a.add

applyPatchDelta(current, a) == (current \ a.remove) \cup a.add

Fresh(pc, attempt) == [pc |-> pc, attempt |-> attempt, resends |-> 0, read |-> None, etag |-> 0]

\* The reconciler's diff, computed from what Azure holds when Execute is called.
Init ==
  /\ \E call \in Calls :
       /\ \A t \in Targets : call[t].desired = {} \/ call[t].actual # call[t].desired
       /\ store = [t \in Targets |-> [ips |-> call[t].actual, etag |-> 0]]
       /\ action = [t \in Targets |-> ComputeDiff(call[t].desired, call[t].actual)]
  /\ go = [t \in Targets |-> Fresh("waiting", 1)]
  /\ result = [t \in Targets |-> NoResult]
  /\ cancelled = FALSE
  /\ foreign = 0
  /\ touched = {}
-------------------------------------------------------------------------------
(***************************************************************************)
(* Others.                                                                 *)
(***************************************************************************)
ForeignWrite(t) ==
  /\ foreign < MaxForeign
  /\ foreign' = foreign + 1
  /\ \E c \in Contents \ {store[t].ips} :
       store' = [store EXCEPT ![t] = [ips |-> c, etag |-> store[t].etag + 1]]
  /\ touched' = touched \cup {t}
  /\ UNCHANGED <<action, go, result, cancelled>>

Cancel ==
  /\ ~cancelled
  /\ cancelled' = TRUE
  /\ UNCHANGED <<store, action, go, result, foreign, touched>>
-------------------------------------------------------------------------------
(***************************************************************************)
(* Steps of a goroutine.                                                   *)
(***************************************************************************)
At(t, pc) == go[t].pc = pc
\* Mutant: a slot is never given back.
RunningLeaks == {t \in Targets : go[t].pc # "waiting"}

Running == {t \in Targets : go[t].pc \notin {"waiting", "done"}}

AzureUntouched == UNCHANGED store

GoTo(t, pc) == go' = [go EXCEPT ![t] = Fresh(pc, go[t].attempt)] /\ UNCHANGED result
Finish(t, success, noOp) ==
  /\ go' = [go EXCEPT ![t] = Fresh("done", 1)]
  /\ result' = [result EXCEPT ![t] = [success |-> success, noOp |-> noOp]]

\* The next round of the loop in executeWithETagRetry, with action a; the loop ends with
\* the last error when there is none.
NextAttempt(t, a) ==
  /\ action' = [action EXCEPT ![t] = a]
  /\ IF go[t].attempt < MaxRetries
     THEN /\ go' = [go EXCEPT ![t] = Fresh("get", go[t].attempt + 1)]
          /\ UNCHANGED result
     ELSE Finish(t, FALSE, FALSE)

\* The wait for the semaphore, which the end of the context interrupts.
Acquire(t) ==
  /\ At(t, "waiting")
  /\ Cardinality(Running) < MaxParallel
  /\ GoTo(t, "start")
  /\ AzureUntouched /\ UNCHANGED action

\* Mutant: the goroutine leaves without a result.
WaitCancelledSilent(t) ==
  /\ At(t, "waiting") /\ cancelled
  /\ GoTo(t, "done")
  /\ AzureUntouched /\ UNCHANGED action

WaitCancelled(t) ==
  /\ At(t, "waiting") /\ cancelled
  /\ Finish(t, FALSE, FALSE)
  /\ AzureUntouched /\ UNCHANGED action

\* ForSubscription may fail; then the first request of executeAction.
Start(t) ==
  /\ At(t, "start")
  /\ \/ GoTo(t, IF action[t].kind = "delete" THEN "delete" ELSE "get")
     \/ Finish(t, FALSE, FALSE)
  /\ AzureUntouched /\ UNCHANGED action

Requests == {"get", "put", "delete", "recompute"}

\* A request that fails for good, a context that ended, or a failed poll.
RequestFails(t) ==
  /\ go[t].pc \in Requests
  /\ Finish(t, FALSE, FALSE)
  /\ AzureUntouched /\ UNCHANGED action

\* doRequest after a request that was lost, or answered with a retriable error.
Resend(t) ==
  IF go[t].resends < MaxResends
  THEN go' = [go EXCEPT ![t].resends = @ + 1] /\ UNCHANGED result
  ELSE Finish(t, FALSE, FALSE)

RequestLost(t) ==
  /\ go[t].pc \in Requests /\ ~cancelled
  /\ Resend(t)
  /\ AzureUntouched /\ UNCHANGED action

\* The GET of Put (its 404 means If-None-Match) and of executePatchAction (its 404 means
\* that the action is recomputed as a create).
Get(t) ==
  /\ At(t, "get") /\ ~cancelled
  /\ IF action[t].kind = "patch" /\ store[t].ips = None
     THEN NextAttempt(t, ComputeDiff(action[t].ips, None))
     ELSE /\ go' = [go EXCEPT ![t].pc = "put", ![t].resends = 0,
                              ![t].read = store[t].ips, ![t].etag = store[t].etag]
          /\ UNCHANGED <<action, result>>
  /\ AzureUntouched

\* Mutant: a create is unconditional.
PreconditionIfMatchOnly(t) == go[t].read # None => store[t].etag = go[t].etag

\* If-None-Match: * when the GET found nothing, If-Match otherwise.
Precondition(t) ==
  IF go[t].read = None THEN store[t].ips = None
  ELSE store[t].ips # None /\ store[t].etag = go[t].etag

Body(t) == IF action[t].kind = "patch" THEN applyPatchDelta(go[t].read, action[t])
           ELSE action[t].ips

Applied(t, c) == store' = [store EXCEPT ![t] = [ips |-> c, etag |-> @.etag + 1]]

\* A PUT that Azure accepts; its answer may be lost.
Put(t) ==
  /\ At(t, "put") /\ ~cancelled /\ Precondition(t)
  /\ Applied(t, Body(t))
  /\ Finish(t, TRUE, FALSE) \/ Resend(t)
  /\ UNCHANGED action

\* 412: not retried by doRequest, but by executeWithETagRetry while attempts are left.
PreconditionFailed(t) ==
  /\ At(t, "put") /\ ~cancelled /\ ~Precondition(t)
  /\ IF go[t].attempt = MaxRetries THEN Finish(t, FALSE, FALSE) ELSE GoTo(t, "recompute")
  /\ AzureUntouched /\ UNCHANGED action

\* recomputeSingleTargetActionViaDiff on a fresh GET.
Recompute(t) ==
  /\ At(t, "recompute") /\ ~cancelled
  /\ IF Converged(action[t].ips, store[t].ips)
     THEN Finish(t, TRUE, TRUE) /\ UNCHANGED action
     ELSE NextAttempt(t, ComputeDiff(action[t].ips, store[t].ips))
  /\ AzureUntouched

\* DELETE is unconditional, and 404 is success.
Delete(t) ==
  /\ At(t, "delete") /\ ~cancelled
  /\ IF store[t].ips = None THEN AzureUntouched ELSE Applied(t, None)
  /\ Finish(t, TRUE, FALSE) \/ Resend(t)
  /\ UNCHANGED action

Step(t) ==
  /\ \/ Acquire(t) \/ WaitCancelled(t) \/ Start(t) \/ RequestFails(t) \/ RequestLost(t)
     \/ Get(t) \/ Put(t) \/ PreconditionFailed(t) \/ Recompute(t) \/ Delete(t)
  /\ UNCHANGED <<cancelled, foreign, touched>>

\* wg.Wait returns.
AllDone == \A t \in Targets : At(t, "done")
Returned == AllDone /\ UNCHANGED vars

Next == (\E t \in Targets : Step(t) \/ ForeignWrite(t)) \/ Cancel \/ Returned

\* Every goroutine keeps running.
Spec == Init /\ [][Next]_vars /\ \A t \in Targets : WF_vars(Step(t))
-------------------------------------------------------------------------------
(***************************************************************************)
(* Properties.                                                             *)
(***************************************************************************)

\* Through lost answers, resent requests, 412s and recomputed actions
\* (executeWithETagRetry, executor.go:203-291): an action that reports success on a prefix
\* set nobody else has written to has left there what it was asked to.
SuccessMeansConverged ==
  \A t \in Targets :
    result[t] # NoResult /\ result[t].success /\ t \notin touched
      => Converged(action[t].ips, store[t].ips)

\* A PUT only replaces the content its own GET returned, so it never undoes a write it has
\* not seen (the If-Match and If-None-Match headers, address_prefix_set_client.go:413-540).
NoLostUpdate ==
  [][\A t \in Targets :
       At(t, "put") /\ store'[t] # store[t] /\ foreign' = foreign
       => store[t].ips = go[t].read]_vars

\* Execute returns whatever others do and however many requests are lost: attempts and
\* resends are bounded, and every exit of a goroutine frees its slot (executor.go:89-144).
EventuallyReturns == <>AllDone
===============================================================================
