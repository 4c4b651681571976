--------------------------- MODULE OptimisticPublish ---------------------------
(***************************************************************************)
(* What the desired-state cache promises about publishing a recomputation, *)
(* without version counters.  A recomputation is a transaction on one      *)
(* mapping key.  It is spoilt by any pod event, invalidation or lifecycle  *)
(* fence that touches its key while it runs, and a spoilt transaction      *)
(* never publishes.  A publication leaves exactly one state for its key:   *)
(* the one of the generation and the incarnation (UID) it was computed     *)
(* for.                                                                    *)
(***************************************************************************)
CONSTANTS Keys, Gens, UIDs, Workers, NoTicket

VARIABLES
  txn,    \* txn[w]: the transaction of worker w, or NoTicket
  spoilt, \* the workers whose transaction must not publish any more
  held    \* held[k]: the (generation, UID) pairs with a published state

avars == <<txn, spoilt, held>>

Transactions == [key : Keys, gen : Gens, uid : UIDs]

Init ==
  /\ txn = [w \in Workers |-> NoTicket]
  /\ spoilt = {}
  /\ held = [k \in Keys |-> {}]

Begin(w, t) ==
  /\ txn' = [txn EXCEPT ![w] = t]
  /\ spoilt' = spoilt \ {w}
  /\ UNCHANGED held

\* Something happens to the keys K: their states are amended or dropped.
Touch(K) ==
  /\ spoilt' = spoilt \cup {w \in Workers : txn[w] # NoTicket /\ txn[w].key \in K}
  /\ held' \in [Keys -> SUBSET (Gens \X UIDs)]
  /\ \A k \in Keys : held'[k] = held[k] \/ (k \in K /\ held'[k] = {})
  /\ UNCHANGED txn

Publish(w) ==
  /\ txn[w] # NoTicket
  /\ w \notin spoilt
  /\ held' = [held EXCEPT ![txn[w].key] = {<<txn[w].gen, txn[w].uid>>}]
  /\ txn' = [txn EXCEPT ![w] = NoTicket]
  /\ UNCHANGED spoilt

Abandon(w) ==
  /\ txn[w] # NoTicket
  /\ txn' = [txn EXCEPT ![w] = NoTicket]
  /\ spoilt' = spoilt \ {w}
  /\ UNCHANGED held

Next ==
  \/ \E w \in Workers, t \in Transactions : Begin(w, t)
  \/ \E K \in SUBSET Keys : Touch(K)
  \/ \E w \in Workers : Publish(w) \/ Abandon(w)

Spec == Init /\ [][Next]_avars
================================================================================
