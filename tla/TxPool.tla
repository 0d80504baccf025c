------------------------------- MODULE TxPool -------------------------------
(***************************************************************************)
(* Anvil's transaction pool: eth/pool/mod.rs and eth/pool/transactions.rs. *)
(*                                                                         *)
(* A transaction carries the marker (sender, nonce) it provides and the    *)
(* markers it requires.  PendingTransactions holds those with a missing    *)
(* marker, ReadyTransactions those that can go into a block.  Both live    *)
(* behind one RwLock.  A call that holds the write lock and loops is       *)
(* modelled one iteration per step: `op` says which call holds the lock,   *)
(* and no other call starts before it is "idle" again.                     *)
(*                                                                         *)
(* A map of structs is one function per field; an absent entry has the     *)
(* field's empty value (NoTx, {}, 0).                                      *)
(***************************************************************************)
EXTENDS Naturals, Sequences, FiniteSets, SequencesExt

CONSTANTS
  Tx,           \* the transactions that may be submitted; a record is its own hash
  NoTx,         \* an absent hash
  MaxId,        \* bound: no transaction is added once `id` reached it
  MaxIncluded   \* bound: transactions included by one mined block

ASSUME TxAssumption ==
  /\ IsFiniteSet(Tx)
  /\ NoTx \notin Tx
  /\ \A t \in Tx : t.nonce \in Nat /\ t.max_fee \in Nat

ASSUME BoundAssumption == MaxId \in Nat /\ MaxIncluded \in Nat

to_marker(nonce, from) == <<from, nonce>>

\* What every submitting handler passes as `provides`: one marker.
provides(t) == to_marker(t.nonce, t.from)

\* The `requires` of a transaction, given the nonce its handler took for the
\* sender's nonce on chain.
required_marker(provided_nonce, on_chain_nonce, from) ==
  LET prev_nonce == IF provided_nonce = 0 THEN 0 ELSE provided_nonce - 1
  IN  IF provided_nonce # on_chain_nonce /\ on_chain_nonce <= prev_nonce
      THEN {to_marker(prev_nonce, from)}
      ELSE {}

\* Mutant: the transaction's own marker instead of the one before it.
PossibleRequires_own(t) == {{}, {to_marker(t.nonce, t.from)}}

\* The values required_marker can return for t: nothing, or its predecessor.
PossibleRequires(t) ==
  {{}} \cup (IF t.nonce = 0 THEN {} ELSE {{to_marker(t.nonce - 1, t.from)}})

Marker == {provides(t) : t \in Tx} \cup UNION UNION {PossibleRequires(t) : t \in Tx}

VARIABLES
  \* PendingTransactions
  required_markers,  \* marker -> the waiting transactions that miss it
  waiting_markers,   \* provided marker -> waiting transaction
  waiting_queue,     \* the waiting transactions
  missing_markers,   \* waiting transaction -> the markers it misses
  \* ReadyTransactions
  id,                \* the next PoolTransactionRef id
  provided_markers,  \* marker -> ready transaction
  ready_tx,          \* the ready transactions
  unlocks,           \* ready transaction -> how often each hash is in its `unlocks`
  requires_offset,   \* ready transaction -> required markers already satisfied
  ref_id,            \* ready transaction -> the id of its PoolTransactionRef
  independent,       \* independent_transactions
  \* PoolTransaction
  requires,          \* transaction in the pool -> the markers it requires
  \* the call that holds the write lock, and its local variables
  op,                \* "idle", "add" (add_transaction) or "prune" (prune_markers)
  new_tx,            \* add_ready_transaction: its argument
  tx_queue,          \* add_ready_transaction: transactions still to be added
  promoted,          \* add_ready_transaction: ready.promoted
  removed,           \* add_ready_transaction: ready.removed
  markers,           \* prune_markers: markers still to be pruned
  imports,           \* prune_markers: unlocked transactions still to be added
  \* callers that returned from the write lock
  notify             \* hashes add_transaction still has to announce to the listeners

pendingVars == <<required_markers, waiting_markers, waiting_queue, missing_markers>>
readyVars == <<id, provided_markers, ready_tx, unlocks, requires_offset, ref_id, independent>>
addVars == <<new_tx, tx_queue, promoted, removed>>
pruneVars == <<markers, imports>>
poolVars == <<pendingVars, readyVars, requires, op, addVars, pruneVars, notify>>

NoUnlocks == [t \in Tx |-> 0]

Init ==
  /\ required_markers = [m \in Marker |-> {}]
  /\ waiting_markers = [m \in Marker |-> NoTx]
  /\ waiting_queue = {}
  /\ missing_markers = [t \in Tx |-> {}]
  /\ id = 0
  /\ provided_markers = [m \in Marker |-> NoTx]
  /\ ready_tx = {}
  /\ unlocks = [t \in Tx |-> NoUnlocks]
  /\ requires_offset = [t \in Tx |-> 0]
  /\ ref_id = [t \in Tx |-> 0]
  /\ independent = {}
  /\ requires = [t \in Tx |-> {}]
  /\ op = "idle"
  /\ new_tx = NoTx
  /\ tx_queue = <<>>
  /\ promoted = {}
  /\ removed = {}
  /\ markers = <<>>
  /\ imports = <<>>
  /\ notify = {}

\* Mutant: only the ready queue is searched.
contains_ready(t) == t \in ready_tx

contains(t) == t \in waiting_queue \/ t \in ready_tx

-----------------------------------------------------------------------------
(* PendingTransactions *)

\* The waiting transactions whose last missing marker is m.
Unlocked(m) == {h \in required_markers[m] : missing_markers[h] \subseteq {m}}

\* Mutant: the hashes stay listed under the marker.
mark_and_unlock_keep(m) ==
  /\ missing_markers' = [h \in Tx |-> missing_markers[h] \ {m}]
  /\ waiting_queue' = waiting_queue \ Unlocked(m)
  /\ UNCHANGED <<required_markers, waiting_markers>>

\* mark_and_unlock for one marker.
mark_and_unlock(m) ==
  /\ required_markers' = [required_markers EXCEPT ![m] = {}]
  /\ missing_markers' = [h \in Tx |-> IF h \in required_markers[m]
                                      THEN missing_markers[h] \ {m}
                                      ELSE missing_markers[h]]
  /\ waiting_queue' = waiting_queue \ Unlocked(m)
  /\ waiting_markers' = [k \in Marker |-> IF \E h \in Unlocked(m) : provides(h) = k
                                          THEN NoTx
                                          ELSE waiting_markers[k]]

\* PendingTransactions::remove.
pending_remove(hashes) ==
  LET gone == hashes \cap waiting_queue
  IN  /\ waiting_queue' = waiting_queue \ gone
      /\ missing_markers' = [h \in Tx |-> IF h \in gone THEN {} ELSE missing_markers[h]]
      /\ required_markers' = [m \in Marker |->
            required_markers[m] \ {h \in gone : m \in missing_markers[h]}]
      /\ waiting_markers' = [k \in Marker |-> IF \E h \in gone : provides(h) = k
                                              THEN NoTx
                                              ELSE waiting_markers[k]]

\* Mutant: whatever is required is missing.
Missing_all(req) == req

\* PendingPoolTransaction::new: the required markers no ready transaction provides.
Missing(req) == {m \in req : provided_markers[m] = NoTx}

pending_underpriced(t) ==
  LET replace == waiting_markers[provides(t)]
  IN  replace \in waiting_queue /\ t.max_fee < replace.max_fee

-----------------------------------------------------------------------------
(* ReadyTransactions *)

\* Mutant: the dependents stay.
Dependents_none(hashes) == hashes \cap ready_tx

\* Mutant: the markers of hashes that are not ready go too.
Dependents_unchecked(hashes) == hashes

\* The transactions remove_with_markers(hashes, None) removes: the ready ones
\* among `hashes` and whatever is reached from them through `unlocks`.
Dependents(hashes) ==
  {t \in ready_tx :
     \A S \in SUBSET ready_tx :
       (/\ hashes \cap ready_tx \subseteq S
        /\ \A p \in S, u \in ready_tx : unlocks[p][u] > 0 => u \in S) => t \in S}

\* Its "remove from unlocks" loop looks for the provider's own hash among the
\* provider's unlocks, so the removed hashes stay in the unlocks of survivors.
remove_with_markers(hashes) ==
  LET gone == Dependents(hashes)
  IN  /\ ready_tx' = ready_tx \ gone
      /\ provided_markers' = [m \in Marker |-> IF \E t \in gone : provides(t) = m
                                               THEN NoTx
                                               ELSE provided_markers[m]]
      /\ independent' = independent \ gone
      /\ unlocks' = [t \in Tx |-> IF t \in gone THEN NoUnlocks ELSE unlocks[t]]
      /\ requires_offset' = [t \in Tx |-> IF t \in gone THEN 0 ELSE requires_offset[t]]
      /\ ref_id' = [t \in Tx |-> IF t \in gone THEN 0 ELSE ref_id[t]]
      /\ UNCHANGED id

\* What TransactionsIterator yields.  No transaction requires more than one
\* marker, so an unlocked one goes to `independent` at once, never to `awaiting`.
Yielded ==
  {t \in ready_tx :
     \A S \in SUBSET ready_tx :
       (/\ independent \cap ready_tx \subseteq S
        /\ \A p \in S, u \in ready_tx : unlocks[p][u] > 0 => u \in S) => t \in S}

\* Mutant: an equal fee replaces.
ready_underpriced_lax(t) ==
  LET old == provided_markers[provides(t)]
  IN  old \in ready_tx /\ t.max_fee < old.max_fee

\* replaced_transactions refuses t: the ready transaction with t's marker pays as much.
ready_underpriced(t) ==
  LET old == provided_markers[provides(t)]
  IN  old \in ready_tx /\ t.max_fee <= old.max_fee

\* The hash replaced_transactions removes for t (with the marker filter, so
\* neither its marker nor its dependents go).
Replaced(t) == {provided_markers[provides(t)]} \cap ready_tx

\* Mutant: a replacement starts with nothing to unlock.
Inherited_none(t) == NoUnlocks

\* The unlocks replaced_transactions passes on to t.
Inherited(t) ==
  IF Replaced(t) = {} THEN NoUnlocks ELSE unlocks[provided_markers[provides(t)]]

\* ReadyTransactions::add_transaction once replaced_transactions succeeded.
ready_add(t) ==
  LET old       == Replaced(t)
      linked    == {m \in requires[t] : provided_markers[m] # NoTx}
      providers == {provided_markers[m] : m \in linked}
  IN  /\ id' = id + 1
      /\ ready_tx' = (ready_tx \ old) \cup {t}
      /\ provided_markers' = [provided_markers EXCEPT ![provides(t)] = t]
      /\ unlocks' = [p \in Tx |->
            IF p = t THEN Inherited(t)
            ELSE IF p \in old THEN NoUnlocks
            ELSE IF p \in providers THEN [unlocks[p] EXCEPT ![t] = @ + 1]
            ELSE unlocks[p]]
      /\ requires_offset' = [u \in Tx |->
            IF u = t THEN Cardinality(requires[t] \ linked)
            ELSE IF u \in old THEN 0 ELSE requires_offset[u]]
      /\ ref_id' = [u \in Tx |-> IF u = t THEN id ELSE IF u \in old THEN 0 ELSE ref_id[u]]
      /\ independent' = (independent \ old) \cup (IF linked = {} THEN {t} ELSE {})

\* p's unlocks hold nothing once one occurrence of u is taken out.
OnlyUnlocks(p, u) == \A x \in Tx : unlocks[p][x] = 0 \/ (x = u /\ unlocks[p][x] = 1)

\* Mutant: prunes the dependents, as clear_transactions does.
Pruned_forward(m) == Dependents({provided_markers[m]})

\* The transactions prune_tags(m) removes: the one that provides m, and, going
\* back, each provider of a required marker that has nothing else to unlock.
Pruned(m) ==
  {t \in ready_tx :
     \A S \in SUBSET ready_tx :
       (/\ \A u \in ready_tx : provided_markers[m] = u => u \in S
        /\ \A u \in S : \A k \in requires[u] : \A p \in ready_tx :
             (provided_markers[k] = p /\ OnlyUnlocks(p, u)) => p \in S) => t \in S}

\* Mutant: requires_offset is taken for the number of markers still missing.
Satisfied_down(m, u) ==
  0 - (IF provided_markers[m] \in ready_tx THEN unlocks[provided_markers[m]][u] ELSE 0)

\* How often the loop over the `unlocks` of the removed increments u's requires_offset.
Satisfied(m, u) ==
  IF provided_markers[m] \in ready_tx THEN unlocks[provided_markers[m]][u] ELSE 0

prune_tags(m) ==
  LET gone == Pruned(m)
      \* the removed hash p's unlocks lose, if any
      lost(p) == {u \in gone : \E k \in requires[u] : provided_markers[k] = p}
      left == ready_tx \ gone
  IN  /\ ready_tx' = left
      /\ provided_markers' = [k \in Marker |-> IF k = m \/ \E t \in gone : provides(t) = k
                                               THEN NoTx
                                               ELSE provided_markers[k]]
      /\ unlocks' = [p \in Tx |->
            IF p \in gone THEN NoUnlocks
            ELSE [u \in Tx |-> IF u \in lost(p) /\ unlocks[p][u] > 0
                               THEN unlocks[p][u] - 1 ELSE unlocks[p][u]]]
      /\ requires_offset' = [u \in Tx |->
            IF u \in gone THEN 0
            ELSE IF u \in left THEN requires_offset[u] + Satisfied(m, u)
            ELSE requires_offset[u]]
      /\ independent' = (independent \ gone) \cup
            {u \in left : /\ requires_offset[u] < Cardinality(requires[u])
                          /\ Cardinality(requires[u]) <= requires_offset[u] + Satisfied(m, u)}
      /\ ref_id' = [u \in Tx |-> IF u \in gone THEN 0 ELSE ref_id[u]]
      /\ UNCHANGED id

-----------------------------------------------------------------------------
(* Pool and PoolInner *)

\* The fields of transactions that leave the pool.
Forget(S) == requires' = [t \in Tx |-> IF t \in S THEN {} ELSE requires[t]]

\* add_transaction of a transaction that misses a marker.
AddPending(t, req) ==
  /\ op = "idle"
  /\ id < MaxId
  /\ ~contains(t)
  /\ Missing(req) # {}
  /\ ~pending_underpriced(t)
  /\ requires' = [requires EXCEPT ![t] = req]
  /\ missing_markers' = [missing_markers EXCEPT ![t] = Missing(req)]
  /\ required_markers' = [m \in Marker |-> IF m \in Missing(req)
                                           THEN required_markers[m] \cup {t}
                                           ELSE required_markers[m]]
  /\ waiting_markers' = [waiting_markers EXCEPT ![provides(t)] = t]
  /\ waiting_queue' = waiting_queue \cup {t}
  /\ UNCHANGED <<readyVars, op, addVars, pruneVars, notify>>

\* add_transaction of a transaction that misses none: add_ready_transaction starts.
AddReady(t, req) ==
  /\ op = "idle"
  /\ id < MaxId
  /\ ~contains(t)
  /\ Missing(req) = {}
  /\ requires' = [requires EXCEPT ![t] = req]
  /\ op' = "add"
  /\ new_tx' = t
  /\ tx_queue' = <<t>>
  /\ UNCHANGED <<pendingVars, readyVars, promoted, removed, pruneVars, notify>>

\* One iteration of add_ready_transaction: the transaction goes to the ready
\* queue, and those it unlocks to the back of tx_queue.
QueueAdded ==
  /\ tx_queue # <<>>
  /\ LET current_tx == Head(tx_queue)
     IN  /\ ~ready_underpriced(current_tx)
         /\ mark_and_unlock(provides(current_tx))
         /\ ready_add(current_tx)
         /\ promoted' = promoted \cup ({current_tx} \ {new_tx})
         /\ removed' = removed \cup Replaced(current_tx)
         /\ Forget(Replaced(current_tx))
         /\ \E unlocked \in SetToSeqs(Unlocked(provides(current_tx))) :
              tx_queue' = Tail(tx_queue) \o unlocked
  /\ UNCHANGED <<op, new_tx, pruneVars, notify>>

\* One iteration of add_ready_transaction: an unlocked transaction does not pay
\* enough to replace the ready one with its marker and is discarded.
QueueDiscarded ==
  /\ tx_queue # <<>>
  /\ LET current_tx == Head(tx_queue)
     IN  /\ current_tx # new_tx
         /\ ready_underpriced(current_tx)
         /\ mark_and_unlock(provides(current_tx))
         /\ Forget({current_tx})
         /\ \E unlocked \in SetToSeqs(Unlocked(provides(current_tx))) :
              tx_queue' = Tail(tx_queue) \o unlocked
  /\ UNCHANGED <<readyVars, op, new_tx, promoted, removed, pruneVars, notify>>

\* add_ready_transaction returns: to the client, or to the loop of prune_markers.
Return ==
  /\ op' = IF op = "add" THEN "idle" ELSE op
  /\ new_tx' = NoTx
  /\ tx_queue' = <<>>
  /\ promoted' = {}
  /\ removed' = {}

\* add_ready_transaction returns Err: its argument is underpriced.  What
\* mark_and_unlock took out of the pending queue before is dropped with tx_queue.
QueueRejected ==
  /\ tx_queue # <<>>
  /\ Head(tx_queue) = new_tx
  /\ ready_underpriced(new_tx)
  /\ mark_and_unlock(provides(new_tx))
  /\ Forget({new_tx} \cup Unlocked(provides(new_tx)))
  /\ Return
  /\ UNCHANGED <<readyVars, pruneVars, notify>>

\* add_ready_transaction returns Ok.  (Its CyclicTransaction exit needs new_tx
\* in `removed`, which invariant NoCycle excludes.)  Only Pool::add_transaction
\* announces the new and the promoted hashes; prune_markers does not.
QueueDone ==
  /\ new_tx # NoTx
  /\ tx_queue = <<>>
  /\ notify' = IF op = "add" THEN notify \cup {new_tx} \cup promoted ELSE notify
  /\ Return
  /\ UNCHANGED <<pendingVars, readyVars, requires, pruneVars>>

\* notify_listener, called without the pool's lock.
NotifyListener(t) ==
  /\ t \in notify
  /\ notify' = notify \ {t}
  /\ UNCHANGED <<pendingVars, readyVars, requires, op, addVars, pruneVars>>

\* prune_markers(ms) takes the lock.
PruneMarkers(ms) ==
  /\ op = "idle"
  /\ op' = "prune"
  /\ markers' = ms
  /\ UNCHANGED <<pendingVars, readyVars, requires, addVars, imports, notify>>

\* prune_markers: the first loop, one marker.
PruneMarker ==
  /\ markers # <<>>
  /\ LET marker == Head(markers)
     IN  /\ mark_and_unlock(marker)
         /\ \E unlocked \in SetToSeqs(Unlocked(marker)) : imports' = imports \o unlocked
         /\ prune_tags(marker)
         /\ Forget(Pruned(marker))
  /\ markers' = Tail(markers)
  /\ UNCHANGED <<op, addVars, notify>>

\* prune_markers: the second loop hands one import to add_ready_transaction.
PruneImport ==
  /\ op = "prune"
  /\ markers = <<>>
  /\ new_tx = NoTx
  /\ imports # <<>>
  /\ new_tx' = Head(imports)
  /\ tx_queue' = <<Head(imports)>>
  /\ imports' = Tail(imports)
  /\ UNCHANGED <<pendingVars, readyVars, requires, op, promoted, removed, markers, notify>>

\* prune_markers returns.
PruneDone ==
  /\ op = "prune"
  /\ markers = <<>>
  /\ new_tx = NoTx
  /\ imports = <<>>
  /\ op' = "idle"
  /\ UNCHANGED <<pendingVars, readyVars, requires, addVars, pruneVars, notify>>

\* remove_invalid.
RemoveInvalid(tx_hashes) ==
  /\ op = "idle"
  /\ tx_hashes # {}
  /\ remove_with_markers(tx_hashes)
  /\ pending_remove(tx_hashes)
  /\ Forget(Dependents(tx_hashes) \cup (tx_hashes \cap waiting_queue))
  /\ UNCHANGED <<op, addVars, pruneVars, notify>>

transactions_by_sender(sender) == {t \in waiting_queue \cup Yielded : t.from = sender}

RemoveTransactionsByAddress(sender) == RemoveInvalid(transactions_by_sender(sender))

\* drop_transaction looks at the ready queue only.
DropTransaction(t) ==
  /\ op = "idle"
  /\ t \in ready_tx
  /\ remove_with_markers({t})
  /\ Forget(Dependents({t}))
  /\ UNCHANGED <<pendingVars, op, addVars, pruneVars, notify>>

\* clear, which keeps `id`.
Clear ==
  /\ op = "idle"
  /\ required_markers' = [m \in Marker |-> {}]
  /\ waiting_markers' = [m \in Marker |-> NoTx]
  /\ waiting_queue' = {}
  /\ missing_markers' = [t \in Tx |-> {}]
  /\ provided_markers' = [m \in Marker |-> NoTx]
  /\ ready_tx' = {}
  /\ unlocks' = [t \in Tx |-> NoUnlocks]
  /\ requires_offset' = [t \in Tx |-> 0]
  /\ ref_id' = [t \in Tx |-> 0]
  /\ independent' = {}
  /\ requires' = [t \in Tx |-> {}]
  /\ UNCHANGED <<id, op, addVars, pruneVars, notify>>

-----------------------------------------------------------------------------
(* The pool on its own: any call, with any arguments its callers can pass. *)

\* The markers of a block's transactions: those of one sender in nonce order,
\* because the EVM refuses any other.
BlockMarkers ==
  {ms \in UNION {[1..n -> {provides(t) : t \in Tx}] : n \in 0..MaxIncluded} :
     \A i, j \in DOMAIN ms : (i < j /\ ms[i][1] = ms[j][1]) => ms[i][2] < ms[j][2]}

\* The steps of the call that holds the lock.
LockedStep ==
  \/ QueueAdded
  \/ QueueDiscarded
  \/ QueueRejected
  \/ QueueDone
  \/ PruneMarker
  \/ PruneImport
  \/ PruneDone

Next ==
  \/ \E t \in Tx : \E req \in PossibleRequires(t) : AddPending(t, req) \/ AddReady(t, req)
  \/ LockedStep
  \/ \E ms \in BlockMarkers : PruneMarkers(ms)
  \/ \E t \in Tx : NotifyListener(t)
  \/ \E hashes \in SUBSET Tx : RemoveInvalid(hashes)
  \/ \E sender \in {t.from : t \in Tx} : RemoveTransactionsByAddress(sender)
  \/ \E t \in Tx : DropTransaction(t)
  \/ Clear

Spec == Init /\ [][Next]_poolVars

-----------------------------------------------------------------------------
(* Properties *)

\* The state has the types of the source's fields.
TypeOK ==
  /\ required_markers \in [Marker -> SUBSET Tx]
  /\ waiting_markers \in [Marker -> Tx \cup {NoTx}]
  /\ waiting_queue \in SUBSET Tx
  /\ missing_markers \in [Tx -> SUBSET Marker]
  /\ id \in Nat
  /\ provided_markers \in [Marker -> Tx \cup {NoTx}]
  /\ ready_tx \in SUBSET Tx
  /\ unlocks \in [Tx -> [Tx -> Nat]]
  /\ requires_offset \in [Tx -> Nat]
  /\ ref_id \in [Tx -> Nat]
  /\ independent \in SUBSET Tx
  /\ requires \in [Tx -> SUBSET Marker]
  /\ op \in {"idle", "add", "prune"}
  /\ new_tx \in Tx \cup {NoTx}
  /\ tx_queue \in Seq(Tx)
  /\ promoted \in SUBSET Tx
  /\ removed \in SUBSET Tx
  /\ markers \in Seq(Marker)
  /\ imports \in Seq(Tx)
  /\ notify \in SUBSET Tx

\* The transactions a call took out of the pending queue and has not yet put
\* into the ready queue.
InFlight == Range(tx_queue) \cup Range(imports)

\* A transaction is in one place: waiting, ready, or once in the hands of the
\* call that moves it.  The assertions "transaction is already added" and
\* "transaction already included" of the two add_transaction rest on it.
OnePlace ==
  /\ waiting_queue \cap ready_tx = {}
  /\ InFlight \cap (waiting_queue \cup ready_tx) = {}
  /\ Range(tx_queue) \cap Range(imports) = {}
  /\ \A i, j \in DOMAIN tx_queue : i # j => tx_queue[i] # tx_queue[j]
  /\ \A i, j \in DOMAIN imports : i # j => imports[i] # imports[j]

\* required_markers is the inverse of missing_markers over the waiting queue, so
\* the `expect("tx is included;")` of mark_and_unlock cannot fail, and every
\* waiting transaction will be found when its marker is provided.
PendingIndexed ==
  /\ \A m \in Marker, h \in Tx :
       h \in required_markers[m] <=> h \in waiting_queue /\ m \in missing_markers[h]
  /\ \A h \in waiting_queue : missing_markers[h] # {} /\ missing_markers[h] \subseteq requires[h]

\* provided_markers and ready_tx name each other: at most one ready transaction
\* per sender and nonce, `expect("hash included;")` of ReadyTransactions::
\* add_transaction cannot fail, nor the assertion at the end of prune_tags.
MarkersProvided ==
  /\ \A m \in Marker : provided_markers[m] # NoTx =>
       provided_markers[m] \in ready_tx /\ provides(provided_markers[m]) = m
  /\ \A t \in ready_tx : provided_markers[provides(t)] = t

\* No transaction waits for a marker that a ready transaction provides: whoever
\* provides a marker has moved all that waited for it.
NoStuckPending == \A h \in waiting_queue : \A m \in missing_markers[h] : provided_markers[m] = NoTx

\* The iterator that block production and transactions_by_sender use reaches
\* every ready transaction, whatever was replaced, pruned or dropped before.
AllReadyYielded == Yielded = ready_tx

\* A transaction never loses its place to one it unlocked: the CyclicTransaction
\* exit of add_ready_transaction is dead code.
NoCycle == new_tx \notin removed

\* A ready transaction gives way to another one with its sender and nonce only
\* if that one pays strictly more (replaced_transactions); the place of a waiting
\* one in waiting_markers goes to one that pays at least as much.
ReplacementPays ==
  [][\A m \in Marker :
       /\ (/\ provided_markers[m] # NoTx
           /\ provided_markers'[m] \notin {NoTx, provided_markers[m]})
          => provided_markers'[m].max_fee > provided_markers[m].max_fee
       /\ (/\ waiting_markers[m] \in waiting_queue
           /\ waiting_markers'[m] \notin {NoTx, waiting_markers[m]})
          => waiting_markers'[m].max_fee >= waiting_markers[m].max_fee]_poolVars

InPool(t) == contains(t) \/ t \in InFlight

\* What an add or a prune loses, it loses for a reason: a ready transaction with
\* the same sender and nonce pays at least as much, or the sender's nonce of the
\* marker being pruned has reached it.
LossJustified ==
  [][\A t \in Tx : (InPool(t) /\ ~InPool(t)' /\ op # "idle") =>
       \/ \E u \in ready_tx' : provides(u) = provides(t) /\ u.max_fee >= t.max_fee
       \/ markers # <<>> /\ Head(markers)[1] = t.from /\ t.nonce <= Head(markers)[2]]_poolVars

\* A ready transaction "tracks the transactions that get unlocked by this
\* transaction": whatever remove_with_markers takes out of the ready queue, it
\* takes out of the `unlocks` of the others ("remove from unlocks").
UnlocksCurrent == \A p \in ready_tx, u \in Tx : unlocks[p][u] > 0 => u \in ready_tx

\* A listener "gets notified about every new ready transaction": what
\* add_ready_transaction made ready, and nothing took out again, is announced.
ReadyAnnounced ==
  [][QueueDone => ({new_tx} \cup promoted) \cap ready_tx \subseteq notify']_poolVars

-----------------------------------------------------------------------------
(* The inductive invariant of module TxPoolProofs *)

\* A transaction requires nothing, or the marker before its own.
RequiresPrevious == \A t \in Tx : requires[t] \in PossibleRequires(t)

\* Which local variables are live, by the call that holds the lock.
CallState ==
  /\ op = "idle" => new_tx = NoTx /\ markers = <<>> /\ imports = <<>>
  /\ op = "add" => markers = <<>> /\ imports = <<>>
  /\ new_tx = NoTx => tx_queue = <<>> /\ removed = {}
  /\ markers # <<>> => new_tx = NoTx

\* add_ready_transaction takes new_tx first and alone; what it takes after it are
\* later transactions of the same sender.
QueueAhead ==
  /\ new_tx \in Range(tx_queue) => Range(tx_queue) = {new_tx}
  /\ \A t \in Range(tx_queue) :
       t = new_tx \/ (t.from = new_tx.from /\ t.nonce > new_tx.nonce)

\* A ready transaction is independent, or the ready provider of a marker it
\* requires has it in its unlocks and none of its requirements is counted yet.
ReadyLinked ==
  \A t \in ready_tx \ independent :
    /\ requires_offset[t] = 0
    /\ \E m \in requires[t] : provided_markers[m] # NoTx /\ unlocks[provided_markers[m]][t] > 0

\* Everything the pool's loops and lookups rely on between two steps; every step
\* preserves it.
Inv ==
  /\ TypeOK
  /\ OnePlace
  /\ PendingIndexed
  /\ MarkersProvided
  /\ NoStuckPending
  /\ NoCycle
  /\ RequiresPrevious
  /\ CallState
  /\ QueueAhead
  /\ ReadyLinked

=============================================================================
