-------------------------- MODULE TxPoolStepProofs --------------------------
(***************************************************************************)
(* The action properties of module TxPool, for any set of transactions and *)
(* any bounds: replacements and losses.                                    *)
(***************************************************************************)
EXTENDS TxPoolProofs

-----------------------------------------------------------------------------
(* Replacements *)

\* A step that binds a provided marker to another transaction is an iteration of
\* add_ready_transaction, which replaced_transactions let pass.
LEMMA StepReplacementPays ==
  ASSUME Inv, [Next]_poolVars, NEW m \in Marker,
         provided_markers[m] # NoTx,
         provided_markers'[m] \notin {NoTx, provided_markers[m]}
  PROVE  provided_markers'[m].max_fee > provided_markers[m].max_fee
<1>1. CASE QueueAdded
  <2> DEFINE cur == Head(tx_queue)
  <2>1. /\ tx_queue # <<>> /\ ~ready_underpriced(cur)
        /\ provided_markers' = [provided_markers EXCEPT ![provides(cur)] = cur]
    BY ZenonT(40), <1>1 DEF QueueAdded, ready_add
  <2>2. cur \in Tx /\ provides(cur) \in Marker
    BY ZenonT(40), <2>1, CurrentFacts
  <2>3. provides(cur) = m /\ provided_markers'[m] = cur
    BY SMTT(40), <2>1, <2>2 DEF Inv, TypeOK
  <2>4. provided_markers[m] \in ready_tx /\ provided_markers[m] \in Tx
    BY DEF Inv, MarkersProvided, TypeOK
  <2>5. ~(cur.max_fee <= provided_markers[m].max_fee)
    BY SMTT(40), <2>1, <2>3, <2>4 DEF ready_underpriced
  <2> QED
    BY SMTT(40), <2>2, <2>3, <2>4, <2>5, TxAssumption
<1>2. ASSUME NEW hashes, remove_with_markers(hashes) PROVE FALSE
  BY ZenonT(40), <1>2 DEF remove_with_markers
<1>3. ASSUME prune_tags(Head(markers)) PROVE FALSE
  BY Zenon, <1>3 DEF prune_tags
<1>4. ASSUME provided_markers' = provided_markers PROVE FALSE
  BY SMTT(40), <1>4
<1>5. CASE \E t \in Tx : \E req \in PossibleRequires(t) : AddPending(t, req) \/ AddReady(t, req)
  BY ZenonT(40), <1>4, <1>5 DEF AddPending, AddReady, readyVars
<1>6. CASE QueueDiscarded \/ QueueRejected \/ QueueDone \/ PruneImport \/ PruneDone
  BY ZenonT(40), <1>4, <1>6 DEF QueueDiscarded, QueueRejected, QueueDone, PruneImport, PruneDone, readyVars
<1>7. CASE PruneMarker
  BY ZenonT(40), <1>3, <1>7 DEF PruneMarker
<1>8. CASE (\E ms \in BlockMarkers : PruneMarkers(ms)) \/ (\E t \in Tx : NotifyListener(t))
  BY SMTT(40), <1>4, <1>8 DEF PruneMarkers, NotifyListener, readyVars
<1>9. CASE \/ \E hashes \in SUBSET Tx : RemoveInvalid(hashes)
           \/ \E sender \in {t.from : t \in Tx} : RemoveTransactionsByAddress(sender)
           \/ \E t \in Tx : DropTransaction(t)
  BY ZenonT(40), <1>2, <1>9 DEF RemoveInvalid, RemoveTransactionsByAddress, DropTransaction
<1>10. CASE Clear
  BY <1>10 DEF Clear
<1>11. CASE UNCHANGED poolVars
  BY <1>4, <1>11 DEF poolVars, readyVars
<1> QED
  BY <1>1, <1>5, <1>6, <1>7, <1>8, <1>9, <1>10, <1>11 DEF Next, LockedStep

\* Only PendingTransactions::add_transaction gives a waiting marker to another
\* transaction, and it has compared the fees.
LEMMA StepWaitingReplacementPays ==
  ASSUME Inv, [Next]_poolVars, NEW m \in Marker,
         waiting_markers[m] \in waiting_queue,
         waiting_markers'[m] \notin {NoTx, waiting_markers[m]}
  PROVE  waiting_markers'[m].max_fee >= waiting_markers[m].max_fee
<1>1. CASE \E t \in Tx : \E req \in PossibleRequires(t) : AddPending(t, req)
  <2>1. PICK t \in Tx : /\ ~pending_underpriced(t)
                        /\ waiting_markers' = [waiting_markers EXCEPT ![provides(t)] = t]
    BY Zenon, <1>1 DEF AddPending
  <2>2. provides(t) = m /\ waiting_markers'[m] = t
    BY SMTT(40), <2>1 DEF Inv, TypeOK
  <2>3. ~(t.max_fee < waiting_markers[m].max_fee)
    BY Zenon, <2>1, <2>2 DEF pending_underpriced
  <2>4. waiting_markers[m] \in Tx
    BY DEF Inv, TypeOK
  <2> QED
    BY SMTT(40), <2>2, <2>3, <2>4, TxAssumption
<1>2. ASSUME NEW k, mark_and_unlock(k) PROVE FALSE
  BY ZenonT(40), <1>2 DEF mark_and_unlock
<1>3. ASSUME NEW hashes, pending_remove(hashes) PROVE FALSE
  BY ZenonT(40), <1>3 DEF pending_remove
<1>4. ASSUME waiting_markers' = waiting_markers PROVE FALSE
  BY SMTT(40), <1>4
<1>5. CASE \E t \in Tx : \E req \in PossibleRequires(t) : AddReady(t, req)
  BY ZenonT(40), <1>4, <1>5 DEF AddReady, pendingVars
<1>6. CASE QueueAdded \/ QueueDiscarded \/ QueueRejected \/ PruneMarker
  BY ZenonT(40), <1>2, <1>6 DEF QueueAdded, QueueDiscarded, QueueRejected, PruneMarker
<1>7. CASE QueueDone \/ PruneImport \/ PruneDone
  BY ZenonT(40), <1>4, <1>7 DEF QueueDone, PruneImport, PruneDone, pendingVars
<1>8. CASE (\E ms \in BlockMarkers : PruneMarkers(ms)) \/ (\E t \in Tx : NotifyListener(t))
  BY ZenonT(40), <1>4, <1>8 DEF PruneMarkers, NotifyListener, pendingVars
<1>9. CASE \/ \E hashes \in SUBSET Tx : RemoveInvalid(hashes)
           \/ \E sender \in {t.from : t \in Tx} : RemoveTransactionsByAddress(sender)
  BY ZenonT(40), <1>3, <1>9 DEF RemoveInvalid, RemoveTransactionsByAddress
<1>10. CASE \E t \in Tx : DropTransaction(t)
  BY ZenonT(40), <1>4, <1>10 DEF DropTransaction, pendingVars
<1>11. CASE Clear
  BY <1>11 DEF Clear
<1>12. CASE UNCHANGED poolVars
  BY Zenon, <1>4, <1>12 DEF poolVars, pendingVars
<1> QED
  BY Zenon, <1>1, <1>5, <1>6, <1>7, <1>8, <1>9, <1>10, <1>11, <1>12 DEF Next, LockedStep

\* A ready transaction gives way to another one with its sender and nonce only if
\* that one pays strictly more, a waiting one only if it pays at least as much.
THEOREM ReplacementsPay == Spec => ReplacementPays
<1> DEFINE Pays == \A m \in Marker :
             /\ (/\ provided_markers[m] # NoTx
                 /\ provided_markers'[m] \notin {NoTx, provided_markers[m]})
                => provided_markers'[m].max_fee > provided_markers[m].max_fee
             /\ (/\ waiting_markers[m] \in waiting_queue
                 /\ waiting_markers'[m] \notin {NoTx, waiting_markers[m]})
                => waiting_markers'[m].max_fee >= waiting_markers[m].max_fee
<1>1. Inv /\ [Next]_poolVars => [Pays]_poolVars
  BY StepReplacementPays, StepWaitingReplacementPays
<1> QED
  BY <1>1, PoolInvariant, PTL DEF Spec, ReplacementPays

\* prune_tags removes nothing beyond the sender and the nonce of its marker.
LEMMA PrunedBelow ==
  ASSUME Inv, NEW m \in Marker, NEW t \in Pruned(m)
  PROVE  m[1] = t.from /\ t.nonce <= m[2]
<1> DEFINE S == {u \in Pruned(m) : m[1] = u.from /\ u.nonce <= m[2]}
<1>1. Pruned(m) \in SUBSET ready_tx /\ ClosedBack(Pruned(m), m)
  BY PrunedClosed
<1>2. ready_tx \in SUBSET Tx
  BY DEF Inv, TypeOK
<1>3. ASSUME NEW u \in ready_tx, provided_markers[m] = u PROVE u \in S
  <2>1. u \in Tx /\ provides(u) = m /\ u \in Pruned(m)
    BY SMTT(40), <1>1, <1>2, <1>3, TxAssumption DEF Inv, MarkersProvided, ClosedBack
  <2> QED
    BY SMTT(40), <2>1, TxAssumption DEF provides, to_marker
<1>4. ASSUME NEW u \in S, NEW k \in requires[u], NEW p \in ready_tx,
             provided_markers[k] = p, OnlyUnlocks(p, u)
      PROVE  p \in S
  <2>1. p \in Pruned(m) /\ u \in Tx /\ p \in Tx
    BY SMTT(40), <1>1, <1>2, <1>4 DEF ClosedBack
  <2>2. k \in Marker /\ (\A x \in Tx : provides(x) = k => x.from = u.from /\ u.nonce = x.nonce + 1)
    BY SMTT(40), <2>1, RequiredMarker DEF Inv, RequiresPrevious
  <2>3. provides(p) = k
    BY SMTT(40), <1>4, <2>1, <2>2, TxAssumption DEF Inv, MarkersProvided
  <2>4. p.from = u.from /\ u.nonce = p.nonce + 1 /\ p.nonce \in Nat
    BY SMTT(40), <2>1, <2>2, <2>3, TxAssumption
  <2>5. m[2] \in Nat
    BY SMTT(40), TxAssumption DEF Marker, provides, PossibleRequires, to_marker
  <2> QED
    BY SMTT(40), <2>1, <2>4, <2>5
<1>5. ClosedBack(S, m)
  BY <1>3, <1>4 DEF ClosedBack
<1>6. S \in SUBSET ready_tx
  BY <1>1
<1>7. Pruned(m) \subseteq S
  BY SMTT(40), <1>5, <1>6, PrunedClosed
<1> QED
  BY <1>7

Justified(t) ==
  \/ \E u \in ready_tx' : provides(u) = provides(t) /\ u.max_fee >= t.max_fee
  \/ markers # <<>> /\ Head(markers)[1] = t.from /\ t.nonce <= Head(markers)[2]

\* A transaction that replaced_transactions refuses has a ready rival, which pays
\* as much and for whose marker nobody waits.
LEMMA UnderpricedRival ==
  ASSUME Inv, NEW t \in Tx, ready_underpriced(t)
  PROVE  /\ \E u \in ready_tx : provides(u) = provides(t) /\ u.max_fee >= t.max_fee
         /\ Unlocked(provides(t)) = {}
<1> DEFINE old == provided_markers[provides(t)]
<1>1. old \in ready_tx /\ t.max_fee <= old.max_fee
  BY DEF ready_underpriced
<1>2. old \in Tx /\ old # NoTx /\ provides(t) \in Marker
  BY <1>1, ProvidesMarker, TxAssumption DEF Inv, TypeOK
<1>3. provides(old) = provides(t)
  BY <1>2 DEF Inv, MarkersProvided
<1>4. old.max_fee >= t.max_fee
  BY <1>1, <1>2, TxAssumption
<1>5. Unlocked(provides(t)) = {}
  BY SMTT(40), <1>2 DEF Inv, PendingIndexed, NoStuckPending, Unlocked, TypeOK
<1> QED
  BY SMTT(40), <1>1, <1>3, <1>4, <1>5

\* What a step of add_transaction or prune_markers loses is justified.
LEMMA StepLossJustified ==
  ASSUME Inv, [Next]_poolVars, NEW t \in Tx, InPool(t), ~InPool(t)', op # "idle"
  PROVE  Justified(t)
<1>1. /\ t \in waiting_queue \/ t \in ready_tx \/ t \in Range(tx_queue) \/ t \in Range(imports)
      /\ t \notin waiting_queue' /\ t \notin ready_tx'
      /\ t \notin Range(tx_queue') /\ t \notin Range(imports')
  BY DEF InPool, contains, InFlight
<1> DEFINE cur == Head(tx_queue)
           m == provides(cur)
<1>2. ASSUME tx_queue # <<>>
      PROVE  /\ cur \in Tx /\ m \in Marker
             /\ Range(tx_queue) = {cur} \cup Range(Tail(tx_queue))
  <2>1. tx_queue \in Seq(Tx) /\ \A i, j \in DOMAIN tx_queue : i # j => tx_queue[i] # tx_queue[j]
    BY SMTT(40) DEF Inv, TypeOK, OnePlace
  <2>2. Range(tx_queue) = {cur} \cup Range(Tail(tx_queue))
    BY ZenonT(40), <1>2, <2>1, TakeHead
  <2> QED
    BY SMTT(40), <1>2, <2>2, CurrentFacts
<1>3. ASSUME tx_queue # <<>>, new_tx' = new_tx,
             NEW unlocked \in SetToSeqs(Unlocked(m)), tx_queue' = Tail(tx_queue) \o unlocked
      PROVE  Range(tx_queue') = Range(Tail(tx_queue)) \cup Unlocked(m)
  BY SMTT(40), <1>3, QueueStep
<1>4. CASE QueueAdded
  <2>1. /\ tx_queue # <<>> /\ ~ready_underpriced(cur) /\ mark_and_unlock(m) /\ ready_add(cur)
        /\ new_tx' = new_tx /\ imports' = imports
    BY <1>4 DEF QueueAdded, pruneVars
  <2>2. PICK unlocked \in SetToSeqs(Unlocked(m)) : tx_queue' = Tail(tx_queue) \o unlocked
    BY <1>4 DEF QueueAdded
  <2>3. Range(tx_queue') = Range(Tail(tx_queue)) \cup Unlocked(m)
    BY SMTT(40), <1>3, <2>1, <2>2
  <2>4. /\ waiting_queue' = waiting_queue \ Unlocked(m)
        /\ ready_tx' = (ready_tx \ Replaced(cur)) \cup {cur}
    BY ZenonT(40), <2>1 DEF mark_and_unlock, ready_add
  <2>5. t \in Replaced(cur)
    BY <1>1, <1>2, <2>1, <2>3, <2>4
  <2>6. t \in ready_tx /\ t = provided_markers[m] /\ provides(t) = m
    BY ZenonT(40), <1>2, <2>1, <2>5, TxAssumption DEF Replaced, Inv, MarkersProvided
  <2>7. cur.max_fee >= t.max_fee
    BY SMTT(40), <1>2, <2>1, <2>6, TxAssumption DEF ready_underpriced
  <2> QED
    BY <2>4, <2>6, <2>7 DEF Justified
<1>5. CASE QueueDiscarded
  <2>1. /\ tx_queue # <<>> /\ ready_underpriced(cur) /\ mark_and_unlock(m)
        /\ new_tx' = new_tx /\ imports' = imports /\ ready_tx' = ready_tx
    BY <1>5 DEF QueueDiscarded, pruneVars, readyVars
  <2>2. PICK unlocked \in SetToSeqs(Unlocked(m)) : tx_queue' = Tail(tx_queue) \o unlocked
    BY <1>5 DEF QueueDiscarded
  <2>3. Range(tx_queue') = Range(Tail(tx_queue)) \cup Unlocked(m)
    BY SMTT(40), <1>3, <2>1, <2>2
  <2>4. waiting_queue' = waiting_queue \ Unlocked(m)
    BY ZenonT(40), <2>1 DEF mark_and_unlock
  <2>5. t = cur
    BY SMTT(40), <1>1, <1>2, <2>1, <2>3, <2>4
  <2> QED
    BY SMTT(40), <1>2, <2>1, <2>5, UnderpricedRival DEF Justified
<1>6. CASE QueueRejected
  <2>1. /\ tx_queue # <<>> /\ cur = new_tx /\ ready_underpriced(new_tx)
        /\ mark_and_unlock(provides(new_tx)) /\ imports' = imports /\ ready_tx' = ready_tx
    BY <1>6 DEF QueueRejected, pruneVars, readyVars
  <2>2. new_tx \in Tx /\ Range(tx_queue) = {new_tx}
    BY SMTT(40), <1>2, <2>1 DEF Inv, QueueAhead
  <2>3. waiting_queue' = waiting_queue
    BY <2>1, <2>2, UnderpricedRival DEF mark_and_unlock
  <2>4. t = new_tx
    BY <1>1, <2>1, <2>2, <2>3
  <2> QED
    BY <2>1, <2>2, <2>4, UnderpricedRival DEF Justified
<1>7. CASE PruneMarker
  <2> DEFINE k == Head(markers)
  <2>1. /\ markers # <<>> /\ mark_and_unlock(k) /\ prune_tags(k) /\ tx_queue' = tx_queue
    BY <1>7 DEF PruneMarker, addVars
  <2>2. PICK unlocked \in SetToSeqs(Unlocked(k)) : imports' = imports \o unlocked
    BY <1>7 DEF PruneMarker
  <2>3. k \in Marker
    BY <2>1 DEF Inv, TypeOK
  <2>4. Unlocked(k) \in SUBSET waiting_queue /\ Unlocked(k) \in SUBSET Tx
    BY <2>3, TypeParts, UnlockedWaiting DEF Inv, PendingType
  <2>5. /\ unlocked \in Seq(Tx) /\ Range(unlocked) = Unlocked(k)
        /\ \A i, j \in DOMAIN unlocked : i # j => unlocked[i] # unlocked[j]
    BY SMTT(40), <2>4, VisitOrder
  <2>6. /\ imports \in Seq(Tx) /\ Range(imports) \cap Range(unlocked) = {}
        /\ \A i, j \in DOMAIN imports : i # j => imports[i] # imports[j]
    BY SMTT(40), <2>4, <2>5 DEF Inv, TypeOK, OnePlace, InFlight
  <2>7. Range(imports \o unlocked) = Range(imports) \cup Range(unlocked)
    BY ZenonT(40), <2>5, <2>6, AppendNew
  <2>8. /\ waiting_queue' = waiting_queue \ Unlocked(k)
        /\ ready_tx' = ready_tx \ Pruned(k)
    BY ZenonT(40), <2>1 DEF mark_and_unlock, prune_tags
  <2>9. t \in Pruned(k)
    BY <1>1, <2>1, <2>2, <2>5, <2>7, <2>8
  <2> QED
    BY <2>1, <2>3, <2>9, PrunedBelow DEF Justified
<1>8. CASE PruneImport
  <2>1. /\ new_tx = NoTx /\ imports # <<>>
        /\ tx_queue' = <<Head(imports)>> /\ imports' = Tail(imports)
        /\ waiting_queue' = waiting_queue /\ ready_tx' = ready_tx
    BY <1>8 DEF PruneImport, pendingVars, readyVars
  <2>2. tx_queue = <<>> /\ Range(tx_queue) = {}
    BY <2>1 DEF Inv, CallState, Range
  <2>3. /\ imports \in Seq(Tx)
        /\ \A i, j \in DOMAIN imports : i # j => imports[i] # imports[j]
    BY SMTT(40) DEF Inv, TypeOK, OnePlace
  <2>4. Range(imports) = {Head(imports)} \cup Range(Tail(imports))
    BY ZenonT(40), <2>1, <2>3, TakeHead
  <2>5. Range(tx_queue') = {Head(imports)}
    BY <2>1 DEF Range
  <2> QED
    BY <1>1, <2>1, <2>2, <2>4, <2>5
<1>9. ASSUME waiting_queue' = waiting_queue, ready_tx' = ready_tx, imports' = imports,
             tx_queue' = tx_queue \/ tx_queue = <<>>
      PROVE  FALSE
  <2>1. tx_queue = <<>> => Range(tx_queue) = {}
    BY DEF Range
  <2> QED
    BY <1>1, <1>9, <2>1
<1>10. CASE QueueDone
  BY SMTT(40), <1>9, <1>10 DEF QueueDone, pendingVars, readyVars, pruneVars
<1>11. CASE PruneDone \/ (\E u \in Tx : NotifyListener(u)) \/ UNCHANGED poolVars
  BY <1>9, <1>11 DEF PruneDone, NotifyListener, poolVars, pendingVars, readyVars, addVars, pruneVars
<1> QED
  BY ZenonT(40), <1>4, <1>5, <1>6, <1>7, <1>8, <1>10, <1>11
  DEF Next, LockedStep, AddPending, AddReady, PruneMarkers, RemoveInvalid,
      RemoveTransactionsByAddress, DropTransaction, Clear

\* An add or a prune loses a transaction only to a ready one with its sender and
\* nonce that pays at least as much, or because its nonce is mined.
THEOREM LossesJustified == Spec => LossJustified
<1> DEFINE Loss == \A t \in Tx : (InPool(t) /\ ~InPool(t)' /\ op # "idle") =>
       \/ \E u \in ready_tx' : provides(u) = provides(t) /\ u.max_fee >= t.max_fee
       \/ markers # <<>> /\ Head(markers)[1] = t.from /\ t.nonce <= Head(markers)[2]
<1>1. Inv /\ [Next]_poolVars => [Loss]_poolVars
  BY StepLossJustified DEF Justified
<1> QED
  BY <1>1, PoolInvariant, PTL DEF Spec, LossJustified

=============================================================================
