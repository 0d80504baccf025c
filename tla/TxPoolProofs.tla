---------------------------- MODULE TxPoolProofs ----------------------------
(***************************************************************************)
(* The invariants of module TxPool, for any set of transactions and any    *)
(* bounds.                                                                 *)
(***************************************************************************)
EXTENDS TxPoolLemmas

-----------------------------------------------------------------------------
(* Inv is inductive *)

\* The types of the locals of the call that holds the lock.
CallType ==
  /\ op \in {"idle", "add", "prune"}
  /\ new_tx \in Tx \cup {NoTx}
  /\ tx_queue \in Seq(Tx)
  /\ promoted \in SUBSET Tx
  /\ removed \in SUBSET Tx
  /\ markers \in Seq(Marker)
  /\ imports \in Seq(Tx)
  /\ notify \in SUBSET Tx

\* TypeOK by queue: the pending part, the ready part and the locals of a call.
LEMMA TypeParts ==
  TypeOK <=> PendingType /\ ReadyType /\ requires \in [Tx -> SUBSET Marker] /\ CallType
  BY DEF TypeOK, PendingType, ReadyType, CallType

\* The empty pool satisfies the invariant.
LEMMA InitInv == Init => Inv
<1> SUFFICES ASSUME Init PROVE Inv
  OBVIOUS
<1>1. Range(tx_queue) = {} /\ Range(imports) = {}
  BY DEF Init, Range
<1>2. TypeOK
  BY DEF Init, TypeOK, NoUnlocks
<1>3. OnePlace
  BY <1>1 DEF Init, OnePlace, InFlight
<1>4. PendingIndexed /\ NoStuckPending /\ NoCycle
  BY DEF Init, PendingIndexed, NoStuckPending, NoCycle
<1>5. MarkersProvided /\ ReadyLinked
  BY DEF Init, MarkersProvided, ReadyLinked
<1>6. RequiresPrevious
  BY DEF Init, RequiresPrevious, PossibleRequires
<1>7. CallState /\ QueueAhead
  BY <1>1 DEF Init, CallState, QueueAhead
<1> QED
  BY <1>2, <1>3, <1>4, <1>5, <1>6, <1>7 DEF Inv

\* Nothing is in flight when no call holds the lock.
LEMMA IdleFacts ==
  ASSUME Inv, op = "idle"
  PROVE  /\ new_tx = NoTx /\ tx_queue = <<>> /\ imports = <<>> /\ markers = <<>> /\ removed = {}
         /\ Range(tx_queue) = {} /\ Range(imports) = {}
<1>1. new_tx = NoTx /\ tx_queue = <<>> /\ imports = <<>> /\ markers = <<>> /\ removed = {}
  BY DEF Inv, CallState
<1> QED
  BY <1>1 DEF Range

\* Forget empties the requirements of what left the pool and keeps the others.
LEMMA ForgetFacts ==
  ASSUME TypeOK, RequiresPrevious, NEW S, Forget(S)
  PROVE  /\ requires' \in [Tx -> SUBSET Marker]
         /\ RequiresPrevious'
         /\ \A t \in Tx : t \notin S => requires'[t] = requires[t]
  BY ZenonT(40) DEF TypeOK, RequiresPrevious, Forget, PossibleRequires

\* add_transaction to the pending queue.
LEMMA AddPendingInv ==
  ASSUME Inv, NEW t \in Tx, NEW req \in PossibleRequires(t), AddPending(t, req)
  PROVE  Inv'
<1> USE DEF AddPending, pendingVars, readyVars, addVars, pruneVars
<1>1. provides(t) \in Marker /\ req \in SUBSET Marker
  BY ProvidesMarker, RequiredMarker
<1>2. Missing(req) \subseteq req /\ \A m \in Missing(req) : provided_markers[m] = NoTx
  BY DEF Missing
<1>3. t \notin waiting_queue /\ t \notin ready_tx
  BY DEF contains
<1>4. TypeOK'
  BY Zenon, <1>1, <1>2 DEF Inv, TypeOK
<1>5. OnePlace'
  <2>1. Range(tx_queue') = {} /\ Range(imports') = {}
    BY Zenon, IdleFacts DEF Range
  <2> QED
    BY <1>3, <2>1 DEF Inv, OnePlace, InFlight
<1>6. PendingIndexed'
  <2>1. ASSUME NEW m \in Marker, NEW h \in Tx
        PROVE  h \in required_markers'[m] <=> h \in waiting_queue' /\ m \in missing_markers'[h]
    BY <1>3 DEF Inv, TypeOK, PendingIndexed
  <2>2. ASSUME NEW h \in waiting_queue'
        PROVE  missing_markers'[h] # {} /\ missing_markers'[h] \subseteq requires'[h]
    BY <1>2 DEF Inv, TypeOK, PendingIndexed
  <2> QED
    BY <2>1, <2>2 DEF PendingIndexed
<1>7. MarkersProvided' /\ NoCycle'
  BY DEF Inv, MarkersProvided, NoCycle
<1>8. NoStuckPending'
  BY <1>2, <1>3 DEF Inv, TypeOK, NoStuckPending
<1>9. RequiresPrevious'
  BY DEF Inv, TypeOK, RequiresPrevious
<1>10. CallState' /\ QueueAhead'
  BY DEF Inv, CallState, QueueAhead
<1>11. ReadyLinked'
  BY Zenon, <1>3 DEF Inv, TypeOK, ReadyLinked
<1> QED
  BY <1>4, <1>5, <1>6, <1>7, <1>8, <1>9, <1>10, <1>11 DEF Inv

\* add_transaction hands a transaction with no missing marker to
\* add_ready_transaction.
LEMMA AddReadyInv ==
  ASSUME Inv, NEW t \in Tx, NEW req \in PossibleRequires(t), AddReady(t, req)
  PROVE  Inv'
<1> USE DEF AddReady, pendingVars, readyVars, addVars, pruneVars
<1>1. req \in SUBSET Marker
  BY RequiredMarker
<1>2. t \notin waiting_queue /\ t \notin ready_tx /\ t # NoTx
  BY TxAssumption DEF contains
<1>3. Range(tx_queue') = {t} /\ Range(imports') = {} /\ DOMAIN tx_queue' = {1}
  BY IdleFacts DEF Range
<1>4. TypeOK'
  BY <1>1 DEF Inv, TypeOK
<1>5. OnePlace'
  BY <1>2, <1>3, IdleFacts DEF Inv, OnePlace, InFlight
<1>6. PendingIndexed'
  BY SMTT(40), <1>2 DEF Inv, TypeOK, PendingIndexed
<1>7. MarkersProvided' /\ NoStuckPending'
  BY DEF Inv, MarkersProvided, NoStuckPending
<1>8. RequiresPrevious'
  BY DEF Inv, TypeOK, RequiresPrevious
<1>9. CallState' /\ QueueAhead' /\ NoCycle'
  BY <1>2, <1>3, IdleFacts DEF CallState, QueueAhead, NoCycle
<1>10. ReadyLinked'
  BY <1>2 DEF Inv, TypeOK, ReadyLinked
<1> QED
  BY <1>4, <1>5, <1>6, <1>7, <1>8, <1>9, <1>10 DEF Inv

\* What holds of the transaction that an iteration of add_ready_transaction takes.
LEMMA CurrentFacts ==
  ASSUME Inv, tx_queue # <<>>
  PROVE  /\ Head(tx_queue) \in Tx
         /\ Head(tx_queue) \in Range(tx_queue)
         /\ Head(tx_queue) \notin waiting_queue \cup ready_tx
         /\ provides(Head(tx_queue)) \in Marker
         /\ new_tx \in Tx
         /\ markers = <<>>
<1>1. /\ Head(tx_queue) \in Tx
      /\ Head(tx_queue) \in Range(tx_queue)
  <2>1. tx_queue \in Seq(Tx) /\ \A i, j \in DOMAIN tx_queue : i # j => tx_queue[i] # tx_queue[j]
    BY DEF Inv, TypeOK, OnePlace
  <2>2. Head(tx_queue) \in Tx /\ Range(tx_queue) = {Head(tx_queue)} \cup Range(Tail(tx_queue))
    BY <2>1, TakeHead
  <2> QED
    BY <2>2
<1>2. Head(tx_queue) \notin waiting_queue \cup ready_tx
  BY <1>1 DEF Inv, OnePlace, InFlight
<1>3. new_tx \in Tx /\ markers = <<>>
  BY DEF Inv, TypeOK, CallState
<1> QED
  BY <1>1, <1>2, <1>3, ProvidesMarker

\* The queue after an iteration: its tail and what the iteration unlocked, none
\* of it twice, and all of it behind new_tx.
LEMMA QueueStep ==
  ASSUME Inv, tx_queue # <<>>,
         NEW unlocked \in SetToSeqs(Unlocked(provides(Head(tx_queue)))),
         tx_queue' = Tail(tx_queue) \o unlocked, new_tx' = new_tx
  PROVE  /\ tx_queue' \in Seq(Tx)
         /\ Range(tx_queue') = Range(Tail(tx_queue)) \cup Unlocked(provides(Head(tx_queue)))
         /\ Range(tx_queue') \subseteq Range(tx_queue) \cup Unlocked(provides(Head(tx_queue)))
         /\ Head(tx_queue) \notin Range(tx_queue')
         /\ \A i, j \in DOMAIN tx_queue' : i # j => tx_queue'[i] # tx_queue'[j]
         /\ QueueAhead'
<1> DEFINE cur == Head(tx_queue)
           m == provides(cur)
           U == Unlocked(m)
<1>1. /\ cur \in Tx /\ m \in Marker /\ cur \notin waiting_queue
      /\ cur \in Range(tx_queue) /\ new_tx \in Tx
  BY CurrentFacts
<1>2. /\ U \in SUBSET waiting_queue
      /\ U \in SUBSET Tx
      /\ \A h \in U : h.from = cur.from /\ h.nonce = cur.nonce + 1
  BY <1>1, UnlockedWaiting, TypeParts DEF Inv, PendingType
<1>3. /\ unlocked \in Seq(Tx) /\ Range(unlocked) = U
      /\ \A i, j \in DOMAIN unlocked : i # j => unlocked[i] # unlocked[j]
  BY <1>2, VisitOrder
<1>4. /\ Tail(tx_queue) \in Seq(Tx)
      /\ Range(tx_queue) = {cur} \cup Range(Tail(tx_queue))
      /\ cur \notin Range(Tail(tx_queue))
      /\ \A i, j \in DOMAIN Tail(tx_queue) : i # j => Tail(tx_queue)[i] # Tail(tx_queue)[j]
  BY Zenon, TakeHead DEF Inv, TypeOK, OnePlace
<1>5. Range(Tail(tx_queue)) \cap Range(unlocked) = {}
  BY <1>2, <1>3, <1>4 DEF Inv, OnePlace, InFlight
<1>6. /\ tx_queue' \in Seq(Tx)
      /\ Range(tx_queue') = Range(Tail(tx_queue)) \cup U
      /\ \A i, j \in DOMAIN tx_queue' : i # j => tx_queue'[i] # tx_queue'[j]
  <2> DEFINE c == Tail(tx_queue) \o unlocked
  <2>1. /\ c \in Seq(Tx)
        /\ Range(c) = Range(Tail(tx_queue)) \cup Range(unlocked)
        /\ \A i, j \in DOMAIN c : i # j => c[i] # c[j]
    BY Zenon, <1>3, <1>4, <1>5, AppendNew
  <2>2. tx_queue' = c
    OBVIOUS
  <2> HIDE DEF c
  <2> QED
    BY Zenon, <1>3, <2>1, <2>2
<1>7. ASSUME NEW t \in Range(tx_queue')
      PROVE  t = new_tx \/ (t.from = new_tx.from /\ t.nonce > new_tx.nonce)
  <2>1. CASE t \in Range(Tail(tx_queue))
    BY SMTT(40), <1>4, <2>1 DEF Inv, QueueAhead
  <2>2. CASE t \in U
    <3>1. cur = new_tx \/ (cur.from = new_tx.from /\ cur.nonce > new_tx.nonce)
      BY <1>1 DEF Inv, QueueAhead
    <3> QED
      BY SMTT(40), <1>1, <1>2, <2>2, <3>1, TxAssumption
  <2> QED
    BY <1>6, <2>1, <2>2
<1>8. new_tx \notin Range(tx_queue')
  <2>1. CASE cur = new_tx
    BY SMTT(40), <1>1, <1>2, <1>4, <1>6, <2>1
  <2>2. CASE cur # new_tx
    <3>1. new_tx \notin Range(tx_queue) /\ cur.nonce > new_tx.nonce
      BY <1>1, <2>2 DEF Inv, QueueAhead
    <3>2. new_tx \notin U
      BY SMTT(40), <1>1, <1>2, <3>1, TxAssumption
    <3> QED
      BY <1>4, <1>6, <3>1, <3>2
  <2> QED
    BY <2>1, <2>2
<1> QED
  BY <1>1, <1>2, <1>4, <1>6, <1>7, <1>8 DEF QueueAhead

\* An iteration of add_ready_transaction that makes its transaction ready.
LEMMA QueueAddedInv ==
  ASSUME Inv, QueueAdded
  PROVE  Inv'
<1> DEFINE cur == Head(tx_queue)
           m == provides(cur)
<1>1. /\ tx_queue # <<>>
      /\ mark_and_unlock(m) /\ ready_add(cur) /\ Forget(Replaced(cur))
      /\ promoted' = promoted \cup ({cur} \ {new_tx})
      /\ removed' = removed \cup Replaced(cur)
      /\ op' = op /\ new_tx' = new_tx /\ markers' = markers /\ imports' = imports
      /\ notify' = notify
  BY DEF QueueAdded, pruneVars
<1>2. PICK unlocked \in SetToSeqs(Unlocked(m)) : tx_queue' = Tail(tx_queue) \o unlocked
  BY DEF QueueAdded
<1>3. /\ cur \in Tx /\ cur \in Range(tx_queue) /\ cur \notin waiting_queue \cup ready_tx
      /\ m \in Marker /\ new_tx \in Tx /\ markers = <<>>
  BY <1>1, CurrentFacts
<1>4. PendingType /\ ReadyType /\ CallType
  BY TypeParts DEF Inv
<1>5. /\ Unlocked(m) \in SUBSET waiting_queue
      /\ Unlocked(m) \cap ready_tx = {}
  BY <1>3, <1>4, UnlockedWaiting DEF Inv, OnePlace
<1>6. /\ tx_queue' \in Seq(Tx)
      /\ Range(tx_queue') \subseteq Range(tx_queue) \cup Unlocked(m)
      /\ cur \notin Range(tx_queue')
      /\ \A i, j \in DOMAIN tx_queue' : i # j => tx_queue'[i] # tx_queue'[j]
      /\ QueueAhead'
  BY ZenonT(40), <1>1, <1>2, QueueStep
<1>7. Replaced(cur) \in SUBSET ready_tx
  BY DEF Replaced
<1>8. /\ requires' \in [Tx -> SUBSET Marker] /\ RequiresPrevious'
      /\ \A t \in Tx : t \notin Replaced(cur) => requires'[t] = requires[t]
  BY Zenon, <1>1, ForgetFacts DEF Inv
<1>9. ready_tx' = (ready_tx \ Replaced(cur)) \cup {cur}
  BY SMTT(40), <1>1 DEF ready_add
<1>10. \A t \in ready_tx' : requires'[t] = requires[t]
  BY SMTT(40), <1>3, <1>4, <1>7, <1>8, <1>9 DEF ReadyType
<1>11. /\ ReadyType' /\ MarkersProvided' /\ ReadyLinked'
       /\ \A k \in Marker : provided_markers'[k] = IF k = m THEN cur ELSE provided_markers[k]
  BY ZenonT(40), <1>1, <1>3, <1>4, <1>10, ReadyAdd DEF Inv
<1>12. waiting_queue' = waiting_queue \ Unlocked(m)
  BY <1>1 DEF mark_and_unlock
<1>13. \A h \in waiting_queue' : requires'[h] = requires[h]
  BY <1>4, <1>7, <1>8, <1>12 DEF PendingType, Inv, OnePlace
<1>14. /\ PendingType' /\ PendingIndexed'
       /\ \A h \in waiting_queue' : missing_markers'[h] = missing_markers[h] \ {m}
  BY SMTT(40), <1>1, <1>3, <1>4, <1>13, MarkAndUnlock DEF Inv
<1>15. TypeOK'
  <2>1. CallType'
    BY SMTT(40), <1>1, <1>3, <1>4, <1>6, <1>7 DEF CallType, ReadyType
  <2> QED
    BY <1>8, <1>11, <1>14, <2>1 DEF TypeOK, PendingType, ReadyType, CallType
<1>16. OnePlace'
  <2>1. Range(imports') = Range(imports)
    BY <1>1
  <2>2. Range(tx_queue') \cap Range(imports') = {}
    BY <1>5, <1>6, <2>1 DEF Inv, OnePlace, InFlight
  <2>3. waiting_queue' \cap ready_tx' = {}
    BY <1>3, <1>9, <1>12 DEF Inv, OnePlace
  <2>4. Range(tx_queue') \cap (waiting_queue' \cup ready_tx') = {}
    BY <1>5, <1>6, <1>9, <1>12 DEF Inv, OnePlace, InFlight
  <2>5. Range(imports') \cap (waiting_queue' \cup ready_tx') = {}
    BY SMTT(40), <1>3, <1>9, <1>12, <2>1 DEF Inv, OnePlace, InFlight
  <2>6. \A i, j \in DOMAIN imports' : i # j => imports'[i] # imports'[j]
    BY <1>1 DEF Inv, OnePlace
  <2> QED
    BY <1>6, <2>2, <2>3, <2>4, <2>5, <2>6 DEF OnePlace, InFlight
<1>17. NoStuckPending'
  <2>1. ASSUME NEW h \in waiting_queue', NEW k \in missing_markers'[h]
        PROVE  provided_markers'[k] = NoTx
    <3>1. h \in waiting_queue /\ k \in missing_markers[h] /\ k # m /\ k \in Marker
      BY <1>4, <1>12, <1>14 DEF PendingType
    <3> QED
      BY <1>11, <3>1 DEF Inv, NoStuckPending
  <2> QED
    BY <2>1 DEF NoStuckPending
<1>18. NoCycle'
  <2>1. ASSUME new_tx \in Replaced(cur) PROVE FALSE
    <3>1. new_tx \in ready_tx /\ provides(new_tx) = m
      BY <1>3, <2>1, TxAssumption DEF Replaced, Inv, MarkersProvided
    <3>2. new_tx.nonce = cur.nonce
      BY <1>3, <3>1, ProvidesMarker
    <3>3. cur # new_tx
      BY <1>3, <3>1
    <3>4. cur.nonce > new_tx.nonce
      BY <1>3, <3>3 DEF Inv, QueueAhead
    <3> QED
      BY SMTT(40), <1>3, <3>2, <3>4, TxAssumption
  <2> QED
    BY <1>1, <2>1 DEF Inv, NoCycle
<1>19. CallState'
  BY <1>1, <1>3, TxAssumption DEF Inv, CallState
<1> QED
  BY <1>6, <1>8, <1>11, <1>14, <1>15, <1>16, <1>17, <1>18, <1>19 DEF Inv

\* An iteration of add_ready_transaction that discards its transaction.
LEMMA QueueDiscardedInv ==
  ASSUME Inv, QueueDiscarded
  PROVE  Inv'
<1> DEFINE cur == Head(tx_queue)
           m == provides(cur)
<1>1. /\ tx_queue # <<>>
      /\ mark_and_unlock(m) /\ Forget({cur}) /\ ready_underpriced(cur)
      /\ promoted' = promoted /\ removed' = removed /\ notify' = notify
      /\ op' = op /\ new_tx' = new_tx /\ markers' = markers /\ imports' = imports
      /\ UNCHANGED readyVars
  BY DEF QueueDiscarded, pruneVars
<1>2. PICK unlocked \in SetToSeqs(Unlocked(m)) : tx_queue' = Tail(tx_queue) \o unlocked
  BY DEF QueueDiscarded
<1>3. /\ cur \in Tx /\ cur \in Range(tx_queue) /\ cur \notin waiting_queue \cup ready_tx
      /\ m \in Marker /\ new_tx \in Tx /\ markers = <<>>
  BY <1>1, CurrentFacts
<1>4. PendingType /\ ReadyType /\ CallType
  BY TypeParts DEF Inv
<1>5. Unlocked(m) \in SUBSET waiting_queue
  BY <1>3, <1>4, UnlockedWaiting DEF Inv
<1>6. /\ tx_queue' \in Seq(Tx)
      /\ Range(tx_queue') \subseteq Range(tx_queue) \cup Unlocked(m)
      /\ \A i, j \in DOMAIN tx_queue' : i # j => tx_queue'[i] # tx_queue'[j]
      /\ QueueAhead'
  BY SMTT(40), <1>1, <1>2, QueueStep
<1>7. /\ requires' \in [Tx -> SUBSET Marker] /\ RequiresPrevious'
      /\ \A t \in Tx : t # cur => requires'[t] = requires[t]
  <2>1. /\ requires' \in [Tx -> SUBSET Marker] /\ RequiresPrevious'
        /\ \A t \in Tx : t \notin {cur} => requires'[t] = requires[t]
    BY Zenon, <1>1, ForgetFacts DEF Inv
  <2> QED
    BY <2>1
<1>8. waiting_queue' = waiting_queue \ Unlocked(m)
  BY <1>1 DEF mark_and_unlock
<1>9. \A h \in waiting_queue' : requires'[h] = requires[h]
  BY SMTT(40), <1>3, <1>4, <1>7, <1>8 DEF PendingType
<1>10. /\ PendingType' /\ PendingIndexed'
       /\ \A h \in waiting_queue' : missing_markers'[h] = missing_markers[h] \ {m}
  BY <1>1, <1>3, <1>4, <1>9, MarkAndUnlock DEF Inv
<1>11. TypeOK'
  <2>1. CallType'
    BY <1>1, <1>4, <1>6 DEF CallType
  <2>2. ReadyType'
    BY SMTT(40), <1>1, <1>4 DEF ReadyType, readyVars
  <2> QED
    BY SMTT(40), <1>7, <1>10, <2>1, <2>2 DEF TypeOK, PendingType, ReadyType, CallType
<1>12. MarkersProvided' /\ ReadyLinked'
  BY ZenonT(40), <1>1, <1>3, <1>4, <1>7 DEF Inv, MarkersProvided, ReadyLinked, readyVars, ReadyType
<1>13. OnePlace'
  <2>1. Range(imports') = Range(imports) /\ ready_tx' = ready_tx
    BY <1>1 DEF readyVars
  <2>2. \A i, j \in DOMAIN imports' : i # j => imports'[i] # imports'[j]
    BY SMTT(40), <1>1 DEF Inv, OnePlace
  <2> QED
    BY <1>5, <1>6, <1>8, <2>1, <2>2 DEF Inv, OnePlace, InFlight
<1>14. NoStuckPending'
  BY <1>1, <1>8, <1>10 DEF Inv, NoStuckPending, readyVars
<1>15. NoCycle' /\ CallState'
  BY <1>1, <1>3, TxAssumption DEF Inv, NoCycle, CallState
<1> QED
  BY <1>6, <1>7, <1>10, <1>11, <1>12, <1>13, <1>14, <1>15 DEF Inv

\* add_ready_transaction returns Err: nothing was waiting for the marker of the
\* refused transaction, so nothing is dropped with it.
LEMMA QueueRejectedInv ==
  ASSUME Inv, QueueRejected
  PROVE  Inv'
<1> DEFINE m == provides(new_tx)
           gone == {new_tx} \cup Unlocked(m)
<1>1. /\ tx_queue # <<>> /\ Head(tx_queue) = new_tx
      /\ mark_and_unlock(m) /\ Forget(gone)
      /\ op' = (IF op = "add" THEN "idle" ELSE op)
      /\ new_tx' = NoTx /\ tx_queue' = <<>> /\ promoted' = {} /\ removed' = {}
      /\ markers' = markers /\ imports' = imports /\ notify' = notify
      /\ UNCHANGED readyVars
  BY DEF QueueRejected, Return, pruneVars
<1>2. /\ new_tx \in Tx /\ new_tx \notin waiting_queue \cup ready_tx
      /\ m \in Marker /\ markers = <<>>
  BY <1>1, CurrentFacts
<1>3. PendingType /\ ReadyType /\ CallType
  BY TypeParts DEF Inv
<1>4. Unlocked(m) \in SUBSET waiting_queue
  BY <1>2, <1>3, UnlockedWaiting DEF Inv
<1>5. /\ requires' \in [Tx -> SUBSET Marker] /\ RequiresPrevious'
      /\ \A t \in Tx : t \notin gone => requires'[t] = requires[t]
  BY Zenon, <1>1, ForgetFacts DEF Inv
<1>6. waiting_queue' = waiting_queue \ Unlocked(m)
  BY <1>1 DEF mark_and_unlock
<1>7. \A h \in waiting_queue' : requires'[h] = requires[h]
  BY SMTT(40), <1>2, <1>3, <1>5, <1>6 DEF PendingType
<1>8. /\ PendingType' /\ PendingIndexed'
      /\ \A h \in waiting_queue' : missing_markers'[h] = missing_markers[h] \ {m}
  BY <1>1, <1>2, <1>3, <1>7, MarkAndUnlock DEF Inv
<1>9. TypeOK'
  <2>1. CallType'
    BY <1>1, <1>3 DEF CallType
  <2>2. ReadyType'
    BY SMTT(40), <1>1, <1>3 DEF ReadyType, readyVars
  <2> QED
    BY <1>5, <1>8, <2>1, <2>2 DEF TypeOK, PendingType, ReadyType, CallType
<1>10. MarkersProvided' /\ ReadyLinked'
  <2>1. \A t \in ready_tx : t \notin gone
    BY <1>2, <1>4 DEF Inv, OnePlace
  <2> QED
    BY ZenonT(40), <1>1, <1>3, <1>5, <2>1 DEF Inv, MarkersProvided, ReadyLinked, readyVars, ReadyType
<1>11. Range(tx_queue') = {}
  BY <1>1 DEF Range
<1>12. OnePlace'
  <2>1. Range(imports') = Range(imports) /\ ready_tx' = ready_tx
    BY <1>1 DEF readyVars
  <2>2. /\ \A i, j \in DOMAIN imports' : i # j => imports'[i] # imports'[j]
        /\ DOMAIN tx_queue' = {}
    BY SMTT(40), <1>1 DEF Inv, OnePlace
  <2> QED
    BY SMTT(40), <1>6, <1>11, <2>1, <2>2 DEF Inv, OnePlace, InFlight
<1>13. NoStuckPending'
  BY <1>1, <1>6, <1>8 DEF Inv, NoStuckPending, readyVars
<1>14. NoCycle' /\ CallState' /\ QueueAhead'
  BY <1>1, <1>2, <1>3, <1>11 DEF Inv, NoCycle, CallState, QueueAhead, CallType
<1> QED
  BY <1>5, <1>8, <1>9, <1>10, <1>12, <1>13, <1>14 DEF Inv

\* A step that changes neither the queues nor the requirements keeps the parts of
\* Inv about them.
LEMMA SameQueues ==
  ASSUME Inv, UNCHANGED <<pendingVars, readyVars, requires>>
  PROVE  /\ PendingType' /\ ReadyType' /\ requires' \in [Tx -> SUBSET Marker]
         /\ PendingIndexed' /\ MarkersProvided' /\ NoStuckPending'
         /\ RequiresPrevious' /\ ReadyLinked'
         /\ waiting_queue' = waiting_queue /\ ready_tx' = ready_tx
<1>1. PendingType' /\ ReadyType' /\ requires' \in [Tx -> SUBSET Marker]
  BY TypeParts DEF Inv, PendingType, ReadyType, pendingVars, readyVars
<1>2. PendingIndexed' /\ MarkersProvided' /\ NoStuckPending' /\ RequiresPrevious'
  BY DEF Inv, PendingIndexed, MarkersProvided, NoStuckPending, RequiresPrevious, pendingVars, readyVars
<1>3. ReadyLinked'
  BY DEF Inv, ReadyLinked, readyVars
<1> QED
  BY <1>1, <1>2, <1>3 DEF pendingVars, readyVars

\* The steps that only move the program counter of a call: add_ready_transaction
\* returns Ok, the listeners are told, prune_markers starts, hands an import on,
\* or returns.
LEMMA ControlInv ==
  ASSUME Inv,
         \/ QueueDone
         \/ \E t \in Tx : NotifyListener(t)
         \/ \E ms \in BlockMarkers : PruneMarkers(ms)
         \/ PruneImport
         \/ PruneDone
         \/ UNCHANGED poolVars
  PROVE  Inv'
<1> USE DEF addVars, pruneVars
<1>1. UNCHANGED <<pendingVars, readyVars, requires>>
  BY DEF QueueDone, NotifyListener, PruneMarkers, PruneImport, PruneDone, poolVars
<1>2. /\ PendingType' /\ ReadyType' /\ requires' \in [Tx -> SUBSET Marker]
      /\ PendingIndexed' /\ MarkersProvided' /\ NoStuckPending'
      /\ RequiresPrevious' /\ ReadyLinked'
      /\ waiting_queue' = waiting_queue /\ ready_tx' = ready_tx
  BY <1>1, SameQueues
<1>3. CallType
  BY TypeParts DEF Inv
<1> SUFFICES CallType' /\ OnePlace' /\ NoCycle' /\ CallState' /\ QueueAhead'
  BY Zenon, <1>2 DEF Inv, TypeOK, PendingType, ReadyType, CallType
<1>4. CASE QueueDone
  <2>1. /\ tx_queue = <<>> /\ op' = (IF op = "add" THEN "idle" ELSE op)
        /\ new_tx # NoTx /\ new_tx' = NoTx /\ tx_queue' = <<>> /\ promoted' = {} /\ removed' = {}
        /\ markers' = markers /\ imports' = imports
        /\ notify' = (IF op = "add" THEN notify \cup {new_tx} \cup promoted ELSE notify)
    BY <1>4 DEF QueueDone, Return
  <2>2. Range(tx_queue') = {}
    BY <2>1 DEF Range
  <2>3. CallType'
    BY <1>3, <2>1 DEF CallType
  <2>4. OnePlace'
    BY <1>2, <2>1, <2>2 DEF Inv, OnePlace, InFlight
  <2>5. NoCycle' /\ CallState' /\ QueueAhead'
    BY SMTT(40), <1>3, <2>1, <2>2 DEF Inv, NoCycle, CallState, QueueAhead, CallType
  <2> QED
    BY <2>3, <2>4, <2>5
<1>5. CASE \E t \in Tx : NotifyListener(t)
  <2>1. /\ UNCHANGED <<op, new_tx, tx_queue, promoted, removed, markers, imports>>
        /\ notify' \in SUBSET Tx
    BY <1>3, <1>5 DEF NotifyListener, CallType
  <2> QED
    BY <1>2, <1>3, <2>1 DEF Inv, CallType, OnePlace, InFlight, NoCycle, CallState, QueueAhead
<1>6. CASE \E ms \in BlockMarkers : PruneMarkers(ms)
  <2>1. PICK ms \in BlockMarkers : PruneMarkers(ms)
    BY <1>6
  <2>2. ms \in Seq(Marker)
    <3>1. PICK n \in 0..MaxIncluded : ms \in [1..n -> {provides(t) : t \in Tx}]
      BY Zenon DEF BlockMarkers
    <3>2. {provides(t) : t \in Tx} \subseteq Marker
      BY DEF Marker
    <3>3. n \in Nat /\ ms \in [1..n -> Marker]
      BY <3>1, <3>2, BoundAssumption
    <3> QED
      BY SMTT(40), <3>3
  <2>3. /\ op = "idle" /\ op' = "prune" /\ markers' = ms
        /\ UNCHANGED <<new_tx, tx_queue, promoted, removed, imports, notify>>
    BY <2>1 DEF PruneMarkers
  <2>4. new_tx = NoTx /\ tx_queue = <<>> /\ imports = <<>> /\ removed = {}
    BY <2>3, IdleFacts
  <2>5. CallType'
    BY SMTT(40), <1>3, <2>2, <2>3 DEF CallType
  <2>6. OnePlace'
    BY <1>2, <2>3 DEF Inv, OnePlace, InFlight
  <2>7. NoCycle' /\ CallState' /\ QueueAhead'
    BY <2>3, <2>4 DEF Inv, NoCycle, CallState, QueueAhead
  <2> QED
    BY <2>5, <2>6, <2>7
<1>7. CASE PruneImport
  <2>1. /\ op = "prune" /\ markers = <<>> /\ new_tx = NoTx /\ imports # <<>>
        /\ new_tx' = Head(imports) /\ tx_queue' = <<Head(imports)>> /\ imports' = Tail(imports)
        /\ UNCHANGED <<op, promoted, removed, markers, notify>>
    BY <1>7 DEF PruneImport
  <2>2. /\ imports \in Seq(Tx)
        /\ \A i, j \in DOMAIN imports : i # j => imports[i] # imports[j]
    BY <1>3 DEF CallType, Inv, OnePlace
  <2>3. /\ Head(imports) \in Tx /\ Tail(imports) \in Seq(Tx)
        /\ Range(imports) = {Head(imports)} \cup Range(Tail(imports))
        /\ Head(imports) \notin Range(Tail(imports))
        /\ \A i, j \in DOMAIN Tail(imports) : i # j => Tail(imports)[i] # Tail(imports)[j]
    BY <2>1, <2>2, TakeHead
  <2>4. tx_queue = <<>> /\ removed = {}
    BY <2>1 DEF Inv, CallState
  <2>5. Range(tx_queue') = {Head(imports)} /\ DOMAIN tx_queue' = {1}
    BY <2>1 DEF Range
  <2>6. CallType'
    BY SMTT(40), <1>3, <2>1, <2>3 DEF CallType
  <2>7. OnePlace'
    BY SMTT(40), <1>2, <2>1, <2>3, <2>5 DEF Inv, OnePlace, InFlight
  <2>8. NoCycle' /\ CallState' /\ QueueAhead'
    BY SMTT(40), <2>1, <2>3, <2>4, <2>5, TxAssumption DEF NoCycle, CallState, QueueAhead
  <2> QED
    BY <2>6, <2>7, <2>8
<1>8. CASE PruneDone
  BY SMTT(40), <1>2, <1>3, <1>8 DEF PruneDone, Inv, CallType, OnePlace, InFlight, NoCycle, CallState, QueueAhead
<1>9. CASE UNCHANGED poolVars
  BY SMTT(40), <1>2, <1>3, <1>9 DEF poolVars, Inv, CallType, OnePlace, InFlight, NoCycle, CallState, QueueAhead
<1> QED
  BY <1>4, <1>5, <1>6, <1>7, <1>8, <1>9

\* One marker of prune_markers.
LEMMA PruneMarkerInv ==
  ASSUME Inv, PruneMarker
  PROVE  Inv'
<1> DEFINE m == Head(markers)
<1>1. /\ markers # <<>> /\ mark_and_unlock(m) /\ prune_tags(m) /\ Forget(Pruned(m))
      /\ markers' = Tail(markers) /\ op' = op /\ notify' = notify
      /\ UNCHANGED <<new_tx, tx_queue, promoted, removed>>
  BY DEF PruneMarker, addVars
<1>2. PICK unlocked \in SetToSeqs(Unlocked(m)) : imports' = imports \o unlocked
  BY Zenon DEF PruneMarker
<1>3. PendingType /\ ReadyType /\ CallType
  BY TypeParts DEF Inv
<1>4. /\ m \in Marker /\ Tail(markers) \in Seq(Marker)
      /\ new_tx = NoTx /\ tx_queue = <<>> /\ op = "prune"
  BY <1>1, <1>3 DEF CallType, Inv, CallState
<1>5. /\ Unlocked(m) \in SUBSET waiting_queue
      /\ Unlocked(m) \in SUBSET Tx
  BY <1>3, <1>4, UnlockedWaiting DEF Inv, PendingType
<1>6. /\ unlocked \in Seq(Tx) /\ Range(unlocked) = Unlocked(m)
      /\ \A i, j \in DOMAIN unlocked : i # j => unlocked[i] # unlocked[j]
  BY <1>5, VisitOrder
<1>7. /\ imports' \in Seq(Tx)
      /\ Range(imports') = Range(imports) \cup Unlocked(m)
      /\ \A i, j \in DOMAIN imports' : i # j => imports'[i] # imports'[j]
  <2>1. /\ imports \in Seq(Tx) /\ Range(imports) \cap Range(unlocked) = {}
        /\ \A i, j \in DOMAIN imports : i # j => imports[i] # imports[j]
    BY SMTT(40), <1>3, <1>5, <1>6 DEF CallType, Inv, OnePlace, InFlight
  <2> DEFINE c == imports \o unlocked
  <2>2. /\ c \in Seq(Tx) /\ Range(c) = Range(imports) \cup Range(unlocked)
        /\ \A i, j \in DOMAIN c : i # j => c[i] # c[j]
    BY Zenon, <1>6, <2>1, AppendNew
  <2>3. imports' = c
    BY <1>2
  <2> HIDE DEF c
  <2> QED
    BY <1>6, <2>2, <2>3
<1>8. /\ requires' \in [Tx -> SUBSET Marker] /\ RequiresPrevious'
      /\ \A t \in Tx : t \notin Pruned(m) => requires'[t] = requires[t]
  BY Zenon, <1>1, ForgetFacts DEF Inv
<1>9. /\ ready_tx' = ready_tx \ Pruned(m)
      /\ waiting_queue' = waiting_queue \ Unlocked(m)
  BY ZenonT(40), <1>1 DEF prune_tags, mark_and_unlock
<1>10. \A t \in ready_tx' : requires'[t] = requires[t]
  BY ZenonT(40), <1>3, <1>8, <1>9 DEF ReadyType
<1>11. /\ ReadyType' /\ MarkersProvided' /\ ReadyLinked'
       /\ \A k \in Marker : provided_markers'[k] \in {NoTx, provided_markers[k]}
  BY ZenonT(40), <1>1, <1>3, <1>4, <1>10, PruneTags DEF Inv
<1>12. \A h \in waiting_queue' : requires'[h] = requires[h]
  <2>1. Pruned(m) \in SUBSET ready_tx
    BY SMTT(40), <1>4, PrunedClosed
  <2> QED
    BY ZenonT(40), <1>3, <1>8, <1>9, <2>1 DEF PendingType, Inv, OnePlace
<1>13. /\ PendingType' /\ PendingIndexed'
       /\ \A h \in waiting_queue' : missing_markers'[h] = missing_markers[h] \ {m}
  BY SMTT(40), <1>1, <1>3, <1>4, <1>12, MarkAndUnlock DEF Inv
<1>14. TypeOK'
  <2>1. CallType'
    BY SMTT(40), <1>1, <1>3, <1>4, <1>7 DEF CallType
  <2> QED
    BY SMTT(40), <1>8, <1>11, <1>13, <2>1 DEF TypeOK, PendingType, ReadyType, CallType
<1>15. Range(tx_queue') = {} /\ DOMAIN tx_queue' = {}
  BY <1>1, <1>4 DEF Range
<1>16. OnePlace'
  BY <1>5, <1>7, <1>9, <1>15 DEF Inv, OnePlace, InFlight
<1>17. NoStuckPending'
  <2>1. ASSUME NEW h \in waiting_queue', NEW k \in missing_markers'[h]
        PROVE  provided_markers'[k] = NoTx
    <3>1. h \in waiting_queue /\ k \in missing_markers[h] /\ k \in Marker
      BY SMTT(40), <1>3, <1>9, <1>13 DEF PendingType
    <3> QED
      BY <1>11, <3>1 DEF Inv, NoStuckPending
  <2> QED
    BY SMTT(40), <2>1 DEF NoStuckPending
<1>18. NoCycle' /\ CallState' /\ QueueAhead'
  BY SMTT(40), <1>1, <1>4, <1>15 DEF Inv, NoCycle, CallState, QueueAhead
<1> QED
  BY ZenonT(40), <1>8, <1>11, <1>13, <1>14, <1>16, <1>17, <1>18 DEF Inv

\* remove_invalid, and remove_transactions_by_address, which computes its hashes.
LEMMA RemoveInvalidInv ==
  ASSUME Inv, NEW hashes \in SUBSET Tx, RemoveInvalid(hashes)
  PROVE  Inv'
<1> DEFINE gone == Dependents(hashes) \cup (hashes \cap waiting_queue)
<1>1. /\ op = "idle" /\ remove_with_markers(hashes) /\ pending_remove(hashes) /\ Forget(gone)
      /\ UNCHANGED <<op, new_tx, tx_queue, promoted, removed, markers, imports, notify>>
  BY DEF RemoveInvalid, addVars, pruneVars
<1>2. PendingType /\ ReadyType /\ CallType
  BY TypeParts DEF Inv
<1>3. Dependents(hashes) \in SUBSET ready_tx
  BY SMTT(40), DependentsClosed
<1>4. /\ requires' \in [Tx -> SUBSET Marker] /\ RequiresPrevious'
      /\ \A t \in Tx : t \notin gone => requires'[t] = requires[t]
  BY Zenon, <1>1, ForgetFacts DEF Inv
<1>5. /\ ready_tx' = ready_tx \ Dependents(hashes)
      /\ waiting_queue' = waiting_queue \ (hashes \cap waiting_queue)
  BY ZenonT(40), <1>1 DEF remove_with_markers, pending_remove
<1>6. \A t \in ready_tx' : requires'[t] = requires[t]
  <2>1. ready_tx \in SUBSET Tx /\ ready_tx \cap waiting_queue = {}
    BY Zenon, <1>2 DEF ReadyType, Inv, OnePlace
  <2> QED
    BY ZenonT(40), <1>4, <1>5, <2>1
<1>7. \A t \in waiting_queue' : requires'[t] = requires[t]
  <2>1. waiting_queue \in SUBSET Tx /\ ready_tx \cap waiting_queue = {}
    BY Zenon, <1>2 DEF PendingType, Inv, OnePlace
  <2> QED
    BY ZenonT(40), <1>3, <1>4, <1>5, <2>1
<1>8. /\ ReadyType' /\ MarkersProvided' /\ ReadyLinked'
      /\ \A k \in Marker : provided_markers'[k] \in {NoTx, provided_markers[k]}
  BY SMTT(40), <1>1, <1>2, <1>6, RemoveWithMarkers DEF Inv
<1>9. /\ PendingType' /\ PendingIndexed'
      /\ \A h \in waiting_queue' : missing_markers'[h] = missing_markers[h]
  BY ZenonT(40), <1>1, <1>2, <1>7, PendingRemove DEF Inv
<1>10. TypeOK'
  <2>1. CallType'
    BY <1>1, <1>2 DEF CallType
  <2> QED
    BY ZenonT(40), <1>4, <1>8, <1>9, <2>1 DEF TypeOK, PendingType, ReadyType, CallType
<1>11. OnePlace'
  BY <1>1, <1>5 DEF Inv, OnePlace, InFlight
<1>12. NoStuckPending'
  <2>1. ASSUME NEW h \in waiting_queue', NEW k \in missing_markers'[h]
        PROVE  provided_markers'[k] = NoTx
    <3>1. h \in waiting_queue /\ k \in missing_markers[h] /\ k \in Marker
      BY <1>2, <1>5, <1>9 DEF PendingType
    <3> QED
      BY <1>8, <3>1 DEF Inv, NoStuckPending
  <2> QED
    BY <2>1 DEF NoStuckPending
<1>13. NoCycle' /\ CallState' /\ QueueAhead'
  BY SMTT(40), <1>1 DEF Inv, NoCycle, CallState, QueueAhead
<1> QED
  BY <1>4, <1>8, <1>9, <1>10, <1>11, <1>12, <1>13 DEF Inv

\* drop_transaction.
LEMMA DropTransactionInv ==
  ASSUME Inv, NEW t \in Tx, DropTransaction(t)
  PROVE  Inv'
<1> DEFINE gone == Dependents({t})
<1>1. /\ remove_with_markers({t}) /\ Forget(gone)
      /\ UNCHANGED <<pendingVars, op, new_tx, tx_queue, promoted, removed, markers, imports, notify>>
  BY DEF DropTransaction, addVars, pruneVars
<1>2. PendingType /\ ReadyType /\ CallType
  BY TypeParts DEF Inv
<1>3. gone \in SUBSET ready_tx
  BY DependentsClosed
<1>4. /\ requires' \in [Tx -> SUBSET Marker] /\ RequiresPrevious'
      /\ \A u \in Tx : u \notin gone => requires'[u] = requires[u]
  BY Zenon, <1>1, ForgetFacts DEF Inv
<1>5. ready_tx' = ready_tx \ gone /\ waiting_queue' = waiting_queue
  BY <1>1 DEF remove_with_markers, pendingVars
<1>6. \A u \in ready_tx' : requires'[u] = requires[u]
  BY SMTT(40), <1>2, <1>4, <1>5 DEF ReadyType
<1>7. /\ ReadyType' /\ MarkersProvided' /\ ReadyLinked'
      /\ \A k \in Marker : provided_markers'[k] \in {NoTx, provided_markers[k]}
  BY SMTT(40), <1>1, <1>2, <1>6, RemoveWithMarkers DEF Inv
<1>8. PendingIndexed'
  <2>1. \A h \in waiting_queue : requires'[h] = requires[h]
    BY ZenonT(40), <1>2, <1>3, <1>4 DEF PendingType, Inv, OnePlace
  <2> QED
    BY ZenonT(40), <1>1, <2>1 DEF Inv, PendingIndexed, pendingVars
<1>9. TypeOK'
  BY Zenon, <1>1, <1>2, <1>4, <1>7 DEF TypeOK, PendingType, ReadyType, CallType, pendingVars
<1>10. OnePlace'
  BY SMTT(40), <1>1, <1>5 DEF Inv, OnePlace, InFlight
<1>11. NoStuckPending'
  BY <1>1, <1>2, <1>7 DEF Inv, NoStuckPending, pendingVars, PendingType
<1>12. NoCycle' /\ CallState' /\ QueueAhead'
  BY <1>1 DEF Inv, NoCycle, CallState, QueueAhead
<1> QED
  BY ZenonT(40), <1>4, <1>7, <1>8, <1>9, <1>10, <1>11, <1>12 DEF Inv

\* clear.
LEMMA ClearInv ==
  ASSUME Inv, Clear
  PROVE  Inv'
<1>1. UNCHANGED <<op, new_tx, tx_queue, promoted, removed, markers, imports, notify>>
  BY DEF Clear, addVars, pruneVars
<1>2. TypeOK'
  BY <1>1 DEF Clear, Inv, TypeOK, NoUnlocks
<1>3. OnePlace' /\ NoCycle' /\ CallState' /\ QueueAhead'
  BY <1>1 DEF Clear, Inv, OnePlace, InFlight, NoCycle, CallState, QueueAhead
<1>4. PendingIndexed' /\ MarkersProvided' /\ NoStuckPending' /\ ReadyLinked'
  BY DEF Clear, PendingIndexed, MarkersProvided, NoStuckPending, ReadyLinked
<1>5. RequiresPrevious'
  BY SMTT(40) DEF Clear, RequiresPrevious, PossibleRequires
<1> QED
  BY <1>2, <1>3, <1>4, <1>5 DEF Inv

\* Every step of the pool keeps the invariant.
LEMMA NextInv == Inv /\ [Next]_poolVars => Inv'
<1> SUFFICES ASSUME Inv, [Next]_poolVars PROVE Inv'
  OBVIOUS
<1>1. CASE \E t \in Tx : \E req \in PossibleRequires(t) : AddPending(t, req) \/ AddReady(t, req)
  BY <1>1, AddPendingInv, AddReadyInv
<1>2. CASE LockedStep
  BY <1>2, QueueAddedInv, QueueDiscardedInv, QueueRejectedInv, PruneMarkerInv, ControlInv
  DEF LockedStep
<1>3. CASE \E ms \in BlockMarkers : PruneMarkers(ms)
  BY <1>3, ControlInv
<1>4. CASE \E t \in Tx : NotifyListener(t)
  BY <1>4, ControlInv
<1>5. CASE \E hashes \in SUBSET Tx : RemoveInvalid(hashes)
  BY <1>5, RemoveInvalidInv
<1>6. CASE \E sender \in {t.from : t \in Tx} : RemoveTransactionsByAddress(sender)
  <2>1. PICK sender : RemoveInvalid(transactions_by_sender(sender))
    BY <1>6 DEF RemoveTransactionsByAddress
  <2>2. transactions_by_sender(sender) \in SUBSET Tx
    BY DEF Inv, TypeOK, transactions_by_sender, Yielded
  <2> QED
    BY <2>1, <2>2, RemoveInvalidInv
<1>7. CASE \E t \in Tx : DropTransaction(t)
  BY <1>7, DropTransactionInv
<1>8. CASE Clear
  BY <1>8, ClearInv
<1>9. CASE UNCHANGED poolVars
  BY <1>9, ControlInv
<1> QED
  BY ZenonT(40), <1>1, <1>2, <1>3, <1>4, <1>5, <1>6, <1>7, <1>8, <1>9 DEF Next

\* The invariant holds in every reachable state of the pool.
THEOREM PoolInvariant == Spec => []Inv
<1>1. Init => Inv
  BY InitInv
<1>2. Inv /\ [Next]_poolVars => Inv'
  BY NextInv
<1> QED
  BY <1>1, <1>2, PTL DEF Spec

-----------------------------------------------------------------------------
(* What follows from the invariant *)

\* A non-empty set of transactions has one with the least nonce.
LEMMA LeastNonce ==
  ASSUME NEW S \in SUBSET Tx, S # {}
  PROVE  \E t \in S : \A u \in S : t.nonce <= u.nonce
<1> DEFINE Below(t) == {u \in S : u.nonce < t.nonce}
           T == {Below(t) : t \in S}
<1>1. IsWellFoundedOn(StrictSubsetOrdering(Tx), SUBSET Tx)
  BY Zenon, TxAssumption, FS_FiniteSubsetsOfFinite, FS_StrictSubsetOrderingWellFounded
<1>2. T \subseteq SUBSET Tx /\ T # {}
  BY Zenon
<1>3. PICK B \in T : \A C \in T : ~(<<C, B>> \in StrictSubsetOrdering(Tx))
  <2> HIDE DEF T
  <2> QED
    BY <1>1, <1>2, WFMin
<1>4. PICK t \in S : B = Below(t)
  OBVIOUS
<1>5. ASSUME NEW u \in S, ~(t.nonce <= u.nonce) PROVE FALSE
  <2>1. t.nonce \in Nat /\ u.nonce \in Nat /\ u.nonce < t.nonce
    BY <1>5, TxAssumption
  <2>2. Below(u) \subseteq Below(t)
    BY <2>1, TxAssumption
  <2>3. u \in Below(t) /\ u \notin Below(u)
    BY <2>1
  <2>4. <<Below(u), Below(t)>> \in StrictSubsetOrdering(Tx)
    BY <2>2, <2>3 DEF StrictSubsetOrdering
  <2> QED
    BY <1>3, <1>4, <2>4
<1> QED
  BY <1>5

\* The links of ReadyLinked lead the iterator to every ready transaction: a
\* transaction it missed with the least nonce would have a provider it missed.
LEMMA LinkedYielded == Inv => AllReadyYielded
<1> SUFFICES ASSUME Inv,
                    NEW S \in SUBSET ready_tx,
                    independent \cap ready_tx \subseteq S,
                    \A p \in S, u \in ready_tx : unlocks[p][u] > 0 => u \in S
             PROVE  ready_tx \subseteq S
  BY DEF AllReadyYielded, Yielded
<1> SUFFICES ASSUME ready_tx \ S # {} PROVE FALSE
  OBVIOUS
<1>1. ready_tx \ S \in SUBSET Tx
  BY DEF Inv, TypeOK
<1>2. PICK t \in ready_tx \ S : \A u \in ready_tx \ S : t.nonce <= u.nonce
  BY ZenonT(40), <1>1, LeastNonce
<1>3. t \in Tx /\ t \in ready_tx \ independent
  BY <1>1, <1>2
<1>4. PICK m \in requires[t] : provided_markers[m] # NoTx /\ unlocks[provided_markers[m]][t] > 0
  BY <1>3 DEF Inv, ReadyLinked
<1> DEFINE p == provided_markers[m]
<1>5. m \in Marker /\ (\A u \in Tx : provides(u) = m => t.nonce = u.nonce + 1)
  BY <1>3, <1>4, RequiredMarker DEF Inv, RequiresPrevious
<1>6. p \in ready_tx /\ p \in Tx /\ t.nonce = p.nonce + 1
  BY SMTT(40), <1>4, <1>5 DEF Inv, MarkersProvided, TypeOK
<1>7. p \in S
  BY <1>2, <1>3, <1>6, TxAssumption
<1> QED
  BY <1>2, <1>4, <1>7

\* Type correctness of the pool.
THEOREM PoolTypeOK == Spec => []TypeOK
<1>1. Inv => TypeOK
  BY DEF Inv
<1> QED
  BY <1>1, PoolInvariant, PTL

\* Every index of the pool is exact at every step, so no `expect` and no assertion
\* of pool/transactions.rs can fail, and a transaction waits only for what no ready
\* transaction provides.
THEOREM PoolConsistent ==
  Spec => [](OnePlace /\ PendingIndexed /\ MarkersProvided /\ NoStuckPending /\ NoCycle)
<1>1. Inv => OnePlace /\ PendingIndexed /\ MarkersProvided /\ NoStuckPending /\ NoCycle
  BY DEF Inv
<1> QED
  BY <1>1, PoolInvariant, PTL

\* The iterator over the ready queue yields every ready transaction, after any
\* history of replacements, prunings, drops and re-submissions.
THEOREM IteratorComplete == Spec => []AllReadyYielded
  BY LinkedYielded, PoolInvariant, PTL

=============================================================================
