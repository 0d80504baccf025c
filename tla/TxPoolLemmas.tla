---------------------------- MODULE TxPoolLemmas ----------------------------
(***************************************************************************)
(* What the operators of module TxPool return and preserve: markers, the work *)
(* lists, the pending queue and the ready queue.                           *)
(***************************************************************************)
EXTENDS TxPool, FiniteSetTheorems, SequenceTheorems, WellFoundedInduction, TLAPS

-----------------------------------------------------------------------------
(* Markers and sequences *)

\* to_marker gives one marker per sender and nonce.
LEMMA ProvidesMarker ==
  ASSUME NEW t \in Tx
  PROVE  /\ provides(t) \in Marker
         /\ \A u \in Tx : provides(u) = provides(t) <=> u.from = t.from /\ u.nonce = t.nonce
  BY DEF provides, to_marker, Marker

\* What required_marker returns is empty or holds the marker just before the
\* transaction's own.
LEMMA RequiredMarker ==
  ASSUME NEW t \in Tx, NEW req \in PossibleRequires(t)
  PROVE  /\ req \in SUBSET Marker
         /\ \A m \in req : /\ req = {m}
                           /\ m # provides(t)
                           /\ \A u \in Tx : provides(u) = m =>
                                u.from = t.from /\ t.nonce = u.nonce + 1
<1>1. req \in SUBSET Marker
  BY DEF PossibleRequires, Marker
<1>2. ASSUME NEW m \in req
      PROVE  /\ req = {m}
             /\ m = <<t.from, t.nonce - 1>>
             /\ t.nonce \in Nat \ {0}
  BY TxAssumption DEF PossibleRequires, to_marker
<1>3. ASSUME NEW m \in req
      PROVE  /\ m # provides(t)
             /\ \A u \in Tx : provides(u) = m => u.from = t.from /\ t.nonce = u.nonce + 1
  BY <1>2, TxAssumption DEF provides, to_marker
<1> QED
  BY <1>1, <1>2, <1>3

\* The hashes of a set in some order: each of them, once.
LEMMA VisitOrder ==
  ASSUME NEW S \in SUBSET Tx, NEW s \in SetToSeqs(S)
  PROVE  /\ s \in Seq(Tx)
         /\ Range(s) = S
         /\ \A i, j \in DOMAIN s : i # j => s[i] # s[j]
<1>1. IsFiniteSet(S) /\ Cardinality(S) \in Nat
  BY FS_Subset, FS_CardinalityType, TxAssumption
<1>2. /\ s \in [1..Cardinality(S) -> S]
      /\ \A i, j \in 1..Cardinality(S) : i # j => s[i] # s[j]
  BY DEF SetToSeqs
<1>3. s \in Seq(Tx)
  BY <1>1, <1>2
<1>4. /\ IsFiniteSet(1..Cardinality(S))
      /\ Cardinality(1..Cardinality(S)) = Cardinality(S)
  BY <1>1, FS_Interval
<1>5. s \in Injection(1..Cardinality(S), S)
  BY <1>2 DEF Injection, IsInjective
<1>6. s \in Surjection(1..Cardinality(S), S)
  BY <1>1, <1>4, <1>5, FS_Injection
<1>7. Range(s) = S
  BY <1>2, <1>6 DEF Surjection, Range
<1> QED
  BY <1>2, <1>3, <1>7

\* Taking the head off a queue without duplicates.
LEMMA TakeHead ==
  ASSUME NEW q \in Seq(Tx), q # <<>>,
         \A i, j \in DOMAIN q : i # j => q[i] # q[j]
  PROVE  /\ Head(q) \in Tx
         /\ Head(q) = q[1]
         /\ 1 \in DOMAIN q
         /\ Tail(q) \in Seq(Tx)
         /\ Range(q) = {Head(q)} \cup Range(Tail(q))
         /\ Head(q) \notin Range(Tail(q))
         /\ \A i, j \in DOMAIN Tail(q) : i # j => Tail(q)[i] # Tail(q)[j]
<1>1. /\ Len(q) \in Nat \ {0} /\ DOMAIN q = 1..Len(q)
      /\ Head(q) \in Tx /\ Head(q) = q[1]
      /\ Tail(q) \in Seq(Tx) /\ Len(Tail(q)) = Len(q) - 1
      /\ DOMAIN Tail(q) = 1..(Len(q) - 1)
      /\ \A i \in 1..(Len(q) - 1) : Tail(q)[i] = q[i + 1]
  OBVIOUS
<1>2. Range(q) = {Head(q)} \cup Range(Tail(q))
  <2>1. ASSUME NEW x \in Range(q) PROVE x \in {Head(q)} \cup Range(Tail(q))
    <3>1. PICK i \in 1..Len(q) : x = q[i]
      BY <1>1 DEF Range
    <3>2. CASE i = 1
      BY <1>1, <3>1, <3>2
    <3>3. CASE i # 1
      <4>1. i - 1 \in 1..(Len(q) - 1) /\ (i - 1) + 1 = i
        BY <1>1, <3>1, <3>3
      <4>2. Tail(q)[i - 1] = x
        BY <1>1, <3>1, <4>1
      <4> QED
        BY Zenon, <1>1, <4>1, <4>2 DEF Range
    <3> QED
      BY <3>2, <3>3
  <2>2. ASSUME NEW x \in {Head(q)} \cup Range(Tail(q)) PROVE x \in Range(q)
    BY <1>1 DEF Range
  <2> QED
    BY <2>1, <2>2
<1>3. Head(q) \notin Range(Tail(q))
  BY <1>1 DEF Range
<1>4. \A i, j \in DOMAIN Tail(q) : i # j => Tail(q)[i] # Tail(q)[j]
  BY <1>1
<1> QED
  BY <1>1, <1>2, <1>3, <1>4

\* Appending to a queue what is not in it.
LEMMA AppendNew ==
  ASSUME NEW q \in Seq(Tx), NEW s \in Seq(Tx),
         \A i, j \in DOMAIN q : i # j => q[i] # q[j],
         \A i, j \in DOMAIN s : i # j => s[i] # s[j],
         Range(q) \cap Range(s) = {}
  PROVE  /\ q \o s \in Seq(Tx)
         /\ Range(q \o s) = Range(q) \cup Range(s)
         /\ \A i, j \in DOMAIN (q \o s) : i # j => (q \o s)[i] # (q \o s)[j]
<1> DEFINE c == q \o s
<1>1. /\ Len(q) \in Nat /\ DOMAIN q = 1..Len(q)
      /\ Len(s) \in Nat /\ DOMAIN s = 1..Len(s)
      /\ c \in Seq(Tx) /\ Len(c) = Len(q) + Len(s) /\ DOMAIN c = 1..(Len(q) + Len(s))
      /\ \A i \in 1..(Len(q) + Len(s)) :
           c[i] = IF i <= Len(q) THEN q[i] ELSE s[i - Len(q)]
  OBVIOUS
<1>2. ASSUME NEW i \in DOMAIN c
      PROVE  \/ i \in DOMAIN q /\ c[i] = q[i] /\ c[i] \in Range(q)
             \/ i > Len(q) /\ i - Len(q) \in DOMAIN s /\ c[i] = s[i - Len(q)] /\ c[i] \in Range(s)
  BY <1>1 DEF Range
<1>3. ASSUME NEW i \in DOMAIN c, NEW j \in DOMAIN c, i # j PROVE c[i] # c[j]
  <2>1. i \in Nat /\ j \in Nat /\ (i - Len(q) = j - Len(q) => i = j)
    BY <1>1
  <2> QED
    BY <1>1, <1>2, <1>3, <2>1
<1>4. ASSUME NEW i \in DOMAIN q PROVE q[i] \in Range(c)
  <2>1. i \in DOMAIN c /\ c[i] = q[i]
    BY <1>1
  <2> QED
    BY <2>1 DEF Range
<1>5. ASSUME NEW i \in DOMAIN s PROVE s[i] \in Range(c)
  <2>1. i + Len(q) \in DOMAIN c /\ ~(i + Len(q) <= Len(q)) /\ (i + Len(q)) - Len(q) = i
    BY <1>1
  <2>2. c[i + Len(q)] = s[i]
    BY <1>1, <2>1
  <2> QED
    BY <2>1, <2>2 DEF Range
<1>6. Range(c) = Range(q) \cup Range(s)
  <2>1. Range(c) \subseteq Range(q) \cup Range(s)
    BY <1>2 DEF Range
  <2> QED
    BY ZenonT(40), <2>1, <1>4, <1>5 DEF Range
<1> QED
  BY <1>1, <1>3, <1>6

-----------------------------------------------------------------------------
(* PendingTransactions *)

PendingType ==
  /\ required_markers \in [Marker -> SUBSET Tx]
  /\ waiting_markers \in [Marker -> Tx \cup {NoTx}]
  /\ waiting_queue \in SUBSET Tx
  /\ missing_markers \in [Tx -> SUBSET Marker]

\* What is unlocked was waiting, and is one nonce ahead of the marker's provider.
LEMMA UnlockedWaiting ==
  ASSUME PendingType, PendingIndexed, RequiresPrevious, NEW m \in Marker
  PROVE  /\ Unlocked(m) \in SUBSET waiting_queue
         /\ \A t \in Tx : provides(t) = m =>
              \A h \in Unlocked(m) : h.from = t.from /\ h.nonce = t.nonce + 1
<1>1. Unlocked(m) \in SUBSET waiting_queue
  BY DEF PendingType, PendingIndexed, Unlocked
<1>2. ASSUME NEW t \in Tx, provides(t) = m, NEW h \in Unlocked(m)
      PROVE  h.from = t.from /\ h.nonce = t.nonce + 1
  <2>1. h \in Tx /\ m \in requires[h] /\ requires[h] \in PossibleRequires(h)
    BY DEF PendingType, PendingIndexed, RequiresPrevious, Unlocked
  <2> QED
    BY <1>2, <2>1, RequiredMarker
<1> QED
  BY <1>1, <1>2

\* mark_and_unlock keeps the index exact and leaves nobody waiting for the marker.
LEMMA MarkAndUnlock ==
  ASSUME PendingType, PendingIndexed, NEW m \in Marker, mark_and_unlock(m),
         \A h \in waiting_queue' : requires'[h] = requires[h]
  PROVE  /\ PendingType'
         /\ PendingIndexed'
         /\ waiting_queue' = waiting_queue \ Unlocked(m)
         /\ \A h \in waiting_queue' : missing_markers'[h] = missing_markers[h] \ {m}
<1>1. PendingType'
  BY DEF PendingType, mark_and_unlock
<1>2. waiting_queue' = waiting_queue \ Unlocked(m)
  BY DEF mark_and_unlock
<1>3. ASSUME NEW h \in Tx
      PROVE  missing_markers'[h] = IF h \in required_markers[m]
                                   THEN missing_markers[h] \ {m} ELSE missing_markers[h]
  BY DEF mark_and_unlock
<1>4. ASSUME NEW h \in waiting_queue' PROVE missing_markers'[h] = missing_markers[h] \ {m}
  BY Zenon, <1>2, <1>3 DEF PendingType, PendingIndexed
<1>5. ASSUME NEW k \in Marker, NEW h \in Tx
      PROVE  h \in required_markers'[k] <=> h \in waiting_queue' /\ k \in missing_markers'[h]
  <2>1. required_markers'[k] = IF k = m THEN {} ELSE required_markers[k]
    BY DEF mark_and_unlock, PendingType
  <2>2. CASE k = m
    BY <1>4, <2>1, <2>2
  <2>3. CASE k # m
    BY <1>2, <1>4, <2>1, <2>3 DEF PendingIndexed, Unlocked
  <2> QED
    BY <2>2, <2>3
<1>6. ASSUME NEW h \in waiting_queue'
      PROVE  missing_markers'[h] # {} /\ missing_markers'[h] \subseteq requires'[h]
  <2>1. h \in waiting_queue /\ h \in Tx /\ h \notin Unlocked(m)
    BY <1>2 DEF PendingType
  <2>2. missing_markers[h] # {} /\ missing_markers[h] \subseteq requires'[h]
    BY <2>1 DEF PendingIndexed
  <2>3. missing_markers[h] \ {m} # {}
    BY <2>1, <2>2 DEF PendingIndexed, Unlocked
  <2> QED
    BY <1>4, <2>2, <2>3
<1> QED
  BY <1>1, <1>2, <1>4, <1>5, <1>6 DEF PendingIndexed

\* PendingTransactions::remove keeps the index exact.
LEMMA PendingRemove ==
  ASSUME PendingType, PendingIndexed, NEW hashes \in SUBSET Tx, pending_remove(hashes),
         \A h \in waiting_queue' : requires'[h] = requires[h]
  PROVE  /\ PendingType'
         /\ PendingIndexed'
         /\ waiting_queue' = waiting_queue \ hashes
         /\ \A h \in waiting_queue' : missing_markers'[h] = missing_markers[h]
<1>1. PendingType'
  BY DEF PendingType, pending_remove
<1>2. waiting_queue' = waiting_queue \ hashes
  BY DEF pending_remove
<1>3. ASSUME NEW h \in waiting_queue' PROVE missing_markers'[h] = missing_markers[h]
  BY <1>2 DEF PendingType, pending_remove
<1>4. ASSUME NEW k \in Marker, NEW h \in Tx
      PROVE  h \in required_markers'[k] <=> h \in waiting_queue' /\ k \in missing_markers'[h]
  <2>1. h \in required_markers'[k] <=>
          h \in required_markers[k] /\ ~(h \in hashes /\ h \in waiting_queue /\ k \in missing_markers[h])
    BY DEF pending_remove, PendingType
  <2> QED
    BY <1>2, <1>3, <2>1 DEF PendingIndexed
<1> QED
  BY <1>1, <1>2, <1>3, <1>4 DEF PendingIndexed

-----------------------------------------------------------------------------
(* ReadyTransactions *)

ReadyType ==
  /\ id \in Nat
  /\ provided_markers \in [Marker -> Tx \cup {NoTx}]
  /\ ready_tx \in SUBSET Tx
  /\ unlocks \in [Tx -> [Tx -> Nat]]
  /\ requires_offset \in [Tx -> Nat]
  /\ ref_id \in [Tx -> Nat]
  /\ independent \in SUBSET Tx

\* A ready queue that lost `gone` and the markers it provided.
Without(gone) ==
  /\ ready_tx' = ready_tx \ gone
  /\ \A m \in Marker : provided_markers'[m] =
       IF provided_markers[m] \in gone THEN NoTx ELSE provided_markers[m]

\* The markers stay exact when the transactions go with the markers they provide.
LEMMA WithoutMarkers ==
  ASSUME ReadyType, MarkersProvided, NEW gone \in SUBSET ready_tx, Without(gone)
  PROVE  MarkersProvided'
<1>1. ASSUME NEW m \in Marker, provided_markers'[m] # NoTx
      PROVE  provided_markers'[m] \in ready_tx' /\ provides(provided_markers'[m]) = m
  BY <1>1 DEF Without, MarkersProvided, ReadyType
<1>2. ASSUME NEW t \in ready_tx' PROVE provided_markers'[provides(t)] = t
  BY ProvidesMarker DEF Without, MarkersProvided, ReadyType
<1> QED
  BY <1>1, <1>2 DEF MarkersProvided

\* remove_with_markers takes whatever an element it takes unlocks.
LEMMA DependentsClosed ==
  ASSUME NEW hashes \in SUBSET Tx
  PROVE  /\ Dependents(hashes) \in SUBSET ready_tx
         /\ hashes \cap ready_tx \subseteq Dependents(hashes)
         /\ \A p \in Dependents(hashes), u \in ready_tx :
              unlocks[p][u] > 0 => u \in Dependents(hashes)
<1> DEFINE Closed(S) == /\ hashes \cap ready_tx \subseteq S
                        /\ \A p \in S, u \in ready_tx : unlocks[p][u] > 0 => u \in S
<1>1. \A t : t \in Dependents(hashes) <=>
               t \in ready_tx /\ \A S \in SUBSET ready_tx : Closed(S) => t \in S
  BY DEF Dependents
<1> HIDE DEF Closed
<1>2. ASSUME NEW p \in Dependents(hashes), NEW u \in ready_tx, unlocks[p][u] > 0
      PROVE  u \in Dependents(hashes)
  <2>1. ASSUME NEW S \in SUBSET ready_tx, Closed(S) PROVE u \in S
    BY <1>1, <1>2, <2>1 DEF Closed
  <2> QED
    BY <1>1, <2>1
<1>3. hashes \cap ready_tx \subseteq Dependents(hashes)
  <2>1. ASSUME NEW S \in SUBSET ready_tx, Closed(S) PROVE hashes \cap ready_tx \subseteq S
    BY <2>1 DEF Closed
  <2> QED
    BY <1>1, <2>1
<1> QED
  BY <1>1, <1>2, <1>3

\* remove_with_markers keeps the markers exact and nobody it leaves depended on
\* what it took.
LEMMA RemoveWithMarkers ==
  ASSUME ReadyType, MarkersProvided, ReadyLinked, RequiresPrevious,
         NEW hashes \in SUBSET Tx, remove_with_markers(hashes),
         \A t \in ready_tx' : requires'[t] = requires[t]
  PROVE  /\ ReadyType'
         /\ MarkersProvided'
         /\ ReadyLinked'
         /\ ready_tx' \in SUBSET ready_tx
         /\ \A m \in Marker : provided_markers'[m] \in {NoTx, provided_markers[m]}
<1> DEFINE gone == Dependents(hashes)
<1>1. /\ gone \in SUBSET ready_tx
      /\ \A p \in gone, u \in ready_tx : unlocks[p][u] > 0 => u \in gone
  BY DependentsClosed
<1>2. /\ ready_tx' = ready_tx \ gone
      /\ provided_markers' = [m \in Marker |-> IF \E t \in gone : provides(t) = m
                                               THEN NoTx ELSE provided_markers[m]]
      /\ independent' = independent \ gone
      /\ unlocks' = [t \in Tx |-> IF t \in gone THEN NoUnlocks ELSE unlocks[t]]
      /\ requires_offset' = [t \in Tx |-> IF t \in gone THEN 0 ELSE requires_offset[t]]
      /\ ref_id' = [t \in Tx |-> IF t \in gone THEN 0 ELSE ref_id[t]]
      /\ id' = id
  BY DEF remove_with_markers
<1> HIDE DEF gone
<1>3. ReadyType'
  BY <1>2 DEF ReadyType, NoUnlocks
<1>4. Without(gone)
  <2>1. ASSUME NEW m \in Marker
        PROVE  (\E t \in gone : provides(t) = m) <=> provided_markers[m] \in gone
    BY <1>1, TxAssumption DEF ReadyType, MarkersProvided
  <2> QED
    BY <1>2, <2>1 DEF Without
<1>5. MarkersProvided'
  BY <1>1, <1>4, WithoutMarkers
<1>6. ASSUME NEW t \in ready_tx' \ independent'
      PROVE  /\ requires_offset'[t] = 0
             /\ \E m \in requires'[t] : /\ provided_markers'[m] # NoTx
                                        /\ unlocks'[provided_markers'[m]][t] > 0
  <2>1. t \in ready_tx \ independent /\ t \in Tx /\ t \notin gone
    BY <1>2 DEF ReadyType
  <2>2. PICK m \in requires[t] : provided_markers[m] # NoTx /\ unlocks[provided_markers[m]][t] > 0
    BY <2>1 DEF ReadyLinked
  <2>3. m \in Marker
    BY <2>1, <2>2, RequiredMarker DEF RequiresPrevious
  <2>4. provided_markers[m] \in ready_tx /\ provided_markers[m] \notin gone
    BY <1>1, <2>1, <2>2, <2>3 DEF MarkersProvided
  <2>5. provided_markers'[m] = provided_markers[m]
    BY <1>4, <2>3, <2>4 DEF Without
  <2>6. unlocks'[provided_markers[m]] = unlocks[provided_markers[m]]
    BY <1>2, <2>4 DEF ReadyType
  <2>7. requires_offset'[t] = 0
    BY <1>2, <2>1 DEF ReadyLinked
  <2> QED
    BY <2>2, <2>5, <2>6, <2>7
<1> QED
  BY Zenon, <1>2, <1>3, <1>4, <1>5, <1>6 DEF ReadyLinked, Without

\* S holds the provider of m and is closed under "provider of a required marker
\* that unlocks nothing else".
ClosedBack(S, m) ==
  /\ \A u \in ready_tx : provided_markers[m] = u => u \in S
  /\ \A u \in S : \A k \in requires[u] : \A p \in ready_tx :
       (provided_markers[k] = p /\ OnlyUnlocks(p, u)) => p \in S

\* The set prune_tags removes has these closure properties and is the least such.
LEMMA PrunedClosed ==
  ASSUME NEW m \in Marker
  PROVE  /\ Pruned(m) \in SUBSET ready_tx
         /\ ClosedBack(Pruned(m), m)
         /\ \A S \in SUBSET ready_tx : ClosedBack(S, m) => Pruned(m) \subseteq S
<1>1. \A t : t \in Pruned(m) <=>
               t \in ready_tx /\ \A S \in SUBSET ready_tx : ClosedBack(S, m) => t \in S
  BY DEF Pruned, ClosedBack
<1>2. ASSUME NEW u \in ready_tx, provided_markers[m] = u PROVE u \in Pruned(m)
  <2>1. ASSUME NEW S \in SUBSET ready_tx, ClosedBack(S, m) PROVE u \in S
    BY <1>2, <2>1 DEF ClosedBack
  <2> QED
    BY <1>1, <2>1
<1>3. ASSUME NEW u \in Pruned(m), NEW k \in requires[u], NEW p \in ready_tx,
             provided_markers[k] = p, OnlyUnlocks(p, u)
      PROVE  p \in Pruned(m)
  <2>1. ASSUME NEW S \in SUBSET ready_tx, ClosedBack(S, m) PROVE p \in S
    BY <1>1, <1>3, <2>1 DEF ClosedBack
  <2> QED
    BY <1>1, <2>1
<1>4. ClosedBack(Pruned(m), m)
  BY <1>2, <1>3 DEF ClosedBack
<1> QED
  BY <1>1, <1>4

\* A pruned transaction that still unlocks one that stays is the marker's provider.
LEMMA PrunedProvider ==
  ASSUME ReadyType, NEW m \in Marker,
         NEW p \in Pruned(m), NEW t \in ready_tx \ Pruned(m), unlocks[p][t] > 0
  PROVE  provided_markers[m] = p
<1> SUFFICES ASSUME provided_markers[m] # p PROVE FALSE
  OBVIOUS
<1> DEFINE S == Pruned(m) \ {p}
<1>1. Pruned(m) \in SUBSET ready_tx /\ ClosedBack(Pruned(m), m)
  BY PrunedClosed
<1>2. ASSUME NEW u \in S, OnlyUnlocks(p, u) PROVE FALSE
  <2>1. t \in Tx /\ unlocks[p][t] # 0
    BY DEF ReadyType
  <2>2. t = u
    BY <1>2, <2>1 DEF OnlyUnlocks
  <2> QED
    BY <2>2
<1>3. ClosedBack(S, m)
  BY <1>1, <1>2 DEF ClosedBack
<1>4. S \in SUBSET ready_tx
  BY <1>1
<1>5. Pruned(m) \subseteq S
  BY SMTT(40), <1>3, <1>4, PrunedClosed
<1> QED
  BY <1>5

\* prune_tags keeps the markers exact; whatever waited for the pruned provider is
\* independent afterwards.
LEMMA PruneTags ==
  ASSUME ReadyType, MarkersProvided, ReadyLinked, RequiresPrevious,
         NEW m \in Marker, prune_tags(m),
         \A t \in ready_tx' : requires'[t] = requires[t]
  PROVE  /\ ReadyType'
         /\ MarkersProvided'
         /\ ReadyLinked'
         /\ ready_tx' = ready_tx \ Pruned(m)
         /\ provided_markers'[m] = NoTx
         /\ \A k \in Marker : provided_markers'[k] \in {NoTx, provided_markers[k]}
<1> DEFINE gone == Pruned(m)
           hits(u) == IF provided_markers[m] \in ready_tx
                      THEN unlocks[provided_markers[m]][u] ELSE 0
           lost(p) == {u \in gone : \E k \in requires[u] : provided_markers[k] = p}
           left == ready_tx \ gone
<1>1. gone \in SUBSET ready_tx /\ ClosedBack(gone, m)
  BY PrunedClosed
<1>2. /\ ready_tx' = left
      /\ provided_markers' = [k \in Marker |-> IF k = m \/ \E t \in gone : provides(t) = k
                                               THEN NoTx ELSE provided_markers[k]]
      /\ unlocks' = [p \in Tx |->
            IF p \in gone THEN NoUnlocks
            ELSE [u \in Tx |-> IF u \in lost(p) /\ unlocks[p][u] > 0
                               THEN unlocks[p][u] - 1 ELSE unlocks[p][u]]]
      /\ requires_offset' = [u \in Tx |->
            IF u \in gone THEN 0
            ELSE IF u \in left THEN requires_offset[u] + hits(u)
            ELSE requires_offset[u]]
      /\ independent' = (independent \ gone) \cup
            {u \in left : /\ requires_offset[u] < Cardinality(requires[u])
                          /\ Cardinality(requires[u]) <= requires_offset[u] + hits(u)}
      /\ ref_id' = [u \in Tx |-> IF u \in gone THEN 0 ELSE ref_id[u]]
      /\ id' = id
  BY DEF prune_tags, Satisfied
<1>3. \A u \in Tx : hits(u) \in Nat
  BY DEF ReadyType
<1> HIDE DEF gone, hits, lost
<1>4. ReadyType'
  <2>1. unlocks' \in [Tx -> [Tx -> Nat]]
    BY <1>2 DEF ReadyType, NoUnlocks
  <2>2. requires_offset' \in [Tx -> Nat]
    BY <1>2, <1>3 DEF ReadyType
  <2> QED
    BY <1>2, <2>1, <2>2 DEF ReadyType
<1>5. Without(gone)
  <2>1. ASSUME NEW k \in Marker
        PROVE  (\E t \in gone : provides(t) = k) <=> provided_markers[k] \in gone
    BY <1>1, TxAssumption DEF ReadyType, MarkersProvided
  <2>2. provided_markers[m] # NoTx => provided_markers[m] \in gone
    BY <1>1 DEF ClosedBack, MarkersProvided
  <2> QED
    BY <1>2, <2>1, <2>2 DEF Without
<1>6. MarkersProvided'
  BY SMTT(40), <1>1, <1>5, WithoutMarkers
<1>7. ASSUME NEW t \in ready_tx' \ independent'
      PROVE  /\ requires_offset'[t] = 0
             /\ \E k \in requires'[t] : /\ provided_markers'[k] # NoTx
                                        /\ unlocks'[provided_markers'[k]][t] > 0
  <2>1. t \in ready_tx \ independent /\ t \in Tx /\ t \notin gone /\ t \in left
    BY <1>2 DEF ReadyType
  <2>2. PICK k \in requires[t] : provided_markers[k] # NoTx /\ unlocks[provided_markers[k]][t] > 0
    BY <2>1 DEF ReadyLinked
  <2> DEFINE p == provided_markers[k]
  <2>3. k \in Marker /\ requires[t] = {k}
    BY <2>1, <2>2, RequiredMarker DEF RequiresPrevious
  <2>4. Cardinality(requires[t]) = 1
    BY Zenon, <2>3, FS_Singleton
  <2>5. p \in ready_tx /\ p \in Tx
    BY <2>2, <2>3 DEF MarkersProvided, ReadyType
  <2>6. requires_offset[t] = 0 /\ hits(t) = 0
    <3>1. requires_offset[t] = 0
      BY <2>1 DEF ReadyLinked
    <3>2. ~(Cardinality(requires[t]) <= requires_offset[t] + hits(t))
      BY <1>2, <2>1, <2>4, <3>1
    <3> QED
      BY <1>3, <2>1, <2>4, <3>1, <3>2
  <2>7. p \notin gone
    <3>1. ASSUME p \in gone PROVE FALSE
      <4>1. provided_markers[m] = p
        BY <2>1, <2>2, <3>1, PrunedProvider DEF gone
      <4> QED
        BY <2>2, <2>5, <2>6, <4>1 DEF hits
    <3> QED
      BY <3>1
  <2>8. provided_markers'[k] = p
    BY <1>5, <2>3, <2>7 DEF Without
  <2>9. unlocks'[p][t] = unlocks[p][t]
    BY <1>2, <2>1, <2>5, <2>7 DEF lost
  <2>10. requires_offset'[t] = 0
    BY <1>2, <2>1, <2>6
  <2> QED
    BY Zenon, <2>2, <2>3, <2>8, <2>9, <2>10, <1>2
<1> QED
  BY ZenonT(40), <1>2, <1>4, <1>5, <1>6, <1>7 DEF ReadyLinked, Without, gone

\* ReadyTransactions::add_transaction keeps the markers exact, and the transactions
\* that depended on the replaced one now depend on its replacement.
LEMMA ReadyAdd ==
  ASSUME ReadyType, MarkersProvided, ReadyLinked, RequiresPrevious,
         NEW t \in Tx, t \notin ready_tx, ready_add(t),
         \A u \in ready_tx' : requires'[u] = requires[u]
  PROVE  /\ ReadyType'
         /\ MarkersProvided'
         /\ ReadyLinked'
         /\ ready_tx' = (ready_tx \ Replaced(t)) \cup {t}
         /\ \A k \in Marker : provided_markers'[k] =
              IF k = provides(t) THEN t ELSE provided_markers[k]
<1> DEFINE old       == Replaced(t)
           inherited == IF old = {} THEN NoUnlocks ELSE unlocks[provided_markers[provides(t)]]
           linked    == {m \in requires[t] : provided_markers[m] # NoTx}
           providers == {provided_markers[m] : m \in linked}
<1>1. /\ id' = id + 1
      /\ ready_tx' = (ready_tx \ old) \cup {t}
      /\ provided_markers' = [provided_markers EXCEPT ![provides(t)] = t]
      /\ unlocks' = [p \in Tx |->
            IF p = t THEN inherited
            ELSE IF p \in old THEN NoUnlocks
            ELSE IF p \in providers THEN [unlocks[p] EXCEPT ![t] = @ + 1]
            ELSE unlocks[p]]
      /\ requires_offset' = [u \in Tx |->
            IF u = t THEN Cardinality(requires[t] \ linked)
            ELSE IF u \in old THEN 0 ELSE requires_offset[u]]
      /\ ref_id' = [u \in Tx |-> IF u = t THEN id ELSE IF u \in old THEN 0 ELSE ref_id[u]]
      /\ independent' = (independent \ old) \cup (IF linked = {} THEN {t} ELSE {})
  BY DEF ready_add, Inherited
<1>2. provides(t) \in Marker /\ requires[t] \in PossibleRequires(t) /\ requires[t] \in SUBSET Marker
  BY ProvidesMarker, RequiredMarker DEF RequiresPrevious
<1>3. old = {u \in ready_tx : provides(u) = provides(t)}
  BY <1>2, TxAssumption DEF Replaced, MarkersProvided, ReadyType
<1>4. inherited \in [Tx -> Nat]
  BY <1>2 DEF NoUnlocks, Replaced, ReadyType
<1>5. Cardinality(requires[t] \ linked) \in Nat /\ (linked # {} => Cardinality(requires[t] \ linked) = 0)
  <2>1. CASE requires[t] = {}
    <3>1. linked = {} /\ requires[t] \ linked = {}
      BY <2>1
    <3> QED
      BY <3>1, FS_EmptySet
  <2>2. CASE requires[t] # {}
    <3>1. PICK m \in requires[t] : requires[t] = {m}
      BY <1>2, <2>2, RequiredMarker
    <3>2. CASE provided_markers[m] = NoTx
      <4>1. linked = {} /\ requires[t] \ linked = {m}
        BY <3>1, <3>2
      <4>2. Cardinality({m}) = 1
        BY Zenon, FS_Singleton
      <4> QED
        BY <4>1, <4>2
    <3>3. CASE provided_markers[m] # NoTx
      <4>1. requires[t] \ linked = {}
        BY <3>1, <3>3
      <4> QED
        BY <4>1, FS_EmptySet
    <3> QED
      BY <3>2, <3>3
  <2> QED
    BY <2>1, <2>2
<1> HIDE DEF old, inherited, linked
<1>6. ReadyType'
  <2>1. unlocks' \in [Tx -> [Tx -> Nat]]
    BY <1>1, <1>4 DEF ReadyType, NoUnlocks
  <2>2. provided_markers' \in [Marker -> Tx \cup {NoTx}]
    BY Zenon, <1>1 DEF ReadyType
  <2> QED
    BY <1>1, <1>5, <2>1, <2>2 DEF ReadyType
<1>7. \A k \in Marker : provided_markers'[k] = IF k = provides(t) THEN t ELSE provided_markers[k]
  BY <1>1 DEF ReadyType
<1>8. MarkersProvided'
  <2>1. ASSUME NEW k \in Marker, provided_markers'[k] # NoTx
        PROVE  provided_markers'[k] \in ready_tx' /\ provides(provided_markers'[k]) = k
    BY <1>1, <1>3, <1>7, <2>1 DEF MarkersProvided
  <2>2. ASSUME NEW u \in ready_tx' PROVE provided_markers'[provides(u)] = u
    BY <1>1, <1>3, <1>7, ProvidesMarker DEF MarkersProvided, ReadyType
  <2> QED
    BY <2>1, <2>2 DEF MarkersProvided
<1>9. ASSUME NEW u \in ready_tx' \ independent'
      PROVE  /\ requires_offset'[u] = 0
             /\ \E k \in requires'[u] : /\ provided_markers'[k] # NoTx
                                        /\ unlocks'[provided_markers'[k]][u] > 0
  <2>1. CASE u = t
    <3>1. linked # {}
      BY <1>1, <2>1
    <3>2. PICK m \in requires[t] : provided_markers[m] # NoTx
      BY <3>1 DEF linked
    <3>3. m \in Marker /\ m # provides(t)
      BY <1>2, <3>2, RequiredMarker
    <3>4. provided_markers'[m] = provided_markers[m]
      BY <1>7, <3>3
    <3>5. /\ provided_markers[m] \in Tx
          /\ provided_markers[m] \in ready_tx
          /\ provided_markers[m] # t
          /\ provided_markers[m] \notin old
      BY <1>3, <3>2, <3>3 DEF MarkersProvided, ReadyType
    <3>6. provided_markers[m] \in providers
      BY <3>2 DEF linked
    <3>7. unlocks'[provided_markers[m]][t] = unlocks[provided_markers[m]][t] + 1
      BY <1>1, <3>5, <3>6 DEF ReadyType
    <3>8. unlocks'[provided_markers[m]][t] > 0
      BY <3>5, <3>7 DEF ReadyType
    <3>9. requires_offset'[t] = 0
      BY Zenon, <1>1, <1>5, <3>1
    <3> QED
      BY Zenon, <1>1, <2>1, <3>2, <3>4, <3>8, <3>9
  <2>2. CASE u # t
    <3>1. u \in ready_tx \ independent /\ u \in Tx /\ u \notin old
      BY <1>1, <2>2 DEF ReadyType
    <3>2. PICK k \in requires[u] : provided_markers[k] # NoTx /\ unlocks[provided_markers[k]][u] > 0
      BY <3>1 DEF ReadyLinked
    <3>3. k \in Marker
      BY <3>1, <3>2, RequiredMarker DEF RequiresPrevious
    <3> DEFINE p == provided_markers[k]
    <3>4. p \in ready_tx /\ p \in Tx /\ p # t /\ provides(p) = k
      BY <3>2, <3>3 DEF MarkersProvided, ReadyType
    <3>5. requires_offset'[u] = 0
      BY <1>1, <2>2, <3>1 DEF ReadyLinked
    <3>6. CASE k = provides(t)
      <4>1. p \in old
        BY <1>3, <3>4, <3>6
      <4>2. unlocks'[t] = unlocks[p]
        BY <1>1, <3>6, <4>1 DEF inherited
      <4>3. provided_markers'[k] = t /\ t # NoTx
        BY <1>7, <3>3, <3>6, TxAssumption
      <4>4. k \in requires'[u]
        BY <3>2
      <4> QED
        BY <3>2, <3>5, <4>2, <4>3, <4>4
    <3>7. CASE k # provides(t)
      <4>1. p \notin old
        BY <1>3, <3>4, <3>7
      <4>2. unlocks'[p][u] = unlocks[p][u]
        BY SMTT(40), <1>1, <2>2, <3>1, <3>4, <4>1 DEF ReadyType
      <4> QED
        BY <1>7, <3>2, <3>3, <3>5, <3>7, <4>2
    <3> QED
      BY <3>6, <3>7
  <2> QED
    BY <2>1, <2>2
<1> QED
  BY Zenon, <1>1, <1>6, <1>7, <1>8, <1>9 DEF ReadyLinked, old

=============================================================================
