------------------------- MODULE TimeManagerProofs -------------------------
(***************************************************************************)
(* Proofs about module TimeManager, for any number of concurrent requests, *)
(* any width of the timestamps and any values the clients pass.            *)
(***************************************************************************)
EXTENDS TimeManager, TLAPS

\* The clamp of compute_next_timestamp stays in u64 and gives no timestamp below
\* its bound, except where the bound is u64::MAX and the addition wraps.
LEMMA AtLeastBound ==
  ASSUME NEW timestamp \in u64, NEW lower \in u64
  PROVE  /\ AtLeast(timestamp, lower) \in u64
         /\ AtLeast(timestamp, lower) >= lower \/ lower = U64Max
         /\ timestamp >= lower => AtLeast(timestamp, lower) = timestamp
<1>1. CASE timestamp < lower /\ lower # U64Max
  <2>1. lower + 1 \in 0..U64Max
    BY <1>1, TimeAssumption DEF u64
  <2>2. (lower + 1) % (U64Max + 1) = lower + 1
    BY <2>1, TimeAssumption
  <2> QED
    BY <1>1, <2>1, <2>2, TimeAssumption DEF AtLeast, u64
<1>2. CASE timestamp < lower /\ lower = U64Max
  <2>1. (lower + 1) % (U64Max + 1) \in 0..U64Max
    BY <1>2, TimeAssumption DEF u64
  <2> QED
    BY <1>2, <2>1, TimeAssumption DEF AtLeast, u64
<1>3. CASE timestamp >= lower
  BY <1>3, TimeAssumption DEF AtLeast, u64
<1> QED
  BY <1>1, <1>2, <1>3, TimeAssumption DEF u64

\* The three sources of the next timestamp are in u64.
LEMMA SourcesInRange ==
  /\ \A i \in Int : AsU64(i) \in u64
  /\ \A timestamp, seconds \in u64 :
       saturating_add(timestamp, seconds) \in u64 /\ saturating_add(timestamp, seconds) >= timestamp
<1>1. ASSUME NEW i \in Int
      PROVE  AsU64(i) \in u64
  <2>1. i % (U64Max + 1) \in 0..U64Max
    BY TimeAssumption
  <2> QED
    BY <2>1 DEF AsU64, u64
<1>2. ASSUME NEW timestamp \in u64, NEW seconds \in u64
      PROVE  saturating_add(timestamp, seconds) \in u64 /\ saturating_add(timestamp, seconds) >= timestamp
  BY TimeAssumption DEF saturating_add, u64
<1> QED
  BY <1>1, <1>2

\* A new TimeManager satisfies the invariant.
LEMMA InitTimeInv == Init => TimeInv
<1> SUFFICES ASSUME Init PROVE TimeInv
  OBVIOUS
<1>1. /\ now \in Nat /\ offset \in Int /\ last_timestamp \in u64 /\ head \in u64 /\ floor \in u64
      /\ current \in Nat /\ last \in u64 /\ next \in u64
      /\ arg \in [Client -> u64] /\ new_offset \in [Client -> Int]
  BY TimeAssumption DEF Init, u64
<1>2. quiet \in [Client -> BOOLEAN] /\ kept \in BOOLEAN /\ due \in BOOLEAN
  BY Zenon DEF Init
<1>3. TypeOK
  BY <1>1, <1>2 DEF Init, TypeOK
<1> QED
  BY <1>1, <1>3, TimeAssumption DEF Init, TimeInv, AboveFloor, QuietCheck, PromiseKept, u64

\* The steps of next_timestamp that decide the timestamp of the block.
LEMMA ComputeInv ==
  ASSUME TimeInv, NextStart \/ NextExact \/ NextInterval \/ NextNatural
  PROVE  TimeInv'
<1> USE DEF fieldVars, minerVars, clientVars, historyVars
<1> USE TimeAssumption
<1>1. CASE NextStart
  <2>1. TypeOK'
    BY <1>1 DEF TimeInv, TypeOK, NextStart
  <2>2. AboveFloor' /\ QuietCheck'
    BY <1>1 DEF TimeInv, TypeOK, AboveFloor, QuietCheck, NextStart
  <2>3. PromiseKept'
    BY <1>1 DEF TimeInv, TypeOK, PromiseKept, NextStart
  <2> QED
    BY <2>1, <2>2, <2>3 DEF TimeInv
<1>2. CASE NextExact /\ next_exact_timestamp = NoTime
  <2>1. TypeOK' /\ AboveFloor' /\ QuietCheck'
    BY <1>2 DEF TimeInv, TypeOK, AboveFloor, QuietCheck, NextExact
  <2>2. PromiseKept'
    BY <1>2 DEF TimeInv, PromiseKept, NextExact
  <2> QED
    BY <2>1, <2>2 DEF TimeInv
<1>3. CASE NextExact /\ next_exact_timestamp # NoTime
  <2>1. next_exact_timestamp \in u64 /\ last \in u64
    BY <1>3 DEF TimeInv, TypeOK
  <2>2. /\ miner = "exact" /\ miner' = "take"
        /\ next' = AtLeast(next_exact_timestamp, last)
        /\ next_offset' = next' - current
        /\ UNCHANGED <<now, fieldVars, current, last, clientVars, historyVars>>
    BY <1>3 DEF NextExact
  <2>3. /\ next' \in u64
        /\ next' >= last \/ last = U64Max
        /\ next_exact_timestamp >= last => next' = next_exact_timestamp
    BY <2>1, <2>2, AtLeastBound
  <2>4. TypeOK'
    BY <2>2, <2>3 DEF TimeInv, TypeOK, u64
  <2>5. AboveFloor' /\ QuietCheck'
    BY <2>2, <2>3 DEF TimeInv, AboveFloor, QuietCheck
  <2>6. PromiseKept'
    BY <2>2, <2>3 DEF TimeInv, PromiseKept
  <2> QED
    BY <2>4, <2>5, <2>6 DEF TimeInv
<1>4. CASE NextInterval /\ interval = NoTime
  <2>1. TypeOK' /\ AboveFloor' /\ QuietCheck'
    BY <1>4 DEF TimeInv, TypeOK, AboveFloor, QuietCheck, NextInterval
  <2>2. PromiseKept'
    BY <1>4 DEF TimeInv, PromiseKept, NextInterval
  <2> QED
    BY <2>1, <2>2 DEF TimeInv
<1>5. CASE (NextInterval /\ interval # NoTime) \/ NextNatural
  <2>1. PICK source \in u64 : next' = AtLeast(source, last)
    <3>1. last \in u64 /\ current + offset \in Int /\ (interval # NoTime => interval \in u64)
      BY DEF TimeInv, TypeOK
    <3> QED
      BY <1>5, <3>1, SourcesInRange DEF NextInterval, NextNatural
  <2>2. /\ miner \in {"interval", "offset"} /\ miner' = "take"
        /\ UNCHANGED <<now, fieldVars, current, last, next_offset, clientVars, historyVars>>
    BY <1>5 DEF NextInterval, NextNatural
  <2>3. next' \in u64 /\ (next' >= last \/ last = U64Max)
    BY <2>1, AtLeastBound DEF TimeInv, TypeOK
  <2>4. TypeOK'
    BY <2>2, <2>3 DEF TimeInv, TypeOK
  <2>5. AboveFloor' /\ QuietCheck' /\ PromiseKept'
    BY <2>2, <2>3 DEF TimeInv, AboveFloor, QuietCheck, PromiseKept
  <2> QED
    BY <2>4, <2>5 DEF TimeInv
<1> QED
  BY <1>1, <1>2, <1>3, <1>4, <1>5

\* The steps of next_timestamp that write the fields.
LEMMA WriteInv ==
  ASSUME TimeInv, NextTake \/ NextSetOffset \/ NextDone
  PROVE  TimeInv'
<1> USE DEF fieldVars, minerVars, clientVars, historyVars
<1>1. CASE NextTake
  <2>1. TypeOK' /\ AboveFloor' /\ QuietCheck'
    BY <1>1 DEF TimeInv, TypeOK, AboveFloor, QuietCheck, NextTake
  <2>2. PromiseKept'
    BY <1>1 DEF TimeInv, TypeOK, PromiseKept, NextTake
  <2> QED
    BY <2>1, <2>2 DEF TimeInv
<1>2. CASE NextSetOffset
  <2>1. next_offset # NoTime
    BY <1>2 DEF TimeInv, AboveFloor, NextSetOffset
  <2>2. TypeOK' /\ AboveFloor' /\ QuietCheck'
    BY <1>2, <2>1 DEF TimeInv, TypeOK, AboveFloor, QuietCheck, NextSetOffset
  <2>3. PromiseKept'
    BY <1>2 DEF TimeInv, PromiseKept, NextSetOffset
  <2> QED
    BY <2>2, <2>3 DEF TimeInv
<1>3. CASE NextDone
  <2>1. ~kept'
    BY <1>3 DEF TimeInv, PromiseKept, NextDone
  <2>2. \A c \in Client : ~quiet[c]
    BY <1>3 DEF TimeInv, QuietCheck, NextDone
  <2>3. TypeOK'
    <3>1. kept' \in BOOLEAN /\ due' \in BOOLEAN
      BY Zenon, <1>3, <2>1 DEF NextDone
    <3> QED
      BY <1>3, <3>1, TimeAssumption DEF TimeInv, TypeOK, NextDone, u64
  <2>4. AboveFloor' /\ QuietCheck' /\ PromiseKept'
    BY <1>3, <2>1, <2>2, TimeAssumption
    DEF TimeInv, TypeOK, AboveFloor, QuietCheck, PromiseKept, NextDone, u64
  <2> QED
    BY <2>3, <2>4 DEF TimeInv
<1> QED
  BY <1>1, <1>2, <1>3

\* The steps of the requests, and of the clock.
LEMMA RequestInv ==
  ASSUME TimeInv, NEW c \in Client,
         \/ \E timestamp \in Timestamps : SetNextCheck(c, timestamp) \/ ResetLast(c, timestamp)
         \/ \E seconds \in Seconds : IncreaseTime(c, seconds) \/ SetInterval(c, seconds)
         \/ SetNextWrite(c) \/ RemoveInterval(c) \/ ResetOffset(c) \/ ResetTake(c)
  PROVE  TimeInv'
<1> USE DEF fieldVars, minerVars, clientVars, historyVars
<1>1. CASE \E timestamp \in Timestamps : SetNextCheck(c, timestamp)
  <2>1. PICK timestamp \in Timestamps : SetNextCheck(c, timestamp)
    BY <1>1
  <2>2. timestamp \in u64
    BY TimeAssumption DEF u64
  <2>3. quiet' \in [Client -> BOOLEAN]
    BY <2>1 DEF TimeInv, TypeOK, SetNextCheck
  <2>4. TypeOK'
    BY <2>1, <2>2, <2>3 DEF TimeInv, TypeOK, SetNextCheck
  <2>5. AboveFloor' /\ PromiseKept'
    BY <2>1 DEF TimeInv, AboveFloor, PromiseKept, SetNextCheck
  <2>6. QuietCheck'
    BY <2>1 DEF TimeInv, TypeOK, QuietCheck, SetNextCheck
  <2> QED
    BY <2>4, <2>5, <2>6 DEF TimeInv
<1>2. CASE \E timestamp \in Timestamps : ResetLast(c, timestamp)
  <2>1. PICK timestamp \in Timestamps : ResetLast(c, timestamp)
    BY <1>2
  <2>2. timestamp \in u64 /\ timestamp - now \in Int
    BY TimeAssumption DEF u64, TimeInv, TypeOK
  <2>3. TypeOK'
    BY <2>1, <2>2 DEF TimeInv, TypeOK, ResetLast
  <2>4. AboveFloor'
    BY <2>1, <2>2, TimeAssumption DEF TimeInv, TypeOK, AboveFloor, ResetLast, u64
  <2>5. QuietCheck' /\ PromiseKept'
    BY <2>1 DEF TimeInv, QuietCheck, PromiseKept, ResetLast
  <2> QED
    BY <2>3, <2>4, <2>5 DEF TimeInv
<1>3. CASE \/ \E seconds \in Seconds : IncreaseTime(c, seconds) \/ SetInterval(c, seconds)
           \/ RemoveInterval(c)
  <2>1. TypeOK'
    BY <1>3, TimeAssumption DEF TimeInv, TypeOK, IncreaseTime, SetInterval, RemoveInterval, u64
  <2>2. AboveFloor' /\ QuietCheck' /\ PromiseKept'
    BY <1>3 DEF TimeInv, AboveFloor, QuietCheck, PromiseKept, IncreaseTime, SetInterval, RemoveInterval
  <2> QED
    BY <2>1, <2>2 DEF TimeInv
<1>4. CASE SetNextWrite(c)
  <2>1. arg[c] \in u64 /\ quiet[c] \in BOOLEAN
    BY DEF TimeInv, TypeOK
  <2>2. TypeOK'
    <3>1. kept' \in BOOLEAN /\ due' \in BOOLEAN
      BY Zenon, <1>4, <2>1 DEF SetNextWrite
    <3>2. quiet' \in [Client -> BOOLEAN]
      BY <1>4 DEF TimeInv, TypeOK, SetNextWrite
    <3> QED
      BY <1>4, <2>1, <3>1, <3>2, TimeAssumption DEF TimeInv, TypeOK, SetNextWrite, u64
  <2>3. AboveFloor' /\ QuietCheck'
    BY <1>4 DEF TimeInv, TypeOK, AboveFloor, QuietCheck, SetNextWrite
  <2>4. PromiseKept'
    <3>1. kept' => miner = "idle" /\ arg[c] >= last_timestamp
      BY Zenon, <1>4 DEF TimeInv, QuietCheck, SetNextWrite
    <3>2. /\ promise' = arg[c] /\ next_exact_timestamp' = arg[c]
          /\ UNCHANGED <<miner, last_timestamp>>
      BY <1>4 DEF SetNextWrite
    <3>3. arg[c] # NoTime
      BY <2>1, TimeAssumption DEF u64
    <3> QED
      BY <3>1, <3>2, <3>3 DEF PromiseKept
  <2> QED
    BY <2>2, <2>3, <2>4 DEF TimeInv
<1>5. CASE ResetOffset(c) \/ ResetTake(c)
  <2>1. TypeOK'
    <3>1. new_offset[c] \in Int
      BY DEF TimeInv, TypeOK
    <3>2. CASE ResetOffset(c)
      BY <3>1, <3>2 DEF TimeInv, TypeOK, ResetOffset
    <3>3. CASE ResetTake(c)
      <4>1. kept' \in BOOLEAN
        BY Zenon, <3>3 DEF ResetTake
      <4> QED
        BY <3>3, <4>1 DEF TimeInv, TypeOK, ResetTake
    <3> QED
      BY <1>5, <3>2, <3>3
  <2>2. AboveFloor' /\ QuietCheck' /\ PromiseKept'
    BY <1>5 DEF TimeInv, TypeOK, AboveFloor, QuietCheck, PromiseKept, ResetOffset, ResetTake
  <2> QED
    BY <2>1, <2>2 DEF TimeInv
<1> QED
  BY <1>1, <1>2, <1>3, <1>4, <1>5

\* Every step of the time manager keeps the invariant.
LEMMA NextTimeInv ==
  ASSUME TimeInv, [Next]_vars
  PROVE  TimeInv'
<1>1. CASE Clock \/ UNCHANGED vars
  <2>1. TypeOK'
    BY <1>1, TimeAssumption
    DEF TimeInv, TypeOK, Clock, vars, fieldVars, minerVars, clientVars, historyVars
  <2>2. AboveFloor' /\ QuietCheck' /\ PromiseKept'
    BY <1>1 DEF TimeInv, AboveFloor, QuietCheck, PromiseKept, Clock, vars, fieldVars, minerVars,
                clientVars, historyVars
  <2> QED
    BY <2>1, <2>2 DEF TimeInv
<1> QED
  BY <1>1, ComputeInv, WriteInv, RequestInv DEF Next

\* The invariant holds in every reachable state.
THEOREM TimeInvariant == Spec => []TimeInv
  BY InitTimeInv, NextTimeInv, PTL DEF Spec

\* No block is older than the one before it, or than the time evm_setTime set
\* since, unless the last timestamp was u64::MAX.
THEOREM BlocksNeverGoBack == Spec => NeverBackwards
<1>1. TimeInv /\ [Next]_vars => [NextDone => head' >= floor \/ last = U64Max]_vars
  BY DEF TimeInv, TypeOK, AboveFloor, NextDone, u64
<1> QED
  BY <1>1, TimeInvariant, PTL DEF Spec, NeverBackwards

\* An exact timestamp accepted while neither a block nor evm_setTime was under
\* way is the timestamp of the next block.
THEOREM ExactTimestampKept == Spec => ExactIfQuiet
<1>1. TimeInv /\ [Next]_vars => [(NextDone /\ due /\ kept) => head' = promise]_vars
  BY DEF TimeInv, PromiseKept, NextDone
<1> QED
  BY <1>1, TimeInvariant, PTL DEF Spec, ExactIfQuiet

=============================================================================
