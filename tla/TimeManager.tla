---------------------------- MODULE TimeManager ----------------------------
(***************************************************************************)
(* The block time (eth/backend/time.rs).  TimeManager keeps each of its    *)
(* fields behind a lock of its own, so a method that touches several is    *)
(* not atomic: the thread that mines a block (next_timestamp, called under *)
(* the mining lock, so by one thread at a time) interleaves with the       *)
(* handlers of evm_setNextBlockTimestamp, evm_setTime, evm_increaseTime    *)
(* and of the timestamp interval (eth/api.rs).                             *)
(***************************************************************************)
EXTENDS Integers

CONSTANTS
  Client,      \* the concurrent request handlers
  U64Max,      \* u64::MAX
  NoTime,      \* None
  Timestamps,  \* the timestamps clients pass
  Seconds,     \* the jumps and intervals clients pass
  MaxNow,      \* bound: the clock stays below
  MaxOffset    \* bound: no jump takes `offset` beyond it

ASSUME TimeAssumption ==
  /\ U64Max \in Nat
  /\ NoTime \notin Int
  /\ Timestamps \subseteq 0..U64Max
  /\ Seconds \subseteq 0..U64Max
  /\ MaxNow \in 0..U64Max
  /\ MaxOffset \in Nat

u64 == 0..U64Max

VARIABLES
  now,                   \* the system clock, in seconds
  \* TimeManager
  offset,
  last_timestamp,
  next_exact_timestamp,
  interval,
  \* next_timestamp, on the mining thread
  miner,                 \* where it is
  current,               \* the clock it read
  last,                  \* the last_timestamp it read
  next,                  \* the next_timestamp it computed
  next_offset,           \* the offset to set, or NoTime
  \* the requests
  client,                \* client -> where its handler is
  arg,                   \* client -> the timestamp it passes
  new_offset,            \* client -> reset: the offset to set
  \* history
  head,                  \* the timestamp of the latest block
  floor,                 \* the earliest time the next block may have
  quiet,                 \* client -> no block started and no reset since its check
  promise,               \* a timestamp accepted for the next block, or NoTime
  kept,                  \* it was accepted while nothing interfered
  due                    \* the block being mined was begun after that

fieldVars == <<offset, last_timestamp, next_exact_timestamp, interval>>
minerVars == <<miner, current, last, next, next_offset>>
clientVars == <<client, arg, new_offset>>
historyVars == <<head, floor, quiet, promise, kept, due>>
vars == <<now, fieldVars, minerVars, clientVars, historyVars>>

\* TimeManager::new, for a chain whose genesis block carries start_timestamp.
Init ==
  /\ now \in 0..MaxNow
  /\ last_timestamp \in Timestamps
  /\ offset = last_timestamp - now
  /\ next_exact_timestamp = NoTime
  /\ interval = NoTime
  /\ miner = "idle" /\ current = 0 /\ last = 0 /\ next = 0 /\ next_offset = NoTime
  /\ client = [c \in Client |-> "idle"]
  /\ arg = [c \in Client |-> 0]
  /\ new_offset = [c \in Client |-> 0]
  /\ head = last_timestamp
  /\ floor = last_timestamp
  /\ quiet = [c \in Client |-> FALSE]
  /\ promise = NoTime /\ kept = FALSE /\ due = FALSE

\* The system clock; it may be set back.
Clock ==
  /\ now' \in 0..MaxNow
  /\ UNCHANGED <<fieldVars, minerVars, clientVars, historyVars>>

-----------------------------------------------------------------------------
(* next_timestamp *)

\* Mutant: the natural time as it comes.
AtLeast_any(timestamp, lower) == timestamp

\* Mutant: equal timestamps are bumped, too, so an accepted one may not be kept.
AtLeast_strict(timestamp, lower) ==
  IF timestamp <= lower THEN (lower + 1) % (U64Max + 1) ELSE timestamp

\* "Ensures that the timestamp is always increasing"; lower + 1 wraps in the
\* release build.
AtLeast(timestamp, lower) ==
  IF timestamp < lower THEN (lower + 1) % (U64Max + 1) ELSE timestamp

saturating_add(timestamp, seconds) ==
  IF timestamp + seconds > U64Max THEN U64Max ELSE timestamp + seconds

\* `as u64` of an i128.
AsU64(i) == i % (U64Max + 1)

\* compute_next_timestamp reads the clock and last_timestamp.
NextStart ==
  /\ miner = "idle"
  /\ miner' = "exact"
  /\ current' = now
  /\ last' = last_timestamp
  /\ quiet' = [c \in Client |-> FALSE]
  /\ due' = (promise # NoTime)
  /\ UNCHANGED <<now, fieldVars, next, next_offset, clientVars, head, floor, promise, kept>>

\* It reads next_exact_timestamp.
NextExact ==
  /\ miner = "exact"
  /\ IF next_exact_timestamp = NoTime
     THEN miner' = "interval" /\ UNCHANGED <<next, next_offset>>
     ELSE /\ miner' = "take"
          /\ next' = AtLeast(next_exact_timestamp, last)
          /\ next_offset' = next' - current
  /\ UNCHANGED <<now, fieldVars, current, last, clientVars, historyVars>>

\* It reads the interval.
NextInterval ==
  /\ miner = "interval"
  /\ IF interval = NoTime
     THEN miner' = "offset" /\ UNCHANGED next
     ELSE miner' = "take" /\ next' = AtLeast(saturating_add(last, interval), last)
  /\ UNCHANGED <<now, fieldVars, current, last, next_offset, clientVars, historyVars>>

\* It reads the offset.
NextNatural ==
  /\ miner = "offset"
  /\ miner' = "take"
  /\ next' = AtLeast(AsU64(current + offset), last)
  /\ UNCHANGED <<now, fieldVars, current, last, next_offset, clientVars, historyVars>>

\* next_timestamp takes next_exact_timestamp...
NextTake ==
  /\ miner = "take"
  /\ next_exact_timestamp' = NoTime
  /\ miner' = IF next_offset = NoTime THEN "last" ELSE "set_offset"
  /\ UNCHANGED <<now, offset, last_timestamp, interval, current, last, next, next_offset,
                 clientVars, historyVars>>

\* ... updates the offset...
NextSetOffset ==
  /\ miner = "set_offset"
  /\ offset' = next_offset
  /\ miner' = "last"
  /\ UNCHANGED <<now, last_timestamp, next_exact_timestamp, interval, current, last, next,
                 next_offset, clientVars, historyVars>>

\* ... and last_timestamp.  The block gets this timestamp.
NextDone ==
  /\ miner = "last"
  /\ miner' = "idle"
  /\ last_timestamp' = next
  /\ current' = 0 /\ last' = 0 /\ next' = 0 /\ next_offset' = NoTime
  /\ head' = next
  /\ floor' = next
  /\ promise' = IF due \/ next = promise THEN NoTime ELSE promise
  /\ due' = FALSE
  /\ kept' = (kept /\ promise' # NoTime)
  /\ UNCHANGED <<now, offset, next_exact_timestamp, interval, clientVars, quiet>>

-----------------------------------------------------------------------------
(* The requests *)

\* Mutant: any timestamp is accepted.
SetNextCheck_any(c, timestamp) ==
  /\ client[c] = "idle"
  /\ client' = [client EXCEPT ![c] = "set_next"]
  /\ arg' = [arg EXCEPT ![c] = timestamp]
  /\ quiet' = [quiet EXCEPT ![c] = (miner = "idle")]
  /\ UNCHANGED <<now, fieldVars, minerVars, new_offset, head, floor, promise, kept, due>>

\* set_next_block_timestamp compares with last_timestamp; a lower one is an error.
SetNextCheck(c, timestamp) ==
  /\ client[c] = "idle"
  /\ timestamp >= last_timestamp
  /\ client' = [client EXCEPT ![c] = "set_next"]
  /\ arg' = [arg EXCEPT ![c] = timestamp]
  /\ quiet' = [quiet EXCEPT ![c] = (miner = "idle")]
  /\ UNCHANGED <<now, fieldVars, minerVars, new_offset, head, floor, promise, kept, due>>

\* It sets next_exact_timestamp and the request succeeds.
SetNextWrite(c) ==
  /\ client[c] = "set_next"
  /\ client' = [client EXCEPT ![c] = "idle"]
  /\ arg' = [arg EXCEPT ![c] = 0]
  /\ next_exact_timestamp' = arg[c]
  /\ promise' = arg[c]
  /\ kept' = quiet[c]
  /\ due' = FALSE
  /\ quiet' = [quiet EXCEPT ![c] = FALSE]
  /\ UNCHANGED <<now, offset, last_timestamp, interval, minerVars, new_offset, head, floor>>

\* increase_time.
IncreaseTime(c, seconds) ==
  /\ client[c] = "idle"
  /\ offset + seconds <= MaxOffset
  /\ offset' = offset + seconds
  /\ UNCHANGED <<now, last_timestamp, next_exact_timestamp, interval, minerVars, clientVars,
                 historyVars>>

\* set_block_timestamp_interval.
SetInterval(c, seconds) ==
  /\ client[c] = "idle"
  /\ interval' = seconds
  /\ UNCHANGED <<now, offset, last_timestamp, next_exact_timestamp, minerVars, clientVars,
                 historyVars>>

\* remove_block_timestamp_interval.
RemoveInterval(c) ==
  /\ client[c] = "idle"
  /\ interval' = NoTime
  /\ UNCHANGED <<now, offset, last_timestamp, next_exact_timestamp, minerVars, clientVars,
                 historyVars>>

\* reset, called by evm_setTime, reads the clock and sets last_timestamp...
ResetLast(c, start_timestamp) ==
  /\ client[c] = "idle"
  /\ client' = [client EXCEPT ![c] = "reset_offset"]
  /\ new_offset' = [new_offset EXCEPT ![c] = start_timestamp - now]
  /\ last_timestamp' = start_timestamp
  /\ floor' = IF miner = "idle" \/ start_timestamp < floor THEN start_timestamp ELSE floor
  /\ quiet' = [d \in Client |-> FALSE]
  /\ promise' = NoTime /\ kept' = FALSE
  /\ UNCHANGED <<now, offset, next_exact_timestamp, interval, minerVars, arg, head, due>>

\* ... then the offset...
ResetOffset(c) ==
  /\ client[c] = "reset_offset"
  /\ client' = [client EXCEPT ![c] = "reset_take"]
  /\ offset' = new_offset[c]
  /\ new_offset' = [new_offset EXCEPT ![c] = 0]
  /\ UNCHANGED <<now, last_timestamp, next_exact_timestamp, interval, minerVars, arg,
                 historyVars>>

\* ... and drops next_exact_timestamp.
ResetTake(c) ==
  /\ client[c] = "reset_take"
  /\ client' = [client EXCEPT ![c] = "idle"]
  /\ next_exact_timestamp' = NoTime
  /\ promise' = NoTime /\ kept' = FALSE
  /\ UNCHANGED <<now, offset, last_timestamp, interval, minerVars, arg, new_offset, head, floor,
                 quiet, due>>

-----------------------------------------------------------------------------

Next ==
  \/ Clock
  \/ NextStart \/ NextExact \/ NextInterval \/ NextNatural
  \/ NextTake \/ NextSetOffset \/ NextDone
  \/ \E c \in Client :
       \/ \E timestamp \in Timestamps : SetNextCheck(c, timestamp) \/ ResetLast(c, timestamp)
       \/ \E seconds \in Seconds : IncreaseTime(c, seconds) \/ SetInterval(c, seconds)
       \/ SetNextWrite(c)
       \/ RemoveInterval(c)
       \/ ResetOffset(c)
       \/ ResetTake(c)

Spec == Init /\ [][Next]_vars

-----------------------------------------------------------------------------
(* Properties *)

\* The state has the types of the source's fields and locals.
TypeOK ==
  /\ now \in Nat
  /\ offset \in Int
  /\ last_timestamp \in u64
  /\ next_exact_timestamp \in u64 \cup {NoTime}
  /\ interval \in u64 \cup {NoTime}
  /\ miner \in {"idle", "exact", "interval", "offset", "take", "set_offset", "last"}
  /\ current \in Nat
  /\ last \in u64
  /\ next \in u64
  /\ next_offset \in Int \cup {NoTime}
  /\ client \in [Client -> {"idle", "set_next", "reset_offset", "reset_take"}]
  /\ arg \in [Client -> u64]
  /\ new_offset \in [Client -> Int]
  /\ head \in u64
  /\ floor \in u64
  /\ quiet \in [Client -> BOOLEAN]
  /\ promise \in u64 \cup {NoTime}
  /\ kept \in BOOLEAN
  /\ due \in BOOLEAN

\* A block is never older than the one before it, whatever jumps, intervals,
\* exact timestamps and clock changes race with its production.  If evm_setTime
\* moved the time since, it is no older than the time that was set; if that
\* happened while the block was under way, than the earlier of the two.  Only
\* past u64::MAX does next_timestamp start again at 0.
NeverBackwards == [][NextDone => head' >= floor \/ last = U64Max]_vars

\* compute_next_timestamp "ensures that the timestamp is always increasing", here
\* in the weak reading that allows equal timestamps.
AlwaysIncreasing == [][NextDone => head' >= floor]_vars

\* A timestamp that evm_setNextBlockTimestamp accepted is the timestamp of the
\* next block, if neither a block nor evm_setTime was under way meanwhile.
ExactIfQuiet == [][(NextDone /\ due /\ kept) => head' = promise]_vars

\* It "sets the exact timestamp to use in the next block": the first block that
\* is begun after the request succeeded has it.
ExactUsed == [][(NextDone /\ due /\ promise # NoTime) => head' = promise]_vars

-----------------------------------------------------------------------------
(* The inductive invariant of module TimeManagerProofs *)

\* The mining thread starts no lower than the time the next block may have, and
\* ends no lower than it started.
AboveFloor ==
  /\ last_timestamp >= floor
  /\ miner # "idle" => last >= floor
  /\ miner \in {"take", "set_offset", "last"} => next >= last \/ last = U64Max
  /\ miner = "set_offset" => next_offset # NoTime

\* A handler nothing interfered with still has a timestamp that is not too low.
QuietCheck ==
  \A c \in Client : quiet[c] =>
    client[c] = "set_next" /\ miner = "idle" /\ arg[c] >= last_timestamp

\* An exact timestamp accepted without interference is where the mining thread
\* is going to look for it, and then in its hands.
PromiseKept ==
  kept => /\ promise # NoTime
          /\ miner # "idle" => due
          /\ miner \notin {"interval", "offset"}
          /\ miner = "idle" => promise = next_exact_timestamp /\ promise >= last_timestamp
          /\ miner = "exact" => promise = next_exact_timestamp /\ promise >= last
          /\ miner \in {"take", "set_offset", "last"} => promise = next

\* What every step of the mining thread and of the handlers preserves.
TimeInv == TypeOK /\ AboveFloor /\ QuietCheck /\ PromiseKept

=============================================================================
