# TLA+ models of anvil

Anvil (`crates/anvil`) is the Ethereum development node of this repository. This
directory specifies the parts of it in which several threads share state: the
transaction pool, the miner and the service that drive block production, the RPC
handlers that submit transactions and mine blocks, and the block time. The
modules are model-checked with TLC; the central invariants are proved with TLAPS.

Paths below are relative to `crates/anvil/src`. `PROJECT.json` maps every
definition to the lines it models and lists the runs, findings, hazards and
theorems.

## The system

| part | state | operations | interacts with |
|---|---|---|---|
| transaction pool (`eth/pool`) | pending and ready queues, their indexes by marker, listeners; one lock | add, prune markers, remove invalid, remove by sender, drop, clear, iterate | handlers, miner, service |
| submission (`eth/api.rs`) | locals of each handler: the nonce read, the requirement computed from it | `eth_sendTransaction`, `eth_sendRawTransaction` | pool, chain |
| miner (`eth/miner.rs`) | mode, listener channel, `has_pending_txs` | poll, change of mode | pool, service |
| node service (`service.rs`) | queue of batches, the block being mined | poll | miner, pool, chain |
| executor (`eth/backend/executor.rs`) | outcome of a block: included, invalid | execute | chain, pool |
| block time (`eth/backend/time.rs`) | offset, last timestamp, next exact timestamp, interval; one lock each | next timestamp, set, jump, reset | block production, handlers |
| chain (`eth/backend/mem`) | blocks, receipts, best number, snapshots, environment, database | mine, snapshot, revert, rollback, reorg, load and dump | nearly everything |
| historical states (`mem/storage.rs`) | states in memory and on disk, limits | insert, evict, read, clear | chain |
| fees (`eth/fees.rs`) | base fee, blob fee, history cache | update per block, query | chain notifications |
| filters, subscriptions (`filter.rs`, `pubsub.rs`) | filters with deadlines, queues | poll, evict | chain notifications |

The other crates (forge, cast, chisel, the compiler front ends and so on) are
tools rather than a concurrent system; `PROJECT.json` lists each with the reason
it is left out.

What is hard to test here: nonces read before an `await` and used after it; two
mining threads (the service and `evm_mine`) that read the same transactions; the
outcome of a block applied in two separate critical sections; a miner that stops
looking until it is notified; four locks in `TimeManager` where the code reads as
if there were one; the bookkeeping of the pool's indexes over long sequences of
calls.

## Modules

### TxPool

`eth/pool/mod.rs` and `eth/pool/transactions.rs`. A transaction is a record of
sender, nonce and fee, and is its own hash. The fields of `PendingTransactions`
and `ReadyTransactions` are variables of the same names, a map of structs being
one function per field. Calls that loop under the write lock take one step per
iteration: `op` names the call that holds the lock, `tx_queue`, `imports` and
`markers` are its local collections.

| code | actions |
|---|---|
| `Pool::add_transaction` | `AddPending`, `AddReady`, then `QueueAdded`, `QueueDiscarded`, `QueueRejected`, `QueueDone` |
| `notify_listener` | `NotifyListener`, after the lock was released |
| `prune_markers` | `PruneMarkers`, `PruneMarker`, `PruneImport`, `PruneDone` |
| `remove_invalid`, `remove_transactions_by_address`, `drop_transaction`, `clear` | `RemoveInvalid`, `RemoveTransactionsByAddress`, `DropTransaction`, `Clear` |

`remove_with_markers` keeps its no-op removal from `unlocks`, and the iterator is
defined over the resulting, sometimes outdated, `unlocks`.

### Node

Extends TxPool by the threads that use it. `handler` is the position of the
handler of each transaction: validating, reading the nonce and adding are separate
steps. `PollProducer`, `PollAuto` and `PollFixed` are `NodeService::poll` with the
two reads of the pool that the mixed mode makes; `ServiceMines` and `RpcMines`
execute a block; `OnMinedInvalid`, `OnMinedPrune` and `OnMinedDone` are
`on_mined_block` with its two critical sections. A block is the sequence of its
nonce checks: `skip` are the transactions that exceed a gas limit or hit a
database error, `broke` those that fail validation for another reason than the
nonce. The listener's channel is reduced to whether it holds a hash.
`evm_setAutomine` takes two steps, `SetAutoMine`, which tests the mode and registers
the listener, and `SetAutoMineMode`, which sets it; hashes announced and modes set in
between are part of the model. `left_behind` (what a block skipped or a prune made
ready, and the miner has not handed out since) and `stale` (what reached the pool with
an outdated nonce) are history variables.

### TimeManager

`eth/backend/time.rs`, one step per lock. `NextStart` to `NextDone` is
`next_timestamp` on the mining thread, which the mining lock makes the only one;
`SetNextCheck`/`SetNextWrite`, `ResetLast`/`ResetOffset`/`ResetTake`,
`IncreaseTime`, `SetInterval`, `RemoveInterval` are the requests. Timestamps are
words of `U64Max + 1` values: `last_timestamp + 1` wraps, as in a build without
overflow checks. `head`, `floor`, `quiet`, `promise`, `kept` and `due` are history
variables; `floor` is the earliest time the next block may have: that of the last
block, or the one `evm_setTime` set since.

## Runs

| run | checks |
|---|---|
| `pool` | types, agreement of queues and indexes, iterator completeness, reasons for replacements and losses, the inductive invariant |
| `node` | mode switches and drops: the miner forgets nothing it was told of, nothing waits for a mined transaction unless its nonce was stale, batches respect nonces |
| `node_evm_mine` | the same with a second mining thread, and: what was mined has left the pool once every outcome is in |
| `node_send` | the pool is only used as TxPool allows; ready transactions leave the pool, and what was left behind is taken up with the next announcement |
| `time` | blocks do not go back, undisturbed exact timestamps are honoured, the inductive invariant |

The remaining runs expect a violation: each checks one sentence of the
documentation that the code does not keep.

| run | documented | what happens |
|---|---|---|
| `pool_unlocks` | "remove from unlocks" | the loop compares with the wrong hash; the removed transaction stays listed |
| `node_stale_nonce` | pending transactions require others to be mined first | one whose predecessor was mined during submission waits for ever |
| `node_requires` | a nonce above the chain's requires the one before | `eth_sendTransaction` compares with the pool's nonce |
| `node_removed` | a mined block removes invalid transactions | it also removes valid ones after a transaction that two threads mined |
| `node_listener` | a listener is notified about every new ready transaction | `prune_markers` notifies nobody |
| `time_exact` | the timestamp is used in the next block | it is discarded when it arrives between two steps of a block |
| `time_wraps` | the timestamp is always increasing | after the highest one, `last_timestamp + 1` is 0 |

`AutoMinerComplete` and `ReadyMined` except what was left behind: a transaction that a
block skipped is not reflected in `has_pending_txs`, and one that a prune made ready is
not announced (`node_listener`). `LeftBehindRetried` says what remains: the next hash
makes the miner look at the whole pool. `NeverBackwards` excepts only the block after
`u64::MAX` (`time_wraps`).

`MinedLeft` is checked without drop requests, and does not hold with them. If two
transactions of a running block are dropped and the second is submitted again, it waits
for the first; the prune of the block unlocks it with the marker of the first, prunes
its own marker, and only then imports it, so a mined transaction is ready again until
a block finds it invalid.

Smaller disagreements with the documentation, read off the code and not kept as runs:
`compute_next_timestamp` and `set_next_block_timestamp` allow equality with the last
timestamp (`time.rs:115` and `time.rs:73`, against the comments at 114 and 70; the
tests expect equality); `evm_set_time` divides a difference in seconds by 1000
(`eth/api.rs:2754`).

### Bounds

The pool instance has one sender and nonces 0 to 2, with three variants of nonce 1
(cheap, equally cheap, dear): replacement, equal fees, a chain of three and a gap
all occur. Senders share nothing in the pool but the order of iteration, so a
second one adds no interference between markers. `MaxId` bounds the additions to
the ready queue, so that transactions leave and return; `MaxIncluded` the size of a
block. The node instances have two transactions of one sender, the later one paying
more, which is the case in which the order by fee and the order by nonce disagree;
with `MaxId` 2 both become ready, or one of them twice after a drop, before submissions
end; `max_transactions` is 1 or 2, so that batches are cut off in `node` and `node_evm_mine`;
`MaxQueued` stops the miner from being polled when that many batches wait. The time
instance has 2-bit words, so that the wrap and the saturation are reached, and two
handlers under symmetry; its properties are also proved without bounds.

### Fairness

Only the node's specification has fairness. `NodeFairness` is weak fairness of each thread of the node: tokio polls a task that
was woken, a blocking task runs, and the interval that evicts filters wakes the
service at the latest. Clients are not assumed to act.

## Proofs

`TxPoolProofs` proves, for every finite set of transactions and all bounds,
`Spec => []Inv`, and from it types (`PoolTypeOK`), the agreement of the queues and
their indexes (`PoolConsistent`), that the iterator reaches every ready transaction
(`IteratorComplete`). `TxPoolStepProofs` proves from it that replacements pay and
losses have a reason (`ReplacementsPay`, `LossesJustified`). The assumptions are `TxAssumption` and
`BoundAssumption`. The properties are not inductive alone. `Inv` adds that a
transaction requires its predecessor or nothing (`RequiresPrevious`), which locals
are live (`CallState`), that the work list of `add_ready_transaction` runs ahead of
the new transaction in nonce (`QueueAhead`), and that a dependent ready transaction
is linked from the ready provider of its marker (`ReadyLinked`). Iterator
completeness follows from `ReadyLinked` by a least-nonce argument. The proof has
one lemma per helper that rewires the queues (`TxPoolLemmas`) and one per action.

`TimeManagerProofs` proves, for any set of handlers and any word width,
`Spec => []TimeInv` and from it `BlocksNeverGoBack` and `ExactTimestampKept`, under
`TimeAssumption`. `TimeInv` adds to the types that the last timestamp and the mining
thread's copy of it are at least `floor` (`AboveFloor`), that an undisturbed handler's
timestamp is still not too low (`QuietCheck`), and where an accepted timestamp is at
each step of the mining thread (`PromiseKept`).

Only model-checked: liveness (`ReadyMined`, `LeftBehindRetried`), and everything about
module Node. Its property `PoolCalls`, checked by `node_send`, says that the node
uses the pool as TxPool's `Next` allows; on that instance the theorems about the
pool carry over to the node's pool.

## Not modelled

Forced transactions of a fork at a transaction hash (`Miner::force_transactions`);
`anvil_mine` with an interval; contents of blocks, gas amounts and EVM execution;
the growth of the service's queue beyond `MaxQueued`; deposit transactions, which
skip the nonce check; what `evm_setTime` and `evm_increaseTime` return; transaction order by arrival (`TransactionOrder::Fifo`).
Chain storage, historical states, fees, filters and subscriptions are planned:

1. `Chain`: storage, database version, environment, active snapshots; mining,
   `evm_snapshot`, `evm_revert`, `anvil_rollback`, `anvil_reorg`, `load_state`, one
   step per lock; composed with TimeManager. Properties: a block's parent is the
   block below it, the database belongs to the best block, a snapshot restores what
   it was taken of, transactions are found exactly in blocks on the chain. Runs with
   two handlers and the mining thread.
2. `BlockStates`: limits in memory and on disk, eviction order, what can still be
   read; an abstract specification (a bounded map of the most recent states) and the
   refinement.
3. `Filters` with subscriptions: each block's logs delivered once and in order,
   eviction only after the deadline.
4. `FeeHistory`: the cache against its limit, under rollbacks.
5. An abstract pool (a set of transactions with ready and waiting ones) that TxPool
   implements.
6. Proofs: the invariants of `BlockStates` and `Chain`; `NodeTypeOK` and `PoolCalls`
   for all constants; the refinement of the abstract pool.
