-------------------------------- MODULE Node --------------------------------
(***************************************************************************)
(* The transaction pool of module TxPool at work: the RPC handlers that    *)
(* submit transactions (eth/api.rs), the miner that picks them             *)
(* (eth/miner.rs), the service that drives block production (service.rs),  *)
(* a concurrent evm_mine, and the execution of a block                     *)
(* (eth/backend/executor.rs, do_mine_block in eth/backend/mem/mod.rs).     *)
(*                                                                         *)
(* Threads: one task per submitted transaction, the NodeService task, the  *)
(* blocking task that mines its current block, and the blocking task of    *)
(* one evm_mine request.  They share the pool, behind its lock, and the    *)
(* account nonces, behind the lock of the database.                        *)
(***************************************************************************)
EXTENDS TxPool

CONSTANTS
  SendTx,             \* the transactions submitted by eth_sendTransaction; the
                      \* others come signed, by eth_sendRawTransaction
  max_transactions,   \* config.max_transactions; evm_setAutomine passes its default
  InitialMode,        \* the mining mode try_spawn chose
  Requests,           \* the other RPC methods clients call
  MaxQueued           \* bound: batches waiting in the block producer

ASSUME NodeAssumption ==
  /\ SendTx \subseteq Tx
  /\ max_transactions \in Nat \ {0}
  /\ InitialMode \in {"None", "Auto", "FixedBlockTime", "Mixed"}
  /\ Requests \subseteq {"evm_mine", "anvil_dropTransaction", "anvil_dropAllTransactions",
                         "evm_setAutomine", "evm_setIntervalMining"}
  /\ MaxQueued \in Nat \ {0}

Sender == {t.from : t \in Tx}

VARIABLES
  nonce,            \* database: sender -> nonce of the account
  \* the handler that submits a transaction
  handler,          \* transaction -> where its handler is
  on_chain_nonce,   \* transaction -> the nonce its handler read
  \* Miner
  mode,             \* MiningMode
  rx,               \* the listener's channel holds a hash
  set_auto_mine,    \* the mode evm_setAutomine is about to set, or "idle"
  new_rx,           \* the channel it has registered holds a hash
  has_pending_txs,  \* ReadyTransactionMiner: "unknown", "yes" or "no"
  \* NodeService
  poll,             \* where NodeService::poll is
  auto_txs,         \* MiningMode::poll: its local variable
  queued,           \* BlockProducer: batches to be mined
  block_mining,     \* BlockProducer: "none", "running" or "done"
  \* the requests evm_mine and anvil_mine
  mine_one,         \* where mine_one is
  \* what a mining thread ("service" or "rpc") works on
  batch,            \* the transactions it was given
  included,         \* MinedBlockOutcome
  invalid,          \* MinedBlockOutcome
  \* history
  left_behind,      \* ready transactions that were skipped by a block or made
                    \* ready without an announcement, and not picked since
  stale             \* transactions in the pool that were added with an outdated nonce

chainVars == <<nonce, batch, included, invalid>>
handlerVars == <<handler, on_chain_nonce>>
requestVars == <<set_auto_mine, new_rx>>
minerVars == <<mode, rx, requestVars, has_pending_txs>>
serviceVars == <<poll, auto_txs, queued, block_mining>>
historyVars == <<left_behind, stale>>
nodeVars == <<chainVars, handlerVars, minerVars, serviceVars, mine_one, historyVars>>
vars == <<poolVars, nodeVars>>

NodeInit ==
  /\ Init
  /\ nonce = [a \in Sender |-> 0]
  /\ handler = [t \in Tx |-> "none"]
  /\ on_chain_nonce = [t \in Tx |-> 0]
  /\ mode = InitialMode
  /\ rx = FALSE
  /\ set_auto_mine = "idle"
  /\ new_rx = FALSE
  /\ has_pending_txs = "unknown"
  /\ poll = "producer"
  /\ auto_txs = <<>>
  /\ queued = <<>>
  /\ block_mining = "none"
  /\ mine_one = "idle"
  /\ batch = [m \in {"service", "rpc"} |-> <<>>]
  /\ included = [m \in {"service", "rpc"} |-> <<>>]
  /\ invalid = [m \in {"service", "rpc"} |-> {}]
  /\ left_behind = {}
  /\ stale = {}

-----------------------------------------------------------------------------
(* Submitting a transaction *)

\* validate_pool_transaction as far as the nonce goes; the other checks depend
\* on the transaction alone or are repeated when the block is built.
validate(t) == nonce[t.from] <= t.nonce

\* send_raw_transaction validates.
RawValidate(t) ==
  /\ t \notin SendTx
  /\ handler[t] = "none" /\ id < MaxId
  /\ validate(t)
  /\ handler' = [handler EXCEPT ![t] = "validated"]
  /\ UNCHANGED <<poolVars, chainVars, on_chain_nonce, minerVars, serviceVars,
                 mine_one, historyVars>>

\* Mutant: the nonce of the last transaction instead of the next one.
RawReadNonce_last(t) ==
  /\ handler[t] = "validated"
  /\ on_chain_nonce' = [on_chain_nonce EXCEPT ![t] = nonce[t.from] - 1]
  /\ handler' = [handler EXCEPT ![t] = "add"]
  /\ UNCHANGED <<poolVars, chainVars, minerVars, serviceVars, mine_one, historyVars>>

\* send_raw_transaction awaits backend.current_nonce.
RawReadNonce(t) ==
  /\ handler[t] = "validated"
  /\ on_chain_nonce' = [on_chain_nonce EXCEPT ![t] = nonce[t.from]]
  /\ handler' = [handler EXCEPT ![t] = "add"]
  /\ UNCHANGED <<poolVars, chainVars, minerVars, serviceVars, mine_one, historyVars>>

\* get_pool_transactions_nonce: one more than the highest nonce of a ready one.
PoolNonces(from) == {t.nonce + 1 : t \in {u \in Yielded : u.from = from}}

\* request_nonce looks at the pool (BlockRequest::Pending).
RequestPoolNonce(t) ==
  /\ t \in SendTx
  /\ op = "idle"
  /\ handler[t] = "none" /\ id < MaxId
  /\ IF PoolNonces(t.from) = {}
     THEN /\ handler' = [handler EXCEPT ![t] = "no_pool_nonce"]
          /\ UNCHANGED on_chain_nonce
     ELSE /\ handler' = [handler EXCEPT ![t] = "nonce"]
          /\ \E n \in PoolNonces(t.from) :
               /\ \A k \in PoolNonces(t.from) : k <= n
               /\ on_chain_nonce' = [on_chain_nonce EXCEPT ![t] = n]
  /\ UNCHANGED <<poolVars, chainVars, minerVars, serviceVars, mine_one, historyVars>>

\* request_nonce found no ready transaction of the sender and reads the database.
RequestChainNonce(t) ==
  /\ handler[t] = "no_pool_nonce"
  /\ on_chain_nonce' = [on_chain_nonce EXCEPT ![t] = nonce[t.from]]
  /\ handler' = [handler EXCEPT ![t] = "nonce"]
  /\ UNCHANGED <<poolVars, chainVars, minerVars, serviceVars, mine_one, historyVars>>

\* send_transaction validates; the request fails if the nonce was used meanwhile.
SendValidate(t) ==
  /\ handler[t] = "nonce"
  /\ handler' = [handler EXCEPT ![t] = IF validate(t) THEN "add" ELSE "none"]
  /\ UNCHANGED <<poolVars, chainVars, on_chain_nonce, minerVars, serviceVars,
                 mine_one, historyVars>>

\* What the handler passes to Pool::add_transaction.
Requires(t) == required_marker(t.nonce, on_chain_nonce[t], t.from)

\* Blocks were mined since the handler read the nonce, or even validated.
outdated(t) == nonce[t.from] > on_chain_nonce[t] \/ nonce[t.from] > t.nonce

\* The handler calls Pool::add_transaction: the transaction waits, or starts
\* to be made ready, or is refused.
Submit(t) ==
  /\ handler[t] = "add"
  /\ handler' = [handler EXCEPT ![t] = "none"]
  /\ on_chain_nonce' = [on_chain_nonce EXCEPT ![t] = 0]
  /\ \/ /\ AddPending(t, Requires(t)) \/ AddReady(t, Requires(t))
        /\ stale' = IF outdated(t) THEN stale \cup {t} ELSE stale
     \/ /\ op = "idle"
        /\ \/ contains(t)
           \/ id >= MaxId
           \/ Missing(Requires(t)) # {} /\ pending_underpriced(t)
        /\ UNCHANGED <<poolVars, stale>>
  /\ UNCHANGED <<chainVars, minerVars, serviceVars, mine_one, left_behind>>

\* notify_listener puts the hash into the channel of the miner, if it listens,
\* and into the one evm_setAutomine has registered.
Announce(t) ==
  /\ NotifyListener(t)
  /\ rx' = (rx \/ mode \in {"Auto", "Mixed"})
  /\ new_rx' = (new_rx \/ set_auto_mine = "Auto")
  /\ UNCHANGED <<chainVars, handlerVars, mode, set_auto_mine, has_pending_txs, serviceVars,
                 mine_one, historyVars>>

-----------------------------------------------------------------------------
(* The miner *)

\* PoolTransactionRef's order under TransactionOrder::Fees: the better paid
\* first, then the one that was added first.
Before(t, u) == \/ t.max_fee > u.max_fee
                \/ t.max_fee = u.max_fee /\ ref_id[t] < ref_id[u]

\* TransactionsIterator started on a set of independent transactions: takes the
\* best one and adds those it unlocks.
YieldFrom[S \in SUBSET Tx] ==
  IF S = {} THEN <<>>
  ELSE LET best == CHOOSE t \in S : \A u \in S \ {t} : Before(t, u)
       IN  <<best>> \o YieldFrom[(S \ {best}) \cup {u \in ready_tx : unlocks[best][u] > 0}]

\* Mutant: the iterator starts from every ready transaction.
ready_transactions_all == YieldFrom[ready_tx]

ready_transactions == YieldFrom[independent \cap ready_tx]

Take(s) == SubSeq(s, 1, IF Len(s) < max_transactions THEN Len(s) ELSE max_transactions)

\* Mixed mode: the fixed-time batch behind the automatic one, each transaction
\* unless it is in the batch already.
Merge(first, fixed_txs) ==
  FoldLeft(LAMBDA all, t : IF t \in Range(all) THEN all ELSE Append(all, t), first, fixed_txs)

\* Mutant: a full batch counts as a drained pool.
Drained_lax(txs) == Len(txs) <= max_transactions

\* The batch was not cut short by take(max_transactions).
Drained(txs) == Len(txs) < max_transactions

\* Miner::poll, ReadyTransactionMiner: takes what is ready, unless it knows that
\* nothing is.
PollAuto ==
  /\ poll = "auto"
  /\ LET reads == mode \in {"Auto", "Mixed"} /\ has_pending_txs # "no"
         txs   == IF reads THEN Take(ready_transactions) ELSE <<>>
     IN  /\ reads => op = "idle"
         /\ has_pending_txs' = IF ~reads THEN has_pending_txs
                               ELSE IF Drained(txs) THEN "no" ELSE "yes"
         /\ left_behind' = left_behind \ Range(txs)
         /\ auto_txs' = txs
  /\ poll' = "fixed"
  /\ UNCHANGED <<poolVars, chainVars, handlerVars, mode, rx, requestVars, queued, block_mining,
                 mine_one, stale>>

\* Miner::poll, FixedBlockTimeMiner, if the interval has elapsed (`tick`): adds
\* what is ready by now.  The service queues what the miner found.
PollFixed(tick) ==
  /\ poll = "fixed"
  /\ tick => mode \in {"FixedBlockTime", "Mixed"} /\ op = "idle"
  /\ LET all == IF tick THEN Merge(auto_txs, ready_transactions) ELSE auto_txs
     IN  /\ queued' = IF tick \/ auto_txs # <<>> THEN Append(queued, all) ELSE queued
         /\ left_behind' = left_behind \ Range(all)
  /\ auto_txs' = <<>>
  /\ poll' = "producer"
  /\ UNCHANGED <<poolVars, chainVars, handlerVars, minerVars, block_mining, mine_one, stale>>

\* set_mining_mode, which waits for the lock that Miner::poll holds; `channel`
\* is the listener of the new mode.
SetMode(m, channel) ==
  /\ poll \notin {"auto", "fixed"}
  /\ mode' = m
  /\ rx' = channel
  /\ has_pending_txs' = "unknown"
  /\ UNCHANGED <<poolVars, chainVars, handlerVars, serviceVars, mine_one, historyVars>>

\* anvil_set_auto_mine finds that the mode has to change, and registers the
\* listener of the automatic one...
SetAutoMine(enable_automine) ==
  /\ set_auto_mine = "idle"
  /\ enable_automine # (mode = "Auto")
  /\ set_auto_mine' = IF enable_automine THEN "Auto" ELSE "None"
  /\ UNCHANGED <<poolVars, chainVars, handlerVars, mode, rx, new_rx, has_pending_txs,
                 serviceVars, mine_one, historyVars>>

\* ... and sets the mode, whatever it is by now.
SetAutoMineMode ==
  /\ set_auto_mine # "idle"
  /\ SetMode(set_auto_mine, new_rx)
  /\ set_auto_mine' = "idle"
  /\ new_rx' = FALSE

\* anvil_set_interval_mining.
SetIntervalMining(secs) ==
  SetMode(IF secs = 0 THEN "None" ELSE "FixedBlockTime", FALSE) /\ UNCHANGED requestVars

-----------------------------------------------------------------------------
(* NodeService and BlockProducer *)

\* Mutant: a hash that arrives is forgotten.
drain_forget ==
  /\ rx' = FALSE
  /\ UNCHANGED <<mode, requestVars, has_pending_txs>>

\* Mutant: a hash that arrives does not overwrite what is known (get_or_insert).
drain_get_or_insert ==
  /\ rx' = FALSE
  /\ has_pending_txs' = IF rx /\ has_pending_txs = "unknown" THEN "yes" ELSE has_pending_txs
  /\ UNCHANGED <<mode, requestVars>>

\* ReadyTransactionMiner::poll drains the channel.
drain ==
  /\ rx' = FALSE
  /\ has_pending_txs' = IF rx THEN "yes" ELSE has_pending_txs
  /\ UNCHANGED <<mode, requestVars>>

\* BlockProducer::poll_next: a queued batch goes to the idle backend; a finished
\* block is handed to Pool::on_mined_block; if neither, the miner is polled.
PollProducer ==
  /\ poll = "producer"
  /\ \/ /\ queued # <<>> /\ block_mining = "none"
        /\ batch' = [batch EXCEPT !["service"] = Head(queued)]
        /\ queued' = Tail(queued)
        /\ block_mining' = "running"
        /\ UNCHANGED <<poll, minerVars>>
     \/ /\ block_mining = "done"
        /\ block_mining' = "none"
        /\ poll' = "remove_invalid"
        /\ UNCHANGED <<batch, queued, minerVars>>
     \/ /\ block_mining = "running" \/ (queued = <<>> /\ block_mining = "none")
        /\ Len(queued) < MaxQueued
        /\ poll' = "auto"
        /\ drain
        /\ UNCHANGED <<batch, queued, block_mining>>
  /\ UNCHANGED <<poolVars, nonce, included, invalid, handlerVars, auto_txs, mine_one, historyVars>>

\* mine_one collects the ready transactions.
MineOneRead ==
  /\ mine_one = "idle"
  /\ op = "idle"
  /\ mine_one' = "mine"
  /\ batch' = [batch EXCEPT !["rpc"] = ready_transactions]
  /\ left_behind' = left_behind \ Range(ready_transactions)
  /\ UNCHANGED <<poolVars, nonce, included, invalid, handlerVars, minerVars, serviceVars, stale>>

\* Mutant: the nonce is not checked.
ExecuteOne_any(out, t, skip, broke) ==
  CASE t \in skip -> out
    [] t \in broke \ skip -> [out EXCEPT !.invalid = @ \cup {t}]
    [] OTHER -> [out EXCEPT !.included = Append(@, t),
                            !.nonce = [@ EXCEPT ![t.from] = @ + 1]]

\* TransactionExecutor::execute on one transaction.  `skip`: it exceeds the gas
\* left in the block, or the database failed; `broke`: the sender cannot pay.
ExecuteOne(out, t, skip, broke) ==
  CASE t \in skip -> out
    [] t \notin skip /\ (t \in broke \/ t.nonce # out.nonce[t.from]) ->
         [out EXCEPT !.invalid = @ \cup {t}]
    [] OTHER -> [out EXCEPT !.included = Append(@, t),
                            !.nonce = [@ EXCEPT ![t.from] = @ + 1]]

execute(txs, skip, broke) ==
  FoldLeft(LAMBDA out, t : ExecuteOne(out, t, skip, broke),
           [nonce |-> nonce, included |-> <<>>, invalid |-> {}], txs)

\* mine_block, under the mining lock: one block at a time.
MineBlock(m, skip, broke) ==
  LET out == execute(batch[m], skip, broke)
  IN  /\ nonce' = out.nonce
      /\ included' = [included EXCEPT ![m] = out.included]
      /\ invalid' = [invalid EXCEPT ![m] = out.invalid]
      /\ left_behind' = left_behind \cup (skip \cap ready_tx)
      /\ batch' = [batch EXCEPT ![m] = <<>>]
      /\ UNCHANGED stale

\* The blocking task of the block producer.
ServiceMines(skip, broke) ==
  /\ block_mining = "running"
  /\ block_mining' = "done"
  /\ MineBlock("service", skip, broke)
  /\ UNCHANGED <<poolVars, handlerVars, minerVars, poll, auto_txs, queued, mine_one>>

RpcMines(skip, broke) ==
  /\ mine_one = "mine"
  /\ mine_one' = "remove_invalid"
  /\ MineBlock("rpc", skip, broke)
  /\ UNCHANGED <<poolVars, handlerVars, minerVars, serviceVars>>

-----------------------------------------------------------------------------
(* Pool::on_mined_block, called by both mining threads *)

\* The history of what the pool holds, made: ready transactions no one announces.
Remember(made) ==
  /\ left_behind' = (left_behind \cup made) \cap ready_tx'
  /\ stale' = {t \in stale : InPool(t)'}

at(m) == IF m = "service" THEN poll ELSE mine_one

goto(m, where) ==
  IF m = "service"
  THEN poll' = where /\ UNCHANGED mine_one
  ELSE mine_one' = where /\ UNCHANGED poll

\* on_mined_block takes the pool's lock to remove the invalid transactions...
OnMinedInvalid(m) ==
  /\ at(m) = "remove_invalid"
  /\ IF invalid[m] = {} THEN UNCHANGED poolVars ELSE RemoveInvalid(invalid[m])
  /\ goto(m, "prune")
  /\ invalid' = [invalid EXCEPT ![m] = {}]
  /\ Remember({})
  /\ UNCHANGED <<nonce, batch, included, handlerVars, minerVars, auto_txs, queued, block_mining>>

\* Mutant: the markers of the last transaction are not pruned.
OnMinedPrune_short(m) ==
  /\ at(m) = "prune"
  /\ PruneMarkers([i \in 1..(Len(included[m]) - 1) |-> provides(included[m][i])])
  /\ goto(m, "pruning")
  /\ included' = [included EXCEPT ![m] = <<>>]
  /\ UNCHANGED <<nonce, batch, invalid, handlerVars, minerVars, auto_txs, queued, block_mining,
                 historyVars>>

\* ... and takes it again to prune the markers of those included.
OnMinedPrune(m) ==
  /\ at(m) = "prune"
  /\ PruneMarkers([i \in DOMAIN included[m] |-> provides(included[m][i])])
  /\ goto(m, "pruning")
  /\ included' = [included EXCEPT ![m] = <<>>]
  /\ UNCHANGED <<nonce, batch, invalid, handlerVars, minerVars, auto_txs, queued, block_mining,
                 historyVars>>

\* prune_markers returns.
OnMinedDone(m) ==
  /\ at(m) = "pruning"
  /\ PruneDone
  /\ goto(m, IF m = "service" THEN "producer" ELSE "idle")
  /\ UNCHANGED <<chainVars, handlerVars, minerVars, auto_txs, queued, block_mining, historyVars>>

\* The call that holds the lock goes on.  What prune_markers makes ready is not
\* announced.
PoolStep ==
  /\ \/ QueueAdded
     \/ QueueDiscarded
     \/ QueueRejected
     \/ QueueDone
     \/ PruneMarker
     \/ PruneImport
  /\ Remember(IF op = "prune" THEN ready_tx' \ ready_tx ELSE {})
  /\ UNCHANGED <<chainVars, handlerVars, minerVars, serviceVars, mine_one>>

\* anvil_dropTransaction.
Drop(t) ==
  /\ DropTransaction(t)
  /\ Remember({})
  /\ UNCHANGED <<chainVars, handlerVars, minerVars, serviceVars, mine_one>>

\* anvil_dropAllTransactions.
DropAll ==
  /\ Clear
  /\ Remember({})
  /\ UNCHANGED <<chainVars, handlerVars, minerVars, serviceVars, mine_one>>

-----------------------------------------------------------------------------

HandlerStep(t) ==
  \/ RawValidate(t)
  \/ RawReadNonce(t)
  \/ RequestPoolNonce(t)
  \/ RequestChainNonce(t)
  \/ SendValidate(t)
  \/ Submit(t)

ServicePoll ==
  \/ PollProducer
  \/ PollAuto
  \/ \E tick \in BOOLEAN : PollFixed(tick)
  \/ OnMinedInvalid("service")
  \/ OnMinedPrune("service")

ServiceMining ==
  \E skip \in SUBSET Range(batch["service"]) :
    \E broke \in SUBSET (Range(batch["service"]) \ skip) : ServiceMines(skip, broke)

RpcStep ==
  \/ \E skip \in SUBSET Range(batch["rpc"]) :
       \E broke \in SUBSET (Range(batch["rpc"]) \ skip) : RpcMines(skip, broke)
  \/ OnMinedInvalid("rpc")
  \/ OnMinedPrune("rpc")

\* The other requests.
Request ==
  \/ "evm_mine" \in Requests /\ MineOneRead
  \/ "anvil_dropTransaction" \in Requests /\ \E t \in Tx : Drop(t)
  \/ "anvil_dropAllTransactions" \in Requests /\ DropAll
  \/ "evm_setAutomine" \in Requests /\ \E enable \in BOOLEAN : SetAutoMine(enable)
  \/ SetAutoMineMode
  \/ "evm_setIntervalMining" \in Requests /\ \E secs \in {0, 1} : SetIntervalMining(secs)

\* A call that holds the pool's lock shares nothing else with the other threads:
\* its steps commute with theirs, and it is let finish first.
NodeNext ==
  \/ PoolStep
  \/ \E m \in {"service", "rpc"} : OnMinedDone(m)
  \/ /\ op = "idle"
     /\ \/ \E t \in Tx : HandlerStep(t) \/ Announce(t)
        \/ ServicePoll
        \/ ServiceMining
        \/ RpcStep
        \/ Request

\* Every thread goes on; the interval that evicts filters wakes the service even
\* when nothing else does.  Clients need not act.
NodeFairness ==
  /\ WF_vars(PoolStep \/ \E m \in {"service", "rpc"} : OnMinedDone(m))
  /\ WF_vars(ServicePoll)
  /\ WF_vars(ServiceMining)
  /\ WF_vars(RpcStep)
  /\ WF_vars(\E t \in Tx : Announce(t))

NodeSpec == NodeInit /\ [][NodeNext]_vars /\ NodeFairness

-----------------------------------------------------------------------------
(* Properties *)

\* The state has the types of the source's fields and locals.
NodeTypeOK ==
  /\ TypeOK
  /\ nonce \in [Sender -> Nat]
  /\ handler \in [Tx -> {"none", "validated", "no_pool_nonce", "nonce", "add"}]
  /\ on_chain_nonce \in [Tx -> Nat]
  /\ mode \in {"None", "Auto", "FixedBlockTime", "Mixed"}
  /\ rx \in BOOLEAN
  /\ set_auto_mine \in {"idle", "None", "Auto"}
  /\ new_rx \in BOOLEAN
  /\ has_pending_txs \in {"unknown", "yes", "no"}
  /\ poll \in {"producer", "auto", "fixed", "remove_invalid", "prune", "pruning"}
  /\ auto_txs \in Seq(Tx)
  /\ queued \in Seq(Seq(Tx)) /\ Len(queued) <= MaxQueued
  /\ block_mining \in {"none", "running", "done"}
  /\ mine_one \in {"idle", "mine", "remove_invalid", "prune", "pruning"}
  /\ batch \in [{"service", "rpc"} -> Seq(Tx)]
  /\ included \in [{"service", "rpc"} -> Seq(Tx)]
  /\ invalid \in [{"service", "rpc"} -> SUBSET Tx]
  /\ left_behind \in SUBSET Tx
  /\ stale \in SUBSET Tx

\* The node calls the pool only in ways module TxPool allows, whatever the other
\* threads do between two calls: each prune names the markers of one block in
\* the order of their nonces (on_mined_block), each transaction requires its
\* predecessor or nothing (add_pending_transaction).  The theorems of module
\* TxPoolProofs therefore hold of the node's pool.
PoolCalls == Init /\ [][Next]_poolVars

\* No block was executed whose outcome the pool has not yet taken in.
PoolUpToDate ==
  /\ op = "idle"
  /\ block_mining # "done"
  /\ {poll, mine_one} \cap {"remove_invalid", "prune", "pruning"} = {}

\* Nothing is on its way to the miner or to the pool.
Settled == PoolUpToDate /\ block_mining = "none" /\ queued = <<>> /\ auto_txs = <<>>
           /\ mine_one = "idle" /\ notify = {} /\ ~rx

AutoMining == mode \in {"Auto", "Mixed"}

\* When an auto-mining node has settled and its miner believes there is nothing
\* to mine, it leaves no ready transaction behind, save those a block skipped
\* and those prune_markers made ready (ReadyTransactionMiner::poll).
AutoMinerComplete ==
  (Settled /\ AutoMining /\ has_pending_txs = "no") => ready_tx \subseteq left_behind

\* A transaction waits only for transactions that are not mined yet, unless the
\* nonce its handler read was outdated when it reached the pool.
StuckOnlyIfStale ==
  PoolUpToDate => \A h \in waiting_queue \ stale : \A m \in missing_markers[h] : nonce[m[1]] <= m[2]

\* Once the pool has taken in the outcome of every block, what was mined has left
\* it (on_mined_block), unless it came back with an outdated nonce.  A batch that
\* was handed out twice therefore finds nothing left to remove.  (Where clients
\* drop a transaction while its block is mined and submit it again, prune_markers
\* may make the mined transaction ready once more: it imports what a marker
\* unlocked after it has pruned them all.)
MinedLeft ==
  PoolUpToDate => \A t \in (waiting_queue \cup ready_tx) \ stale : nonce[t.from] <= t.nonce

\* A batch holds the transactions of a sender that can still be mined in the
\* order of their nonces, whatever they pay.
BatchInOrder ==
  \A txs \in Range(queued) \cup Range(batch) : \A i, j \in DOMAIN txs :
    (i < j /\ txs[i].from = txs[j].from /\ nonce[txs[j].from] <= txs[j].nonce)
    => txs[i].nonce <= txs[j].nonce

\* "An incoming transaction with a nonce > nonce on chain will require
\* (nonce - 1, account) first" (the pool's documentation).
RequiresPredecessor ==
  \A t \in waiting_queue \cup ready_tx :
    t.nonce > nonce[t.from] => requires[t] = {to_marker(t.nonce - 1, t.from)}

\* A pending transaction "still requires other transactions to be mined first".
PendingNeedsOthers ==
  PoolUpToDate => \A h \in waiting_queue : \A m \in missing_markers[h] : nonce[m[1]] <= m[2]

\* on_mined_block removes "invalid transactions from the pool": a transaction that
\* no block found invalid and that can still be mined goes with an invalid one
\* only if that one is missing before it.
OnlyBlockedRemoved ==
  [][\A m \in {"service", "rpc"}, t \in Tx :
       (/\ OnMinedInvalid(m)
        /\ contains(t) /\ ~contains(t)'
        /\ t \notin invalid["service"] \cup invalid["rpc"] /\ nonce[t.from] <= t.nonce)
       => \E u \in invalid[m] : u.from = t.from /\ nonce[u.from] <= u.nonce /\ u.nonce < t.nonce]_vars

\* An auto-mining node takes every ready transaction out of the pool, or a block
\* or a prune leaves it behind (ReadyTransactionMiner::poll).
ReadyMined ==
  \A t \in Tx : (t \in ready_tx /\ AutoMining)
                ~> (t \notin ready_tx \/ t \in left_behind \/ ~AutoMining)

\* What was left behind is not lost: the next hash in the channel makes the miner
\* look at the whole pool (has_pending_txs = Some(true)), and it hands the
\* transaction out again.
LeftBehindRetried ==
  \A t \in Tx : (t \in left_behind /\ rx /\ AutoMining)
                ~> (t \notin left_behind \/ ~AutoMining)

=============================================================================
