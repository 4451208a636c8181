--------------------------------- MODULE App ---------------------------------
(***************************************************************************)
(* The ABCI application of crates/app/src/app.rs: InitChain, FinalizeBlock *)
(* (begin blockers, run_tx for every raw transaction, end blockers, save   *)
(* of LAST_FINALIZED_BLOCK, flush_but_not_commit), Commit, Info and the    *)
(* two queries, over the versioned store of module Store and the bank      *)
(* contract of module Bank.                                                *)
(*                                                                         *)
(* The consensus engine is the environment: it starts the node with a     *)
(* handshake (Info, then InitChain when genesis is needed), proposes       *)
(* blocks, calls Commit once after every FinalizeBlock, and the node may   *)
(* crash and restart between any two of these calls, losing everything    *)
(* that is not persisted.  do_finalize_block is split at its loop over     *)
(* transactions (one step per run_tx) so that a crash may hit it midway;   *)
(* no other process writes in the meantime (spec section 5).               *)
(***************************************************************************)
EXTENDS Bank, SequencesExt

\* The native VM the router calls contract entry points through.
VM == INSTANCE RustVm

CONSTANTS
  MaxHeight,        \* the last block height consensus proposes
  MaxTxsPerBlock,   \* the most raw transactions in one block
  MaxCrashes,       \* the most crashes of the node in a behaviour
  TxPool,           \* decodable transactions [sender, nonce, msgs]
  Garbage,          \* raw transaction bytes that do not decode to a Tx
  Denom,            \* the denom every Send message moves
  BeginBlockers,    \* cfg.begin_blockers
  EndBlockers,      \* cfg.end_blockers
  GenesisBalances,  \* [Addrs -> Nat]: balances the genesis messages create
  NoPending,        \* BaseStore has no staged version
  \* How the consensus engine decides to call InitChain at start-up: TRUE
  \* when Info reports height 0 (what a handshake that compares heights
  \* does), FALSE when the store has no version at all.
  HandshakeInitsOnZeroHeight,
  \* TRUE when consensus calls Commit after every FinalizeBlock before the
  \* next one (ABCI); FALSE lets a FinalizeBlock arrive while a block is
  \* still staged, e.g. one re-executed or re-delivered before Commit.
  CommitAfterEveryBlock

ASSUME MaxHeight \in Nat \ {0}
ASSUME BeginBlockers \cup EndBlockers \subseteq Blockers
ASSUME Denom \in Denoms
ASSUME \A t \in TxPool : t.sender \in Accounts

VARIABLES
  db,             \* persisted versions of the BaseStore
  pending,        \* the version staged by flush_but_not_commit, or NoPending
  started,        \* the node has completed its start-up handshake
  fatal,          \* "none", or the fatal error returned: the chain halts
  crashes,        \* crashes so far
  phase,          \* "Idle", or "Txs" while do_finalize_block loops over txs
  block,          \* the height of the block being finalized
  blockState,     \* the block-level cache `cached' of do_finalize_block
  txQueue,        \* raw transactions of the block not yet run
  txResults,      \* tx_results of the block being finalized
  \* History: the tx_results of every persisted and of the staged version.
  dbResults,
  pendingResults

vars == <<db, pending, started, fatal, crashes, phase, block, blockState,
          txQueue, txResults, dbResults, pendingResults>>

RawTxs == TxPool \cup {Garbage}

\* The outcome of run_tx as consensus sees it, with two history fields: the
\* transaction, and whether its sender's account accepted it.
TxResult(tx, ok, authed, events) ==
  [tx |-> tx, ok |-> ok, authed |-> authed, events |-> events]

TxResults ==
  [tx : RawTxs, ok : BOOLEAN, authed : BOOLEAN,
   events : SUBSET {"authenticate", "execute", "backrun"}]

(***************************************************************************)
(* The genesis messages (GenesisState.msgs, as dango/genesis builds them)  *)
(* run in the cache of do_init_chain with GENESIS_SENDER: they instantiate *)
(* every contract, which fails when its address already holds one (spec   *)
(* 4.E); the accounts start at sequence 0 and the bank holds the genesis   *)
(* balances (zero balances are not stored).                                *)
(***************************************************************************)
ProcessGenesisMsgs(s) ==
  IF \E c \in Contracts : s[ContractKey(c)] # None
  THEN Outcome(s, TRUE)
  ELSE Outcome(
         [k \in Keys |->
            CASE k \in {ContractKey(c) : c \in Contracts} -> ContractInfo
              [] k \in {SeqKey(a) : a \in Accounts} -> 0
              [] k \in {BalKey(a, Denom) : a \in Addrs} ->
                   IF GenesisBalances[k[2]] > 0 THEN GenesisBalances[k[2]]
                   ELSE None
              [] OTHER -> s[k]],
         FALSE)

(***************************************************************************)
(* Contract entry points whose code is not under src/ (spec 4.D-4.F).      *)
(***************************************************************************)
\* The account's `authenticate' (before_tx): accept the transaction iff its
\* nonce is the account's sequence, and increment the sequence.
Authenticate(s, tx) ==
  IF s[SeqKey(tx.sender)] = tx.nonce
  THEN Outcome([s EXCEPT ![SeqKey(tx.sender)] = @ + 1], FALSE)
  ELSE Outcome(s, TRUE)

\* process_msg of an Execute on the bank contract: the router calls the
\* "execute" entry point through the VM, which decodes the message bytes
\* (`payload') before the guest runs and fails with DeserializeError when
\* they are not an ExecuteMsg.  The guest is the bank's `execute', which
\* takes `from' out of the message and never looks at ctx.sender, the
\* transaction's sender.
ProcessMsg(s, sender, msg) ==
  IF VM!Rejected(VM!CallIn1Out1({}, "execute", msg.payload, {}, TRUE).out)
  THEN Outcome(s, TRUE)
  ELSE Send(s, msg.from, msg.to, Denom, msg.amount)

\* The messages of a transaction in order against one cache, stopping at the
\* first error (the `?' in the loop of run_tx).
RECURSIVE ProcessMsgs(_, _, _)
ProcessMsgs(s, sender, msgs) ==
  IF msgs = <<>> THEN Outcome(s, FALSE)
  ELSE LET o == ProcessMsg(s, sender, Head(msgs)) IN
       IF o.err THEN o ELSE ProcessMsgs(o.store, sender, Tail(msgs))

\* before_block / after_block for every blocker of a list, in one cache:
\* each blocker contract bumps its counter.
CallBlockers(s, cs) ==
  [k \in Keys |-> IF \E c \in cs : k = CronKey(c)
                  THEN NumOr0(s[k]) + 1 ELSE s[k]]

(***************************************************************************)
(* Queries (read-only, served from persisted versions).                    *)
(***************************************************************************)
\* do_info: (latest_version, root_hash), or (0, ZERO) before genesis.
Info == IF db = <<>> THEN [height |-> 0, appHash |-> None]
        ELSE [height |-> LatestVersion(db),
              appHash |-> RootHash(LatestState(db))]

\* Mutation: height 0 read as version 0 instead of "latest".
QueryVersionZeroLiteral(height) == height

\* The version a query at `height' reads: 0 means the latest.
QueryVersion(height) == IF height = 0 THEN LatestVersion(db) ELSE height

\* do_query_app: the block the query is executed against, after loading
\* LAST_FINALIZED_BLOCK from the state storage at the queried version;
\* ProofNotSupported when a proof is asked for.
QueryApp(height, prove) ==
  LET v == QueryVersion(height) IN
  IF ~prove /\ v # None /\ HasVersion(db, v)
  THEN [ok |-> TRUE, block |-> StateAt(db, v)[LastBlockKey]]
  ELSE [ok |-> FALSE, block |-> None]

\* Mutation: do_query_store's own height-to-version conversion reading
\* height 0 as version 0.
QueryStoreVersionZeroLiteral(height) == height

\* The version do_query_store reads: its own copy of the conversion.
QueryStoreVersion(height) == IF height = 0 THEN LatestVersion(db) ELSE height

\* do_query_store without a proof: the raw value of key k at the version the
\* height selects.  Proofs (Merkle) are not modelled.
QueryStore(k, height) ==
  LET v == QueryStoreVersion(height) IN
  IF v # None /\ HasVersion(db, v)
  THEN [ok |-> TRUE, value |-> StateAt(db, v)[k]]
  ELSE [ok |-> FALSE, value |-> None]

(***************************************************************************)
(* The node's operations.                                                  *)
(***************************************************************************)
Init ==
  /\ db = <<>>
  /\ pending = NoPending
  /\ started = FALSE
  /\ fatal = "none"
  /\ crashes = 0
  /\ phase = "Idle"
  /\ block = 0
  /\ blockState = EmptyStore
  /\ txQueue = <<>>
  /\ txResults = <<>>
  /\ dbResults = <<>>
  /\ pendingResults = <<>>

\* Leave do_finalize_block: the block-level cache is dropped.
ResetBlock ==
  /\ phase' = "Idle"
  /\ block' = 0
  /\ blockState' = EmptyStore
  /\ txQueue' = <<>>
  /\ txResults' = <<>>

\* Consensus asks for genesis when it believes the application has none.
InitChainNeeded ==
  IF HandshakeInitsOnZeroHeight THEN Info.height = 0 ELSE db = <<>>

\* Start-up handshake: Info, then do_init_chain(chain_id, block, genesis)
\* when genesis is needed.  The genesis block has `height'; `msgsOk' is
\* whether the genesis messages' contracts all execute.  do_init_chain
\* saves CHAIN_ID, CONFIG and LAST_FINALIZED_BLOCK in a cache over the
\* latest state, runs the genesis messages in it, then flushes and commits
\* it in one step (flush_and_commit).  An error is fatal.
InitChain(height, msgsOk) ==
  LET saved == [LatestState(db) EXCEPT ![ChainIdKey] = ChainId,
                                       ![ConfigKey] = CfgValue,
                                       ![LastBlockKey] = height]
      genesis == ProcessGenesisMsgs(saved)
  IN
  /\ ~started /\ fatal = "none"
  /\ InitChainNeeded
  /\ started' = TRUE
  /\ CASE height # 0 ->
            /\ fatal' = "IncorrectBlockHeight"
            /\ UNCHANGED <<db, dbResults>>
       [] genesis.err \/ ~msgsOk ->
            /\ fatal' = "GenesisFailed"
            /\ UNCHANGED <<db, dbResults>>
       [] OTHER ->
            /\ db' = Append(db, genesis.store)
            /\ dbResults' = Append(dbResults, <<>>)
            /\ UNCHANGED fatal
  /\ UNCHANGED <<pending, crashes, phase, block, blockState, txQueue,
                 txResults, pendingResults>>

\* Start-up handshake of a node whose store needs no genesis.
Resume ==
  /\ ~started /\ fatal = "none"
  /\ ~InitChainNeeded
  /\ started' = TRUE
  /\ UNCHANGED <<db, pending, fatal, crashes, phase, block, blockState,
                 txQueue, txResults, dbResults, pendingResults>>

\* Mutation: the height check dropped.
IsNextHeightUnchecked(height, last) == TRUE

\* Mutation: LAST_FINALIZED_BLOCK saved before the transactions run.
BeginBlockSavingBlock(base, height) ==
  [CallBlockers(base, BeginBlockers) EXCEPT ![LastBlockKey] = height]

\* The height check of do_finalize_block: the new block is exactly the last
\* finalized one plus one.
IsNextHeight(height, last) == height = last + 1

\* The before_block calls of the begin blockers, in the block cache.
BeginBlock(base, height) == CallBlockers(base, BeginBlockers)

\* Mutation: the block cache opened over the staged version when there is
\* one.
StagedStateStorage == IF pending # NoPending THEN pending ELSE LatestState(db)

\* self.store.state_storage(None): the latest persisted version; a staged
\* version is not visible through it.
StateStorage == LatestState(db)

\* do_finalize_block up to its loop over transactions: load the config and
\* the last finalized block, check the height, call the begin blockers
\* (`beginOk' is whether they all succeed).  Any error is returned to
\* consensus and halts the chain; the cache is dropped.
FinalizeBegin(height, txs, beginOk) ==
  LET base == StateStorage
      last == base[LastBlockKey]
  IN
  /\ started /\ fatal = "none" /\ phase = "Idle"
  /\ CommitAfterEveryBlock => pending = NoPending
  /\ db # <<>>
  /\ CASE ~IsNextHeight(height, last) ->
            /\ fatal' = "IncorrectBlockHeight"
            /\ UNCHANGED <<phase, block, blockState, txQueue, txResults>>
       [] ~beginOk ->
            /\ fatal' = "BlockerFailed"
            /\ UNCHANGED <<phase, block, blockState, txQueue, txResults>>
       [] OTHER ->
            /\ phase' = "Txs"
            /\ block' = height
            /\ blockState' = BeginBlock(base, height)
            /\ txQueue' = txs
            /\ txResults' = <<>>
            /\ UNCHANGED fatal
  /\ UNCHANGED <<db, pending, started, crashes, dbResults, pendingResults>>

\* Mutation: the account's writes are not committed before the messages
\* run, so they are lost with the tx cache when a message fails.
RunTxOutcomeAuthNotCommitted(s, raw, backrunOk) ==
  LET auth == Authenticate(s, raw)
      msgs == ProcessMsgs(auth.store, raw.sender, raw.msgs)
      Ret(store, ok, authed, events) ==
        [store |-> store, result |-> TxResult(raw, ok, authed, events)]
  IN
  CASE raw = Garbage             -> Ret(s, FALSE, FALSE, {})
    [] auth.err                  -> Ret(s, FALSE, FALSE, {})
    [] msgs.err \/ ~backrunOk    -> Ret(s, FALSE, TRUE, {})
    [] OTHER -> Ret(msgs.store, TRUE, TRUE,
                    {"authenticate", "execute", "backrun"})

\* Mutation: the tx cache is committed on the error path too.
RunTxOutcomeCommitsOnError(s, raw, backrunOk) ==
  LET auth == Authenticate(s, raw)
      msgs == ProcessMsgs(auth.store, raw.sender, raw.msgs)
      Ret(store, ok, authed, events) ==
        [store |-> store, result |-> TxResult(raw, ok, authed, events)]
  IN
  CASE raw = Garbage             -> Ret(s, FALSE, FALSE, {})
    [] auth.err                  -> Ret(s, FALSE, FALSE, {})
    [] msgs.err \/ ~backrunOk    -> Ret(msgs.store, FALSE, TRUE, {})
    [] OTHER -> Ret(msgs.store, TRUE, TRUE,
                    {"authenticate", "execute", "backrun"})

\* run_tx on a raw transaction against the block cache `s': the block cache
\* it leaves and the result.  Decoding failure and authentication failure
\* leave the block cache as it was.  Once authenticated, the account's
\* writes are committed into the block cache; the messages and after_tx
\* (`backrunOk' is whether it succeeds) run in the tx cache, which is
\* committed only if all of them succeed.  An Err result carries no events.
RunTxOutcome(s, raw, backrunOk) ==
  LET auth == Authenticate(s, raw)
      msgs == ProcessMsgs(auth.store, raw.sender, raw.msgs)
      Ret(store, ok, authed, events) ==
        [store |-> store, result |-> TxResult(raw, ok, authed, events)]
  IN
  CASE raw = Garbage             -> Ret(s, FALSE, FALSE, {})
    [] auth.err                  -> Ret(s, FALSE, FALSE, {})
    [] msgs.err \/ ~backrunOk    -> Ret(auth.store, FALSE, TRUE, {})
    [] OTHER -> Ret(msgs.store, TRUE, TRUE,
                    {"authenticate", "execute", "backrun"})

\* do_finalize_block runs the next raw transaction of the block.
RunTx(backrunOk) ==
  LET o == RunTxOutcome(blockState, Head(txQueue), backrunOk) IN
  /\ phase = "Txs" /\ txQueue # <<>>
  /\ txQueue' = Tail(txQueue)
  /\ blockState' = o.store
  /\ txResults' = Append(txResults, o.result)
  /\ UNCHANGED <<db, pending, started, fatal, crashes, phase, block,
                 dbResults, pendingResults>>

\* The after_block calls of the end blockers, then the save of
\* LAST_FINALIZED_BLOCK, in the block cache.
EndBlock(s, height) ==
  [CallBlockers(s, EndBlockers) EXCEPT ![LastBlockKey] = height]

\* Mutation: the block cache dropped instead of flushed as the staged
\* version.
FinalizeEndNoFlush(endOk) ==
  /\ phase = "Txs" /\ txQueue = <<>>
  /\ IF endOk
     THEN UNCHANGED <<fatal, pending, pendingResults>>
     ELSE /\ fatal' = "BlockerFailed"
          /\ UNCHANGED <<pending, pendingResults>>
  /\ ResetBlock
  /\ UNCHANGED <<db, started, crashes, dbResults>>

\* The rest of do_finalize_block: call the end blockers (`endOk'), save
\* LAST_FINALIZED_BLOCK, and flush the block cache as the staged version
\* (flush_but_not_commit).
FinalizeEnd(endOk) ==
  /\ phase = "Txs" /\ txQueue = <<>>
  /\ IF endOk
     THEN /\ pending' = EndBlock(blockState, block)
          /\ pendingResults' = txResults
          /\ UNCHANGED fatal
     ELSE /\ fatal' = "BlockerFailed"
          /\ UNCHANGED <<pending, pendingResults>>
  /\ ResetBlock
  /\ UNCHANGED <<db, started, crashes, dbResults>>

\* Mutation: commit leaves the staged version in place.
CommitKeepsPending ==
  /\ phase = "Idle" /\ pending # NoPending
  /\ db' = Append(db, pending)
  /\ dbResults' = Append(dbResults, pendingResults)
  /\ UNCHANGED <<pending, pendingResults>>
  /\ UNCHANGED <<started, fatal, crashes, phase, block, blockState, txQueue,
                 txResults>>

\* do_commit: BaseStore::commit persists the staged version.  Consensus
\* calls it on the same connection as FinalizeBlock, never in the middle
\* of one (spec 5).
Commit ==
  /\ phase = "Idle" /\ pending # NoPending
  /\ db' = Append(db, pending)
  /\ dbResults' = Append(dbResults, pendingResults)
  /\ pending' = NoPending
  /\ pendingResults' = <<>>
  /\ UNCHANGED <<started, fatal, crashes, phase, block, blockState, txQueue,
                 txResults>>

\* The process stops and restarts: the staged version and every cache are
\* lost, the persisted versions survive.  A failing BaseStore::commit in
\* do_commit leaves the same state (spec 4.A: a failed commit leaves the
\* persisted state at the previous version, no partial writes).
Crash ==
  /\ fatal = "none" /\ crashes < MaxCrashes
  /\ crashes' = crashes + 1
  /\ started' = FALSE
  /\ pending' = NoPending
  /\ pendingResults' = <<>>
  /\ ResetBlock
  /\ UNCHANGED <<db, fatal, dbResults>>

\* The blocks consensus may propose.
BlockTxs == SeqOf(RawTxs, MaxTxsPerBlock)

Next ==
  \/ \E h \in {0, 1}, ok \in BOOLEAN : InitChain(h, ok)
  \/ Resume
  \/ \E h \in 1..MaxHeight, txs \in BlockTxs, ok \in BOOLEAN :
        /\ (BeginBlockers = {} => ok)
        /\ FinalizeBegin(h, txs, ok)
  \/ \E ok \in BOOLEAN : RunTx(ok)
  \/ \E ok \in BOOLEAN : (EndBlockers = {} => ok) /\ FinalizeEnd(ok)
  \/ Commit
  \/ Crash

Spec == Init /\ [][Next]_vars

(***************************************************************************)
(* Properties.                                                             *)
(***************************************************************************)
TypeOK ==
  /\ db \in Seq(Stores)
  /\ \A v \in DOMAIN db : BalancesFit(db[v])
  /\ pending \in Stores \cup {NoPending}
  /\ started \in BOOLEAN
  /\ fatal \in {"none", "IncorrectBlockHeight", "GenesisFailed", "BlockerFailed"}
  /\ crashes \in 0..MaxCrashes
  /\ phase \in {"Idle", "Txs"}
  /\ block \in 0..MaxHeight
  /\ blockState \in Stores /\ BalancesFit(blockState)
  /\ txQueue \in Seq(RawTxs)
  /\ txResults \in Seq(TxResults)
  /\ dbResults \in Seq(Seq(TxResults))
  /\ pendingResults \in Seq(TxResults)

Versions == 0..Len(db) - 1

\* I1 (app.rs: "block height always matches the BaseStore version"): every
\* persisted version, and the staged one, holds the block of its own height
\* as LAST_FINALIZED_BLOCK, across crashes, restarts and handshakes.
VersionMatchesHeight ==
  /\ \A v \in Versions : StateAt(db, v)[LastBlockKey] = v
  /\ pending # NoPending => pending[LastBlockKey] = Len(db)

\* do_query_app at height h runs the query against block h (height 0: the
\* latest block Info reports), whatever blocks were finalized since; and
\* do_query_store, which converts the height on its own, reads the same
\* version: its raw read of last_finalized_block is that block.
QueryBlockMatchesHeight ==
  \A h \in 0..MaxHeight :
    LET app == QueryApp(h, FALSE)
        raw == QueryStore(LastBlockKey, h)
    IN /\ app.ok => app.block = IF h = 0 THEN Info.height ELSE h
       /\ raw.ok = app.ok
       /\ raw.ok => raw.value = app.block

\* While do_finalize_block runs transactions, a contract reading
\* LAST_FINALIZED_BLOCK sees the previous block, not the current one (the
\* save happens after all transactions and end blockers).
TxsSeePreviousBlock ==
  phase = "Txs" => blockState[LastBlockKey] = block - 1

\* A failed transaction changes nothing in the block but its sender's
\* sequence: the writes of its messages (a debit whose credit overflowed
\* included) and of after_tx are all discarded.
FailedTxOnlyBumpsSequence ==
  [][ Len(txResults') = Len(txResults) + 1 /\ ~Last(txResults').ok =>
        \A k \in Keys :
          blockState'[k] # blockState[k] =>
            k = SeqKey(Last(txResults').tx.sender) ]_vars

\* Coins are neither created nor destroyed: every persisted and the staged
\* version hold the genesis supply of the denom.
GenesisSupply == MapThenSumSet(LAMBDA a : GenesisBalances[a], Addrs)

SupplyConserved ==
  /\ \A v \in Versions : Supply(StateAt(db, v), Denom) = GenesisSupply
  /\ pending # NoPending => Supply(pending, Denom) = GenesisSupply

\* Genesis only fails on a store that holds no version: a node that has
\* persisted its genesis always restarts.
GenesisFailsOnlyOnEmptyStore ==
  fatal = "GenesisFailed" => db = <<>>

\* Replay protection (spec 4.F step 4): along the persisted chain, an
\* account accepts a signed transaction at most once, even when the
\* transaction's messages failed the first time.
CommittedAuths ==
  UNION {{<<v, i>> : i \in DOMAIN dbResults[v + 1]} : v \in Versions}

NoReplay ==
  \A p, q \in CommittedAuths :
    LET rp == dbResults[p[1] + 1][p[2]]
        rq == dbResults[q[1] + 1][q[2]]
    IN rp.authed /\ rq.authed /\ rp.tx = rq.tx => p = q

\* Spec 4.F: a failed transaction still reports the events of the frames
\* that committed, i.e. its authentication.
FailedTxKeepsAuthEvents ==
  \A i \in DOMAIN txResults :
    txResults[i].authed /\ ~txResults[i].ok =>
      "authenticate" \in txResults[i].events

\* Spec 8 (a Transfer moves the *sender's* balance) and spec 4.F (the
\* credential is checked by the sender's account only): a transaction
\* never lowers the balance of an address other than its sender's.
SpendsOnlyOwnCoins ==
  [][ LET t == Last(txResults').tx IN
      Len(txResults') = Len(txResults) + 1 /\ t # Garbage =>
        \A a \in Addrs \ {t.sender} :
          NumOr0(blockState'[BalKey(a, Denom)]) >= NumOr0(blockState[BalKey(a, Denom)]) ]_vars

\* I5: no persisted balance is zero (zero balances are deleted).
NoZeroBalance ==
  \A v \in Versions, a \in Addrs :
    StateAt(db, v)[BalKey(a, Denom)] # 0

=============================================================================
