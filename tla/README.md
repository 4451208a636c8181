# TLA+ models of the left-curve execution core

This directory holds TLA+ models of the block-processing core in `src/`, the
TLC configurations that check them, and `PROJECT.json`. `PROJECT.json` lists
the components, the runs, the mutants, the map from definitions to source
lines, the findings and the hazards.

## 1. Inventory

### Components and their state

| Component | Source | State it keeps | Operations |
|---|---|---|---|
| ABCI application `App` | `src/crates/app/src/app.rs` | a `BaseStore` (persisted versions plus one staged version) | `do_init_chain`, `do_finalize_block`, `do_commit`, `do_info`, `do_query_app`, `do_query_store` |
| Transaction executor `run_tx` | same file, lines 239-277 | a tx-scoped `CacheStore` over the block cache | decode, `before_tx` (authenticate), commit, messages, `after_tx` (backrun), commit |
| Bank contract | `src/contracts/bank/src/lib.rs` | `BALANCES: (address, denom) -> u64` in its prefixed store | `execute` / `send` (checked sub, delete at zero, checked add) |
| Versioned store `BaseStore` | not under `src/` (spec 4.A) | versions 0..n persisted, one staged version | `state_storage(version)`, `flush_but_not_commit`, `flush_and_commit`, `commit`, `latest_version`, `root_hash`, `prove` |
| Cache overlay `CacheStore` / `SharedStore` | not under `src/` (spec 4.B) | a map of pending writes over a parent | read-through, write, `commit` into parent, `disassemble` |
| Router `process_msg`, `before_tx`, `after_tx`, `before_block`, `after_block` | not under `src/` (spec 4.E) | none of its own | dispatches messages and hooks to contracts |
| Rust VM `RustVm` | `src/crates/vm/rust/src/vm.rs` | the contract's prefixed store and querier | `call_in_0_out_1` (`receive`), `call_in_1_out_1` (`instantiate`, `execute`, `migrate`, `query`), `call_in_2_out_1` (`reply`); any other name is `IncorrectNumberOfInputs` |
| Genesis builder | `src/dango/genesis/src/lib.rs` | none (a pure builder) | `build_genesis`: uploads, instantiations at predicted addresses, permissions, config |
| Account types | `src/dango/types/src/account_factory/account.rs` | none | `AccountType` storage-key encoding and decoding, downcasts |
| VM bank example | `src/crates/vm/examples/bank.rs` | a `MockStorage` host state | three `Send` calls on the bank, straight on the host store |
| Wasm host instance | `src/host/src/lib.rs` | a wasmi instance | tests only |
| Contexts | `src/crates/std/src/types/context.rs` | none | data types |
| Indexer events entity | `src/indexer/sql/src/entity/events.rs` | none | generated ORM model |

### How they interact

The consensus engine drives `App` through ABCI calls:
`InitChain`, then `FinalizeBlock` and `Commit` for every height, plus `Info`
and queries at any time. `do_finalize_block` opens a block cache over the
latest persisted version. It then calls the begin blockers and runs
`run_tx` for each raw transaction in a tx cache over the block cache. Next
it calls the end blockers and saves `LAST_FINALIZED_BLOCK`. Finally it
flushes the block cache as the staged version, which `do_commit` persists.

Contracts run through the VM on a prefixed sub-store. The bank's `send`
writes straight through to the store it is given. All-or-nothing behaviour
comes only from the caller's cache overlay.

### What makes it hard

- Crash and restart: `do_init_chain` commits genesis at once. After that,
  `do_finalize_block` only stages a version and `do_commit` persists it. A
  crash between the two loses the staged block. The restart handshake
  (`Info`, then `InitChain` when the height is 0) decides what is replayed.
- Partial failure: a transaction commits its authentication and then may
  fail in any message or in `after_tx`. Inside `send`, the debit is written
  before the credit can overflow. A blocker error aborts a block after its
  transactions ran.
- Ordering: authentication is committed before the messages run, and
  `LAST_FINALIZED_BLOCK` is saved after the transactions.
- Numeric edges: `checked_add` at `u64::MAX`, zero balances, and height 0 as
  "latest" in queries.
- Concurrency: within a block the writer is single-threaded (spec 5).
  Queries run concurrently but read persisted versions only.

### What makes each component correct

- App: the store version equals the block height (I1). A query at height h
  sees block h. Contracts see the previous block while the block executes.
  A node that persisted genesis can restart.
- run_tx: a failed transaction changes only its sender's sequence, and a
  signed transaction is accepted at most once along the chain (replay
  protection). The spec also requires a failed transaction to keep its
  authentication events.
- Bank: supply is conserved, balances fit u64, and no zero balance is stored
  (I5).
- Genesis: every instantiation uses uploaded code and lands on the address
  that was predicted for it. Genesis users' balances go to their own
  addresses.
- RustVm: every entry point of the spec's matrix can be called with its
  number of inputs.

## 2. Modules

| Module | Models | Main correspondences |
|---|---|---|
| `Store` | the key space and `BaseStore` views (from the spec) | a store is a function from keys to values, with `None` for an absent key. Keys are `chain_id`, `config`, `last_finalized_block`, `contract/{addr}`, the bank's balances, the account sequences and the blocker contracts' state. `db` (a sequence) holds the persisted versions. |
| `Bank` | `contracts/bank` `send` | `Debit` and `Credit` are the two `BALANCES.update` closures. `Send` chains them and returns the store the writes left even on error, which is what `Map::update` does. `MaxBalance` is `u64::MAX` scaled down. `execute` takes `from` from the message, and `App`'s `ProcessMsg` passes it on unchanged, as the contract does. `ProcessMsg` first calls `execute` through `RustVm`'s `CallIn1Out1`, so a message whose bytes are not an `ExecuteMsg` fails with the VM's deserialize error before the bank runs. |
| `App` | `app.rs` and its environment | Variables: `db`, `pending`, `blockState` (block cache), `txQueue`, `txResults`, `phase`, `block`, `fatal`, `started`, `crashes`, plus history variables (`dbResults`, `pendingResults`). Actions: `InitChain` (handshake plus `do_init_chain`), `Resume` (handshake without genesis), `FinalizeBegin` (`do_finalize_block` up to the tx loop), `RunTx` (one `run_tx`), `FinalizeEnd` (end blockers, save, flush), `Commit`, `Crash`. `Info`, `QueryApp` and `QueryStore` (`do_query_store` without proofs, with its own copy of the height conversion) are operators. `StateStorage` is `state_storage(None)`, the latest persisted version, which the block cache is opened over. The constant `CommitAfterEveryBlock` says whether consensus always commits a block before it sends the next FinalizeBlock. |
| `ChainAbstract` | what the application promises about its persisted history (spec 3-4) | `chain` is the sequence of persisted states. `Genesis` persists a genesis state, and `Extend` appends the latest state with one whole block applied at the height of its version. The genesis states, the blocks and how a block is applied are constants. |
| `AppChain` | `App` refined into `ChainAbstract`, plus liveness | `db` is mapped to `chain`. A block is its transactions plus each one's `after_tx` outcome, and `SpecBlock` applies it as spec 4.F-4.G say: begin blockers, then each transaction (no change if it is undecodable or unauthenticated, only the sequence bump if a message or `after_tx` fails), then end blockers, then `last_finalized_block`. `SpecTx` is written from the spec, not from `run_tx`. `FairSpec` adds weak fairness. |
| `MCApp` | TLC instance of `AppChain` (hence `App`) | addresses `a1`, `a2` (accounts) and `a3`, denom `uatom`, blockers `bb` and `eb`, four transactions (Alice to Bob, Bob to Carol, Alice sending 1 to herself once she holds 2, and Bob's `TxGarbled` whose message bytes do not decode, sharing nonce 0 with Bob's valid one) and undecodable transaction bytes. |
| `RustVm` | `vm/rust/src/vm.rs` dispatch | `CallIn0Out1`, `CallIn1Out1` and `CallIn2Out1` are the three `call_in_*_out_1`. A byte parameter is `"json"` or `"garbage"`, a guest run is a set of written tags plus Ok or Err, and an output is `<<"ok">>` or the error. It has no variables, so `Genesis` reuses it. |
| `Vm` | a run of calls on one contract through `RustVm` | `storage` is the contract's prefixed store (the tags written) and `last` is the last call. `Call0`, `Call1` and `Call2` are one call each at its shape, with any name, parameters and guest behaviour. `build_instance` keeps nothing between calls. |
| `Genesis` | `dango/genesis` `build_genesis`, run by `do_init_chain` | `BuildGenesis` computes the message list, `Contracts`, the users' addresses and `Config` (or `Panic`). `Hash` and `Addr::derive` are collision-free tuples. Variables: `codes` (`code/*`), `contractAt` (`contract/*`), `idx` and `status`. Actions: `ProcessGenesisMsg` (one iteration of the genesis loop through the router of spec 4.E, which calls `instantiate` through `RustVm`), and `CommitGenesis`. |
| `AccountKey` | `AccountType` as a `PrimaryKey` | `RawKeys` and `FromSlice` are `raw_keys` and `from_slice`, and `TypeLess` is the derived `Ord`. `key` is any byte string of up to `MaxKeyLen` bytes, and `Decode` runs `from_slice` on it. `params` is any `AccountParams`; `Ty`, `AsVariant` and `IsVariant` are `ty()` and the `as_*`/`is_*` methods `generate_downcast!` generates. |
| `MCGenesis` | TLC instance of `Genesis` | usernames `u1` and `u2` (in that byte order), coin sets `c1` and `c2`, and sixteen distinct codes |

Cache overlays are modelled as materialised views, following option (b) of
spec section 9. Committing the tx cache replaces the block view with the tx
view, and dropping it keeps the block view. The writes in a cache are
observable only through the flushed state. So only the resulting state is
kept, not the write batch.

`do_finalize_block` is split into `FinalizeBegin`, one `RunTx` per
transaction, and `FinalizeEnd`, all ordered by `phase`. No other writer runs
in between (spec 5). The split lets a crash hit the handler midway.
`run_tx` is one action, because nothing can interleave inside it. `Commit` is only taken between two FinalizeBlock calls: consensus calls both on one connection (spec 5). When `CommitAfterEveryBlock` is FALSE, a second `flush_but_not_commit` replaces the staged version. Spec 4.A stages the batch as version latest + 1, and `BaseStore` is not under `src/`.

The contract code that is not under `src/` is modelled from the spec, and
`PROJECT.json` marks it `spec_modelled`:

- the account's `authenticate` accepts a transaction iff its nonce equals the
  stored sequence, and increments the sequence;
- a blocker's `before_block`/`after_block` bumps its counter and may fail;
- genesis instantiates every contract, and an instantiation fails if the
  address already holds a contract (spec 4.E).

## 3. Runs

| Run | Cfg | Expect | What it checks |
|---|---|---|---|
| `app` | `MCApp.cfg` | pass | `TypeOK`, `VersionMatchesHeight`, `QueryBlockMatchesHeight` (both query paths read the block of the queried height), `TxsSeePreviousBlock`, `SupplyConserved`, `NoReplay`, `FailedTxOnlyBumpsSequence` over two blocks, with up to two transactions each, one crash, failing blockers and genesis, wrong heights and failing `after_tx` |
| `app_handshake` | `MCApp_handshake.cfg` | violation | `GenesisFailsOnlyOnEmptyStore`, when the handshake calls InitChain whenever Info reports height 0 |
| `app_events` | `MCApp_events.cfg` | violation | `FailedTxKeepsAuthEvents` (spec 4.F) |
| `app_zero` | `MCApp_zero.cfg` | violation | `NoZeroBalance` (I5), with a Send of 0 to an empty address |
| `app_chain` | `MCApp_chain.cfg` | pass | `ChainRefinement`, `VersionMatchesHeight`, `SupplyConserved`, `NoReplay`, with `CommitAfterEveryBlock = FALSE` and two crashes: FinalizeBlock may also arrive while a block is still staged. The persisted versions implement `ChainAbstract`, and the staged version, both caches, the phases and the crashes are invisible in the persisted history. Because `do_finalize_block` reads the persisted version, a repeated FinalizeBlock of the same height re-executes it and replaces the staged block; one of the next height is refused as `IncorrectBlockHeight` |
| `app_theft` | `MCApp_theft.cfg` | violation | `SpendsOnlyOwnCoins`, with a transaction of Bob's whose Send names Alice as `from` |
| `app_live` | `MCApp_live.cfg` | pass | `BlockEventuallyPersisted`, under `FairSpec`: a block whose transactions have started is persisted as the version of its height, unless a blocker halts the chain or the node crashes |
| `vm` | `MCVm.cfg` | pass | `TypeOK` (an error's input count is its shape's), over three calls of nine names at each shape |
| `genesis` | `MCGenesis.cfg` | pass | `TypeOK`, `GenesisSucceeds` and `BalancesToOwners`, for every set of genesis users (each with no coins, `c1` or `c2`) and every owner, with a router that exempts `GENESIS_SENDER` from permissions |
| `account_key` | `AccountKey.cfg` | pass | `TypeOK`, `RoundTrip`, `DecodeIsCanonical`, `OrderPreserved` and `IndexedTypeDowncasts`, over all 65,793 byte strings of up to two bytes and each of the three kinds of params |
| `genesis_perm` | `MCGenesis_perm.cfg` | violation | `GenesisSucceeds`, with the router checking `GENESIS_SENDER` against the saved permissions as spec 4.E reads |
| `vm_entry` | `MCVm_entry.cfg` | violation | `OnlyUnknownNamesRejected`: a call of `authenticate` or `cron_execute` at the one-input shape, which spec 4.D's matrix lists |

Bounds of `app`: `MaxHeight = 2`, `MaxTxsPerBlock = 2`, `MaxCrashes = 1` and
`MaxBalance = 3`. The genesis balances are 3, 2 and 0.

- Two transactions in one block reach the overflow case: Alice pays Bob 1,
  then Bob pays Carol 1 and Alice 2, which overflows Alice's balance.
- Bob's transaction alone reaches the insufficient-funds case on its second
  message.
- Two heights let a transaction that failed in block 1 be proposed again in
  block 2, which is the replay case.
- `TxGarbled` and `TxBob` share Bob's nonce 0, so a block holding both, in
  either order, reaches the case of a VM decode failure consuming the
  nonce of a valid transaction.
- `TxAliceSelf` (Alice sends 1 to herself once `TxAlice` has left her 2)
  is the self-send whose credit still fits if it read the balance from
  before the debit: that stale read would create a coin, which
  `SupplyConserved` catches.
- One crash covers loss of the staged block and a re-proposal. `app_chain`
  allows two, so a node can crash again while it re-executes the block it
  lost. A failing `BaseStore::commit` leaves the state a crash before
  Commit leaves (spec 4.A: no partial writes), so these crashes cover it.

Bounds of `genesis`: two usernames give empty, one-user and two-user
genesis sets. Two users with different coins are what a misaligned zip of
`genesis_users` with `addresses` would swap. An owner outside the users
reaches the `unwrap` panic. `vm`: three calls reach every shape with
every name, parameter and guest outcome.

With these bounds `app` reaches about 21,600 distinct states and
`app_chain` about 597,000 (about a minute). Raising `MaxHeight` to 3 adds
no new kind of step: each case above is reached within two blocks.

Fairness: only `app_live` assumes any, through `FairSpec`. The loop over
transactions (`RunTx`) and the end of `do_finalize_block` (`FinalizeEnd`)
get weak fairness: spec 5 says nothing inside a block suspends, so once the
handler has started, its next step stays enabled until it is taken or the
process dies. `Commit` gets weak fairness because consensus calls Commit
after every FinalizeBlock response. Nothing is assumed of consensus
proposing blocks, of restarts, or of crashes, so the property allows
"the node crashes" as an outcome instead of requiring progress after one.
The other runs check safety only.

Every config sets `CHECK_DEADLOCK FALSE`, because each model really stops:
- `App` after a fatal error (wrong height, failing genesis, failing blocker)
  and at `MaxHeight`;
- `Genesis` once genesis is committed or failed, or when the builder panics;
- `Vm` at `MaxCalls`.

### Findings

1. `app_handshake` (spec gap): genesis is persisted by InitChain itself,
   and Info reports height 0 both before and after it. A handshake that calls
   InitChain when Info reports height 0 therefore re-runs genesis after a
   crash that came before the first Commit. The instantiations then fail on
   the stored contracts and the node halts. The spec does not say how a
   restarted genesis-only node is told apart from a fresh one.
2. `app_events` (spec/code divergence): `run_tx` returns `Err` through `?`,
   so a failed transaction reports no events, not even those of its committed
   authentication.
3. `app_zero` (code bug against I5): the credit in `send` stores
   `Some(0)` when 0 is sent to an address with no balance.
4. `genesis_perm` (spec gap): `do_init_chain` saves `CONFIG` before it runs
   the genesis messages. `build_genesis` sets upload to `Nobody` and
   instantiate to `Somebodies{account_factory}`. Spec 4.E and I7 check
   every message against these, with no exemption for `GENESIS_SENDER`, so
   the first Upload of genesis is rejected. The spec has to exempt the
   genesis sender for `build_genesis`'s output to be usable.
5. `vm_entry` (spec/code divergence): spec 4.D gives `authenticate`,
   `backrun`, `bank_execute`, `bank_query`, `withhold_fee`, `finalize_fee`
   and `cron_execute` the one-input shape and makes only unknown names a
   hard error. `RustVm::call_in_1_out_1` (vm.rs:86) dispatches only
   `instantiate`, `execute`, `migrate` and `query`, and returns
   `IncorrectNumberOfInputs` for every other name. `app.rs` itself calls
   none of these names, but the cronjob that genesis configures
   (genesis lib.rs:516) could not be run through this VM.
6. `app_theft` (code bug): the bank's `execute` (contracts/bank lib.rs:29)
   passes the message's `from` to `send` and never compares it with
   `ctx.sender`. Any transaction can therefore move any address's coins.
   Bob's one transaction sends Alice's `uatom` to himself. Spec 8 says a
   Transfer moves the sender's balance. The earlier model passed the
   transaction's sender as `from`, which hid this.

## 4. What is not modelled, and why

- Merkle hashing and proofs (the `prove` branches): the root hash is
  abstracted to the state itself, and proofs are out of TLC's reach.
- Upload, Migrate, submessages, `reply`, permissions, fees (`withhold_fee`,
  `finalize_fee`): their code is not under `src/`. The `run_tx` in `src/`
  calls neither fee hook.
- Timestamps, cronjob schedules and event contents: no property here tells
  them apart.
- `crates/vm/examples/bank.rs` is a fixed three-send script, with about
  four states; its end state follows from `Bank`'s `Send`.
- `src/host` is a wasmi test harness with no state machine. `context.rs`
  and the indexer entity (`events.rs`, generated by sea-orm) are plain data
  types.
- A non-atomic failing `BaseStore::commit` (app.rs:161, spec 9): the
  store's code is not under `src/`. Spec 4.A's atomic failure is modelled
  as a crash before Commit.
- `AccountType`'s `Display` is formatting.
- `read_wasm_files` is file I/O. The contents of the oracle, lending,
  taxman and vesting instantiate messages go to contracts whose code is not
  under `src/`.
- The account factory's own `instantiate` (creating the genesis accounts)
  and the other contracts' guests are not under `src/`. `Genesis` checks the
  addresses `build_genesis` predicts, not accounts that a guest creates.

## 5. Plan

The modules are listed in order, most important behaviour first.

1. Done: `Store`, `Bank`, `App` and `MCApp`. This is the block pipeline with
   crash, handshake, transaction atomicity and replay protection.
2. Done: `RustVm` and `Vm`. The dispatch is also used by `Genesis`, and
   findings 4 and 5 came out of that composition.
3. Done: `Genesis` and `MCGenesis`.
4. Done: `AccountKey`.
5. Not modelled: `BankExample` (`crates/vm/examples/bank.rs`). It is a
   fixed script of three sends with no input or concurrency, about four
   states. The end state its comments state follows from `Bank`'s `Send`.
6. Done: `ChainAbstract` and `AppChain`, the refinement of `App` (run
   `app_chain`).
7. Done: liveness (run `app_live`).
8. Done: FinalizeBlock while a block is staged (`CommitAfterEveryBlock`,
   run `app_chain`); the bank's unchecked `from` (finding 6);
   `AccountParams`' downcasts.
9. Done: `do_query_store` and the `prove` branch of `do_query_app`, and a
   second crash in `app_chain`.
10. Done: the bank's `execute` reached through `RustVm` from `App`, with
   `TxGarbled`: a failed decode consumes Bob's nonce, so his valid
   transaction is then refused (`NoReplay`, `FailedTxOnlyBumpsSequence`).
11. Done: properties that held by construction dropped (RustVm's
   rejected calls and queries, genesis' contract and mailbox tables);
   the unfaithful first-block cronjob model removed; the dispatch
   catch-all checked against spec 4.D instead (run `vm_entry`).
12. Next: submessages and `reply` (spec 4.E's table) through `RustVm`'s
   `CallIn2Out1`, and the `CheckTx` dry run against the latest state
   (spec 4.H). Neither has code under `src/`, so both would be modelled
   from the spec.
