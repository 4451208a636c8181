------------------------------- MODULE Store -------------------------------
(***************************************************************************)
(* The key space of the application state and the versioned store that     *)
(* holds it (cw_db::BaseStore, spec section 4.A; its code is not under     *)
(* src/, so its operators are modelled from the spec).                     *)
(*                                                                         *)
(* A store is a total function from keys to values, with None for an       *)
(* absent key.  Cache overlays (cw_db::CacheStore, spec 4.B) are modelled  *)
(* as materialised copy-on-write views: reading through an overlay,        *)
(* committing it into its parent and dropping it are, respectively, a      *)
(* function application, replacing the parent's view by the child's, and   *)
(* keeping the parent's view.  This is the option (b) of spec section 9.   *)
(***************************************************************************)
EXTENDS Naturals, Sequences

CONSTANTS
  Addrs,        \* addresses that can hold coins
  Accounts,     \* addresses that are account contracts (have a sequence)
  Denoms,       \* coin denominations
  Blockers,     \* contracts called as begin/end blockers (cronjobs)
  BankContract, \* the address of the bank contract
  None,         \* the value of an absent key (Option::None)
  ChainId,      \* the opaque chain_id value saved at genesis
  CfgValue,     \* the opaque Config value saved at genesis
  ContractInfo  \* the opaque ContractInfo saved when a contract is created

ASSUME Accounts \subseteq Addrs
ASSUME None \notin Nat

\* The contracts genesis creates.
Contracts == Accounts \cup Blockers \cup {BankContract}

\* Singleton items of crates/app (CHAIN_ID, CONFIG, LAST_FINALIZED_BLOCK).
ChainIdKey   == <<"chain_id">>
ConfigKey    == <<"config">>
LastBlockKey == <<"last_finalized_block">>
\* contract/{address}: the ContractInfo of a deployed contract.
ContractKey(c) == <<"contract", c>>
\* wasm/{bank}/b/{addr}/{denom}: the bank contract's BALANCES map.
BalKey(a, d) == <<"bal", a, d>>
\* wasm/{account}/...: the account contract's sequence number.
SeqKey(a)    == <<"seq", a>>
\* wasm/{blocker}/...: state a blocker contract keeps.
CronKey(c)   == <<"cron", c>>

Keys ==
  {ChainIdKey, ConfigKey, LastBlockKey}
    \cup {BalKey(a, d) : a \in Addrs, d \in Denoms}
    \cup {SeqKey(a) : a \in Accounts}
    \cup {CronKey(c) : c \in Blockers}
    \cup {ContractKey(c) : c \in Contracts}

Values == Nat \cup {ChainId, CfgValue, ContractInfo, None}

Stores == [Keys -> Values]

\* The state storage of a BaseStore with no version yet.
EmptyStore == [k \in Keys |-> None]

\* BaseStore::root_hash is None iff the Merkle tree is empty.  The hash of a
\* non-empty tree is abstracted to the tree itself (a collision-free digest).
RootHash(s) == IF \A k \in Keys : s[k] = None THEN None ELSE s

\* A value read with Item::load / Map::may_load_with_default: None reads as 0.
NumOr0(v) == IF v = None THEN 0 ELSE v

(***************************************************************************)
(* The versioned store.  `db' is the sequence of persisted versions        *)
(* (version v is db[v + 1]); latest_version is None while db is empty.     *)
(***************************************************************************)
LatestVersion(db) == IF db = <<>> THEN None ELSE Len(db) - 1

\* BaseStore::state_storage(None): a read-only view of the latest version.
LatestState(db) == IF db = <<>> THEN EmptyStore ELSE db[Len(db)]

\* BaseStore::state_storage(Some(v)).
StateAt(db, v) == db[v + 1]

HasVersion(db, v) == v + 1 \in DOMAIN db

=============================================================================
