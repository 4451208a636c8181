------------------------------ MODULE Genesis ------------------------------
(***************************************************************************)
(* The genesis of a dango chain: build_genesis (dango/genesis/src/lib.rs)  *)
(* builds the GenesisState, and do_init_chain (crates/app/src/app.rs)      *)
(* saves its config and runs its messages one by one through the message  *)
(* router (spec 4.E; its code is not under src/), which calls each new     *)
(* contract's `instantiate' through RustVm.                                *)
(*                                                                         *)
(* Code bytes are model values; Hash256 and Addr::derive are modelled as   *)
(* collision-free (tuples of their inputs).  Instantiate messages keep     *)
(* only the fields a property reads: the users of the account factory and  *)
(* the balances of the bank.  Labels equal the salts and are left out.     *)
(***************************************************************************)
EXTENDS Naturals, Sequences, SequencesExt

CONSTANTS
  Usernames,           \* usernames that may be genesis users
  UsernameOrder,       \* Usernames as a sequence, in BTreeMap (byte) order
  Coins,               \* non-empty Coins values a genesis user can hold
  NoCoins,             \* Coins::new()
  Blob,                \* the `codes' argument: role -> code bytes
  GenesisSender,       \* GENESIS_SENDER
  GenesisSenderExempt  \* whether the router lets GENESIS_SENDER past permissions

VM == INSTANCE RustVm

\* The fields of Codes<T>, Hyperlane<T> flattened.
Roles == {"account_factory", "account_margin", "account_safe", "account_spot",
          "bank", "fee", "ism", "mailbox", "merkle", "warp", "ibc_transfer",
          "lending", "oracle", "orderbook", "taxman", "vesting"}

\* HashExt::hash256 of the code bytes, and Addr::derive(deployer, code_hash,
\* salt).
Hash(code) == <<"hash", code>>
Derive(deployer, codeHash, salt) == <<"addr", deployer, codeHash, salt>>
CodeHash(r) == Hash(Blob[r])

\* upload(msgs, code): push Message::upload(code); the caller keeps the hash.
UploadMsg(code) == [kind |-> "upload", code |-> code]

\* instantiate(msgs, code_hash, msg, salt, label): push Message::instantiate
\* with no admin and no funds, and return the address derived from
\* GENESIS_SENDER.
InstantiateMsg(codeHash, msg, salt) ==
  [kind |-> "instantiate", code_hash |-> codeHash, msg |-> msg, salt |-> salt]

InstantiateAddress(codeHash, salt) == Derive(GenesisSender, codeHash, salt)

\* Mutation: the bank's code left out of the uploads.
UploadsWithoutBank ==
  <<"account_factory", "account_margin", "account_safe", "account_spot",
    "fee", "ism", "mailbox", "merkle", "warp", "ibc_transfer",
    "lending", "oracle", "orderbook", "taxman", "vesting">>

\* The sixteen uploads, in the order build_genesis pushes them.
Uploads ==
  <<"account_factory", "account_margin", "account_safe", "account_spot",
    "bank", "fee", "ism", "mailbox", "merkle", "warp", "ibc_transfer",
    "lending", "oracle", "orderbook", "taxman", "vesting">>

\* The instantiations, in order, and the salt each one uses.
Instances ==
  <<"account_factory", "fee", "merkle", "ism", "warp", "mailbox",
    "ibc_transfer", "orderbook", "lending", "bank", "taxman", "oracle",
    "vesting">>

Salt ==
  [account_factory |-> "dango/account_factory", fee |-> "hyperlane/hook/fee",
   merkle |-> "hyperlane/hook/merkle", ism |-> "hyperlane/ism/multisig",
   warp |-> "hyperlane/warp", mailbox |-> "hyperlane/mailbox",
   ibc_transfer |-> "dango/ibc_transfer", orderbook |-> "dango/orderbook",
   lending |-> "dango/lending", bank |-> "dango/bank",
   taxman |-> "dango/taxman", oracle |-> "dango/oracle",
   vesting |-> "dango/vesting"]

\* The keys of a BTreeMap keyed by username, in iteration order.
SortedKeys(f) == SelectSeq(UsernameOrder, LAMBDA u : u \in DOMAIN f)

\* The values of such a map, in iteration order.
SortedValues(f) == [i \in 1..Len(SortedKeys(f)) |-> f[SortedKeys(f)[i]]]

\* The addresses of the genesis accounts: derived from the account factory,
\* the spot account code and NewUserSalt { username, key, key_hash }.
UserAddresses(users, factory) ==
  [u \in DOMAIN users |-> Derive(factory, CodeHash("account_spot"), <<"salt", u>>)]

\* The mailbox address predicted for the hooks and the warp contract.
MailboxAddress == Derive(GenesisSender, CodeHash("mailbox"), "hyperlane/mailbox")

\* Mutation: the users zipped with the addresses in the opposite order.
GenesisBalancesMisaligned(users, addresses) ==
  LET pairs == Zip(SortedValues(users), Reverse(SortedValues(addresses))) IN
  {<<p[2], p[1]>> : p \in ToSet(SelectSeq(pairs, LAMBDA p : p[1] # NoCoins))}

\* The bank's `balances': genesis users zipped with `addresses', those with
\* empty balances filtered out.
GenesisBalances(users, addresses) ==
  LET pairs == Zip(SortedValues(users), SortedValues(addresses)) IN
  {<<p[2], p[1]>> : p \in ToSet(SelectSeq(pairs, LAMBDA p : p[1] # NoCoins))}

\* The Contracts struct build_genesis returns.  It is built with field-init
\* shorthand, so each field is the local variable bound to the address its
\* own instantiate returned, and the mailbox field the predicted one.
GenesisContracts ==
  [r \in DOMAIN Salt |->
     IF r = "mailbox" THEN MailboxAddress
     ELSE InstantiateAddress(CodeHash(r), Salt[r])]

\* The outcome of a build_genesis that panics.
Panic == [panicked |-> TRUE]

\* build_genesis(codes, genesis_users, owner, ..): the message list, the
\* contracts' addresses, the users' addresses and the config, or Panic
\* where the builder panics: should_succeed_and_equal on the mailbox, and
\* addresses.get(owner).unwrap() when the owner is not a genesis user.
BuildGenesis(users, owner) ==
  LET addrOf(r)   == InstantiateAddress(CodeHash(r), Salt[r])
      addresses   == UserAddresses(users, addrOf("account_factory"))
      initMsg(r)  == CASE r = "account_factory" -> [users |-> DOMAIN users]
                       [] r = "bank" -> [balances |-> GenesisBalances(users, addresses)]
                       [] OTHER -> [none |-> r]
      msgs        == [i \in 1..Len(Uploads) |-> UploadMsg(Blob[Uploads[i]])]
                       \o [i \in 1..Len(Instances) |->
                             InstantiateMsg(CodeHash(Instances[i]),
                                            initMsg(Instances[i]), Salt[Instances[i]])]
      contracts   == GenesisContracts
  IN  IF addrOf("mailbox") # MailboxAddress \/ owner \notin DOMAIN users
      THEN Panic
      ELSE [msgs      |-> msgs,
            contracts |-> contracts,
            addresses |-> addresses,
            config    |-> [owner       |-> addresses[owner],
                           bank        |-> contracts.bank,
                           taxman      |-> contracts.taxman,
                           cronjobs    |-> {contracts.orderbook},
                           upload      |-> "Nobody",
                           instantiate |-> {contracts.account_factory}]]

(***************************************************************************)
(* The chain: do_init_chain running the messages.                          *)
(***************************************************************************)
VARIABLES
  users,       \* the genesis_users argument: username -> Coins
  owner,       \* the owner argument
  genesis,     \* what build_genesis returned
  idx,         \* the index of the next genesis message to process
  codes,       \* code hashes stored by Upload (code/{hash})
  contractAt,  \* contract/{addr}: the code hash of each contract
  status       \* "init", "failed", "committed" or "panicked"

vars == <<users, owner, genesis, idx, codes, contractAt, status>>

\* The router's permission check (spec 4.E): Permission::Nobody,
\* Everybody or Somebodies(set).
Permits(perm, sender) ==
  \/ GenesisSenderExempt /\ sender = GenesisSender
  \/ perm = "Everybody"
  \/ perm \notin {"Nobody", "Everybody"} /\ sender \in perm

\* Mutation: the code stored under its bytes rather than its hash.
ProcessUploadRaw(cfg, msg) ==
  IF ~Permits(cfg.upload, GenesisSender)
  THEN [err |-> TRUE]
  ELSE [err |-> FALSE, codes |-> codes \cup {msg.code}, contractAt |-> contractAt]

\* process_msg(Upload): checked against permissions.upload; stores the
\* code under its hash, idempotently.
ProcessUpload(cfg, msg) ==
  IF ~Permits(cfg.upload, GenesisSender)
  THEN [err |-> TRUE]
  ELSE [err |-> FALSE, codes |-> codes \cup {Hash(msg.code)}, contractAt |-> contractAt]

\* process_msg(Instantiate): checked against permissions.instantiate; the
\* code must be stored, the derived address must be free, and the new
\* contract's `instantiate' is called through RustVm on its fresh store.
ProcessInstantiate(cfg, msg) ==
  LET addr == Derive(GenesisSender, msg.code_hash, msg.salt)
      call == VM!CallIn1Out1({}, "instantiate", "json", {}, TRUE)
  IN  IF \/ ~Permits(cfg.instantiate, GenesisSender)
         \/ msg.code_hash \notin codes
         \/ addr \in DOMAIN contractAt
         \/ call.out # <<"ok">>
      THEN [err |-> TRUE]
      ELSE [err |-> FALSE, codes |-> codes,
            contractAt |-> (addr :> msg.code_hash) @@ contractAt]

\* The inputs build_genesis may be given.
UsersInputs == UNION {[U -> Coins \cup {NoCoins}] : U \in SUBSET Usernames}

Init ==
  /\ users \in UsersInputs
  /\ owner \in Usernames
  /\ genesis = BuildGenesis(users, owner)
  /\ idx = 1
  /\ codes = {}
  /\ contractAt = <<>>
  /\ status = IF genesis = Panic THEN "panicked" ELSE "init"

\* One iteration of do_init_chain's loop, with CONFIG already saved:
\* process_msg with sender GENESIS_SENDER; any error aborts genesis.
ProcessGenesisMsg ==
  /\ status = "init"
  /\ idx <= Len(genesis.msgs)
  /\ LET msg == genesis.msgs[idx]
         r   == IF msg.kind = "upload" THEN ProcessUpload(genesis.config, msg)
                ELSE ProcessInstantiate(genesis.config, msg)
     IN  IF r.err
         THEN /\ status' = "failed"
              /\ UNCHANGED <<idx, codes, contractAt>>
         ELSE /\ codes' = r.codes
              /\ contractAt' = r.contractAt
              /\ idx' = idx + 1
              /\ UNCHANGED status
  /\ UNCHANGED <<users, owner, genesis>>

\* After the loop: flush_and_commit of the genesis state.
CommitGenesis ==
  /\ status = "init"
  /\ idx > Len(genesis.msgs)
  /\ status' = "committed"
  /\ UNCHANGED <<users, owner, genesis, idx, codes, contractAt>>

Next == ProcessGenesisMsg \/ CommitGenesis

Spec == Init /\ [][Next]_vars

(***************************************************************************)
(* Properties.                                                             *)
(***************************************************************************)

TypeOK ==
  /\ users \in UsersInputs
  /\ owner \in Usernames
  /\ status \in {"init", "failed", "committed", "panicked"}
  /\ codes \subseteq {CodeHash(r) : r \in Roles}
  /\ \A a \in DOMAIN contractAt : contractAt[a] \in codes
  /\ genesis # Panic => idx \in 1..Len(genesis.msgs) + 1

\* The instantiate message of the bank in the genesis message list.
BankMsg == CHOOSE m \in ToSet(genesis.msgs) :
             m.kind = "instantiate" /\ m.code_hash = CodeHash("bank")

\* Genesis is never aborted: every message build_genesis produced, run by
\* do_init_chain with the config it saved first (its restrictive upload and
\* instantiate permissions included), succeeds, as the loop's comment
\* expects.  Needs the uploads before the instantiations, every code
\* uploaded, and distinct addresses.
GenesisSucceeds == status # "failed"

\* The balances the bank is instantiated with credit each genesis user's
\* coins to that user's own predicted account address, and nothing else:
\* the zip of genesis_users with `addresses' pairs each user with itself.
BalancesToOwners ==
  genesis # Panic =>
    BankMsg.msg.balances =
      {<<genesis.addresses[u], users[u]>> : u \in {v \in DOMAIN users : users[v] # NoCoins}}

=============================================================================
