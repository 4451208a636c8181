\* build_genesis for every choice of genesis users among two usernames, each
\* with no coins or one of two coin sets, and either of them as owner;
\* then do_init_chain.
CONSTANTS
  u1 = u1
  u2 = u2
  c1 = c1
  c2 = c2
  Usernames = {u1, u2}
  UsernameOrder <- MCUsernameOrder
  Coins = {c1, c2}
  NoCoins = NoCoins
  Blob <- MCBlob
  GenesisSender = GenesisSender
  GenesisSenderExempt = TRUE
SPECIFICATION Spec
INVARIANTS
  TypeOK
  GenesisSucceeds
  BalancesToOwners
\* Genesis ends committed or failed, or the builder panics: a run stops
\* there.
CHECK_DEADLOCK FALSE
