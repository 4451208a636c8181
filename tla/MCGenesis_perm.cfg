\* build_genesis run by do_init_chain through a router that, as spec 4.E
\* says, checks every Upload and Instantiate against the saved permissions,
\* GENESIS_SENDER included.
CONSTANTS
  u1 = u1
  u2 = u2
  c1 = c1
  c2 = c2
  Usernames = {u1, u2}
  UsernameOrder <- MCUsernameOrder
  Coins = {c1, c2}
  NoCoins = NoCoins
  Blob <- MCBlob
  GenesisSender = GenesisSender
  GenesisSenderExempt = FALSE
SPECIFICATION Spec
INVARIANT GenesisSucceeds
CHECK_DEADLOCK FALSE
