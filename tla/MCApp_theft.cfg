CONSTANTS
  a1 = a1
  a2 = a2
  a3 = a3
  uatom = uatom
  bb = bb
  eb = eb
  Addrs = {a1, a2, a3}
  Accounts = {a1, a2}
  Denoms = {uatom}
  Denom = uatom
  Blockers = {bb, eb}
  BeginBlockers = {bb}
  EndBlockers = {eb}
  None = None
  ChainId = ChainId
  CfgValue = CfgValue
  ContractInfo = ContractInfo
  bank = bank
  BankContract = bank
  NoPending = NoPending
  Garbage = Garbage
  MaxBalance = 3
  MaxHeight = 2
  MaxTxsPerBlock = 2
  MaxCrashes = 1
  TxPool <- MCTheftTxPool
  GenesisBalances <- MCGenesisBalances
  HandshakeInitsOnZeroHeight = FALSE
  CommitAfterEveryBlock = TRUE

SPECIFICATION Spec

PROPERTY SpendsOnlyOwnCoins

CHECK_DEADLOCK FALSE
