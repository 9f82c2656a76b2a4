CONSTANTS
    Addr = {1, 2, 3}
    MinerAddr = 3
    InitState <- MCInitState
    Reward = 1
    Width = 4
    Tx <- MCTxOverflow
    Client = 1
    Payee = 2
    Amount = 1
    MaxBlocks = 3
SPECIFICATION Spec
PROPERTIES SupplyConserved
CHECK_DEADLOCK FALSE
