CONSTANTS
    Addr = {1, 2, 3}
    MinerAddr = 3
    InitState <- MCInitState
    Reward = 1
    Width = 4
    Tx <- MCTx
    Client = 1
    Payee = 2
    Amount = 1
    MaxBlocks = 3
SPECIFICATION Spec
INVARIANTS TemplateTxsValid NoReplay MalleatedRejected
PROPERTIES SupplyConserved LedgerRefined
CHECK_DEADLOCK FALSE
