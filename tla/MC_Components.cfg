SPECIFICATION ComponentsSpec
CONSTANTS
    p1 = p1
    p2 = p2
    l1 = l1
    l2 = l2
    t1 = t1
    t2 = t2
    a1 = a1
    a2 = a2
    k1 = k1
    k2 = k2
    node1 = node1
    node2 = node2
    Senders <- TwoPreparers
    Preparers <- TwoPreparers
    MaxForeign = 1
    MaxBatch = 2
    Listeners <- TwoListeners
    MaxChanges = 3
    MaxHeads = 1
    Signings <- TwoSignings
    KeyCalls <- OneKeyCall
    MaxBytes = 5
    MAX_CHUNK_SIZE = 2
    Transactions <- TwoTransactions
    MaxAmount = 2
    MaxNotes = 1
    Height = 4
    Users <- TwoUsers
    MaxViewHead = 3
    Nodes <- TwoNodes
    Services <- TwoServices
    Operations <- OneOperation
    MaxSettings = 3
    Accounts <- TwoAccounts
    Commands <- TwoCommands
    NoAccount = "no account"
    MaxSwitches = 3
    BigMapKeys <- TwoKeys
    BatchSize = 2
    MaxKeys = 3
    MaxMapBlocks = 3
    MaxOps = 2
    Faults = TRUE
    Milligas = {0, 1001, 1000000, 86666000}
    Sizes = {50, 8191}
    GasLimits = {0, 1000, 90000}
    MaxOperations = 3
    HardGasOperation = 104000
    HardGasBlock = 260000
    Ints = {0}
    Texts <- OneText
    AnnotLists <- NoneOrTwo
    MaxValues = 5
    MaxNumber = 8200
    FieldAnnots <- TwoAnnots
    MaxFields = 4
INVARIANTS ComponentsTypeOK UndisturbedSendSucceeds SomebodyGetsIn LimitsFitUnlessRevealed FeesCoverMinimum DefaultGasFitsBlock PlainValuesReadBack FieldNamesAgree PreparedContentsFit CalledAsRegistered SignatureIsOfMessage ConservesValue UndisturbedIsAccepted WitnessesLeadToRoot FirstExecutionIsCurrent ProvidersAgree RegistersItself ScreenCloses ValuesOfOneBlock
PROPERTIES EndIsFinal
CHECK_DEADLOCK FALSE
