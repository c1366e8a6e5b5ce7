SPECIFICATION Spec
CONSTANTS
    Messages <- MCMessages
    Setups <- MCSetups
    FinalWarn = 3
    Kill = 4
    FastReads = 2
    RatioTurn = 3
    RatioReads = 2
    StuckLimit = 2
    StrikeLimit = 2
    LoopLimit = 3
    Monologue = 2
    MonologueExempt = 1
    MaxTurns = 4
    MaxTexts = 2
    MaxOpen = 0
INVARIANT TypeOK
INVARIANT SuccessIsClean
PROPERTY WarnedBeforeKill
CHECK_DEADLOCK FALSE
