CONSTANTS
    Unset = Unset
    tok1 = tok1  tok2 = tok2
    Tokens <- MCTokens
    Files <- MCFiles
    Flags <- MCFlags
    Envs <- MCEnvs
    SetupURL <- MCSetupURL
    Told <- MCTold
    MaxCrashes = 2
    MaxSetups = 1
    MaxRotations = 1
SPECIFICATION LiveSpec
INVARIANTS TypeOK LayersInOrder SurvivesCrash
PROPERTY StoredIsResumed
CHECK_DEADLOCK FALSE
