SPECIFICATION FairSpec
CONSTANTS
    NumRepos = 3
    MaxConcurrent = 2
    MaxCycles = 2
    None = None
INVARIANTS TypeOK StatusMatchesCycle ConcurrencyLimit OneRunPerRepo
PROPERTIES OnlySuccessReplaces CycleEnds ShutdownEnds
