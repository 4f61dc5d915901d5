SPECIFICATION FairSpec
CONSTANTS
    Names <- MCNames
    Top <- MCTop
    Remotes <- MCRemotes
    Main = "main"
    Configs <- MCConfigs
    MaxPushes = 1
    MaxRestarts = 2
    MaxFaults = 1
    None = None
INVARIANTS TypeOK ResultIsConfigured OrphansLeaveNothing
PROPERTIES ConfiguredIsKept ServedEventually
