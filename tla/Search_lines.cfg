SPECIFICATION SearchSpec
CONSTANTS
    Newline = "nl"
    CarriageReturn = "cr"
    Word <- MCWord
    Lower <- MCLower
    Unbounded = 4
    Hirs <- MCHirs
    Height <- MCHeight
    NumReaders = 2
    Docs <- MCDocs
    ReaderOf <- MCReaderOf
    MaxMatchesPerFile = 3
    ChannelCapacity = 1
    Queries <- MCQueries
    Contents <- MCContents
    Texts <- MCTexts
    ToLower <- MCToLower
    Context = 1
    ScanTexts <- MCScanTexts
    ScanPatterns <- MCScanPatterns
    Limits = {1}
    Findings <- MCFindings
INVARIANT TotalIsMatchingLines
CHECK_DEADLOCK FALSE
