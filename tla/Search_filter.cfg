SPECIFICATION SearchSpec
CONSTANTS
    Newline = "nl"
    CarriageReturn = "cr"
    Word <- MCWord
    Lower <- MCLower
    Unbounded = 4
    Hirs <- MCHirs
    Height <- MCHeight
    NumReaders = 2
    Docs <- MCDocs
    ReaderOf <- MCReaderOf
    MaxMatchesPerFile = 2
    ChannelCapacity = 1
    Queries <- LossyQueries
    Contents <- MCContents
    Texts <- MCTexts
    ToLower <- MCToLower
    Context = 1
    ScanTexts <- MCScanTexts
    ScanPatterns <- MCScanPatterns
    Limits = {2}
    Findings <- MCFindings
INVARIANT FindsEveryMatch
CHECK_DEADLOCK FALSE
