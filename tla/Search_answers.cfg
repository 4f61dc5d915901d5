SPECIFICATION FairSearchSpec
CONSTANTS
    Newline = "nl"
    CarriageReturn = "cr"
    Word <- MCWord
    Lower <- MCLower
    Unbounded = 4
    Hirs <- MCHirs
    Height <- MCHeight
    NumReaders = 2
    Docs <- MCDocs
    ReaderOf <- MCReaderOf
    MaxMatchesPerFile = 2
    ChannelCapacity = 1
    Queries <- MCQueries
    Contents <- MCContents
    Texts <- MCTexts
    ToLower <- MCToLower
    Context = 1
    ScanTexts <- MCScanTexts
    ScanPatterns <- MCScanPatterns
    Limits = {0, 1, 2}
    Findings <- MCFindings
INVARIANTS TypeOK ResultExact DoneIsLast TruncationIsHonest FilterKeepsMatches CompleteAnswer ScanShowsMatches
PROPERTY RequestEnds
CHECK_DEADLOCK FALSE
