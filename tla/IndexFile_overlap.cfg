SPECIFICATION Spec
CONSTANTS
    old = old
    new = new
    w1 = w1
    w2 = w2
    r1 = r1
    r2 = r2
    i1 = i1
    i2 = i2
    i3 = i3
    i4 = i4
    Empty = Empty
    Torn = Torn
    None = None
    MaxPathOffset = 6
    MaxCount = 9
    Indexes <- MCIndexes
    Contents <- MCContents
    Writers <- MCWriters
    Readers <- MCReaders
    Inodes <- MCInodes
    Overlap = TRUE
INVARIANTS MappedIntact
