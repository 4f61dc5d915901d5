SPECIFICATION Spec
CONSTANTS
    c1 = c1
    c2 = c2
    c3 = c3
    p = p
    q = q
    r = r
    b1 = b1
    b2 = b2
    bin = bin
    w1 = w1
    w2 = w2
    Torn = Torn
    None = None
    Commits <- Two
    Paths <- TwoPaths
    Blobs <- MCBlobs
    Indexable <- MCIndexable
    TreeOf <- TwoTreeOf
    Workers <- TwoWorkers
    Faults <- FaultKinds
    MaxKinds = 3
SYMMETRY AnyWorker
INVARIANTS TypeOK ManifestMatchesIndex BuiltIsHead ReaderIsSnapshot ResultIsHead NoForeignContent
PROPERTIES KeepServing
