CONSTANTS
    Reader = {r1, r2, r3}
    Writer = {w1, w2, w3}
    MaxWrites = 2
SPECIFICATION FairSpec
INVARIANTS TypeOK GateCountsWriters OvertakenOnce
PROPERTIES WriterGetsIn ReaderGetsIn
