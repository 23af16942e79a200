CONSTANTS
    MaxIndex = 7
    MaxSize = 2
    Chunks = 1
    MaxRec = 4
    MaxWriterStarts = 1
    MaxReaderStarts = 2
SPECIFICATION FairPolicySpec
INVARIANTS FullFileIsRead
PROPERTIES NamesNewestFile OnlyFromNowOn NothingUnreadEmptied ReaderCatchesUp ImplementsFifo
