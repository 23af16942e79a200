CONSTANTS
    MaxIndex = 3
    MaxSize = 3
    Chunks = 2
    MaxRec = 10
SPECIFICATION FairSpec
INVARIANTS NoMutualWait WriterHasLeft BlocksOnlyWhenFull InOrder
PROPERTIES NeverTruncates FilesInOrder WriterGoesOn ReaderFollows
