\* Up to four threads asked for, each smaller team given.  Any team shares out
\* the nine chunks of the first product; of the second, two threads and more
\* get a chunk each.
SPECIFICATION FairSpec
CONSTANTS
    MaxThreads = 4
    Nodes <- MCNodes
    ChunksPerThread = 2
INVARIANTS
    TypeOK
    InStep
    EveryChunkOnce
PROPERTY GraphEnds
