SPECIFICATION FairSpec
CONSTANTS
    j1 = j1
    j2 = j2
    j3 = j3
    d1 = d1
    d2 = d2
    f1 = f1
    f2 = f2
    g1 = g1
    Job = {j1, j2, j3}
    Dir = {d1, d2}
    File = {f1, f2, g1}
    DirOf <- MCDirOf
    Loads <- MCLoads
    BlockSize = 2
    Cap = 4
    FileSize = 4
    Nobody = Nobody
    Noise = Noise
    Threads = {1, 2}
INVARIANTS ListAccounted CachedAreListed ReadsAreOfTheFile
PROPERTY EveryRequestDone
CHECK_DEADLOCK FALSE
