SPECIFICATION Spec
CONSTANTS
    r1 = r1
    j1 = j1
    j2 = j2
    j3 = j3
    d1 = d1
    d2 = d2
    w1 = w1
    w2 = w2
    f1 = f1
    Job = {r1, j1, j2, j3}
    Worker = {w1, w2}
    Dir = {d1, d2}
    File = {f1}
    DirOf <- MCDirOf
    FileOf <- MCFileOf
    From <- MCFrom
    Mixes <- MCMixes
    MaxTimeouts <- MCMaxTimeouts
    Nobody = Nobody
    Threads = 1
    MayCrash = {w1}
    MayLeave = {}
    MayTruncate = FALSE
INVARIANTS TypeOK OpensCounted NoGhostLock NoGhostDirectoryLock
PROPERTY NoDeleteWhileOpening
CHECK_DEADLOCK FALSE
