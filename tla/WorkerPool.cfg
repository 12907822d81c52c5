SPECIFICATION FairSpec
CONSTANTS
    j1 = j1
    j2 = j2
    d1 = d1
    w1 = w1
    w2 = w2
    Job = {j1, j2}
    Worker = {w1, w2}
    Dir = {d1}
    DirOf <- MCDirOf
    Nobody = Nobody
    Threads = 1
    MayCrash = {w1}
    MayLeave = {w1}
    MayTruncate = TRUE
    Scenarios <- MCScenarios
    MaxTimeouts <- MCMaxTimeouts
    LongLimit = 64
    IntLimit = 8
    DataSize <- MCDataSize
    AnswerSize = 1
INVARIANTS NoJobLost StartsCounted TriggersBounded PoolNotOvershot QueueCounted
PROPERTY PoolAnswers
CHECK_DEADLOCK FALSE
