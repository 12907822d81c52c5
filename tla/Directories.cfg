SPECIFICATION Spec
CONSTANTS
    j1 = j1
    j2 = j2
    j3 = j3
    w1 = w1
    w2 = w2
    pa = pa
    pb = pb
    px = px
    Job = {j1, j2, j3}
    Worker = {w1, w2}
    Dir = {"r", "s"}
    Name = {"a", "b", "c", "s"}
    Version <- MCVersion
    Past <- MCPast
    Scenarios <- MCScenarios
    BlockCells = 3
    FileBlocks = 2
    SizeLimit = 8
    File <- MCFile
INVARIANTS TypeOK NamesUnique OnceAtMost NobodyWaits
PROPERTY ImplementsNameSpace
CHECK_DEADLOCK FALSE
