CONSTANTS
    w1 = w1  w2 = w2
    t1 = t1  t2 = t2  t3 = t3  t4 = t4
    p1 = p1  p2 = p2
    None = None
    Txn = {t1, t2}
    Part = {p1, p2}
    Worker = {w1, w2}
    Block = {0, 1}
    Owner <- MCOwner
    Writes <- MCWrites
    Ver <- MCVer
    Overlap = TRUE
    Expires = {t1, t2}
    MayCrash = {w1}
    MayRestart = {1}
SPECIFICATION FairSpec
INVARIANT TypeOK
PROPERTY EveryRequestAnswered
CHECK_DEADLOCK FALSE
