SPECIFICATION Spec
CONSTANTS
    t1 = t1
    t2 = t2
    t3 = t3
    p1 = p1
    p2 = p2
    Txn = {t1, t2, t3}
    Part = {p1, p2}
    None = None
    Quick = {t3}
    Writes <- MCWrites
    Ver <- MCVer
    Machines <- MCMachines
INVARIANTS OnlyAgreedVisible
PROPERTY ImplementsAtomicBlock
CHECK_DEADLOCK FALSE
