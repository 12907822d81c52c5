SPECIFICATION WriterFairSpec
CONSTANTS
    p1 = p1
    p2 = p2
    p3 = p3
    p4 = p4
    Packet <- MCPackets
    Strand = strand
    Threads = 1
    MayBreak = TRUE
INVARIANTS NeverWedged EachPacketOnce OneWriteAtATime
PROPERTY EveryPacketHandled
CHECK_DEADLOCK FALSE
