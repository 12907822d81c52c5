-------------------------- MODULE MCTwoPhaseCommit --------------------------
(* Small instances of TwoPhaseCommit: two blocks of two parts. *)
EXTENDS TwoPhaseCommit, TLC

CONSTANTS w1, w2, t1, t2, t3, t4, p1, p2

\* t1 crosses the boundary of blocks 0 and 1, t2 overlaps it in block 1 and
\* t3 writes both blocks beside it.
MCWrites ==
    [t \in Txn |-> CASE t = t1 -> (0 :> {p2} @@ 1 :> {p1})
                     [] t = t2 -> (0 :> {} @@ 1 :> {p1, p2})
                     [] t = t3 -> (0 :> {p1} @@ 1 :> {p2})
                     [] t = t4 -> (0 :> {p1} @@ 1 :> {p1})]

\* t3 follows t1 on its worker; t2 comes from another one.
MCOwner == [t \in Txn |-> IF t = t2 THEN w2 ELSE w1]

\* version() is a truncated clock: t3 may have the version of t1.
MCVer == [t \in Txn |-> IF t = t2 THEN 2 ELSE 1]

\* The file moves to w2 when w1 crashes: t1 and t3 went to w1, t2 and t4 to w2.
MCTakeoverOwner == [t \in Txn |-> IF t \in {t2, t4} THEN w2 ELSE w1]
=============================================================================
