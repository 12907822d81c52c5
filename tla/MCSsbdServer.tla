---------------------------- MODULE MCSsbdServer ----------------------------
(***************************************************************************)
(* Instances of SsbdServer for model checking: requests on the two halves  *)
(* of a block, two of them on the same half.                               *)
(***************************************************************************)
EXTENDS SsbdServer, TLC

CONSTANTS t1, t2, t3, p1, p2

MCWrites == t1 :> {p1} @@ t2 :> {p1, p2} @@ t3 :> {p2}
MCMachines ==
    {[threads |-> 1, crash |-> FALSE], [threads |-> 2, crash |-> TRUE]}
MCVer == t1 :> 1 @@ t2 :> 2 @@ t3 :> 3
=============================================================================
