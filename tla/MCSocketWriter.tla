--------------------------- MODULE MCSocketWriter ---------------------------
(***************************************************************************)
(* Instances of SocketWriter for model checking.                           *)
(***************************************************************************)
EXTENDS SocketWriter, TLC

CONSTANTS p1, p2, p3, p4

MCPackets == {p1, p2, p3, p4}

=============================================================================
