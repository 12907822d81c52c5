---------------------------- MODULE MCBlockCache ----------------------------
(***************************************************************************)
(* An instance of BlockCache for model checking: three of eight requests,  *)
(* on two files of the directory d1 and one of d2, of two blocks each; the *)
(* cache has room for two blocks.  Also with a write that does not begin   *)
(* the file; and with one read or write that the storage may fail, of      *)
(* which others read the same file.                                        *)
(***************************************************************************)
EXTENDS BlockCache, TLC

CONSTANTS j1, j2, j3, d1, d2, f1, f2, g1

MCDirOf == f1 :> d1 @@ f2 :> d1 @@ g1 :> d2

R(o, f, p, n) == [op |-> o, file |-> f, pos |-> p, size |-> n, fails |-> FALSE]

Requests == <<R("write", f1, 0, 4), R("read", f1, 0, 4), R("write", g1, 0, 2),
              R("read", g1, 0, 2), R("read", f1, 2, 2), R("write", f1, 0, 1),
              R("read", f1, 1, 2), R("write", f2, 0, 2), R("write", f1, 2, 2)>>

Slow(x) == [Requests[x] EXCEPT !.fails = TRUE]

MCLoads ==
    {j1 :> Requests[x] @@ j2 :> Requests[y] @@ j3 :> Requests[z] :
        <<x, y, z>> \in {t \in (1..8) \X (1..8) \X (1..8) : t[1] <= t[2] /\ t[2] <= t[3]}}
    \cup {j1 :> Requests[2] @@ j2 :> Requests[x] @@ j3 :> Requests[9] : x \in {2, 5}}
    \cup {j1 :> Requests[x] @@ j2 :> Requests[y] @@ j3 :> Slow(z) :
        <<x, y, z>> \in {1, 2} \X {2, 5} \X {2} \cup {<<2, 5, 1>>, <<3, 4, 3>>, <<4, 4, 3>>}}
=============================================================================
