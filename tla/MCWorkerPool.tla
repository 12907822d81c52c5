---------------------------- MODULE MCWorkerPool ----------------------------
(***************************************************************************)
(* An instance of WorkerPool: one or two requests in one directory, and    *)
(* one that its timer may answer first; a worker that may crash or leave,  *)
(* and one that stays; one may come from another proxy.                    *)
(***************************************************************************)
EXTENDS WorkerPool, TLC

CONSTANTS j1, j2, d1, w1, w2

MCDirOf == j1 :> d1 @@ j2 :> d1
MCDataSize == j1 :> 1 @@ j2 :> 2
MCMaxTimeouts == j1 :> 1 @@ j2 :> 1

\* A max_average_queue_ of 1 makes -2 of a queue_size_ of -2, one of 3 makes 4.
MCScenarios ==
    {[policy |-> "fix_pool", size |-> 1, outstanding |-> 2, jobs |-> {j1, j2}, slow |-> {},
      lose |-> 0, join |-> {}],
     [policy |-> "fix_pool", size |-> 2, outstanding |-> 2, jobs |-> {j1}, slow |-> {},
      lose |-> 1, join |-> {w2}],
     [policy |-> "max_queue", size |-> 1, outstanding |-> 1, jobs |-> {j2}, slow |-> {},
      lose |-> 1, join |-> {}],
     [policy |-> "max_queue", size |-> 3, outstanding |-> 2, jobs |-> {j2}, slow |-> {j2},
      lose |-> 0, join |-> {}]}
=============================================================================
