----------------------------- MODULE AtomicBlock -----------------------------
(***************************************************************************)
(* What the handlers of an SSBD server promise for one block: each request *)
(* takes effect as a whole, as the operators of SsbdBlock say.  These are  *)
(* the server steps of TwoPhaseCommit; SsbdServer implements them.         *)
(***************************************************************************)
EXTENDS SsbdBlock

CONSTANTS Quick,   \* requests prepared with two_pc_prepare_quick
          Writes,  \* the parts a request writes
          Ver      \* its version

VARIABLES block,   \* the block and its log
          vote     \* the answers to the prepares

Init ==
    /\ block = FreshBlock
    /\ vote = [t \in Txn |-> "none"]

Prepare(t) ==
    /\ vote[t] = "none"
    /\ IF t \in Quick
       THEN /\ block' = AfterPrepareQuick(block, t, Writes[t], Ver[t])
            /\ vote' = [vote EXCEPT ![t] = "agree"]
       ELSE /\ block' = AfterPrepare(block, t, Writes[t], Ver[t])
            /\ vote' = [vote EXCEPT ![t] = PrepareVote(block)]

Execute(t) ==
    /\ vote[t] = "agree"
    /\ block' = AfterExecute(block)
    /\ UNCHANGED vote

Rollback(t) ==
    /\ vote[t] # "none"
    /\ block' = AfterRollback(block)
    /\ UNCHANGED vote

Next == \E t \in Txn : Prepare(t) \/ Execute(t) \/ Rollback(t)

Spec == Init /\ [][Next]_<<block, vote>>
=============================================================================
