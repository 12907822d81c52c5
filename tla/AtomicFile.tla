----------------------------- MODULE AtomicFile -----------------------------
(***************************************************************************)
(* What the block store promises the writers of a file whose requests do   *)
(* not overlap.  A write takes effect on all its blocks at once, when it   *)
(* is answered "OK", or not at all.  Its blocks become durable one by one, *)
(* each before it is written again; when the worker of the file crashes a  *)
(* block may fall back to what is durable, so it loses one write at most.  *)
(***************************************************************************)
CONSTANTS Txn, Part, None, Block, Writes

VARIABLES shown,    \* the bytes of each block, as the writers may assume them
          durable,  \* the bytes of each block that a crash leaves
          outcome   \* none, OK or Error, of each request

vars == <<shown, durable, outcome>>

Init ==
    /\ shown = [b \in Block |-> [p \in Part |-> None]]
    /\ durable = shown
    /\ outcome = [t \in Txn |-> "none"]

Apply(t) ==
    /\ outcome[t] = "none"
    /\ \A b \in Block : Writes[t][b] # {} => shown[b] = durable[b]
    /\ shown' = [b \in Block |-> [p \in Part |->
                   IF p \in Writes[t][b] THEN t ELSE shown[b][p]]]
    /\ outcome' = [outcome EXCEPT ![t] = "OK"]
    /\ UNCHANGED durable

Reject(t) ==
    /\ outcome[t] = "none"
    /\ outcome' = [outcome EXCEPT ![t] = "Error"]
    /\ UNCHANGED <<shown, durable>>

Flush(b) ==
    /\ durable' = [durable EXCEPT ![b] = shown[b]]
    /\ UNCHANGED <<shown, outcome>>

Crash ==
    /\ \E lost \in SUBSET Block :
         shown' = [b \in Block |-> IF b \in lost THEN durable[b] ELSE shown[b]]
    /\ UNCHANGED <<durable, outcome>>

Next ==
    \/ \E t \in Txn : Apply(t) \/ Reject(t)
    \/ \E b \in Block : Flush(b)
    \/ Crash

Spec == Init /\ [][Next]_vars
=============================================================================
