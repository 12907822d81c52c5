------------------------------ MODULE SsbdBlock ------------------------------
(***************************************************************************)
(* One block of an SSBD storage server: its entry in the block database    *)
(* (leveldb `db_`) and its three entries in the persistent log (leveldb    *)
(* `db_log_`: "-committed-version", "-version", "-data").                  *)
(*                                                                         *)
(* The bytes of a block are abstracted to its parts: a part holds the      *)
(* write request whose bytes it shows, or None when no request wrote it    *)
(* (an absent, empty or zero-padded range reads as zero bytes).  The       *)
(* operators below are the net effect of a whole request handler of        *)
(* ssbd/main.cpp; SsbdServer.tla has the same handlers one leveldb call    *)
(* at a time.                                                              *)
(***************************************************************************)
EXTENDS Naturals

CONSTANTS Txn,      \* write requests
          Part,     \* the parts of a block that requests tell apart
          None      \* "no request wrote this part"

ASSUME NoneAssumption == None \notin Txn

Content == [Part -> Txn \cup {None}]

Empty == [p \in Part |-> None]

\* A block: present in db_?, its bytes, the committed version, and the
\* pending version and bytes of the log (0 is the empty log).
Blocks == [present : BOOLEAN, data : Content,
           committed : Nat, pver : Nat, pdata : Content]

\* A block no request has touched: every Get of its keys finds nothing.
FreshBlock == [present |-> FALSE, data |-> Empty,
               committed |-> 0, pver |-> 0, pdata |-> Empty]

\* Slip: the write's offset and length are ignored.
Merge_wholeBlock(old, t, ps) == [p \in Part |-> t]

\* old_block resized and overwritten by the bytes of request t on parts ps.
Merge(old, t, ps) == [p \in Part |-> IF p \in ps THEN t ELSE old[p]]

\* Slip: the committed version is not compared.
HavePendingLog_unlessZero(k) == ~(k.pver = 0)

HavePendingLog(k) == ~(k.pver = k.committed \/ k.pver = 0)

\* A prepare of a key that is not in db_ first creates it.
Created(k) == IF k.present THEN k ELSE [FreshBlock EXCEPT !.present = TRUE]

\* Slip: the write is merged into the last log instead of the block.
PutPending_ontoLog(k, t, ps, v) ==
    [k EXCEPT !.pver = v, !.pdata = Merge(k.pdata, t, ps)]

\* put_pending_prepare of the merged block.
PutPending(k, t, ps, v) ==
    [k EXCEPT !.pver = v, !.pdata = Merge(k.data, t, ps)]

PrepareVote(k) == IF HavePendingLog(Created(k)) THEN "abort" ELSE "agree"

AfterPrepare(k, t, ps, v) ==
    IF HavePendingLog(Created(k)) THEN Created(k)
                                  ELSE PutPending(Created(k), t, ps, v)

\* The quick form skips the check of the log: it always agrees.
AfterPrepareQuick(k, t, ps, v) == PutPending(Created(k), t, ps, v)

\* commit_pending_prepare: whatever the log holds becomes the block.
AfterExecute(k) ==
    [k EXCEPT !.present = TRUE, !.committed = k.pver, !.data = k.pdata]

AfterRollback(k) == [k EXCEPT !.pver = 0, !.pdata = Empty]
=============================================================================
