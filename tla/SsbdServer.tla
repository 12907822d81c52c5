----------------------------- MODULE SsbdServer -----------------------------
(***************************************************************************)
(* The request handlers of an SSBD server on one block, one leveldb call   *)
(* at a time, on the threads of the io_context.  A leveldb Get or Put      *)
(* is atomic; a handler is the sequence of those it has still to make.     *)
(* Each write request has a connection of its own and waits for the answer *)
(* to its prepare before it sends its commit.  The process may crash       *)
(* between any two calls; leveldb keeps what was put.                      *)
(***************************************************************************)
EXTENDS SsbdBlock, Sequences, FiniteSets

CONSTANTS Quick,     \* requests prepared with two_pc_prepare_quick
          Writes,    \* the parts a request writes
          Ver,       \* its version
          Machines   \* what the server runs on: the threads of its io_context,
                     \* and whether it may crash, once

ASSUME ServerAssumption ==
    /\ Quick \subseteq Txn
    /\ Writes \in [Txn -> SUBSET Part]
    /\ Ver \in [Txn -> Nat \ {0}]
    /\ Machines \subseteq [threads : Nat \ {0}, crash : BOOLEAN]

VARIABLES
    machine,  \* the one of Machines it runs on
    blk,      \* the block's entries in db_ and db_log_
    phase,    \* what the request has sent so far
    todo,     \* leveldb calls its handler has still to make
    buf,      \* the handler's copy of the block or of the log
    version,  \* the handler's copy of the pending version
    vote,     \* the answer to the prepare
    before,   \* history: blk when the last handler started
    crashed

vars == <<machine, blk, phase, todo, buf, version, vote, before, crashed>>

\* The block is not in db_ yet: what a prepare puts first.
Creation == <<"put_empty", "put_committed_0", "clear_version", "clear_data">>

\* have_pending_log.
Check == <<"pending_version", "committed_version", "pending_version_again">>

\* Slip: the data is put before the version.
Log_dataFirst == <<"put_data", "put_version">>

\* put_pending_prepare.
Log == <<"put_version", "put_data">>

PrepareCalls(t) ==
    <<"bind", "bind_again">> \o (IF t \in Quick THEN <<>> ELSE Check) \o Log

\* Slip: the committed version is not put.
ExecuteCalls_noVersion == <<"get_data", "get_version", "put_block">>

\* commit_pending_prepare.
ExecuteCalls == <<"get_data", "get_version", "put_committed", "put_block">>

RollbackCalls == <<"clear_version", "clear_data">>

Init ==
    /\ machine \in Machines
    /\ blk = FreshBlock
    /\ phase = [t \in Txn |-> "new"]
    /\ todo = [t \in Txn |-> <<>>]
    /\ buf = [t \in Txn |-> Empty]
    /\ version = [t \in Txn |-> 0]
    /\ vote = [t \in Txn |-> "none"]
    /\ before = FreshBlock
    /\ crashed = FALSE

Busy == {t \in Txn : todo[t] # <<>>}

-----------------------------------------------------------------------------
\* A thread takes up a request.
Begin(t, p, calls) ==
    /\ Cardinality(Busy) < machine.threads
    /\ phase' = [phase EXCEPT ![t] = p]
    /\ todo' = [todo EXCEPT ![t] = calls]
    /\ before' = blk
    /\ UNCHANGED <<machine, blk, buf, version, vote, crashed>>

BeginPrepare(t) ==
    /\ phase[t] = "new"
    /\ Begin(t, "prepare", PrepareCalls(t))

\* The coordinator commits only what all blocks agreed to, and rolls back
\* every block otherwise, the ones that voted abort included.
BeginCommit(t) ==
    /\ phase[t] = "prepare" /\ todo[t] = <<>>
    /\ \/ vote[t] = "agree" /\ Begin(t, "commit", ExecuteCalls)
       \/ Begin(t, "commit", RollbackCalls)

-----------------------------------------------------------------------------
\* The next call of t's handler is c.
At(t, c) == todo[t] # <<>> /\ Head(todo[t]) = c

Continue(t, calls) == todo' = [todo EXCEPT ![t] = calls]

\* A prepare answers agree after its last call.
Voted(t) ==
    vote' = IF phase[t] = "prepare" /\ Tail(todo[t]) = <<>>
            THEN [vote EXCEPT ![t] = "agree"] ELSE vote

\* rb.bind: the block is looked up, and created if it is not there.
Bind(t) ==
    /\ At(t, "bind")
    /\ Continue(t, IF blk.present THEN Tail(todo[t]) ELSE Creation \o Tail(todo[t]))
    /\ UNCHANGED <<machine, blk, phase, buf, version, vote, before, crashed>>

\* A Get of the block or of the log's data.
GetData(t) ==
    /\ \/ At(t, "bind_again") /\ buf' = [buf EXCEPT ![t] = blk.data]
       \/ At(t, "get_data") /\ buf' = [buf EXCEPT ![t] = blk.pdata]
    /\ Continue(t, Tail(todo[t]))
    /\ UNCHANGED <<machine, blk, phase, version, vote, before, crashed>>

\* A Get of the pending version.
GetVersion(t) ==
    /\ At(t, "pending_version") \/ At(t, "get_version")
    /\ version' = [version EXCEPT ![t] = blk.pver]
    /\ Continue(t, Tail(todo[t]))
    /\ UNCHANGED <<machine, blk, phase, buf, vote, before, crashed>>

\* have_pending_log: no log if the pending version is the committed one, ...
CompareCommitted(t) ==
    /\ At(t, "committed_version")
    /\ Continue(t, IF version[t] = blk.committed THEN Tail(Tail(todo[t])) ELSE Tail(todo[t]))
    /\ UNCHANGED <<machine, blk, phase, buf, version, vote, before, crashed>>

\* ... or is 0; else the prepare is answered with abort.
CompareEmpty(t) ==
    /\ At(t, "pending_version_again")
    /\ \/ /\ blk.pver = 0
          /\ Continue(t, Tail(todo[t]))
          /\ UNCHANGED vote
       \/ /\ blk.pver # 0
          /\ Continue(t, <<>>)
          /\ vote' = [vote EXCEPT ![t] = "abort"]
    /\ UNCHANGED <<machine, blk, phase, buf, version, before, crashed>>

\* The block after the Put c of t's handler.
AfterPut(t, c) ==
    CASE c = "put_empty" -> [blk EXCEPT !.present = TRUE, !.data = Empty]
      [] c = "put_committed_0" -> [blk EXCEPT !.committed = 0]
      [] c = "clear_version" -> [blk EXCEPT !.pver = 0]
      [] c = "clear_data" -> [blk EXCEPT !.pdata = Empty]
      [] c = "put_version" -> [blk EXCEPT !.pver = Ver[t]]
      [] c = "put_data" -> [blk EXCEPT !.pdata = Merge(buf[t], t, Writes[t])]
      [] c = "put_committed" -> [blk EXCEPT !.committed = version[t]]
      [] c = "put_block" -> [blk EXCEPT !.present = TRUE, !.data = buf[t]]

Put(t) ==
    \E c \in {"put_empty", "put_committed_0", "clear_version", "clear_data",
              "put_version", "put_data", "put_committed", "put_block"} :
        /\ At(t, c)
        /\ blk' = AfterPut(t, c)
        /\ Continue(t, Tail(todo[t]))
        /\ Voted(t)
        /\ UNCHANGED <<machine, phase, buf, version, before, crashed>>

\* The process dies: handlers end where they are, and the requests that had
\* reached it are lost with their connections.
Crash ==
    /\ machine.crash /\ ~crashed
    /\ crashed' = TRUE
    /\ phase' = [t \in Txn |-> IF phase[t] = "new" THEN "new" ELSE "lost"]
    /\ todo' = [t \in Txn |-> <<>>]
    /\ UNCHANGED <<machine, blk, buf, version, vote, before>>

-----------------------------------------------------------------------------
Call(t) == Bind(t) \/ GetData(t) \/ GetVersion(t) \/ CompareCommitted(t)
           \/ CompareEmpty(t) \/ Put(t)

Next ==
    \/ \E t \in Txn : BeginPrepare(t) \/ BeginCommit(t) \/ Call(t)
    \/ Crash

Spec == Init /\ [][Next]_vars

-----------------------------------------------------------------------------
\* However many threads run the handlers, and wherever the process crashes, no
\* reader sees bytes of a request whose prepare did not agree: what a block
\* shows was logged by a prepare that found no other log.
OnlyAgreedVisible ==
    \A p \in Part : blk.data[p] # None => vote[blk.data[p]] = "agree"

\* One thread, and no crash: handlers follow one another.
Serial == machine.threads = 1 /\ ~machine.crash

\* The block as of the last handler that has finished.
Settled == IF Busy = {} THEN blk ELSE before

Atomic == INSTANCE AtomicBlock WITH
    block <- IF Serial THEN Settled ELSE FreshBlock,
    vote <- IF Serial THEN vote ELSE [t \in Txn |-> "none"]

\* Where handlers follow one another, each takes effect as a whole, as the
\* atomic operators that TwoPhaseCommit is built from say.
ImplementsAtomicBlock == Atomic!Spec
=============================================================================
