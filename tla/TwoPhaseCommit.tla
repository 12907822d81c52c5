--------------------------- MODULE TwoPhaseCommit ---------------------------
(***************************************************************************)
(* Writes of one file: the coordinators of the datafunction workers        *)
(* (start_2pc_prepare, start_2pc_commit) against the SSBD servers that     *)
(* hold the file's blocks.  A worker has one TCP connection per server; a  *)
(* block's server is fixed, so the connection is written here as one FIFO  *)
(* pipe of requests and one of responses per worker and block.             *)
(*                                                                         *)
(* A server handler is one step (SsbdServer.tla splits it into its leveldb *)
(* calls), and so is a worker handler, its loop of sends included: that is *)
(* a worker whose io_context has one thread (PrepareCount.tla has the      *)
(* other case).                                                            *)
(***************************************************************************)
EXTENDS SsbdBlock, Integers, Sequences, FiniteSets

CONSTANTS Worker,         \* datafunction instances
          Block,          \* block ids of the file
          Owner,          \* the worker a request was sent to
          Writes,         \* Writes[t][b]: the parts of block b request t writes
          Ver,            \* version() when request t started
          Overlap,        \* requests of the file may overlap
          Expires,        \* requests whose 30 s timer may expire
          MayCrash,       \* workers that may crash
          MayRestart      \* blocks whose server may restart

ASSUME ConfigAssumption ==
    /\ IsFiniteSet(Block)
    /\ Owner \in [Txn -> Worker]
    /\ Writes \in [Txn -> [Block -> SUBSET Part]]
    /\ Ver \in [Txn -> Nat]
    /\ Overlap \in BOOLEAN
    /\ Expires \subseteq Txn
    /\ MayCrash \subseteq Worker
    /\ MayRestart \subseteq Block

VARIABLES
    blk,        \* the blocks and their logs, on the servers
    req,        \* req[w][b]: requests in flight to the server of b
    resp,       \* resp[w][b]: responses in flight, and local write errors
    link,       \* link[w][b]: the connection is usable
    alive,      \* workers that have not crashed
    checked,    \* workers whose recoder_ has the file
    started,    \* requests start_2pc_prepare was called for
    outstanding,\* *outstanding_requests of the prepare
    agree,      \* *all_ssbd_agree
    timer,      \* request_dearline_timer
    answers,    \* what *next was invoked with, in order
    decision,   \* the call of start_2pc_commit
    left,       \* *outstanding_requests of that call
    replicated, \* requests start_replication was called for
    vote,       \* history: what the server of b answered to t's prepare
    done,       \* history: blocks whose server carried out t's decision
    heard,      \* history: blocks whose response to t's prepare was handled
    acked       \* history: blocks whose response to t's decision was handled

server == <<blk, vote, done>>
coord == <<started, outstanding, agree, timer, answers, decision, left,
           replicated, heard, acked>>
vars == <<server, req, resp, link, alive, checked, coord>>

BlocksOf(t) == {b \in Block : Writes[t][b] # {}}

\* Slip: the last block is not counted.
BlockCount_offByOne(t) == Cardinality(BlocksOf(t)) - 1

\* What the loop over the blocks counts into *outstanding_requests.
BlockCount(t) == Cardinality(BlocksOf(t))

\* A message: job stands for the salt, copied from the request's header to the
\* response's, that finds the handler of the request in outstanding_jobs_.
Message(kinds) == [kind : kinds, job : {"prepare", "commit"}, t : Txn]
Request == Message({"prepare", "quick", "execute", "rollback"})
Response == Message({"agree", "abort", "ack", "err"})
Answer == {"OK", "Error: Found Pending 2PC Log",
           "Error: request timeout internally"}

TypeOK ==
    /\ blk \in [Block -> Blocks]
    /\ req \in [Worker -> [Block -> Seq(Request)]]
    /\ resp \in [Worker -> [Block -> Seq(Response)]]
    /\ link \in [Worker -> [Block -> BOOLEAN]]
    /\ alive \subseteq Worker
    /\ checked \subseteq Worker
    /\ started \subseteq Txn
    /\ outstanding \in [Txn -> Nat]
    /\ agree \in [Txn -> BOOLEAN]
    /\ timer \in [Txn -> {"off", "armed", "expired", "fired", "cancelled"}]
    /\ answers \in [Txn -> Seq(Answer)]
    /\ decision \in [Txn -> {"none", "execute", "rollback"}]
    /\ left \in [Txn -> Nat]
    /\ replicated \subseteq Txn
    /\ vote \in [Txn -> [Block -> {"none", "agree", "abort"}]]
    /\ done \in [Txn -> SUBSET Block]
    /\ heard \in [Txn -> SUBSET Block]
    /\ acked \in [Txn -> SUBSET Block]

Init ==
    /\ blk = [b \in Block |-> FreshBlock]
    /\ req = [w \in Worker |-> [b \in Block |-> <<>>]]
    /\ resp = [w \in Worker |-> [b \in Block |-> <<>>]]
    /\ link = [w \in Worker |-> [b \in Block |-> TRUE]]
    /\ alive = Worker
    /\ checked = {}
    /\ started = {}
    /\ outstanding = [t \in Txn |-> 0]
    /\ agree = [t \in Txn |-> TRUE]
    /\ timer = [t \in Txn |-> "off"]
    /\ answers = [t \in Txn |-> <<>>]
    /\ decision = [t \in Txn |-> "none"]
    /\ left = [t \in Txn |-> 0]
    /\ replicated = {}
    /\ vote = [t \in Txn |-> [b \in Block |-> "none"]]
    /\ done = [t \in Txn |-> {}]
    /\ heard = [t \in Txn |-> {}]
    /\ acked = [t \in Txn |-> {}]

-----------------------------------------------------------------------------
\* The worker.

\* No other request of the file is under way when w gets one: the earlier ones
\* went to w and were answered, or went to a worker that crashed and whatever
\* it sent has been carried out.
Quiet(w) ==
    \A t \in started :
        \/ Owner[t] = w /\ answers[t] # <<>>
        \/ Owner[t] \notin alive /\ \A b \in Block : req[Owner[t]][b] = <<>>

\* start_send_request of m to the blocks bs over the connections of w, when
\* rs is what its response pipes hold.  A write on a broken connection runs
\* the job's handler with err, or is left in the writer's queue and never
\* runs it.
Send(w, bs, m, rs) ==
    /\ req' = [req EXCEPT ![w] = [b \in Block |->
                 IF b \in bs /\ link[w][b] THEN Append(req[w][b], m)
                                           ELSE req[w][b]]]
    /\ \E failed \in SUBSET {b \in bs : ~link[w][b]} :
         resp' = [resp EXCEPT ![w] = [b \in Block |->
                   IF b \in failed
                   THEN Append(rs[b], [m EXCEPT !.kind = "err"])
                   ELSE rs[b]]]

\* start_2pc_prepare: arm the timer and send every block its prepare.
Prepare(t) ==
    LET w == Owner[t] IN
    /\ t \notin started
    /\ w \in alive
    /\ Overlap \/ Quiet(w)
    /\ started' = started \cup {t}
    /\ timer' = [timer EXCEPT ![t] = "armed"]
    /\ outstanding' = [outstanding EXCEPT ![t] = BlockCount(t)]
    /\ Send(w, BlocksOf(t),
            [kind |-> IF w \in checked THEN "quick" ELSE "prepare",
             job |-> "prepare", t |-> t],
            resp[w])
    /\ UNCHANGED <<server, link, alive, checked, agree, answers, decision,
                   left, replicated, heard, acked>>

\* The responses of a connection are handled one after the other.
Received(w, b, job) ==
    /\ w \in alive
    /\ resp[w][b] # <<>>
    /\ Head(resp[w][b]).job = job

\* Slip: a failed request is not a refusal.
Agreed_unlessAbort(m) == m.kind # "abort"

\* Anything but two_pc_prepare_agree clears *all_ssbd_agree.
Agreed(m) == m.kind = "agree"

\* A response to a prepare while others are outstanding.
PrepareResponse(w, b) ==
    LET m == Head(resp[w][b]) IN
    /\ Received(w, b, "prepare")
    /\ outstanding[m.t] # 1
    /\ agree' = [agree EXCEPT ![m.t] = @ /\ Agreed(m)]
    /\ outstanding' = [outstanding EXCEPT ![m.t] = @ - 1]
    /\ resp' = [resp EXCEPT ![w][b] = Tail(@)]
    /\ heard' = [heard EXCEPT ![m.t] = @ \cup {b}]
    /\ UNCHANGED <<server, req, link, alive, checked, started, timer, answers,
                   decision, left, replicated, acked>>

\* The last response to a prepare: answer the client, then start_2pc_commit
\* sends the decision to every block.  cancel() cannot stop a timer whose
\* handler is already queued.
LastPrepareResponse(w, b) ==
    LET m == Head(resp[w][b])
        ok == agree[m.t] /\ Agreed(m)
        d == IF ok THEN "execute" ELSE "rollback"
    IN
    /\ Received(w, b, "prepare")
    /\ outstanding[m.t] = 1
    /\ agree' = [agree EXCEPT ![m.t] = ok]
    /\ outstanding' = [outstanding EXCEPT ![m.t] = 0]
    /\ timer' = [timer EXCEPT ![m.t] = IF @ = "armed" THEN "cancelled" ELSE @]
    /\ checked' = IF ok THEN checked \cup {w} ELSE checked \ {w}
    /\ answers' = [answers EXCEPT ![m.t] =
         Append(@, IF ok THEN "OK" ELSE "Error: Found Pending 2PC Log")]
    /\ decision' = [decision EXCEPT ![m.t] = d]
    /\ left' = [left EXCEPT ![m.t] = BlockCount(m.t)]
    /\ Send(w, BlocksOf(m.t), [kind |-> d, job |-> "commit", t |-> m.t],
            [resp[w] EXCEPT ![b] = Tail(@)])
    /\ heard' = [heard EXCEPT ![m.t] = @ \cup {b}]
    /\ UNCHANGED <<server, link, alive, started, replicated, acked>>

\* Slip: every response starts the replication.
LastAck_any(t) == left[t] >= 1

LastAck(t) == left[t] = 1

\* The response to a decision; an err counts like an ack.  The last one
\* starts the replication of an executed request.
CommitResponse(w, b) ==
    LET t == Head(resp[w][b]).t IN
    /\ Received(w, b, "commit")
    /\ left' = [left EXCEPT ![t] = @ - 1]
    /\ replicated' = IF LastAck(t) /\ decision[t] = "execute"
                     THEN replicated \cup {t} ELSE replicated
    /\ resp' = [resp EXCEPT ![w][b] = Tail(@)]
    /\ acked' = [acked EXCEPT ![t] = @ \cup {b}]
    /\ UNCHANGED <<server, req, link, alive, checked, started, outstanding,
                   agree, timer, answers, decision, heard>>

\* 30 s pass: the timer's handler is queued, and runs later.
TimerExpires(t) ==
    /\ t \in Expires
    /\ Owner[t] \in alive
    /\ timer[t] = "armed"
    /\ timer' = [timer EXCEPT ![t] = "expired"]
    /\ UNCHANGED <<server, req, resp, link, alive, checked, started,
                   outstanding, agree, answers, decision, left, replicated,
                   heard, acked>>

\* Slip: the timeout is logged and not answered.
TimerFires_silent(t) ==
    /\ Owner[t] \in alive
    /\ timer[t] = "expired"
    /\ timer' = [timer EXCEPT ![t] = "fired"]
    /\ checked' = checked \ {Owner[t]}
    /\ UNCHANGED <<server, req, resp, link, alive, started, answers,
                   outstanding, agree, decision, left, replicated, heard, acked>>

\* Slip: the wait is started again.
TimerFires_again(t) ==
    /\ Owner[t] \in alive
    /\ timer[t] = "expired"
    /\ checked' = checked \ {Owner[t]}
    /\ answers' = [answers EXCEPT ![t] =
         Append(@, "Error: request timeout internally")]
    /\ UNCHANGED <<server, req, resp, link, alive, started, timer,
                   outstanding, agree, decision, left, replicated, heard, acked>>

TimerFires(t) ==
    /\ Owner[t] \in alive
    /\ timer[t] = "expired"
    /\ timer' = [timer EXCEPT ![t] = "fired"]
    /\ checked' = checked \ {Owner[t]}
    /\ answers' = [answers EXCEPT ![t] =
         Append(@, "Error: request timeout internally")]
    /\ UNCHANGED <<server, req, resp, link, alive, started, outstanding,
                   agree, decision, left, replicated, heard, acked>>

-----------------------------------------------------------------------------
\* The SSBD servers.

\* The server of b takes the next request of w's connection, which is of this
\* kind, leaves the block as k and answers with reply.
Serve(w, b, kind, k, reply) ==
    /\ req[w][b] # <<>>
    /\ Head(req[w][b]).kind = kind
    /\ req' = [req EXCEPT ![w][b] = Tail(@)]
    /\ resp' = IF w \in alive
               THEN [resp EXCEPT ![w][b] =
                      Append(@, [Head(req[w][b]) EXCEPT !.kind = reply])]
               ELSE resp
    /\ blk' = [blk EXCEPT ![b] = k]
    /\ UNCHANGED <<link, alive, checked, coord>>

Vote(t, b, v) ==
    /\ vote' = [vote EXCEPT ![t][b] = v]
    /\ UNCHANGED done

Done(t, b) ==
    /\ done' = [done EXCEPT ![t] = @ \cup {b}]
    /\ UNCHANGED vote

two_pc_prepare(w, b) ==
    LET t == Head(req[w][b]).t IN
    /\ Serve(w, b, "prepare", AfterPrepare(blk[b], t, Writes[t][b], Ver[t]),
             PrepareVote(blk[b]))
    /\ Vote(t, b, PrepareVote(blk[b]))

two_pc_prepare_quick(w, b) ==
    LET t == Head(req[w][b]).t IN
    /\ Serve(w, b, "quick", AfterPrepareQuick(blk[b], t, Writes[t][b], Ver[t]),
             "agree")
    /\ Vote(t, b, "agree")

two_pc_commit_execute(w, b) ==
    /\ Serve(w, b, "execute", AfterExecute(blk[b]), "ack")
    /\ Done(Head(req[w][b]).t, b)

two_pc_commit_rollback(w, b) ==
    /\ Serve(w, b, "rollback", AfterRollback(blk[b]), "ack")
    /\ Done(Head(req[w][b]).t, b)

-----------------------------------------------------------------------------
\* Failures.

\* The prefixes a pipe may be cut to.
Prefixes(s) == {SubSeq(s, 1, n) : n \in 0..Len(s)}

\* A worker dies: of what it sent on each connection a prefix is delivered.
WorkerCrashes(w) ==
    /\ w \in MayCrash \cap alive
    /\ alive' = alive \ {w}
    /\ \E delivered \in [Block -> UNION {Prefixes(req[w][b]) : b \in Block}] :
         /\ \A b \in Block : delivered[b] \in Prefixes(req[w][b])
         /\ req' = [req EXCEPT ![w] = delivered]
    /\ resp' = [resp EXCEPT ![w] = [b \in Block |-> <<>>]]
    /\ UNCHANGED <<server, link, checked, coord>>

\* The server of b restarts with its leveldb intact: the connections to it
\* break, for good (a worker never reconnects), and the requests in flight are
\* lost; a prefix of the responses is delivered.  A worker that has not been
\* used may connect later.
ServerRestarts(b) ==
    /\ b \in MayRestart
    /\ \E broken \in SUBSET {w \in Worker : link[w][b]} :
         /\ broken # {}
         /\ \A t \in started : link[Owner[t]][b] => Owner[t] \in broken
         /\ link' = [w \in Worker |->
              IF w \in broken THEN [link[w] EXCEPT ![b] = FALSE] ELSE link[w]]
         /\ req' = [w \in Worker |->
              IF w \in broken THEN [req[w] EXCEPT ![b] = <<>>] ELSE req[w]]
         /\ \E delivered \in [broken -> UNION {Prefixes(resp[w][b]) : w \in broken}] :
              /\ \A w \in broken : delivered[w] \in Prefixes(resp[w][b])
              /\ resp' = [w \in Worker |->
                   IF w \in broken THEN [resp[w] EXCEPT ![b] = delivered[w]]
                                   ELSE resp[w]]
    /\ UNCHANGED <<server, alive, checked, coord>>

-----------------------------------------------------------------------------
CoordinatorStep ==
    \/ \E t \in Txn : Prepare(t) \/ TimerExpires(t) \/ TimerFires(t)
    \/ \E w \in Worker, b \in Block :
         \/ PrepareResponse(w, b)
         \/ LastPrepareResponse(w, b)
         \/ CommitResponse(w, b)

ServerStep ==
    \E w \in Worker, b \in Block :
        \/ two_pc_prepare(w, b)
        \/ two_pc_prepare_quick(w, b)
        \/ two_pc_commit_execute(w, b)
        \/ two_pc_commit_rollback(w, b)

Failure ==
    \/ \E w \in Worker : WorkerCrashes(w)
    \/ \E b \in Block : ServerRestarts(b)

Next == CoordinatorStep \/ ServerStep \/ Failure

Spec == Init /\ [][Next]_vars

\* The io_contexts keep running queued handlers, TCP delivers what was sent on
\* a connection that stays up, and a steady_timer expires.
Fairness ==
    /\ \A t \in Txn : WF_vars(TimerExpires(t)) /\ WF_vars(TimerFires(t))
    /\ \A w \in Worker, b \in Block :
         /\ WF_vars(PrepareResponse(w, b) \/ LastPrepareResponse(w, b)
                                          \/ CommitResponse(w, b))
         /\ WF_vars(two_pc_prepare(w, b) \/ two_pc_prepare_quick(w, b)
                      \/ two_pc_commit_execute(w, b) \/ two_pc_commit_rollback(w, b))

FairSpec == Spec /\ Fairness

-----------------------------------------------------------------------------
\* A request is executed (start_2pc_commit with all_ssbd_agree) only when the
\* server of every block it writes agreed to its prepare, whatever overlaps,
\* expires, crashes or restarts in between: neither a stale, lost or failed
\* response nor another request's responses are ever counted in its place.
DecisionFollowsVotes ==
    \A t \in Txn : decision[t] = "execute" =>
        \A b \in BlocksOf(t) : vote[t][b] = "agree"

\* *next is invoked at most once with an outcome and at most once by the timer,
\* in either order, and the outcome the client is told is the decision the
\* servers get.
AnswersMatchDecision ==
    \A t \in Txn :
        /\ \A i, j \in DOMAIN answers[t] : answers[t][i] = answers[t][j] => i = j
        /\ \A i \in DOMAIN answers[t] :
             /\ answers[t][i] = "OK" => decision[t] = "execute"
             /\ answers[t][i] = "Error: Found Pending 2PC Log" => decision[t] = "rollback"

\* A block whose log is pending, so that it turns away every ordinary prepare,
\* has agreed to a request whose decision its server has not carried out: no
\* sequence of overlapping prepares, executes and rollbacks, which clear or
\* commit each other's logs, leaves a log behind that no request accounts for.
NoOrphanedLog ==
    \A b \in Block : HavePendingLog(blk[b]) =>
        \E t \in Txn : vote[t][b] = "agree" /\ b \notin done[t]

\* A block shows only bytes of requests that its server agreed to prepare, on
\* the parts they write.
VisibleWasPrepared ==
    \A b \in Block, p \in Part : LET t == blk[b].data[p] IN
        t # None => p \in Writes[t][b] /\ vote[t][b] = "agree"

\* Replicas are made only of requests that every block's server has executed,
\* but for servers whose connection broke: their err is taken for an ack.
ReplicationAfterCommit ==
    \A t \in replicated, b \in Block :
        b \in BlocksOf(t) /\ link[Owner[t]][b] => b \in done[t]

\* Every request is answered, unless its worker crashes: by its outcome, or by
\* the timer when a server restart took its messages, or when it has no block.
EveryRequestAnswered ==
    \A t \in Txn :
        t \in started ~> (answers[t] # <<>> \/ Owner[t] \notin alive)

\* What a reader of block b will find once the requests in flight to its
\* server are carried out: an execute on its way makes the log the block.
Effective(b) ==
    IF \E w \in Worker : \E i \in DOMAIN req[w][b] : req[w][b][i].kind = "execute"
    THEN blk[b].pdata ELSE blk[b].data

Outcome ==
    [t \in Txn |-> CASE decision[t] = "none" -> "none"
                     [] decision[t] = "execute" -> "OK"
                     [] decision[t] = "rollback" -> "Error"]

File == INSTANCE AtomicFile WITH
    shown <- [b \in Block |-> Effective(b)],
    durable <- [b \in Block |-> blk[b].data],
    outcome <- Outcome

\* As long as the requests of the file do not overlap and no timer expires, the
\* two-phase commit, its quick path and the answer that comes before the commit
\* included, is the atomic file; a crashed worker costs each block the last
\* write at most, and the log it leaves behind only errors.
ImplementsAtomicFile == File!Spec
=============================================================================
