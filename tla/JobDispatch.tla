----------------------------- MODULE JobDispatch -----------------------------
(***************************************************************************)
(* The proxy's launcher and its workers: how a job, one client request, is *)
(* bound to a worker, written to it, answered, and rescheduled when the    *)
(* worker closes.                                                          *)
(*                                                                         *)
(* Handlers posted to io_context_ run on the proxy's Threads threads.      *)
(* Those posted with a bare net::post (on_worker_response, the completion  *)
(* of a request the proxy answers itself) run on Asio's system executor,   *)
(* on threads of their own.  process_job and the completion of a write are *)
(* split where another thread can come in between; the other handlers      *)
(* touch concurrent maps once and are one step.                            *)
(*                                                                         *)
(* The two second timer of a job and the worker's ack, which cancels it,   *)
(* have no effect: its handler acts only on errors other than cancellation *)
(* and an expired timer reports none.                                      *)
(***************************************************************************)
EXTENDS Naturals, Sequences, FiniteSets

CONSTANTS Job,          \* client requests
          Worker,       \* datafunction instances
          Dir,          \* directories: what header.key names
          DirOf,        \* the directory of a job
          Nobody,       \* no worker
          Threads,      \* threads of io_context_
          MayCrash,     \* workers whose connection may be lost
          MayLeave,     \* workers that may deregister
          MayTruncate,  \* a connection may be lost inside an answer
          MaxTimeouts   \* bound: answers to a job not handled when a timer gives one

ASSUME DispatchAssumption ==
    /\ DirOf \in [Job -> Dir]
    /\ Nobody \notin Worker
    /\ Threads \in Nat \ {0}
    /\ MayCrash \subseteq Worker /\ MayLeave \subseteq Worker
    /\ MayTruncate \in BOOLEAN
    /\ MaxTimeouts \in [Job -> Nat]

VARIABLES
    type,              \* header.type once start_trigger_post has seen the job
    posted,            \* process_job handlers posted for the job
    picked,            \* jobs in process_job, with the worker chosen
    valid,             \* "new", then valid_ of the worker
    connected,         \* the worker's TCP connection
    reading,           \* "yes": start_read_header waits; "cut": start_read_body failed
    writing,           \* is_writing_ of the worker's writer_
    lowering,          \* failed writes between next and is_writing_ = false
    write_queue,       \* write_queue_ of the worker's writer_
    started_jobs,      \* started_jobs_
    serving,           \* requests the worker has received and not answered for good
    answers,           \* last answers on their way back: how many for each job
    timeouts,          \* ... and answers that a timer of the worker gave before
    responded,         \* on_worker_response handlers posted by each worker
    replying,          \* completions posted for jobs the proxy answers itself
    fileid_to_worker,  \* the worker bound to a directory
    transfer_requests, \* bindings left by workers that deregistered
    completed          \* how often on_completion_ was called

jobVars == <<type, posted, picked, replying, responded, completed>>
connVars == <<valid, connected, reading, serving, answers, timeouts>>
writeVars == <<writing, lowering, write_queue>>
dispatchVars == <<jobVars, connVars, writeVars, started_jobs, fileid_to_worker,
                  transfer_requests>>

\* A bag of jobs, as a count for each: a job started twice on a worker is
\* served and answered twice.
Nothing == [j \in Job |-> 0]

DispatchTypeOK ==
    /\ type \in [Job -> {"new", "worker_push_request", "proxy_send"}]
    /\ posted \in [Job -> Nat]
    /\ picked \subseteq Job \X Worker
    /\ valid \in [Worker -> {"new", "yes", "no"}]
    /\ connected \in [Worker -> BOOLEAN]
    /\ reading \in [Worker -> {"no", "yes", "cut"}]
    /\ writing \in [Worker -> BOOLEAN]
    /\ lowering \subseteq Worker
    /\ write_queue \in [Worker -> Seq(Job)]
    /\ started_jobs \in [Worker -> SUBSET Job]
    /\ serving \in [Worker -> [Job -> Nat]]
    /\ answers \in [Worker -> [Job -> Nat]]
    /\ timeouts \in [Worker -> [Job -> Nat]]
    /\ responded \in [Worker -> [Job -> Nat]]
    /\ replying \subseteq Job
    /\ fileid_to_worker \in [Dir -> Worker \cup {Nobody}]
    /\ transfer_requests \in Seq(SUBSET Dir)
    /\ completed \in [Job -> Nat]

DispatchInit ==
    /\ type = [j \in Job |-> "new"]
    /\ posted = [j \in Job |-> 0]
    /\ picked = {}
    /\ valid = [w \in Worker |-> "new"]
    /\ connected = [w \in Worker |-> FALSE]
    /\ reading = [w \in Worker |-> "no"]
    /\ writing = [w \in Worker |-> FALSE]
    /\ lowering = {}
    /\ write_queue = [w \in Worker |-> <<>>]
    /\ started_jobs = [w \in Worker |-> {}]
    /\ serving = [w \in Worker |-> Nothing]
    /\ answers = [w \in Worker |-> Nothing]
    /\ timeouts = [w \in Worker |-> Nothing]
    /\ responded = [w \in Worker |-> Nothing]
    /\ replying = {}
    /\ fileid_to_worker = [d \in Dir |-> Nobody]
    /\ transfer_requests = <<>>
    /\ completed = [j \in Job |-> 0]

\* A thread of io_context_ is free to run a handler.
Free == Cardinality(picked) + Cardinality(lowering) < Threads

-----------------------------------------------------------------------------
\* schedule: the job of a new request is posted, to be sent to a worker or to
\* be answered by the proxy (proxy_send_ip, proxy_send_ok, proxy_send_error).
schedule(j, t) ==
    /\ Free
    /\ type[j] = "new"
    /\ type' = [type EXCEPT ![j] = t]
    /\ posted' = [posted EXCEPT ![j] = @ + 1]
    /\ UNCHANGED <<picked, replying, responded, completed, connVars, writeVars,
                   started_jobs, fileid_to_worker, transfer_requests>>

\* The worker get_assigned_worker and get_available_worker give a job: the one
\* its directory is bound to as long as that is valid, else any valid one.
Assignable(j) ==
    LET bound == fileid_to_worker[DirOf[j]]
        usable == {w \in Worker : valid[w] = "yes"}
    IN  IF bound \in usable THEN {bound} ELSE usable

\* process_job: choose a worker and bind the directory to it; emplace leaves
\* an entry that is there alone, a stale one included.  Without a worker the
\* job is posted again.
process_job(j) ==
    /\ Free
    /\ posted[j] > 0
    /\ \E w \in Assignable(j) :
          /\ <<j, w>> \notin picked
          /\ picked' = picked \cup {<<j, w>>}
          /\ fileid_to_worker' = [fileid_to_worker EXCEPT
                                    ![DirOf[j]] = IF @ = Nobody THEN w ELSE @]
    /\ posted' = [posted EXCEPT ![j] = @ - 1]
    /\ UNCHANGED <<type, replying, responded, completed, connVars, writeVars,
                   started_jobs, transfer_requests>>

\* ... worker::start_write: a request is remembered in started_jobs_ and
\* handed to the writer; an answer of the proxy itself is posted.
start_write(j, w) ==
    /\ <<j, w>> \in picked
    /\ picked' = picked \ {<<j, w>>}
    /\ \/ /\ type[j] = "worker_push_request"
          /\ started_jobs' = [started_jobs EXCEPT ![w] = @ \cup {j}]
          /\ write_queue' = [write_queue EXCEPT ![w] = Append(@, j)]
          /\ writing' = [writing EXCEPT ![w] = TRUE]
          /\ UNCHANGED replying
       \/ /\ type[j] = "proxy_send"
          /\ replying' = replying \cup {j}
          /\ UNCHANGED <<started_jobs, write_queue, writing>>
    /\ UNCHANGED <<type, posted, responded, completed, connVars, lowering,
                   fileid_to_worker, transfer_requests>>

\* The handler of a proxy-made answer, on the system executor.
proxy_send(j) ==
    /\ j \in replying
    /\ replying' = replying \ {j}
    /\ completed' = [completed EXCEPT ![j] = @ + 1]
    /\ UNCHANGED <<type, posted, picked, responded, connVars, writeVars,
                   started_jobs, fileid_to_worker, transfer_requests>>

\* on_worker_response, on the system executor: the first answer to a job that
\* is still in started_jobs_ completes it.
on_worker_response(w, j) ==
    /\ responded[w][j] > 0
    /\ responded' = [responded EXCEPT ![w][j] = @ - 1]
    /\ started_jobs' = [started_jobs EXCEPT ![w] = @ \ {j}]
    /\ completed' = [completed EXCEPT ![j] = IF j \in started_jobs[w] THEN @ + 1 ELSE @]
    /\ UNCHANGED <<type, posted, picked, replying, connVars, writeVars,
                   fileid_to_worker, transfer_requests>>

-----------------------------------------------------------------------------
\* Slip: only the jobs that are not in the write queue any more.
Reschedule_written(w) ==
    posted' = [j \in Job |->
        posted[j] + IF j \in started_jobs[w]
                       /\ \A i \in DOMAIN write_queue[w] : write_queue[w][i] # j
                    THEN 1 ELSE 0]

\* on_worker_reschedule for every job of started_jobs_, which keeps them.
Reschedule(w) ==
    posted' = [j \in Job |-> posted[j] + IF j \in started_jobs[w] THEN 1 ELSE 0]

\* worker::close: the worker is out, and so are the bindings of its jobs.
close(w) ==
    /\ valid' = [valid EXCEPT ![w] = "no"]
    /\ connected' = [connected EXCEPT ![w] = FALSE]
    /\ serving' = [serving EXCEPT ![w] = Nothing]
    /\ Reschedule(w)
    /\ fileid_to_worker' = [d \in Dir |->
            IF \E j \in started_jobs[w] : DirOf[j] = d THEN Nobody ELSE fileid_to_worker[d]]
    /\ UNCHANGED started_jobs

\* add_worker: a datafunction connects.  It is bound to the directories of one
\* pending transfer request, where they are bound to nobody: emplace does not
\* replace the entry of an invalid worker.
add_worker(w) ==
    /\ Free
    /\ valid[w] = "new"
    /\ valid' = [valid EXCEPT ![w] = "yes"]
    /\ connected' = [connected EXCEPT ![w] = TRUE]
    /\ reading' = [reading EXCEPT ![w] = "yes"]
    /\ \/ /\ transfer_requests = <<>>
          /\ UNCHANGED <<fileid_to_worker, transfer_requests>>
       \/ /\ transfer_requests # <<>>
          /\ transfer_requests' = Tail(transfer_requests)
          /\ fileid_to_worker' = [d \in Dir |->
                IF d \in Head(transfer_requests) /\ fileid_to_worker[d] = Nobody
                THEN w ELSE fileid_to_worker[d]]
    /\ UNCHANGED <<jobVars, serving, answers, timeouts, writeVars, started_jobs>>

\* worker_dereg: the worker leaves, with the directories it has blocks of in
\* its cache.
worker_dereg(w) ==
    /\ Free
    /\ w \in MayLeave
    /\ reading[w] = "yes" /\ connected[w]
    /\ answers[w] = Nothing /\ timeouts[w] = Nothing
    /\ reading' = [reading EXCEPT ![w] = "no"]
    /\ \E cached \in SUBSET {d \in Dir : fileid_to_worker[d] = w} :
          transfer_requests' = Append(transfer_requests, cached)
    /\ close(w)
    /\ UNCHANGED <<type, picked, replying, responded, completed, answers, timeouts, writeVars>>

\* The connection is lost, by a crash of the worker or of the network: what
\* the worker has not answered it never will.
ConnectionLost(w) ==
    /\ w \in MayCrash
    /\ connected[w]
    /\ connected' = [connected EXCEPT ![w] = FALSE]
    /\ serving' = [serving EXCEPT ![w] = Nothing]
    /\ UNCHANGED <<jobVars, valid, reading, answers, timeouts, writeVars, started_jobs,
                   fileid_to_worker, transfer_requests>>

\* start_read_header fails and closes the worker.
ReadError(w) ==
    /\ Free
    /\ reading[w] = "yes" /\ ~connected[w]
    /\ reading' = [reading EXCEPT ![w] = "no"]
    /\ answers' = [answers EXCEPT ![w] = Nothing]
    /\ timeouts' = [timeouts EXCEPT ![w] = Nothing]
    /\ close(w)
    /\ UNCHANGED <<type, picked, replying, responded, completed, writeVars,
                   transfer_requests>>

\* start_read_body fails, and only stops reading.
ReadBodyError(w) ==
    /\ Free
    /\ MayTruncate
    /\ reading[w] = "yes" /\ ~connected[w]
    /\ answers[w] # Nothing \/ timeouts[w] # Nothing
    /\ reading' = [reading EXCEPT ![w] = "cut"]
    /\ answers' = [answers EXCEPT ![w] = Nothing]
    /\ timeouts' = [timeouts EXCEPT ![w] = Nothing]
    /\ UNCHANGED <<jobVars, valid, connected, serving, writeVars, started_jobs,
                   fileid_to_worker, transfer_requests>>

\* start_read_body: an answer is posted to on_worker_response.
ReadResponse(w, j) ==
    /\ Free
    /\ reading[w] = "yes"
    /\ answers[w][j] > 0
    /\ answers' = [answers EXCEPT ![w][j] = @ - 1]
    /\ responded' = [responded EXCEPT ![w][j] = @ + 1]
    /\ UNCHANGED <<type, posted, picked, replying, completed, valid, connected, reading,
                   serving, timeouts, writeVars, started_jobs, fileid_to_worker,
                   transfer_requests>>

\* The same for the answer of a timer.
ReadTimeout(w, j) ==
    /\ Free
    /\ reading[w] = "yes"
    /\ timeouts[w][j] > 0
    /\ timeouts' = [timeouts EXCEPT ![w][j] = @ - 1]
    /\ responded' = [responded EXCEPT ![w][j] = @ + 1]
    /\ UNCHANGED <<type, posted, picked, replying, completed, valid, connected, reading,
                   serving, answers, writeVars, started_jobs, fileid_to_worker,
                   transfer_requests>>

\* The writer sends the next request.
WriteDone(w) ==
    /\ Free
    /\ connected[w]
    /\ write_queue[w] # <<>>
    /\ write_queue' = [write_queue EXCEPT ![w] = Tail(@)]
    /\ serving' = [serving EXCEPT ![w][Head(write_queue[w])] = @ + 1]
    /\ writing' = [writing EXCEPT ![w] = Len(write_queue[w]) > 1]
    /\ UNCHANGED <<jobVars, valid, connected, reading, answers, timeouts, lowering, started_jobs,
                   fileid_to_worker, transfer_requests>>

\* A write fails: its next closes the worker, ...
WriteError(w) ==
    /\ Free
    /\ ~connected[w]
    /\ writing[w] /\ w \notin lowering
    /\ write_queue[w] # <<>>
    /\ write_queue' = [write_queue EXCEPT ![w] = Tail(@)]
    /\ lowering' = lowering \cup {w}
    /\ close(w)
    /\ UNCHANGED <<type, picked, replying, responded, completed, reading, answers,
                   timeouts, writing, transfer_requests>>

\* ... and then the writer stops, whatever was queued meanwhile.
WriterStops(w) ==
    /\ w \in lowering
    /\ lowering' = lowering \ {w}
    /\ writing' = [writing EXCEPT ![w] = FALSE]
    /\ UNCHANGED <<jobVars, connVars, write_queue, started_jobs, fileid_to_worker,
                   transfer_requests>>

\* A timer of the storage backend expires, 30 s after a request was sent to
\* the servers, and the client is answered with an error.  The request goes on:
\* what the servers answer later is sent as well.  Answers are read in any
\* order, so this is also the handler that had expired when the servers'
\* answer cancelled the timer.
AnswerTimeout(w, j) ==
    /\ connected[w]
    /\ serving[w][j] > 0
    /\ timeouts[w][j] + responded[w][j] < MaxTimeouts[j]
    /\ timeouts' = [timeouts EXCEPT ![w][j] = @ + 1]
    /\ UNCHANGED <<jobVars, valid, connected, reading, serving, answers, writeVars,
                   started_jobs, fileid_to_worker, transfer_requests>>

\* The last answer of the datafunction to a request: the servers', or the
\* timer's if they stay silent.
Answer(w, j) ==
    /\ connected[w]
    /\ serving[w][j] > 0
    /\ serving' = [serving EXCEPT ![w][j] = @ - 1]
    /\ answers' = [answers EXCEPT ![w][j] = @ + 1]
    /\ UNCHANGED <<jobVars, valid, connected, reading, timeouts, writeVars, started_jobs,
                   fileid_to_worker, transfer_requests>>

-----------------------------------------------------------------------------
\* What happens to the jobs but their arrival and the reading of an answer.
Dispatch ==
    \/ \E j \in Job : process_job(j) \/ proxy_send(j)
    \/ \E j \in Job, w \in Worker :
          \/ start_write(j, w) \/ on_worker_response(w, j)
          \/ Answer(w, j) \/ AnswerTimeout(w, j)
    \/ \E w \in Worker : \/ add_worker(w) \/ worker_dereg(w)
                         \/ ConnectionLost(w) \/ ReadError(w) \/ ReadBodyError(w)
                         \/ WriteDone(w) \/ WriteError(w) \/ WriterStops(w)

DispatchNext ==
    \/ Dispatch
    \/ \E j \in Job, t \in {"worker_push_request", "proxy_send"} : schedule(j, t)
    \/ \E j \in Job, w \in Worker : ReadResponse(w, j) \/ ReadTimeout(w, j)

DispatchSpec == DispatchInit /\ [][DispatchNext]_dispatchVars

\* The threads run what is posted, a datafunction answers, if only when its
\* timer expires, and a lost connection is noticed.
JobFairness ==
    /\ \A j \in Job : WF_dispatchVars(process_job(j)) /\ WF_dispatchVars(proxy_send(j))
    /\ \A j \in Job, w \in Worker :
          /\ WF_dispatchVars(start_write(j, w)) /\ WF_dispatchVars(on_worker_response(w, j))
          /\ WF_dispatchVars(ReadResponse(w, j)) /\ WF_dispatchVars(Answer(w, j))
    /\ \A w \in Worker :
          /\ WF_dispatchVars(ReadError(w) \/ ReadBodyError(w))
          /\ WF_dispatchVars(WriteDone(w)) /\ WF_dispatchVars(WriteError(w))
          /\ WF_dispatchVars(WriterStops(w))

-----------------------------------------------------------------------------
\* A worker whose connection was lost inside an answer, unnoticed: nothing
\* reads it any more, and it stays valid until a write to it fails.
Stranded(w) == valid[w] = "yes" /\ reading[w] = "cut"

\* A job that was scheduled and not answered is never forgotten: it is posted
\* or being processed, its answer is posted, or it is in started_jobs_ of a
\* worker whose end will be noticed, by the pending read, or by a write that
\* fails; a stranded worker keeps its jobs until the next request bound to it
\* fails.  Closing a worker twice is what saves a job that is written to a
\* worker after its first close.
NoJobLost ==
    \A j \in Job : type[j] # "new" /\ completed[j] = 0 =>
        \/ posted[j] > 0
        \/ j \in replying
        \/ \E w \in Worker :
              \/ <<j, w>> \in picked
              \/ /\ j \in started_jobs[w]
                 /\ \/ reading[w] = "yes" \/ Stranded(w)
                    \/ responded[w][j] > 0
                    \/ writing[w] /\ w \notin lowering

\* Every request is answered, though workers come, crash and leave, as long
\* as one stays; but for requests with a stranded worker.
EveryJobAnswered ==
    \A j \in Job : type[j] # "new" ~>
        completed[j] > 0 \/ \E w \in Worker : Stranded(w) /\ j \in started_jobs[w]
=============================================================================
