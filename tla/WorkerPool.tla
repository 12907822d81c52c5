----------------------------- MODULE WorkerPool -----------------------------
(***************************************************************************)
(* The launch policies: how the launcher gets the workers that JobDispatch *)
(* takes for granted.  Every second it compares the number of workers the  *)
(* policy wants with those it has and those it has asked for, and asks     *)
(* OpenWhisk for more; the functions connect when they have started.       *)
(*                                                                         *)
(* launcher_policy posts what happens (a note) to the policies, so these   *)
(* learn of it later, and in any order.  A posted handler takes less than  *)
(* the second between two looks at the pool.                               *)
(***************************************************************************)
EXTENDS JobDispatch, Integers, FiniteSetsExt

CONSTANTS Scenarios,   \* the policy, with the size of a fix_pool or the
                       \* max_average_queue_ of max_queue; its
                       \* max_outstanding_starting_request_; the requests, and
                       \* those whose timer may expire; how many triggers may be
                       \* lost, and which workers other proxies may send here
          LongLimit,   \* how many values a std::uint64_t has: 2^64
          IntLimit,    \* how many an int has that are not negative: 2^31
          DataSize,    \* datasize of a request
          AnswerSize   \* ... and of an answer that the proxy makes itself

ASSUME PoolAssumption ==
    /\ Scenarios \subseteq [policy : {"fix_pool", "max_queue"}, size : Nat \ {0},
                            outstanding : Nat, jobs : SUBSET Job, slow : SUBSET Job,
                            lose : Nat, join : SUBSET Worker]
    /\ IsFiniteSet(Worker)
    /\ {LongLimit, IntLimit} \subseteq Nat \ {0}
    /\ DataSize \in [Job -> Nat] /\ AnswerSize \in Nat

VARIABLES
    sc,                     \* the member of Scenarios
    starting_worker_count,  \* starting_worker_count_
    starter,                \* starter_
    queue_size,             \* queue_size_ of max_queue
    ideal_worker_count,     \* ideal_worker_count_ of max_queue
    notes,                  \* notes posted and not handled: how many of each
    booting,                \* triggers sent, and functions that start
    lost, joined            \* history: triggers that were lost, workers that
                            \* connected though this proxy did not ask for them

countVars == <<starting_worker_count, starter, queue_size, ideal_worker_count>>
triggerVars == <<booting, lost, joined>>
poolVars == <<sc, countVars, notes, triggerVars>>
vars == <<dispatchVars, poolVars>>

Starting == <<"starting", Nobody>>
Registered == <<"registered", Nobody>>
Rescheduled == <<"reschedule", Nobody>>
Note == {Starting, Registered, Rescheduled} \cup ({"schedule", "finished"} \X Job)

TypeOK ==
    /\ DispatchTypeOK
    /\ sc \in Scenarios
    /\ starting_worker_count \in Int /\ queue_size \in Int
    /\ starter \in Nat /\ ideal_worker_count \in -IntLimit..(IntLimit - 1)
    /\ notes \in [Note -> Nat] /\ notes[Rescheduled] \in {0, 1}
    /\ booting \in 0..Cardinality(Worker)
    /\ lost \in 0..sc.lose /\ joined \in 0..Cardinality(sc.join)

Init ==
    /\ DispatchInit
    /\ sc \in Scenarios
    /\ starting_worker_count = 0 /\ starter = 0 /\ queue_size = 0 /\ ideal_worker_count = 0
    /\ notes = [n \in Note |-> 0]
    /\ booting = 0 /\ lost = 0 /\ joined = 0

worker_set == {w \in Worker : valid[w] = "yes"}

-----------------------------------------------------------------------------
\* The policies.

\* default_pool_value_.
default_pool_value == IF sc.policy = "fix_pool" THEN sc.size ELSE 1

get_ideal_worker_count ==
    IF sc.policy = "fix_pool" THEN default_pool_value ELSE Max({starter, ideal_worker_count})

\* Slip: the workers that were asked for are not counted.
get_ideal_worker_count_delta_running ==
    LET should_start == Max({get_ideal_worker_count - Cardinality(worker_set), 0})
        can_start == Max({sc.outstanding - starting_worker_count, 0})
    IN  Min({should_start, can_start})

\* Slip: as many are started as the policy wants, whatever is outstanding.
get_ideal_worker_count_delta_unlimited ==
    Max({get_ideal_worker_count - (Cardinality(worker_set) + starting_worker_count), 0})

\* Slip: nothing is started while a start is outstanding.
get_ideal_worker_count_delta_alone ==
    IF starting_worker_count > 0 THEN 0
    ELSE Max({Min({get_ideal_worker_count - Cardinality(worker_set), sc.outstanding}), 0})

get_ideal_worker_count_delta ==
    LET should_start == Max({get_ideal_worker_count
                                - (Cardinality(worker_set) + starting_worker_count), 0})
        can_start == Max({sc.outstanding - starting_worker_count, 0})
    IN  Min({should_start, can_start})

\* Slip: a worker that connects is not taken off the count.
registered_a_new_worker_kept == UNCHANGED starting_worker_count

registered_a_new_worker == starting_worker_count' = starting_worker_count - 1

\* job->pack_->header.datasize when a note is handled.  An answer that the
\* proxy makes itself is written into the packet of the request, and counts
\* once it is serialized for the client.
datasize(j) ==
    {DataSize[j]} \cup {n \in {AnswerSize} : type[j] = "proxy_send" /\ completed[j] > 0}

\* Slip: what is subtracted when a job is finished is the number of jobs.
finished_a_job_one(j) == queue_size' = queue_size - 1

finished_a_job(j) == \E n \in datasize(j) : queue_size' = queue_size - n

\* A request begins to wait, or waits again: starter_ is set if there is no
\* worker at all.
Awaited == starter' = IF worker_set = {} THEN default_pool_value ELSE 0

\* The handlers of the notes.
Handle(n) ==
    /\ Free /\ notes[n] > 0
    /\ notes' = [notes EXCEPT ![n] = @ - 1]
    /\ \/ /\ n = Starting
          /\ starting_worker_count' = starting_worker_count + 1
          /\ UNCHANGED <<starter, queue_size>>
       \/ /\ n = Registered
          /\ registered_a_new_worker
          /\ UNCHANGED <<starter, queue_size>>
       \/ /\ n = Rescheduled
          /\ Awaited
          /\ UNCHANGED <<starting_worker_count, queue_size>>
       \/ /\ n[1] = "schedule"
          /\ \E size \in datasize(n[2]) : queue_size' = queue_size + size
          /\ Awaited
          /\ UNCHANGED starting_worker_count
       \/ /\ n[1] = "finished"
          /\ finished_a_job(n[2])
          /\ UNCHANGED <<starting_worker_count, starter>>
    /\ UNCHANGED <<dispatchVars, sc, ideal_worker_count, triggerVars>>

\* A number cut to an int.
Cut(n) ==
    LET m == n % (2 * IntLimit)
    IN  IF m < IntLimit THEN m ELSE m - 2 * IntLimit

\* The quotient that execute of max_queue stores.  max_average_queue_ is
\* unsigned, and so is queue_size_ when it is divided: what a negative one
\* comes to, cut to an int, may be negative or very large.
IdealOf(size) == Cut((size % LongLimit) \div sc.size)

execute ==
    /\ sc.policy = "max_queue"
    /\ ideal_worker_count' = IdealOf(queue_size)
    /\ UNCHANGED <<dispatchVars, sc, starting_worker_count, starter, queue_size, notes, triggerVars>>

-----------------------------------------------------------------------------
\* The launcher.

\* A note is posted, if the policy does not ignore it.  Two rescheduled jobs
\* have the effect of one.
Heeded == IF sc.policy = "fix_pool" THEN {Starting, Registered} ELSE Note
Post(n) ==
    notes' = IF n \notin Heeded THEN notes
             ELSE [notes EXCEPT ![n] = IF n = Rescheduled THEN 1 ELSE @ + 1]

\* Functions that may still start; the instance has no more than Worker.
Unstarted == Cardinality({w \in Worker : valid[w] = "new"}) - booting

\* start_create_worker_with_policy: triggers are posted for as many workers as
\* the policy asks for.
start_create_worker_with_policy ==
    LET should_start == Min({get_ideal_worker_count_delta, Unstarted})
    IN  /\ Free
        /\ notes[Starting] = 0
        /\ should_start > 0
        /\ booting' = booting + should_start
        /\ notes' = [notes EXCEPT ![Starting] = @ + should_start]
        /\ UNCHANGED <<dispatchVars, sc, countVars, lost, joined>>

\* A trigger is lost: the host is not resolved, or the handshake or the write
\* fails (a write that failed is queued behind itself when it is tried again),
\* or the function does not start.  An error of the connect is tried again.
TriggerLost ==
    /\ booting > 0 /\ lost < sc.lose
    /\ booting' = booting - 1
    /\ lost' = lost + 1
    /\ UNCHANGED <<dispatchVars, sc, countVars, notes, joined>>

\* A function connects, one that was asked for, ...
WorkerStarts(w) ==
    /\ booting > 0
    /\ add_worker(w)
    /\ booting' = booting - 1
    /\ Post(Registered)
    /\ UNCHANGED <<sc, countVars, lost, joined>>

\* ... or one that runs for another proxy, which sent it a proxyjoin.
WorkerJoins(w) ==
    /\ w \in sc.join /\ Unstarted > 0
    /\ add_worker(w)
    /\ joined' = joined + 1
    /\ Post(Registered)
    /\ UNCHANGED <<sc, countVars, booting, lost>>

Schedule(j, t) ==
    /\ j \in sc.jobs
    /\ schedule(j, t)
    /\ Post(<<"schedule", j>>)
    /\ UNCHANGED <<sc, countVars, triggerVars>>

\* process_job without a worker: the job is posted again.
RescheduleJob(j) ==
    /\ Free /\ posted[j] > 0 /\ worker_set = {}
    /\ Post(Rescheduled)
    /\ UNCHANGED <<dispatchVars, sc, countVars, triggerVars>>

\* A job is completed, by its worker or by the proxy.
Finish(j) ==
    /\ proxy_send(j) \/ \E w \in Worker : on_worker_response(w, j)
    /\ IF completed' # completed THEN Post(<<"finished", j>>) ELSE UNCHANGED notes
    /\ UNCHANGED <<sc, countVars, triggerVars>>

\* A worker closes, and its jobs are rescheduled.
Close(w) ==
    /\ worker_dereg(w) \/ ReadError(w) \/ WriteError(w)
    /\ IF started_jobs[w] # {} THEN Post(Rescheduled) ELSE UNCHANGED notes
    /\ UNCHANGED <<sc, countVars, triggerVars>>

\* The other steps are of no interest to the policies.
Other ==
    /\ \/ \E j \in Job : process_job(j)
       \/ \E j \in Job, w \in Worker :
             \/ start_write(j, w) \/ Answer(w, j) \/ ReadResponse(w, j) \/ ReadTimeout(w, j)
             \/ j \in sc.slow /\ AnswerTimeout(w, j)
       \/ \E w \in Worker : ConnectionLost(w) \/ ReadBodyError(w) \/ WriteDone(w) \/ WriterStops(w)
    /\ UNCHANGED poolVars

Next ==
    \/ \E n \in Note : Handle(n)
    \/ execute \/ start_create_worker_with_policy \/ TriggerLost
    \/ \E w \in Worker : WorkerStarts(w) \/ WorkerJoins(w) \/ Close(w)
    \/ \E j \in Job : RescheduleJob(j) \/ Finish(j)
    \/ \E j \in Job, t \in {"worker_push_request", "proxy_send"} : Schedule(j, t)
    \/ Other

Spec == Init /\ [][Next]_vars

\* Handlers that are posted run, the launcher looks at its pool again and
\* again, and a trigger has a function connect, or is lost.
FairSpec ==
    /\ Spec /\ JobFairness
    /\ \A n \in Note : WF_vars(Handle(n))
    /\ \A j \in Job : WF_vars(RescheduleJob(j))
    /\ WF_vars(execute) /\ WF_vars(start_create_worker_with_policy)
    /\ WF_vars(TriggerLost \/ \E w \in Worker : WorkerStarts(w))

-----------------------------------------------------------------------------
\* starting_worker_count_ counts the functions that were asked for and have
\* not connected, and for ever those that never will; a worker that another
\* proxy sent here is taken for one of them.
StartsCounted ==
    starting_worker_count + notes[Starting] - notes[Registered] = booting + lost - joined

\* No more triggers are on their way, or lost, than the policy allows to be
\* outstanding, however many workers it wants: the number that comes of a
\* negative queue_size_ included.  Each worker that another proxy sent here
\* makes room for one more.
TriggersBounded == booting + lost <= sc.outstanding + joined

\* A pool of fixed size has no more workers than that, running or starting,
\* but for those that others sent here.
PoolNotOvershot ==
    sc.policy = "fix_pool" => Cardinality(worker_set) + booting <= sc.size + joined

\* How often a request was added to queue_size_ and its answers were taken off.
Added(j) == (IF type[j] = "new" THEN 0 ELSE 1) - notes[<<"schedule", j>>]
Taken(j) == completed[j] - notes[<<"finished", j>>]

\* What that comes to, at least and at most.
Least == [j \in Job |-> Min(datasize(j)) * Added(j) - Max(datasize(j)) * Taken(j)]
Most == [j \in Job |-> Max(datasize(j)) * Added(j) - Min(datasize(j)) * Taken(j)]

Total(f) == MapThenSumSet(LAMBDA j : f[j], Job)

\* queue_size_ is what the unanswered requests come to: a request counts once
\* however often it is rescheduled, but its answers are all subtracted, when
\* more than one worker gives one.  A request that the proxy answers itself
\* may be subtracted with the size of its answer, and then leaves the rest of
\* its size in the sum for ever.
QueueCounted ==
    sc.policy = "max_queue" => Total(Least) <= queue_size /\ queue_size <= Total(Most)

\* Every request is answered though the launcher starts with no worker and
\* loses some, unless as many triggers are lost as the pool has workers or as
\* may be outstanding.
PoolAnswers == EveryJobAnswered \/ <>(lost >= Min({default_pool_value, sc.outstanding}))
=============================================================================
