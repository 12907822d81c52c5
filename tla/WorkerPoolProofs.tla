-------------------------- MODULE WorkerPoolProofs ---------------------------
(***************************************************************************)
(* The launcher with its policies keeps every job, counts the workers it   *)
(* has asked for, has no more of them outstanding than it may, does not    *)
(* start more than a pool of fixed size has, and knows the size of its     *)
(* queue.  That is a sum over the jobs; what is said of sums is proved     *)
(* with a smallest set of jobs that would refute it.                       *)
(***************************************************************************)
EXTENDS WorkerPool, JobDispatchProofs

USE Zenon

-----------------------------------------------------------------------------
\* The jobs.

\* A step of the launcher and its policies is a step of the dispatch, or changes
\* nothing of it.
LEMMA PoolDispatch == [Next]_vars => [DispatchNext]_dispatchVars
<1> SUFFICES ASSUME [Next]_vars PROVE [DispatchNext]_dispatchVars
  OBVIOUS
<1>1. ASSUME NEW n \in Note, Handle(n) PROVE UNCHANGED dispatchVars
  BY <1>1 DEF Handle
<1>2. CASE execute \/ start_create_worker_with_policy \/ TriggerLost
  <2>1. UNCHANGED dispatchVars
    BY <1>2 DEF execute, start_create_worker_with_policy, TriggerLost
  <2> QED
    BY <2>1
<1>3. ASSUME NEW w \in Worker, WorkerStarts(w) \/ WorkerJoins(w) \/ Close(w)
      PROVE  Dispatch
  <2>1. add_worker(w) \/ worker_dereg(w) \/ ReadError(w) \/ WriteError(w)
    BY <1>3 DEF WorkerStarts, WorkerJoins, Close
  <2> QED
    BY <2>1 DEF Dispatch
<1>4. ASSUME NEW j \in Job, RescheduleJob(j) PROVE UNCHANGED dispatchVars
  BY <1>4 DEF RescheduleJob
<1>5. ASSUME NEW j \in Job, Finish(j) PROVE Dispatch
  <2>1. proxy_send(j) \/ \E w \in Worker : on_worker_response(w, j)
    BY <1>5 DEF Finish
  <2> QED
    BY <2>1 DEF Dispatch
<1>6. ASSUME NEW j \in Job, NEW t \in {"worker_push_request", "proxy_send"}, Schedule(j, t)
      PROVE  DispatchNext
  <2>1. schedule(j, t)
    BY <1>6 DEF Schedule
  <2> QED
    BY <2>1 DEF DispatchNext
<1>7. CASE Other
  BY <1>7 DEF Other, DispatchNext, Dispatch
<1>8. CASE UNCHANGED vars
  <2>1. UNCHANGED dispatchVars
    BY <1>8 DEF vars
  <2> QED
    BY <2>1
<1> QED
  BY <1>1, <1>2, <1>3, <1>4, <1>5, <1>6, <1>7, <1>8 DEF Next, DispatchNext

\* A job that was scheduled is never forgotten, though workers crash, leave and
\* come: for any jobs, workers and policy, when io_context_ has one thread.
THEOREM JobsKept ==
    ASSUME Threads = 1
    PROVE  Spec => []NoJobLost
<1>1. Init => DispatchTypeOK /\ Held
  <2> SUFFICES ASSUME Init PROVE DispatchTypeOK /\ Held
    OBVIOUS
  <2>1. DispatchTypeOK
    BY DispatchInitTyped DEF Init
  <2>2. Held
    BY FS_EmptySet DEF Init, DispatchInit, Held
  <2> QED
    BY <2>1, <2>2
<1>2. DispatchTypeOK /\ Held /\ [Next]_vars => (DispatchTypeOK /\ Held)'
  BY PoolDispatch, DispatchTyped, DispatchHolds
<1>3. DispatchTypeOK /\ Held => NoJobLost
  BY HeldNotLost
<1> QED
  BY <1>1, <1>2, <1>3, PTL DEF Spec

-----------------------------------------------------------------------------
\* The types of the pool.

\* The larger of two numbers.
LEMMA MaxOfTwo ==
    ASSUME NEW a \in Int, NEW b \in Int
    PROVE  /\ Max({a, b}) \in Int
           /\ Max({a, b}) = IF a >= b THEN a ELSE b
<1>1. \E x \in {a, b} : \A y \in {a, b} : x >= y
  BY SMT
<1>2. Max({a, b}) \in {a, b} /\ \A y \in {a, b} : Max({a, b}) >= y
  BY <1>1 DEF Max
<1> QED
  BY <1>2, SMT

\* The smaller of two numbers.
LEMMA MinOfTwo ==
    ASSUME NEW a \in Int, NEW b \in Int
    PROVE  /\ Min({a, b}) \in Int
           /\ Min({a, b}) = IF a <= b THEN a ELSE b
<1>1. \E x \in {a, b} : \A y \in {a, b} : x <= y
  BY SMT
<1>2. Min({a, b}) \in {a, b} /\ \A y \in {a, b} : Min({a, b}) <= y
  BY <1>1 DEF Min
<1> QED
  BY <1>2, SMT

\* A worker that has connected has done so for good: add_worker is the only step
\* that a new worker takes, and none is new again.
LEMMA ValidSteps ==
    ASSUME DispatchTypeOK, [DispatchNext]_dispatchVars
    PROVE  /\ \A v \in Worker : valid'[v] = "new" => valid[v] = "new"
           /\ \/ \E w \in Worker : add_worker(w)
              \/ \A v \in Worker : valid'[v] = "yes" => valid[v] = "yes"
<1>1. ASSUME NEW w \in Worker, add_worker(w)
      PROVE  \A v \in Worker : valid'[v] = "new" => valid[v] = "new"
  BY <1>1 DEF add_worker, DispatchTypeOK
<1>2. ASSUME NEW w \in Worker, worker_dereg(w) \/ ReadError(w) \/ WriteError(w)
      PROVE  \A v \in Worker : /\ valid'[v] = "new" => valid[v] = "new"
                               /\ valid'[v] = "yes" => valid[v] = "yes"
  <2>1. close(w)
    BY <1>2 DEF worker_dereg, ReadError, WriteError
  <2> QED
    BY <2>1 DEF close, DispatchTypeOK
<1>3. ASSUME \A w \in Worker : ~(\/ add_worker(w) \/ worker_dereg(w)
                                 \/ ReadError(w) \/ WriteError(w))
      PROVE  UNCHANGED valid
  BY <1>3, ZenonT(30) DEF DispatchNext, Dispatch, dispatchVars, connVars, schedule, process_job,
              proxy_send, start_write, on_worker_response, Answer, AnswerTimeout,
              ReadResponse, ReadTimeout, ConnectionLost, ReadBodyError, WriteDone, WriterStops
<1> QED
  BY <1>1, <1>2, <1>3

\* The workers that other proxies may send here and that have connected.
Arrived == {w \in sc.join : valid[w] # "new"}

\* A worker that comes from another proxy is counted once: it has connected.
PoolInv == TypeOK /\ joined <= Cardinality(Arrived)

\* What a Scenario is made of.
LEMMA ScenarioTypes ==
    ASSUME sc \in Scenarios
    PROVE  /\ sc.policy \in {"fix_pool", "max_queue"} /\ sc.size \in Nat \ {0}
           /\ sc.outstanding \in Nat /\ sc.jobs \subseteq Job
           /\ sc.lose \in Nat /\ sc.join \subseteq Worker
  BY PoolAssumption

\* The sets of workers that are counted are finite.
LEMMA CountedFinite ==
    ASSUME sc \in Scenarios
    PROVE  /\ IsFiniteSet(sc.join) /\ Cardinality(sc.join) \in Nat
           /\ IsFiniteSet(worker_set) /\ Cardinality(worker_set) \in Nat
           /\ IsFiniteSet(Arrived) /\ Cardinality(Arrived) <= Cardinality(sc.join)
           /\ Cardinality(Arrived) \in Nat /\ Cardinality(Worker) \in Nat
           /\ Cardinality({w \in Worker : valid[w] = "new"}) \in Nat
           /\ Cardinality({w \in Worker : valid[w] = "new"}) <= Cardinality(Worker)
<1>1. sc.join \subseteq Worker /\ IsFiniteSet(Worker)
  BY ScenarioTypes, PoolAssumption
<1>2. IsFiniteSet(sc.join)
  BY <1>1, FS_Subset
<1>3. worker_set \subseteq Worker /\ Arrived \subseteq sc.join
  BY DEF worker_set, Arrived
<1>4. IsFiniteSet(worker_set)
  BY <1>1, <1>3, FS_Subset
<1>5. IsFiniteSet(Arrived) /\ Cardinality(Arrived) <= Cardinality(sc.join)
  BY <1>2, <1>3, FS_Subset
<1>6. {w \in Worker : valid[w] = "new"} \subseteq Worker
  OBVIOUS
<1>7. /\ IsFiniteSet({w \in Worker : valid[w] = "new"})
      /\ Cardinality({w \in Worker : valid[w] = "new"}) <= Cardinality(Worker)
  BY <1>1, <1>6, FS_Subset
<1> QED
  BY <1>1, <1>2, <1>4, <1>5, <1>7, FS_CardinalityType

\* Notes are distinct.
LEMMA NotesDiffer ==
    /\ {Starting, Registered, Rescheduled} \subseteq Note
    /\ Starting # Registered /\ Starting # Rescheduled /\ Registered # Rescheduled
    /\ \A j \in Job : /\ {<<"schedule", j>>, <<"finished", j>>} \subseteq Note
                      /\ <<"schedule", j>> \notin {Starting, Registered, Rescheduled}
                      /\ <<"finished", j>> \notin {Starting, Registered, Rescheduled}
  BY SMT DEF Note, Starting, Registered, Rescheduled

\* What is posted, and what it leaves alone: Starting and Registered are heeded by
\* both policies.
LEMMA PostTyped ==
    ASSUME notes \in [Note -> Nat], notes[Rescheduled] \in {0, 1}, NEW n \in Note, Post(n)
    PROVE  /\ notes' \in [Note -> Nat] /\ notes'[Rescheduled] \in {0, 1}
           /\ n = Registered => notes'[Registered] = notes[Registered] + 1
           /\ n # Registered => notes'[Registered] = notes[Registered]
           /\ n # Starting => notes'[Starting] = notes[Starting]
<1>1. Starting \in Heeded /\ Registered \in Heeded
  BY NotesDiffer DEF Heeded
<1>2. CASE n \notin Heeded
  BY <1>1, <1>2, NotesDiffer DEF Post
<1>3. CASE n \in Heeded
  <2>1. notes' = [notes EXCEPT ![n] = IF n = Rescheduled THEN 1 ELSE notes[n] + 1]
    BY <1>3 DEF Post
  <2> QED
    BY <2>1, NotesDiffer, SMT
<1> QED
  BY <1>2, <1>3

\* What a note counts is a number of bytes.
LEMMA SizesNat == \A j \in Job : datasize(j) \subseteq Nat
  BY PoolAssumption DEF datasize

\* How many workers the launcher may ask OpenWhisk for.
LEMMA DeltaTyped ==
    ASSUME TypeOK
    PROVE  /\ get_ideal_worker_count \in Nat /\ default_pool_value \in Nat
           /\ get_ideal_worker_count_delta \in Int
           /\ \/ get_ideal_worker_count_delta <= 0
              \/ get_ideal_worker_count_delta <= get_ideal_worker_count
                     - (Cardinality(worker_set) + starting_worker_count)
           /\ \/ get_ideal_worker_count_delta <= 0
              \/ get_ideal_worker_count_delta <= sc.outstanding - starting_worker_count
<1>1. default_pool_value \in Nat
  BY ScenarioTypes DEF TypeOK, default_pool_value
<1>2. starter \in Nat /\ starter \in Int /\ ideal_worker_count \in Int
  BY PoolAssumption, SMT DEF TypeOK
<1>3. Max({starter, ideal_worker_count}) \in Nat
  <2>1. /\ Max({starter, ideal_worker_count}) \in Int
        /\ Max({starter, ideal_worker_count})
              = IF starter >= ideal_worker_count THEN starter ELSE ideal_worker_count
    BY <1>2, MaxOfTwo
  <2> QED
    BY <1>2, <2>1, SMT
<1>4. get_ideal_worker_count \in Nat
  BY <1>1, <1>3 DEF get_ideal_worker_count
<1> DEFINE missing == get_ideal_worker_count - (Cardinality(worker_set) + starting_worker_count)
           allowed == sc.outstanding - starting_worker_count
<1>5. missing \in Int /\ allowed \in Int
  BY <1>4, CountedFinite, ScenarioTypes, SMT DEF TypeOK
<1>6. get_ideal_worker_count_delta = Min({Max({missing, 0}), Max({allowed, 0})})
  BY DEF get_ideal_worker_count_delta
<1> HIDE DEF missing, allowed
<1>7. /\ Max({missing, 0}) \in Int /\ Max({allowed, 0}) \in Int
      /\ Max({missing, 0}) = IF missing >= 0 THEN missing ELSE 0
      /\ Max({allowed, 0}) = IF allowed >= 0 THEN allowed ELSE 0
  <2>1. 0 \in Int
    BY SMT
  <2> QED
    BY <1>5, <2>1, MaxOfTwo
<1>8. get_ideal_worker_count_delta \in Int
      /\ get_ideal_worker_count_delta <= Max({missing, 0})
      /\ get_ideal_worker_count_delta <= Max({allowed, 0})
  <2> DEFINE a == Max({missing, 0})
             b == Max({allowed, 0})
  <2>1. /\ a \in Int /\ b \in Int /\ get_ideal_worker_count_delta \in Int
        /\ get_ideal_worker_count_delta = IF a <= b THEN a ELSE b
    BY <1>6, <1>7, MinOfTwo
  <2> HIDE DEF a, b
  <2>2. get_ideal_worker_count_delta <= a /\ get_ideal_worker_count_delta <= b
    BY <2>1, SMT
  <2> QED
    BY <2>1, <2>2 DEF a, b
<1>9. get_ideal_worker_count_delta <= 0 \/ get_ideal_worker_count_delta <= missing
  BY <1>5, <1>7, <1>8
<1>10. get_ideal_worker_count_delta <= 0 \/ get_ideal_worker_count_delta <= allowed
  BY <1>5, <1>7, <1>8
<1> QED
  BY <1>1, <1>4, <1>8, <1>9, <1>10 DEF missing, allowed

\* A look at the pool asks for no more workers than the policy wants, than may be
\* outstanding and than may still start.
LEMMA Launched ==
    ASSUME TypeOK, start_create_worker_with_policy
    PROVE  \E n \in Nat \ {0} :
              /\ booting' = booting + n
              /\ notes' = [notes EXCEPT ![Starting] = notes[Starting] + n]
              /\ n <= get_ideal_worker_count
                         - (Cardinality(worker_set) + starting_worker_count)
              /\ n <= sc.outstanding - starting_worker_count
              /\ booting + n <= Cardinality(Worker)
<1> DEFINE n == Min({get_ideal_worker_count_delta, Unstarted})
<1>1. Unstarted \in Int /\ booting + Unstarted <= Cardinality(Worker)
  BY CountedFinite, SMT DEF Unstarted, TypeOK
<1>2. n \in Int /\ n <= get_ideal_worker_count_delta /\ n <= Unstarted
  BY <1>1, DeltaTyped, MinOfTwo, SMT
<1>3. /\ n > 0 /\ booting' = booting + n
      /\ notes' = [notes EXCEPT ![Starting] = notes[Starting] + n]
  BY DEF start_create_worker_with_policy
<1> HIDE DEF n
<1>4. n \in Nat \ {0}
  BY <1>2, <1>3, SMT
<1>5. /\ get_ideal_worker_count \in Int /\ Cardinality(worker_set) \in Int
      /\ starting_worker_count \in Int /\ booting \in Int /\ Cardinality(Worker) \in Int
      /\ sc.outstanding \in Int /\ get_ideal_worker_count_delta \in Int
  BY DeltaTyped, CountedFinite, ScenarioTypes, SMT DEF TypeOK
<1>6. n <= get_ideal_worker_count - (Cardinality(worker_set) + starting_worker_count)
  BY <1>2, <1>4, <1>5, DeltaTyped, SMT
<1>7. booting + n <= Cardinality(Worker)
  BY <1>1, <1>2, <1>5, SMT
<1>8. n <= sc.outstanding - starting_worker_count
  BY <1>2, <1>4, <1>5, DeltaTyped, SMT
<1> QED
  BY <1>3, <1>4, <1>6, <1>7, <1>8

\* The workers that came from other proxies stay counted.
LEMMA ArrivedGrows ==
    ASSUME DispatchTypeOK, sc \in Scenarios, UNCHANGED sc, [DispatchNext]_dispatchVars
    PROVE  /\ Arrived \subseteq Arrived'
           /\ IsFiniteSet(Arrived') /\ Cardinality(Arrived) <= Cardinality(Arrived')
           /\ Cardinality(Arrived') \in Nat /\ Cardinality(Arrived') <= Cardinality(sc.join)
<1>1. sc.join \subseteq Worker /\ IsFiniteSet(sc.join)
  BY ScenarioTypes, CountedFinite
<1>2. Arrived \subseteq Arrived' /\ Arrived' \subseteq sc.join
  BY <1>1, ValidSteps DEF Arrived
<1>3. IsFiniteSet(Arrived') /\ Cardinality(Arrived') <= Cardinality(sc.join)
  BY <1>1, <1>2, FS_Subset
<1> QED
  BY <1>2, <1>3, FS_Subset, FS_CardinalityType

\* A number cut to an int is one.
LEMMA CutTyped == ASSUME NEW n \in Int PROVE Cut(n) \in -IntLimit..(IntLimit - 1)
<1>1. IntLimit \in Nat \ {0} /\ 2 * IntLimit \in Nat \ {0}
  BY PoolAssumption, SMT
<1> DEFINE m == n % (2 * IntLimit)
<1>2. m \in 0..(2 * IntLimit - 1)
  BY <1>1, SMT
<1>3. Cut(n) = IF m < IntLimit THEN m ELSE m - 2 * IntLimit
  BY DEF Cut
<1> HIDE DEF m
<1> QED
  BY <1>1, <1>2, <1>3, SMT

\* What max_queue stores is an int, for a queue of any size.
LEMMA IdealTyped ==
    ASSUME sc \in Scenarios, queue_size \in Int
    PROVE  IdealOf(queue_size) \in -IntLimit..(IntLimit - 1)
<1>1. sc.size \in Nat \ {0} /\ LongLimit \in Nat \ {0}
  BY ScenarioTypes, PoolAssumption
<1>2. queue_size % LongLimit \in Int
  BY <1>1, SMT
<1>3. (queue_size % LongLimit) \div sc.size \in Int
  BY <1>1, <1>2, SMT
<1> QED
  BY <1>3, CutTyped DEF IdealOf

\* The launcher begins with an empty pool.
LEMMA PoolInitTyped == Init => PoolInv
<1> SUFFICES ASSUME Init PROVE PoolInv
  OBVIOUS
<1>1. sc \in Scenarios /\ DispatchTypeOK
  BY DispatchInitTyped DEF Init
<1>2. notes \in [Note -> Nat] /\ notes[Rescheduled] \in {0, 1}
  BY NotesDiffer DEF Init
<1>3. /\ starting_worker_count \in Int /\ queue_size \in Int /\ starter \in Nat
      /\ ideal_worker_count \in -IntLimit..(IntLimit - 1)
      /\ booting = 0 /\ lost = 0 /\ joined = 0
  BY PoolAssumption, SMT DEF Init
<1>4. Cardinality(Worker) \in Nat /\ sc.lose \in Nat /\ Cardinality(sc.join) \in Nat
      /\ Cardinality(Arrived) \in Nat
  BY <1>1, CountedFinite, ScenarioTypes
<1>5. booting \in 0..Cardinality(Worker) /\ lost \in 0..sc.lose
      /\ joined \in 0..Cardinality(sc.join) /\ joined <= Cardinality(Arrived)
  BY <1>3, <1>4, SMT
<1> QED
  BY <1>1, <1>2, <1>3, <1>5 DEF PoolInv, TypeOK

\* The handlers of the notes, and their effect on what was asked for.
LEMMA HandleTyped ==
    ASSUME TypeOK, NEW n \in Note, Handle(n)
    PROVE  /\ notes' \in [Note -> Nat] /\ notes'[Rescheduled] \in {0, 1}
           /\ starting_worker_count' \in Int /\ queue_size' \in Int /\ starter' \in Nat
           /\ UNCHANGED <<dispatchVars, sc, ideal_worker_count, booting, lost, joined>>
           /\ starting_worker_count' + notes'[Starting] - notes'[Registered]
                 = starting_worker_count + notes[Starting] - notes[Registered]
           /\ starting_worker_count' + notes'[Starting]
                 <= starting_worker_count + notes[Starting]
<1>1. notes[n] \in Nat /\ notes[n] > 0 /\ notes' = [notes EXCEPT ![n] = notes[n] - 1]
  BY DEF Handle, TypeOK
<1>2. notes' \in [Note -> Nat] /\ notes'[Rescheduled] \in {0, 1}
  BY <1>1, NotesDiffer, SMT DEF TypeOK
<1>3. UNCHANGED <<dispatchVars, sc, ideal_worker_count, booting, lost, joined>>
  BY DEF Handle, triggerVars
<1>4. Awaited => starter' \in Nat
  BY DeltaTyped, SMT DEF Awaited
<1>5. notes[Starting] \in Nat /\ notes[Registered] \in Nat
  BY NotesDiffer DEF TypeOK
<1>6. CASE n = Starting /\ starting_worker_count' = starting_worker_count + 1
           /\ UNCHANGED <<starter, queue_size>>
  <2>1. notes'[Starting] = notes[Starting] - 1 /\ notes'[Registered] = notes[Registered]
    BY <1>1, <1>6, NotesDiffer DEF TypeOK
  <2> QED
    BY <1>2, <1>3, <1>5, <1>6, <2>1, SMTT(30) DEF TypeOK
<1>7. CASE n = Registered /\ registered_a_new_worker /\ UNCHANGED <<starter, queue_size>>
  <2>1. notes'[Starting] = notes[Starting] /\ notes'[Registered] = notes[Registered] - 1
    BY <1>1, <1>7, NotesDiffer DEF TypeOK
  <2> QED
    BY <1>2, <1>3, <1>5, <1>7, <2>1, SMTT(30) DEF TypeOK, registered_a_new_worker
<1>8. CASE n = Rescheduled /\ Awaited /\ UNCHANGED <<starting_worker_count, queue_size>>
  <2>1. notes'[Starting] = notes[Starting] /\ notes'[Registered] = notes[Registered]
    BY <1>1, <1>8, NotesDiffer DEF TypeOK
  <2>2. starting_worker_count' + notes'[Starting] <= starting_worker_count + notes[Starting]
    BY <1>5, <1>8, <2>1, SMT DEF TypeOK
  <2> QED
    BY <1>2, <1>3, <1>4, <1>5, <1>8, <2>1, <2>2 DEF TypeOK
<1>9. CASE /\ n[1] = "schedule" /\ \E size \in datasize(n[2]) : queue_size' = queue_size + size
           /\ Awaited /\ UNCHANGED starting_worker_count
  <2>1. n \in {"schedule"} \X Job /\ n \notin {Starting, Registered, Rescheduled}
    BY <1>9, SMT DEF Note, Starting, Registered, Rescheduled
  <2>2. notes'[Starting] = notes[Starting] /\ notes'[Registered] = notes[Registered]
    BY <1>1, <2>1, NotesDiffer DEF TypeOK
  <2>3. queue_size' \in Int
    <3>1. n[2] \in Job
      BY <2>1
    <3> QED
      BY <1>9, <3>1, SizesNat, SMT DEF TypeOK
  <2>4. starting_worker_count' + notes'[Starting] <= starting_worker_count + notes[Starting]
    BY <1>5, <1>9, <2>2, SMT DEF TypeOK
  <2> QED
    BY <1>2, <1>3, <1>4, <1>9, <2>2, <2>3, <2>4 DEF TypeOK
<1>10. CASE /\ n[1] = "finished" /\ finished_a_job(n[2])
            /\ UNCHANGED <<starting_worker_count, starter>>
  <2>1. n \in {"finished"} \X Job /\ n \notin {Starting, Registered, Rescheduled}
    BY <1>10, SMT DEF Note, Starting, Registered, Rescheduled
  <2>2. notes'[Starting] = notes[Starting] /\ notes'[Registered] = notes[Registered]
    BY <1>1, <2>1, NotesDiffer DEF TypeOK
  <2>3. queue_size' \in Int
    <3>1. n[2] \in Job
      BY <2>1
    <3> QED
      BY <1>10, <3>1, SizesNat, SMT DEF TypeOK, finished_a_job
  <2>4. starting_worker_count' + notes'[Starting] <= starting_worker_count + notes[Starting]
    BY <1>5, <1>10, <2>2, SMT DEF TypeOK
  <2> QED
    BY <1>2, <1>3, <1>10, <2>2, <2>3, <2>4 DEF TypeOK
<1> QED
  BY <1>6, <1>7, <1>8, <1>9, <1>10 DEF Handle

\* What a step of the launcher does to what is counted: it posts notes that concern
\* no start, or a worker connects that was asked for, or one that was not.
Posted ==
    /\ notes' \in [Note -> Nat] /\ notes'[Rescheduled] \in {0, 1}
    /\ notes'[Starting] = notes[Starting]
    /\ UNCHANGED <<sc, countVars, lost>>
    /\ \/ /\ notes'[Registered] = notes[Registered]
          /\ UNCHANGED <<booting, joined>>
          /\ \A w \in Worker : ~add_worker(w)
       \/ /\ notes'[Registered] = notes[Registered] + 1
          /\ \E w \in Worker : /\ add_worker(w)
                               /\ \/ booting > 0 /\ booting' = booting - 1 /\ UNCHANGED joined
                                  \/ w \in sc.join /\ joined' = joined + 1 /\ UNCHANGED booting

\* A worker connects in the steps of the pool that say so, and in no other.
LEMMA AddsNone ==
    ASSUME DispatchTypeOK,
           \/ UNCHANGED valid
           \/ \E w \in Worker : worker_dereg(w) \/ ReadError(w) \/ WriteError(w)
    PROVE  \A w \in Worker : ~add_worker(w)
<1> SUFFICES ASSUME NEW w \in Worker, add_worker(w) PROVE FALSE
  OBVIOUS
<1>1. valid[w] = "new" /\ valid'[w] = "yes"
  BY DEF add_worker, DispatchTypeOK
<1>2. ASSUME NEW v \in Worker, worker_dereg(v) \/ ReadError(v) \/ WriteError(v) PROVE FALSE
  <2>1. close(v)
    BY <1>2 DEF worker_dereg, ReadError, WriteError
  <2> QED
    BY <1>1, <2>1 DEF close, DispatchTypeOK
<1> QED
  BY <1>1, <1>2

\* Every step of the launcher but the handlers of notes, a look at the pool, the
\* loss of a trigger and the look at the queue.
LEMMA PostedSteps ==
    ASSUME TypeOK,
           \/ \E w \in Worker : WorkerStarts(w) \/ WorkerJoins(w) \/ Close(w)
           \/ \E j \in Job : RescheduleJob(j) \/ Finish(j)
           \/ \E j \in Job, t \in {"worker_push_request", "proxy_send"} : Schedule(j, t)
           \/ Other \/ UNCHANGED vars
    PROVE  Posted
<1>1. /\ notes \in [Note -> Nat] /\ notes[Rescheduled] \in {0, 1} /\ DispatchTypeOK
      /\ notes[Starting] \in Nat /\ notes[Registered] \in Nat
  BY NotesDiffer DEF TypeOK
<1>2. ASSUME NEW w \in Worker, WorkerStarts(w) \/ WorkerJoins(w) PROVE Posted
  <2>1. /\ notes' \in [Note -> Nat] /\ notes'[Rescheduled] \in {0, 1}
        /\ notes'[Starting] = notes[Starting]
        /\ notes'[Registered] = notes[Registered] + 1
    BY <1>1, <1>2, PostTyped, NotesDiffer DEF WorkerStarts, WorkerJoins
  <2> QED
    BY <1>2, <2>1 DEF WorkerStarts, WorkerJoins, Posted
<1>3. ASSUME NEW w \in Worker, Close(w) PROVE Posted
  <2>1. /\ notes' \in [Note -> Nat] /\ notes'[Rescheduled] \in {0, 1}
        /\ notes'[Starting] = notes[Starting]
        /\ notes'[Registered] = notes[Registered]
    BY <1>1, <1>3, PostTyped, NotesDiffer DEF Close
  <2>2. worker_dereg(w) \/ ReadError(w) \/ WriteError(w)
    BY <1>3 DEF Close
  <2>3. \A v \in Worker : ~add_worker(v)
    BY <1>1, <2>2, AddsNone
  <2> QED
    BY <1>3, <2>1, <2>3 DEF Close, Posted, triggerVars
<1>4. ASSUME NEW j \in Job, RescheduleJob(j) PROVE Posted
  <2>1. /\ notes' \in [Note -> Nat] /\ notes'[Rescheduled] \in {0, 1}
        /\ notes'[Starting] = notes[Starting]
        /\ notes'[Registered] = notes[Registered]
    BY <1>1, <1>4, PostTyped, NotesDiffer DEF RescheduleJob
  <2>2. UNCHANGED valid
    BY <1>4 DEF RescheduleJob, dispatchVars, connVars
  <2> QED
    BY <1>1, <1>4, <2>1, <2>2, AddsNone DEF RescheduleJob, Posted, triggerVars
<1>5. ASSUME NEW j \in Job, Finish(j) PROVE Posted
  <2>1. /\ notes' \in [Note -> Nat] /\ notes'[Rescheduled] \in {0, 1}
        /\ notes'[Starting] = notes[Starting]
        /\ notes'[Registered] = notes[Registered]
    BY <1>1, <1>5, PostTyped, NotesDiffer DEF Finish
  <2>2. UNCHANGED valid
    BY <1>5 DEF Finish, proxy_send, on_worker_response, connVars
  <2> QED
    BY <1>1, <1>5, <2>1, <2>2, AddsNone DEF Finish, Posted, triggerVars
<1>6. ASSUME NEW j \in Job, NEW t \in {"worker_push_request", "proxy_send"}, Schedule(j, t)
      PROVE  Posted
  <2>1. /\ notes' \in [Note -> Nat] /\ notes'[Rescheduled] \in {0, 1}
        /\ notes'[Starting] = notes[Starting]
        /\ notes'[Registered] = notes[Registered]
    BY <1>1, <1>6, PostTyped, NotesDiffer DEF Schedule
  <2>2. UNCHANGED valid
    BY <1>6 DEF Schedule, schedule, connVars
  <2> QED
    BY <1>1, <1>6, <2>1, <2>2, AddsNone DEF Schedule, Posted, triggerVars
<1>7. CASE Other
  <2>1. UNCHANGED valid
    BY <1>7, ZenonT(30) DEF Other, connVars, process_job, start_write, Answer, AnswerTimeout,
                ReadResponse, ReadTimeout, ConnectionLost, ReadBodyError, WriteDone, WriterStops
  <2> QED
    BY <1>1, <1>7, <2>1, AddsNone DEF Other, Posted, poolVars, triggerVars
<1>8. CASE UNCHANGED vars
  <2>1. UNCHANGED valid
    BY <1>8 DEF vars, dispatchVars, connVars
  <2> QED
    BY <1>1, <1>8, <2>1, AddsNone DEF vars, Posted, poolVars, triggerVars
<1> QED
  BY <1>2, <1>3, <1>4, <1>5, <1>6, <1>7, <1>8

\* Every step of the launcher keeps the types, and counts a worker that another
\* proxy sent here when it connects.
LEMMA PoolTyped == PoolInv /\ [Next]_vars => PoolInv'
<1> SUFFICES ASSUME PoolInv, [Next]_vars PROVE PoolInv'
  OBVIOUS
<1>1. TypeOK /\ DispatchTypeOK /\ sc \in Scenarios
  BY DEF PoolInv, TypeOK
<1>2. [DispatchNext]_dispatchVars
  BY PoolDispatch
<1>3. DispatchTypeOK'
  BY <1>1, <1>2, DispatchTyped
<1>4. /\ sc.lose \in Nat /\ Cardinality(sc.join) \in Nat /\ Cardinality(Worker) \in Nat
      /\ Cardinality(Arrived) \in Nat
      /\ booting \in Nat /\ booting <= Cardinality(Worker)
      /\ lost \in Nat /\ lost <= sc.lose /\ joined \in Nat /\ joined <= Cardinality(Arrived)
  BY <1>1, ScenarioTypes, CountedFinite, SMT DEF TypeOK, PoolInv
<1>5. ASSUME UNCHANGED sc
      PROVE  /\ Cardinality(Arrived) <= Cardinality(Arrived') /\ Cardinality(Arrived') \in Nat
             /\ Cardinality(Arrived') <= Cardinality(sc.join)
  BY <1>1, <1>2, <1>5, ArrivedGrows
<1>6. ASSUME UNCHANGED sc, starting_worker_count' \in Int, queue_size' \in Int,
             starter' \in Nat, ideal_worker_count' \in -IntLimit..(IntLimit - 1),
             notes' \in [Note -> Nat], notes'[Rescheduled] \in {0, 1},
             booting' \in Nat, booting' <= Cardinality(Worker),
             lost' \in Nat, lost' <= sc.lose,
             joined' \in Nat, joined' <= Cardinality(Arrived')
      PROVE  PoolInv'
  <2>1. joined' \in 0..Cardinality(sc.join)
    BY <1>4, <1>5, <1>6, SMT
  <2>2. booting' \in 0..Cardinality(Worker) /\ lost' \in 0..sc.lose
    BY <1>4, <1>6, SMT
  <2> QED
    BY <1>1, <1>3, <1>6, <2>1, <2>2 DEF PoolInv, TypeOK
<1>7. ASSUME NEW n \in Note, Handle(n) PROVE PoolInv'
  <2>1. /\ notes' \in [Note -> Nat] /\ notes'[Rescheduled] \in {0, 1}
        /\ starting_worker_count' \in Int /\ queue_size' \in Int /\ starter' \in Nat
        /\ UNCHANGED <<sc, ideal_worker_count, booting, lost, joined>>
    BY <1>1, <1>7, HandleTyped
  <2>2. joined' <= Cardinality(Arrived')
    BY <1>4, <1>5, <2>1, SMT
  <2> QED
    BY <1>1, <1>4, <1>6, <2>1, <2>2 DEF TypeOK
<1>8. CASE execute
  <2>1. UNCHANGED <<sc, starting_worker_count, starter, queue_size, notes, booting, lost, joined>>
    BY <1>8 DEF execute, triggerVars
  <2>2. ideal_worker_count' \in -IntLimit..(IntLimit - 1)
    BY <1>1, <1>8, IdealTyped DEF execute, TypeOK
  <2>3. joined' <= Cardinality(Arrived')
    BY <1>4, <1>5, <2>1, SMT
  <2> QED
    BY <1>1, <1>4, <1>6, <2>1, <2>2, <2>3 DEF TypeOK
<1>9. CASE start_create_worker_with_policy
  <2>1. UNCHANGED <<sc, starting_worker_count, starter, queue_size, ideal_worker_count, lost, joined>>
    BY <1>9 DEF start_create_worker_with_policy, countVars
  <2>2. PICK n \in Nat \ {0} : /\ booting' = booting + n
                               /\ notes' = [notes EXCEPT ![Starting] = notes[Starting] + n]
                               /\ booting + n <= Cardinality(Worker)
    BY <1>1, <1>9, Launched
  <2>3. notes' \in [Note -> Nat] /\ notes'[Rescheduled] \in {0, 1}
    BY <1>1, <2>2, NotesDiffer, SMT DEF TypeOK
  <2>4. booting' \in Nat /\ booting' <= Cardinality(Worker)
    BY <1>4, <2>2, SMT
  <2>5. joined' <= Cardinality(Arrived')
    BY <1>4, <1>5, <2>1, SMT
  <2> QED
    BY <1>1, <1>4, <1>6, <2>1, <2>3, <2>4, <2>5 DEF TypeOK
<1>10. CASE TriggerLost
  <2>1. UNCHANGED <<sc, starting_worker_count, starter, queue_size, ideal_worker_count, notes, joined>>
    BY <1>10 DEF TriggerLost, countVars
  <2>2. booting' \in Nat /\ booting' <= Cardinality(Worker) /\ lost' \in Nat /\ lost' <= sc.lose
    BY <1>4, <1>10, SMT DEF TriggerLost
  <2>3. joined' <= Cardinality(Arrived')
    BY <1>4, <1>5, <2>1, SMT
  <2> QED
    BY <1>1, <1>4, <1>6, <2>1, <2>2, <2>3 DEF TypeOK
<1>11. CASE Posted
  <2>1. /\ UNCHANGED <<sc, starting_worker_count, starter, queue_size, ideal_worker_count, lost>>
        /\ notes' \in [Note -> Nat] /\ notes'[Rescheduled] \in {0, 1}
    BY <1>11 DEF Posted, countVars
  <2>2. booting' \in Nat /\ booting' <= Cardinality(Worker)
    BY <1>4, <1>11, SMT DEF Posted
  <2>3. joined' \in Nat /\ joined' <= Cardinality(Arrived')
    <3>1. CASE UNCHANGED joined
      BY <1>4, <1>5, <2>1, <3>1, SMTT(30)
    <3>2. ASSUME NEW w \in Worker, add_worker(w), w \in sc.join, joined' = joined + 1
          PROVE  joined' \in Nat /\ joined' <= Cardinality(Arrived')
      <4>0. valid[w] = "new" /\ valid'[w] = "yes"
        BY <1>1, <3>2 DEF add_worker, DispatchTypeOK
      <4>1. w \notin Arrived /\ Arrived \cup {w} \subseteq Arrived' /\ IsFiniteSet(Arrived')
        <5>1. w \notin Arrived /\ w \in Arrived'
          BY <2>1, <3>2, <4>0 DEF Arrived
        <5>2. Arrived \subseteq Arrived' /\ IsFiniteSet(Arrived')
          BY <1>1, <1>2, <2>1, ArrivedGrows
        <5> QED
          BY <5>1, <5>2
      <4>2. IsFiniteSet(Arrived) /\ IsFiniteSet(Arrived \cup {w})
            /\ Cardinality(Arrived \cup {w}) = Cardinality(Arrived) + 1
        BY <1>1, <4>1, CountedFinite, FS_AddElement
      <4>3. Cardinality(Arrived \cup {w}) <= Cardinality(Arrived')
        BY <4>1, FS_Subset
      <4> QED
        BY <1>4, <1>5, <2>1, <3>2, <4>2, <4>3, SMTT(30)
    <3> QED
      BY <1>11, <3>1, <3>2 DEF Posted
  <2> QED
    BY <1>1, <1>4, <1>6, <2>1, <2>2, <2>3 DEF TypeOK
<1> QED
  BY <1>1, <1>7, <1>8, <1>9, <1>10, <1>11, PostedSteps DEF Next

-----------------------------------------------------------------------------
\* The counts of the pool.

\* Every step keeps the count of the workers that were asked for: a note that is
\* handled moves a start from one side of the sum to the other.
LEMMA StartsStep == TypeOK /\ StartsCounted /\ [Next]_vars => StartsCounted'
<1> SUFFICES ASSUME TypeOK, StartsCounted, [Next]_vars PROVE StartsCounted'
  OBVIOUS
<1>1. /\ notes[Starting] \in Int /\ notes[Registered] \in Int /\ starting_worker_count \in Int
      /\ booting \in Int /\ lost \in Int /\ joined \in Int
  BY NotesDiffer, SMT DEF TypeOK
<1>2. ASSUME NEW n \in Note, Handle(n) PROVE StartsCounted'
  <2>1. /\ UNCHANGED <<booting, lost, joined>>
        /\ starting_worker_count' + notes'[Starting] - notes'[Registered]
              = starting_worker_count + notes[Starting] - notes[Registered]
    BY <1>2, HandleTyped
  <2> QED
    BY <2>1 DEF StartsCounted
<1>3. CASE execute
  BY <1>3 DEF execute, StartsCounted, triggerVars
<1>4. CASE start_create_worker_with_policy
  <2>1. PICK n \in Nat \ {0} : /\ booting' = booting + n
                               /\ notes' = [notes EXCEPT ![Starting] = notes[Starting] + n]
    BY <1>4, Launched
  <2>2. notes'[Starting] = notes[Starting] + n /\ notes'[Registered] = notes[Registered]
    BY <2>1, NotesDiffer DEF TypeOK
  <2>3. UNCHANGED <<starting_worker_count, lost, joined>>
    BY <1>4 DEF start_create_worker_with_policy, countVars
  <2> QED
    BY <1>1, <2>1, <2>2, <2>3, SMT DEF StartsCounted
<1>5. CASE TriggerLost
  BY <1>1, <1>5, SMT DEF TriggerLost, StartsCounted, countVars
<1>6. CASE Posted
  BY <1>1, <1>6, SMT DEF Posted, StartsCounted, countVars
<1> QED
  BY <1>2, <1>3, <1>4, <1>5, <1>6, PostedSteps DEF Next

\* Every step keeps a pool of fixed size within it: a look at the pool asks for no
\* more than what is missing, and what is asked for is counted at least once.
LEMMA OvershotStep ==
    TypeOK /\ StartsCounted /\ PoolNotOvershot /\ [Next]_vars => PoolNotOvershot'
<1> SUFFICES ASSUME TypeOK, StartsCounted, PoolNotOvershot, [Next]_vars,
                    sc'.policy = "fix_pool"
             PROVE  Cardinality(worker_set') + booting' <= sc'.size + joined'
  BY DEF PoolNotOvershot
<1>1. DispatchTypeOK /\ sc \in Scenarios /\ sc.size \in Nat
  BY ScenarioTypes DEF TypeOK
<1>2. /\ notes[Registered] \in Nat /\ starting_worker_count \in Int
      /\ booting \in Nat /\ lost \in Nat /\ joined \in Nat
      /\ IsFiniteSet(worker_set) /\ Cardinality(worker_set) \in Nat
  BY <1>1, CountedFinite, NotesDiffer, SMT DEF TypeOK
<1>3. ASSUME UNCHANGED sc PROVE Cardinality(worker_set) + booting <= sc.size + joined
  BY <1>3 DEF PoolNotOvershot
<1>4. ASSUME NEW n \in Note, Handle(n)
      PROVE  Cardinality(worker_set') + booting' <= sc'.size + joined'
  <2>1. UNCHANGED <<dispatchVars, sc, booting, joined>>
    BY <1>4, HandleTyped
  <2>2. worker_set' = worker_set
    BY <2>1 DEF worker_set, dispatchVars, connVars
  <2> QED
    BY <1>3, <2>1, <2>2
<1>5. CASE execute \/ TriggerLost
  <2>1. UNCHANGED <<dispatchVars, sc, joined>> /\ booting' \in Nat /\ booting' <= booting
    BY <1>2, <1>5, SMT DEF execute, TriggerLost, triggerVars
  <2>2. worker_set' = worker_set
    BY <2>1 DEF worker_set, dispatchVars, connVars
  <2> QED
    BY <1>1, <1>2, <1>3, <2>1, <2>2, SMTT(30)
<1>6. CASE start_create_worker_with_policy
  <2>1. UNCHANGED <<dispatchVars, sc, joined>> /\ notes[Starting] = 0
    BY <1>6 DEF start_create_worker_with_policy
  <2>2. worker_set' = worker_set
    BY <2>1 DEF worker_set, dispatchVars, connVars
  <2>3. get_ideal_worker_count = sc.size
    BY <2>1 DEF get_ideal_worker_count, default_pool_value
  <2>4. PICK n \in Nat \ {0} :
            /\ booting' = booting + n
            /\ n <= get_ideal_worker_count - (Cardinality(worker_set) + starting_worker_count)
    BY <1>6, Launched
  <2>5. starting_worker_count >= booting - joined
    BY <1>2, <2>1, SMT DEF StartsCounted
  <2> QED
    BY <1>1, <1>2, <2>1, <2>2, <2>3, <2>4, <2>5, SMTT(30)
<1>7. CASE Posted
  <2>1. UNCHANGED sc
    BY <1>7 DEF Posted
  <2>2. CASE (\A w \in Worker : ~add_worker(w)) /\ UNCHANGED <<booting, joined>>
    <3>1. worker_set' \subseteq worker_set
      BY <1>1, <2>2, PoolDispatch, ValidSteps DEF worker_set
    <3>2. Cardinality(worker_set') <= Cardinality(worker_set) /\ Cardinality(worker_set') \in Nat
      BY <1>2, <3>1, FS_Subset, FS_CardinalityType
    <3> QED
      BY <1>1, <1>2, <1>3, <2>1, <2>2, <3>2, SMTT(30)
  <2>3. ASSUME NEW w \in Worker, add_worker(w),
               \/ booting > 0 /\ booting' = booting - 1 /\ UNCHANGED joined
               \/ joined' = joined + 1 /\ UNCHANGED booting
        PROVE  Cardinality(worker_set') + booting' <= sc'.size + joined'
    <3>1. worker_set' = worker_set \cup {w} /\ w \notin worker_set
      BY <1>1, <2>3 DEF add_worker, worker_set, DispatchTypeOK
    <3>2. Cardinality(worker_set') = Cardinality(worker_set) + 1
      BY <1>2, <3>1, FS_AddElement
    <3> QED
      BY <1>1, <1>2, <1>3, <2>1, <2>3, <3>2, SMTT(30)
  <2> QED
    BY <1>7, <2>2, <2>3 DEF Posted
<1> QED
  BY <1>4, <1>5, <1>6, <1>7, PostedSteps DEF Next

\* The pool begins empty, with nothing asked for.
LEMMA PoolInitCounts == Init => StartsCounted /\ PoolNotOvershot
<1> SUFFICES ASSUME Init PROVE StartsCounted /\ PoolNotOvershot
  OBVIOUS
<1>1. worker_set = {} /\ sc.size \in Nat
  BY ScenarioTypes DEF Init, DispatchInit, worker_set
<1>2. Cardinality(worker_set) = 0
  BY <1>1, FS_EmptySet
<1> QED
  BY <1>1, <1>2, NotesDiffer, SMT DEF Init, StartsCounted, PoolNotOvershot

\* The starts that are outstanding, with those that the policy is yet to hear of.
Outstanding == starting_worker_count + notes[Starting] <= sc.outstanding

\* A look at the pool asks for no more than may be outstanding; no other step adds
\* to it.
LEMMA OutstandingStep == TypeOK /\ Outstanding /\ [Next]_vars => Outstanding'
<1> SUFFICES ASSUME TypeOK, Outstanding, [Next]_vars PROVE Outstanding'
  OBVIOUS
<1>1. notes[Starting] \in Int /\ starting_worker_count \in Int /\ sc.outstanding \in Int
  BY NotesDiffer, ScenarioTypes, SMT DEF TypeOK
<1>2. ASSUME NEW n \in Note, Handle(n) PROVE Outstanding'
  <2>1. /\ UNCHANGED sc /\ starting_worker_count' \in Int /\ notes'[Starting] \in Int
        /\ starting_worker_count' + notes'[Starting] <= starting_worker_count + notes[Starting]
    BY <1>2, HandleTyped, NotesDiffer, SMT
  <2> QED
    BY <1>1, <2>1, SMT DEF Outstanding
<1>3. CASE execute \/ TriggerLost
  BY <1>3 DEF execute, TriggerLost, Outstanding, countVars
<1>4. CASE start_create_worker_with_policy
  <2>1. PICK n \in Nat \ {0} : /\ notes' = [notes EXCEPT ![Starting] = notes[Starting] + n]
                               /\ n <= sc.outstanding - starting_worker_count
    BY <1>4, Launched
  <2>2. notes'[Starting] = notes[Starting] + n
    BY <2>1, NotesDiffer DEF TypeOK
  <2>3. UNCHANGED <<sc, starting_worker_count>> /\ notes[Starting] = 0
    BY <1>4 DEF start_create_worker_with_policy, countVars
  <2> QED
    BY <1>1, <2>1, <2>2, <2>3, SMT DEF Outstanding
<1>5. CASE Posted
  BY <1>5 DEF Posted, Outstanding, countVars
<1> QED
  BY <1>2, <1>3, <1>4, <1>5, PostedSteps DEF Next

\* No more triggers are on their way, or lost, than max_outstanding_starting_request_
\* and the workers that came unasked, for every policy and every number of workers
\* that it wants, the ones that come of a negative queue_size_ included.
THEOREM TriggersAreBounded == Spec => []TriggersBounded
<1>1. PoolInv => TypeOK
  BY DEF PoolInv
<1>2. Init => Outstanding
  BY NotesDiffer, ScenarioTypes, SMT DEF Init, Outstanding
<1>3. TypeOK /\ StartsCounted /\ Outstanding => TriggersBounded
  <2> SUFFICES ASSUME TypeOK, StartsCounted, Outstanding PROVE TriggersBounded
    OBVIOUS
  <2>1. /\ notes[Starting] \in Nat /\ notes[Registered] \in Nat
        /\ starting_worker_count \in Int /\ sc.outstanding \in Nat
        /\ booting \in Int /\ lost \in Int /\ joined \in Int
    BY NotesDiffer, ScenarioTypes, SMT DEF TypeOK
  <2> QED
    BY <2>1, SMT DEF StartsCounted, Outstanding, TriggersBounded
<1> QED
  BY <1>1, <1>2, <1>3, PoolInitTyped, PoolTyped, PoolInitCounts, StartsStep, OutstandingStep,
     PTL DEF Spec

\* The launcher's state keeps its types with any jobs, workers and scenarios:
\* ideal_worker_count_ is an int, whatever queue_size_ is, and no more workers come
\* from other proxies than they may send.
THEOREM PoolTypes == Spec => []TypeOK
<1>1. PoolInv => TypeOK
  BY DEF PoolInv
<1> QED
  BY <1>1, PoolInitTyped, PoolTyped, PTL DEF Spec

\* starting_worker_count_, with the notes that are on their way, is always the
\* number of functions asked for that have not connected or never will, less the
\* workers that came unasked.
THEOREM StartsAccounted == Spec => []StartsCounted
<1>1. PoolInv => TypeOK
  BY DEF PoolInv
<1> QED
  BY <1>1, PoolInitTyped, PoolTyped, PoolInitCounts, StartsStep, PTL DEF Spec

\* A fix_pool of any size, with triggers lost and workers crashing in any way,
\* never has or starts more workers than its size and what other proxies sent.
THEOREM NeverOvershot == Spec => []PoolNotOvershot
<1>1. PoolInv => TypeOK
  BY DEF PoolInv
<1> QED
  BY <1>1, PoolInitTyped, PoolTyped, PoolInitCounts, StartsStep, OvershotStep, PTL DEF Spec

-----------------------------------------------------------------------------
\* Sums over all jobs.

Choice(s) == CHOOSE x \in s : TRUE

\* The equation of the function that MapThenSumSet chooses: the sum over s.
Sum(f, g, s) == IF s = {} THEN 0 ELSE f[Choice(s)] + g[s \ {Choice(s)}]
Sums(f, g) == g = [s \in SUBSET Job |-> Sum(f, g, s)]

\* A set of sets of jobs, if not empty, has one that is not in it any more when
\* a job is taken away.
LEMMA LeastSet ==
  ASSUME IsFiniteSet(Job), NEW T, T \subseteq SUBSET Job, T # {}
  PROVE  \E r \in T : \A c \in r : r \ {c} \notin T
<1>1. IsWellFoundedOn(StrictSubsetOrdering(Job), SUBSET Job)
  BY FS_StrictSubsetOrderingWellFounded, FS_FiniteSubsetsOfFinite
<1>2. PICK r \in T : \A y \in T : ~(<<y, r>> \in StrictSubsetOrdering(Job))
  BY <1>1, WFMin
<1>3. ASSUME NEW c \in r, r \ {c} \in T PROVE FALSE
  <2>1. r \ {c} \subseteq r /\ r \ {c} # r
    BY <1>3, SMT
  <2>2. <<r \ {c}, r>> \in (SUBSET Job) \X (SUBSET Job)
    BY <1>3
  <2>3. <<r \ {c}, r>> \in StrictSubsetOrdering(Job)
    BY <2>1, <2>2, SMT DEF StrictSubsetOrdering
  <2> QED
    BY <1>2, <1>3, <2>3
<1> QED
  BY <1>2, <1>3

\* What is chosen from a set that is not empty is in it.
LEMMA ChoiceIn == ASSUME NEW s, s # {} PROVE Choice(s) \in s
  BY DEF Choice

\* A function that is the sum on the sets of at most n jobs.
SumsTo(f, g, n) ==
    /\ g \in [SUBSET Job -> Int]
    /\ \A r \in SUBSET Job : Cardinality(r) <= n => g[r] = Sum(f, g, r)

\* One that is the sum on sets of one job more.
LEMMA SumsToNext ==
  ASSUME IsFiniteSet(Job), NEW f \in [Job -> Int], NEW n \in Nat, NEW g, SumsTo(f, g, n)
  PROVE  \E h : SumsTo(f, h, n + 1)
<1> DEFINE h == [r \in SUBSET Job |-> IF Cardinality(r) <= n THEN g[r] ELSE Sum(f, g, r)]
<1>1. ASSUME NEW r \in SUBSET Job PROVE Sum(f, g, r) \in Int
  <2>1. CASE r = {}
    BY <2>1, SMT DEF Sum
  <2>2. CASE r # {}
    <3>1. Choice(r) \in r /\ r \ {Choice(r)} \in SUBSET Job
      BY <2>2, ChoiceIn
    <3>2. f[Choice(r)] \in Int /\ g[r \ {Choice(r)}] \in Int
      BY <3>1 DEF SumsTo
    <3> QED
      BY <2>2, <3>2, SMT DEF Sum
  <2> QED
    BY <2>1, <2>2
<1>2. h \in [SUBSET Job -> Int]
  BY <1>1 DEF SumsTo
<1>3. ASSUME NEW r \in SUBSET Job, Cardinality(r) <= n + 1 PROVE h[r] = Sum(f, h, r)
  <2>1. h[r] = Sum(f, g, r)
    BY DEF SumsTo
  <2>2. CASE r = {}
    BY <2>1, <2>2 DEF Sum
  <2>3. CASE r # {}
    <3>1. Choice(r) \in r /\ r \ {Choice(r)} \in SUBSET Job
      BY <2>3, ChoiceIn
    <3>2. IsFiniteSet(r) /\ Cardinality(r) \in Nat
      BY FS_Subset, FS_CardinalityType
    <3>3. Cardinality(r \ {Choice(r)}) = Cardinality(r) - 1
      BY <3>1, <3>2, FS_RemoveElement
    <3>4. Cardinality(r \ {Choice(r)}) <= n
      BY <1>3, <3>2, <3>3, SMT
    <3>5. h[r \ {Choice(r)}] = g[r \ {Choice(r)}]
      BY <3>1, <3>4
    <3> QED
      BY <2>1, <2>3, <3>5 DEF Sum
  <2> QED
    BY <2>2, <2>3
<1> QED
  BY <1>2, <1>3 DEF SumsTo

\* There is such a function for every size.
LEMMA SumsToAny ==
  ASSUME IsFiniteSet(Job), NEW f \in [Job -> Int], NEW n \in Nat
  PROVE  \E g : SumsTo(f, g, n)
<1> DEFINE T == {k \in Nat : ~\E g : SumsTo(f, g, k)}
<1> SUFFICES ASSUME T # {} PROVE FALSE
  OBVIOUS
<1>1. PICK k \in T : \A y \in T : ~(<<y, k>> \in OpToRel(<, Nat))
  <2>1. T \subseteq Nat
    OBVIOUS
  <2> HIDE DEF T
  <2> QED
    BY <2>1, NatLessThanWellFounded, WFMin
<1>2. ASSUME k = 0 PROVE FALSE
  <2> DEFINE g == [s \in SUBSET Job |-> 0]
  <2>1. g \in [SUBSET Job -> Int]
    BY SMT
  <2>2. ASSUME NEW r \in SUBSET Job, Cardinality(r) <= 0 PROVE g[r] = Sum(f, g, r)
    <3>1. IsFiniteSet(r) /\ Cardinality(r) \in Nat
      BY FS_Subset, FS_CardinalityType
    <3>2. Cardinality(r) = 0
      BY <2>2, <3>1, SMT
    <3> QED
      BY <3>1, <3>2, FS_EmptySet DEF Sum
  <2>3. SumsTo(f, g, 0)
    BY <2>1, <2>2 DEF SumsTo
  <2> QED
    BY <1>2, <2>3
<1>3. ASSUME k # 0 PROVE FALSE
  <2>1. k - 1 \in Nat /\ k - 1 < k /\ k - 1 + 1 = k
    BY <1>3, SMT
  <2>2. <<k - 1, k>> \in OpToRel(<, Nat)
    BY <2>1, SMT DEF OpToRel
  <2>3. k - 1 \notin T
    BY <1>1, <2>2
  <2>4. PICK g : SumsTo(f, g, k - 1)
    BY <2>1, <2>3
  <2>5. \E h : SumsTo(f, h, k - 1 + 1)
    BY <2>1, <2>4, SumsToNext
  <2> QED
    BY <2>1, <2>5
<1> QED
  BY <1>2, <1>3

\* Total is the value of such a function for the set of all jobs.
LEMMA TotalIs ==
  ASSUME IsFiniteSet(Job), NEW f \in [Job -> Int]
  PROVE  \E g : Sums(f, g) /\ Total(f) = g[Job]
<1> DEFINE it == CHOOSE g : g = [s \in SUBSET Job |->
                    IF s = {} THEN 0
                    ELSE f[CHOOSE x \in s : TRUE] + g[s \ {CHOOSE x \in s : TRUE}]]
<1>1. \E g : Sums(f, g)
  <2>1. Cardinality(Job) \in Nat
    BY FS_CardinalityType
  <2>2. PICK g : SumsTo(f, g, Cardinality(Job))
    BY <2>1, SumsToAny
  <2>3. \A r \in SUBSET Job : Cardinality(r) <= Cardinality(Job)
    BY FS_Subset
  <2>4. g \in [SUBSET Job -> Int] /\ \A r \in SUBSET Job : g[r] = Sum(f, g, r)
    BY <2>2, <2>3 DEF SumsTo
  <2>5. g = [r \in SUBSET Job |-> Sum(f, g, r)]
    BY <2>4
  <2> QED
    BY <2>5 DEF Sums
<1>2. it = [s \in SUBSET Job |->
              IF s = {} THEN 0
              ELSE f[CHOOSE x \in s : TRUE] + it[s \ {CHOOSE x \in s : TRUE}]]
  BY <1>1 DEF Sums, Sum, Choice
<1>3. Total(f) = it[Job]
  BY DEF Total, MapThenSumSet, MapThenFoldSet
<1> QED
  BY <1>2, <1>3 DEF Sums, Sum, Choice

\* The sum over no job.
LEMMA SumNone == ASSUME NEW f, NEW g, Sums(f, g) PROVE g[{}] = 0
  BY DEF Sums, Sum

\* The sum over some jobs, and the sum over one less.
Splits(f, g, r) ==
    /\ Choice(r) \in r /\ r \ {Choice(r)} \in SUBSET Job
    /\ g[r] = f[Choice(r)] + g[r \ {Choice(r)}]

\* A sum over some jobs splits.
LEMMA SumSome ==
  \A f, g, r : Sums(f, g) /\ r \in SUBSET Job /\ r # {} => Splits(f, g, r)
<1> TAKE f, g, r
<1> HAVE Sums(f, g) /\ r \in SUBSET Job /\ r # {}
<1>1. g[r] = Sum(f, g, r)
  BY DEF Sums
<1>2. Choice(r) \in r
  BY ChoiceIn
<1> QED
  BY <1>1, <1>2 DEF Sum, Splits

\* Sums are integers.
LEMMA SumsTyped ==
  ASSUME IsFiniteSet(Job), NEW f \in [Job -> Int], NEW g, Sums(f, g)
  PROVE  \A r \in SUBSET Job : g[r] \in Int
<1> DEFINE T == {r \in SUBSET Job : g[r] \notin Int}
<1> SUFFICES ASSUME T # {} PROVE FALSE
  OBVIOUS
<1>1. PICK r \in T : \A c \in r : r \ {c} \notin T
  <2>1. T \subseteq SUBSET Job
    OBVIOUS
  <2> HIDE DEF T
  <2> QED
    BY <2>1, LeastSet
<1>2. r \in SUBSET Job /\ g[r] \notin Int
  OBVIOUS
<1>3. r # {}
  <2>1. g[{}] = 0
    BY SumNone
  <2> QED
    BY <1>2, <2>1, SMT
<1>4. /\ Choice(r) \in r /\ r \ {Choice(r)} \in SUBSET Job
      /\ g[r] = f[Choice(r)] + g[r \ {Choice(r)}]
  <2> HIDE DEF T
  <2>1. Splits(f, g, r)
    BY <1>2, <1>3, SumSome
  <2> QED
    BY <2>1 DEF Splits
<1>5. f[Choice(r)] \in Int /\ g[r \ {Choice(r)}] \in Int
  BY <1>1, <1>2, <1>4
<1> QED
  BY <1>2, <1>4, <1>5, SMT

\* When one job's share grows by d at most and no other job's grows, the sum
\* grows by d at most.
LEMMA TotalGrows ==
  ASSUME IsFiniteSet(Job), NEW f \in [Job -> Int], NEW h \in [Job -> Int],
         NEW x \in Job, NEW d \in Int, h[x] <= f[x] + d,
         \A y \in Job : y # x => h[y] <= f[y]
  PROVE  Total(f) \in Int /\ Total(h) \in Int /\ Total(h) <= Total(f) + d
<1>1. PICK F : Sums(f, F) /\ Total(f) = F[Job]
  BY TotalIs
<1>2. PICK H : Sums(h, H) /\ Total(h) = H[Job]
  BY TotalIs
<1>3. \A r \in SUBSET Job : F[r] \in Int /\ H[r] \in Int
  BY <1>1, <1>2, SumsTyped
<1> DEFINE Part(r) == IF x \in r THEN d ELSE 0
<1> DEFINE T == {r \in SUBSET Job : ~(H[r] <= F[r] + Part(r))}
<1>4. ASSUME T # {} PROVE FALSE
  <2>1. PICK r \in T : \A c \in r : r \ {c} \notin T
    <3>1. T \subseteq SUBSET Job
      OBVIOUS
    <3> HIDE DEF T
    <3> QED
      BY <1>4, <3>1, LeastSet
  <2>2. r \in SUBSET Job /\ ~(H[r] <= F[r] + Part(r))
    OBVIOUS
  <2>3. ASSUME r = {} PROVE FALSE
    <3>1. F[r] = 0 /\ H[r] = 0 /\ Part(r) = 0
      BY <1>1, <1>2, <2>3, SumNone
    <3> QED
      BY <2>2, <3>1, SMT
  <2>4. ASSUME r # {} PROVE FALSE
    <3>1. PICK c, q : c = Choice(r) /\ q = r \ {c}
      OBVIOUS
    <3>2. c \in r /\ q \in SUBSET Job /\ F[r] = f[c] + F[q] /\ H[r] = h[c] + H[q]
      <4> HIDE DEF T, Part
      <4>1. Splits(f, F, r) /\ Splits(h, H, r)
        BY <1>1, <1>2, <2>2, <2>4, SumSome
      <4> QED
        BY <3>1, <4>1 DEF Splits
    <3>3. q \notin T
      BY <2>1, <3>1, <3>2
    <3>4. H[q] <= F[q] + Part(q)
      BY <3>2, <3>3
    <3>5. c \in Job /\ F[q] \in Int /\ H[q] \in Int /\ f[c] \in Int /\ h[c] \in Int
      BY <1>3, <2>2, <3>2
    <3>6. CASE c = x
      <4>1. Part(r) = d /\ Part(q) = 0
        BY <3>1, <3>2, <3>6
      <4>2. h[c] <= f[c] + d
        BY <3>6
      <4> HIDE DEF Part, T
      <4> QED
        BY <2>2, <3>2, <3>4, <3>5, <4>1, <4>2, SMT
    <3>7. CASE c # x
      <4>1. Part(r) = Part(q) /\ Part(r) \in Int
        BY <3>1, <3>7, SMT
      <4>2. h[c] <= f[c]
        BY <3>5, <3>7
      <4> HIDE DEF Part, T
      <4> QED
        BY <2>2, <3>2, <3>4, <3>5, <4>1, <4>2, SMT
    <3> QED
      BY <3>6, <3>7
  <2> QED
    BY <2>3, <2>4
<1>5. H[Job] <= F[Job] + Part(Job) /\ Part(Job) = d
  BY <1>4
<1> QED
  BY <1>1, <1>2, <1>3, <1>5

\* When no job's share grows, the sum does not.
LEMMA TotalKept ==
  ASSUME IsFiniteSet(Job), NEW f \in [Job -> Int], NEW h \in [Job -> Int],
         \A y \in Job : h[y] <= f[y]
  PROVE  Total(f) \in Int /\ Total(h) \in Int /\ Total(h) <= Total(f)
<1>1. \A y \in Job : f[y] \in Int /\ h[y] \in Int
  OBVIOUS
<1>2. CASE Job = {}
  <2>1. f = h
    BY <1>2, SMT
  <2>2. PICK F : Sums(f, F) /\ Total(f) = F[Job]
    BY TotalIs
  <2>3. F[Job] \in Int
    BY <2>2, SumsTyped
  <2> QED
    BY <2>1, <2>2, <2>3, SMT
<1>3. CASE Job # {}
  <2>1. PICK x \in Job : TRUE
    BY <1>3
  <2>2. h[x] <= f[x] + 0 /\ 0 \in Int
    BY <1>1, SMT
  <2>3. Total(f) \in Int /\ Total(h) \in Int /\ Total(h) <= Total(f) + 0
    BY <2>2, TotalGrows
  <2> QED
    BY <2>3, SMT
<1> QED
  BY <1>2, <1>3

\* When no job has a share, the sum is 0.
LEMMA TotalZero ==
  ASSUME IsFiniteSet(Job), NEW f \in [Job -> Int], \A y \in Job : f[y] = 0
  PROVE  Total(f) = 0
<1>1. PICK F : Sums(f, F) /\ Total(f) = F[Job]
  BY TotalIs
<1> DEFINE T == {r \in SUBSET Job : F[r] # 0}
<1>2. ASSUME T # {} PROVE FALSE
  <2>1. PICK r \in T : \A c \in r : r \ {c} \notin T
    <3>1. T \subseteq SUBSET Job
      OBVIOUS
    <3> HIDE DEF T
    <3> QED
      BY <1>2, <3>1, LeastSet
  <2>2. r \in SUBSET Job /\ F[r] # 0
    OBVIOUS
  <2>3. r # {}
    BY <1>1, <2>2, SumNone
  <2>4. Splits(f, F, r)
    <3> HIDE DEF T
    <3> QED
      BY <1>1, <2>2, <2>3, SumSome
  <2>5. /\ Choice(r) \in r /\ r \ {Choice(r)} \in SUBSET Job
        /\ F[r] = f[Choice(r)] + F[r \ {Choice(r)}]
    BY <2>4 DEF Splits
  <2>6. f[Choice(r)] = 0 /\ F[r \ {Choice(r)}] = 0
    BY <2>1, <2>2, <2>5
  <2> QED
    BY <2>2, <2>5, <2>6, SMT
<1> QED
  BY <1>1, <1>2

-----------------------------------------------------------------------------
\* The queue size of max_queue.

\* The least and the greatest of the sizes a note may find.
LEMMA TwoSizes ==
  ASSUME NEW p \in Nat, NEW q \in Nat, NEW D, D = {p} \/ D = {p, q}
  PROVE  /\ Min(D) \in D /\ Max(D) \in D /\ D \subseteq Nat
         /\ \A n \in D : Min(D) <= n /\ n <= Max(D)
<1>1. \E x \in D : \A y \in D : x <= y
  BY SMT
<1>2. \E x \in D : \A y \in D : x >= y
  BY SMT
<1>3. Min(D) \in D /\ \A y \in D : Min(D) <= y
  BY <1>1 DEF Min
<1>4. Max(D) \in D /\ \A y \in D : Max(D) >= y
  BY <1>2 DEF Max
<1>5. D \subseteq Nat
  BY SMT
<1>6. \A y \in D : y <= Max(D)
  BY <1>4, <1>5, SMT
<1> QED
  BY <1>3, <1>4, <1>5, <1>6

Sizes(j, l, h) ==
    /\ l \in Nat /\ h \in Nat /\ l = Min(datasize(j)) /\ h = Max(datasize(j))
    /\ l \in datasize(j) /\ h \in datasize(j)
    /\ \A n \in datasize(j) : n \in Nat /\ l <= n /\ n <= h

\* A request has a least and a greatest size.
LEMMA SizesOf ==
  ASSUME NEW j \in Job
  PROVE  Sizes(j, Min(datasize(j)), Max(datasize(j)))
<1>1. DataSize[j] \in Nat /\ AnswerSize \in Nat
  BY PoolAssumption
<1>2. datasize(j) = {DataSize[j]} \/ datasize(j) = {DataSize[j], AnswerSize}
  BY DEF datasize
<1>3. PICK D : D = datasize(j)
  OBVIOUS
<1>4. /\ Min(D) \in D /\ Max(D) \in D /\ D \subseteq Nat
      /\ \A n \in D : Min(D) <= n /\ n <= Max(D)
  BY <1>1, <1>2, <1>3, TwoSizes
<1> QED
  BY <1>3, <1>4 DEF Sizes

\* What a request comes to when its sizes spread.
LEMMA ShareKept ==
  ASSUME NEW l \in Nat, NEW h \in Nat, NEW m \in Nat, NEW k \in Nat, NEW t \in Nat,
         NEW a \in {0, 1}, m <= l, h <= k
  PROVE  m * a - k * t <= l * a - h * t /\ h * a - l * t <= k * a - m * t
<1>1. h * t <= k * t
  BY SMT
<1>2. m * t <= l * t
  BY SMT
<1>3. h * t \in Int /\ k * t \in Int /\ l * t \in Int /\ m * t \in Int
  BY SMT
<1>4. CASE a = 0
  BY <1>1, <1>2, <1>3, <1>4, SMT
<1>5. CASE a = 1
  BY <1>1, <1>2, <1>3, <1>5, SMT
<1> QED
  BY <1>4, <1>5

\* What it comes to when it is added.
LEMMA ShareAdded ==
  ASSUME NEW l \in Nat, NEW h \in Nat, NEW n \in Nat, NEW t \in Nat, l <= n, n <= h
  PROVE  /\ l * 1 - h * t <= l * 0 - h * t + n
         /\ h * 0 - l * t <= h * 1 - l * t + (0 - n)
  BY SMT

\* What it comes to when an answer is taken off.
LEMMA ShareTaken ==
  ASSUME NEW l \in Nat, NEW h \in Nat, NEW n \in Nat, NEW t \in Nat, NEW a \in {0, 1},
         l <= n, n <= h
  PROVE  /\ l * a - h * (t + 1) <= l * a - h * t + (0 - n)
         /\ h * a - l * t <= h * a - l * (t + 1) + n
<1>1. h * (t + 1) = h * t + h /\ l * (t + 1) = l * t + l
  BY SMT
<1>2. h * t \in Int /\ l * t \in Int /\ l * a \in Int /\ h * a \in Int
  BY SMT
<1> QED
  BY <1>1, <1>2, SMT

\* max_queue counts a request once, when it is added, and takes off no answer
\* that was not given.
NotesOK == sc.policy = "max_queue" => \A j \in Job : Added(j) \in {0, 1} /\ Taken(j) \in Nat

\* What a step does to the sum: a note of a new request is handled, ...
Adds(x, n) ==
    /\ n \in datasize(x) /\ queue_size' = queue_size + n
    /\ Added(x) = 0 /\ Added(x)' = 1 /\ Taken(x)' = Taken(x)
    /\ \A y \in Job : /\ datasize(y)' = datasize(y)
                      /\ y # x => Added(y)' = Added(y) /\ Taken(y)' = Taken(y)

\* ... or one of an answer, ...
Takes(x, n) ==
    /\ n \in datasize(x) /\ queue_size' = queue_size - n
    /\ Added(x)' = Added(x) /\ Taken(x)' = Taken(x) + 1
    /\ \A y \in Job : /\ datasize(y)' = datasize(y)
                      /\ y # x => Added(y)' = Added(y) /\ Taken(y)' = Taken(y)

\* ... or none, and a request may have one more size.
Keeps ==
    /\ queue_size' = queue_size
    /\ \A y \in Job : /\ datasize(y) \subseteq datasize(y)'
                      /\ Added(y)' = Added(y) /\ Taken(y)' = Taken(y)

\* The notes of the requests.
LEMMA JobNotes ==
  ASSUME NEW y \in Job
  PROVE  /\ <<"schedule", y>> \in Note /\ <<"finished", y>> \in Note
         /\ <<"schedule", y>> # <<"finished", y>>
         /\ <<"schedule", y>> \notin {Starting, Registered, Rescheduled}
         /\ <<"finished", y>> \notin {Starting, Registered, Rescheduled}
  BY DEF Note, Starting, Registered, Rescheduled

\* What counts of a request when nothing of it changes.
LEMMA CountsKept ==
  ASSUME NEW y \in Job, type'[y] = type[y], completed'[y] = completed[y],
         notes'[<<"schedule", y>>] = notes[<<"schedule", y>>],
         notes'[<<"finished", y>>] = notes[<<"finished", y>>]
  PROVE  Added(y)' = Added(y) /\ Taken(y)' = Taken(y) /\ datasize(y)' = datasize(y)
  BY DEF Added, Taken, datasize

\* A step that changes no request and no note of one.
LEMMA NothingCounted ==
  ASSUME queue_size' = queue_size, type' = type, completed' = completed,
         \A y \in Job : /\ notes'[<<"schedule", y>>] = notes[<<"schedule", y>>]
                        /\ notes'[<<"finished", y>>] = notes[<<"finished", y>>]
  PROVE  Keeps
  BY CountsKept DEF Keeps

\* A note that is not of a request is posted or handled.
LEMMA OtherNote ==
  ASSUME TypeOK, NEW n \in {Starting, Registered, Rescheduled}, NEW k,
         notes' = [notes EXCEPT ![n] = k]
  PROVE  \A y \in Job : /\ notes'[<<"schedule", y>>] = notes[<<"schedule", y>>]
                        /\ notes'[<<"finished", y>>] = notes[<<"finished", y>>]
<1> TAKE y \in Job
<1>1. /\ <<"schedule", y>> \in Note /\ <<"finished", y>> \in Note
      /\ <<"schedule", y>> # n /\ <<"finished", y>> # n
  BY JobNotes
<1> QED
  BY <1>1 DEF TypeOK

\* It is posted, or ignored.
LEMMA OtherPosted ==
  ASSUME TypeOK, NEW n \in {Starting, Registered, Rescheduled}, Post(n)
  PROVE  \A y \in Job : /\ notes'[<<"schedule", y>>] = notes[<<"schedule", y>>]
                        /\ notes'[<<"finished", y>>] = notes[<<"finished", y>>]
<1>1. CASE n \notin Heeded
  BY <1>1 DEF Post
<1>2. CASE n \in Heeded
  <2>1. \E k : notes' = [notes EXCEPT ![n] = k]
    BY <1>2 DEF Post
  <2> QED
    BY <2>1, OtherNote
<1> QED
  BY <1>1, <1>2

\* A note of a request is posted.
LEMMA JobPosted ==
  ASSUME TypeOK, sc.policy = "max_queue", NEW x \in Job, NEW what \in {"schedule", "finished"},
         Post(<<what, x>>)
  PROVE  /\ notes'[<<what, x>>] = notes[<<what, x>>] + 1
         /\ \A n \in Note : n # <<what, x>> => notes'[n] = notes[n]
<1>1. <<what, x>> \in Note /\ <<what, x>> # Rescheduled
  BY JobNotes
<1>2. sc.policy # "fix_pool"
  OBVIOUS
<1>3. notes' = [notes EXCEPT ![<<what, x>>] = @ + 1]
  BY <1>1, <1>2 DEF Post, Heeded
<1> QED
  BY <1>1, <1>3 DEF TypeOK

\* A new request is posted together with its note.
LEMMA ScheduleKeeps ==
  ASSUME TypeOK, sc.policy = "max_queue", NEW x \in Job,
         NEW t \in {"worker_push_request", "proxy_send"}, Schedule(x, t)
  PROVE  Keeps
<1>1. /\ type[x] = "new" /\ type' = [type EXCEPT ![x] = t] /\ completed' = completed
      /\ queue_size' = queue_size /\ Post(<<"schedule", x>>)
  BY DEF Schedule, schedule, countVars
<1>2. /\ notes'[<<"schedule", x>>] = notes[<<"schedule", x>>] + 1
      /\ \A n \in Note : n # <<"schedule", x>> => notes'[n] = notes[n]
  BY <1>1, JobPosted
<1>3. ASSUME NEW y \in Job, y # x
      PROVE  /\ Added(y)' = Added(y) /\ Taken(y)' = Taken(y)
             /\ datasize(y) \subseteq datasize(y)'
  <2>1. type'[y] = type[y]
    BY <1>1, <1>3 DEF TypeOK, DispatchTypeOK
  <2>2. /\ <<"schedule", y>> \in Note /\ <<"schedule", y>> # <<"schedule", x>>
        /\ <<"finished", y>> \in Note /\ <<"finished", y>> # <<"schedule", x>>
    BY <1>3, JobNotes
  <2>3. /\ notes'[<<"schedule", y>>] = notes[<<"schedule", y>>]
        /\ notes'[<<"finished", y>>] = notes[<<"finished", y>>]
    BY <1>2, <2>2
  <2> QED
    BY <1>1, <2>1, <2>3, CountsKept
<1>4. type'[x] = t /\ t # "new"
  BY <1>1 DEF TypeOK, DispatchTypeOK
<1>5. Added(x)' = Added(x)
  <2>1. PICK k : k = notes[<<"schedule", x>>]
    OBVIOUS
  <2>2. k \in Nat
    BY <2>1, JobNotes DEF TypeOK
  <2>3. Added(x) = 0 - k /\ Added(x)' = 1 - (k + 1)
    BY <1>1, <1>2, <1>4, <2>1 DEF Added
  <2> QED
    BY <2>2, <2>3, SMT
<1>6. Taken(x)' = Taken(x)
  <2>1. notes'[<<"finished", x>>] = notes[<<"finished", x>>]
    BY <1>2, JobNotes
  <2> QED
    BY <1>1, <2>1 DEF Taken
<1>7. datasize(x) \subseteq datasize(x)'
  <2>1. datasize(x) = {DataSize[x]}
    BY <1>1 DEF datasize
  <2> QED
    BY <2>1 DEF datasize
<1> QED
  BY <1>1, <1>3, <1>5, <1>6, <1>7 DEF Keeps

\* An answer is given together with its note.
LEMMA FinishKeeps ==
  ASSUME TypeOK, sc.policy = "max_queue", NEW x \in Job, Finish(x)
  PROVE  Keeps
<1>1. /\ queue_size' = queue_size /\ type' = type
      /\ completed' = completed \/ completed' = [completed EXCEPT ![x] = @ + 1]
      /\ completed' # completed => Post(<<"finished", x>>)
      /\ completed' = completed => notes' = notes
  <2>1. type' = type /\ queue_size' = queue_size
    BY DEF Finish, proxy_send, on_worker_response, countVars
  <2>2. completed' = completed \/ completed' = [completed EXCEPT ![x] = @ + 1]
    <3>1. CASE proxy_send(x)
      BY <3>1 DEF proxy_send
    <3>2. ASSUME NEW w \in Worker, on_worker_response(w, x)
          PROVE  completed' = completed \/ completed' = [completed EXCEPT ![x] = @ + 1]
      <4>1. CASE x \in started_jobs[w]
        BY <3>2, <4>1 DEF on_worker_response
      <4>2. CASE x \notin started_jobs[w]
        <5>1. completed' = [completed EXCEPT ![x] = completed[x]]
          BY <3>2, <4>2 DEF on_worker_response
        <5> QED
          BY <5>1 DEF TypeOK, DispatchTypeOK
      <4> QED
        BY <4>1, <4>2
    <3> QED
      BY <3>1, <3>2 DEF Finish
  <2> QED
    BY <2>1, <2>2 DEF Finish
<1>2. CASE completed' = completed
  BY <1>1, <1>2, NothingCounted
<1>3. CASE completed' # completed
  <2>1. /\ notes'[<<"finished", x>>] = notes[<<"finished", x>>] + 1
        /\ \A n \in Note : n # <<"finished", x>> => notes'[n] = notes[n]
    BY <1>1, <1>3, JobPosted
  <2>2. completed[x] \in Nat /\ completed'[x] = completed[x] + 1
    BY <1>1, <1>3 DEF TypeOK, DispatchTypeOK
  <2>3. ASSUME NEW y \in Job, y # x
        PROVE  /\ Added(y)' = Added(y) /\ Taken(y)' = Taken(y)
               /\ datasize(y) \subseteq datasize(y)'
    <3>1. completed'[y] = completed[y]
      BY <1>1, <2>3 DEF TypeOK, DispatchTypeOK
    <3>2. /\ <<"schedule", y>> \in Note /\ <<"schedule", y>> # <<"finished", x>>
          /\ <<"finished", y>> \in Note /\ <<"finished", y>> # <<"finished", x>>
      BY <2>3, JobNotes
    <3>3. /\ notes'[<<"schedule", y>>] = notes[<<"schedule", y>>]
          /\ notes'[<<"finished", y>>] = notes[<<"finished", y>>]
      BY <2>1, <3>2
    <3> QED
      BY <1>1, <3>1, <3>3, CountsKept
  <2>4. Added(x)' = Added(x)
    <3>1. notes'[<<"schedule", x>>] = notes[<<"schedule", x>>]
      BY <2>1, JobNotes
    <3> QED
      BY <1>1, <3>1 DEF Added
  <2>5. Taken(x)' = Taken(x)
    <3>1. notes[<<"finished", x>>] \in Nat
      BY JobNotes DEF TypeOK
    <3> QED
      BY <2>1, <2>2, <3>1, SMT DEF Taken
  <2>6. datasize(x) \subseteq datasize(x)'
    <3>1. completed[x] > 0 => completed'[x] > 0
      BY <2>2, SMT
    <3> QED
      BY <1>1, <3>1 DEF datasize
  <2> QED
    BY <1>1, <2>3, <2>4, <2>5, <2>6 DEF Keeps
<1> QED
  BY <1>2, <1>3

\* A note is handled.
LEMMA HandleCounts ==
  ASSUME TypeOK, NotesOK, sc.policy = "max_queue", NEW n \in Note, Handle(n)
  PROVE  Keeps \/ \E x \in Job : \E size \in datasize(x) : Adds(x, size) \/ Takes(x, size)
<1>1. /\ type' = type /\ completed' = completed /\ notes[n] > 0
      /\ notes' = [notes EXCEPT ![n] = @ - 1]
  BY DEF Handle, dispatchVars, jobVars
<1>2. CASE n \in {Starting, Registered, Rescheduled}
  <2>1. queue_size' = queue_size
    <3>1. n[1] \in {"starting", "registered", "reschedule"}
      BY <1>2, SMT DEF Starting, Registered, Rescheduled
    <3>2. n[1] # "schedule" /\ n[1] # "finished"
      BY <3>1
    <3> QED
      BY <3>2 DEF Handle
  <2>2. \E k : notes' = [notes EXCEPT ![n] = k]
    BY <1>1
  <2> QED
    BY <1>1, <1>2, <2>1, <2>2, OtherNote, NothingCounted
<1>3. ASSUME NEW x \in Job, NEW what \in {"schedule", "finished"}, n = <<what, x>>
      PROVE  /\ notes'[n] = notes[n] - 1 /\ notes[n] \in Nat
             /\ \A y \in Job : y # x =>
                    /\ Added(y)' = Added(y) /\ Taken(y)' = Taken(y)
                    /\ datasize(y)' = datasize(y)
             /\ datasize(x)' = datasize(x)
  <2>1. notes'[n] = notes[n] - 1 /\ notes[n] \in Nat /\ \A k \in Note : k # n => notes'[k] = notes[k]
    BY <1>1 DEF TypeOK
  <2>2. ASSUME NEW y \in Job, y # x
        PROVE  /\ Added(y)' = Added(y) /\ Taken(y)' = Taken(y)
               /\ datasize(y)' = datasize(y)
    <3>1. /\ <<"schedule", y>> \in Note /\ <<"schedule", y>> # n
          /\ <<"finished", y>> \in Note /\ <<"finished", y>> # n
      BY <1>3, <2>2, JobNotes
    <3>2. /\ notes'[<<"schedule", y>>] = notes[<<"schedule", y>>]
          /\ notes'[<<"finished", y>>] = notes[<<"finished", y>>]
      BY <2>1, <3>1
    <3> QED
      BY <1>1, <3>2, CountsKept
  <2>3. datasize(x)' = datasize(x)
    BY <1>1 DEF datasize
  <2> QED
    BY <2>1, <2>2, <2>3
<1>4. ASSUME NEW x \in Job, n = <<"schedule", x>>
      PROVE  \E size \in datasize(x) : Adds(x, size)
  <2>1. PICK size \in datasize(x) : queue_size' = queue_size + size
    BY <1>4 DEF Handle, Starting, Registered, Rescheduled
  <2>2. notes'[<<"schedule", x>>] = notes[<<"schedule", x>>] - 1
    BY <1>3, <1>4
  <2>3. notes'[<<"finished", x>>] = notes[<<"finished", x>>]
    BY <1>1, <1>4, JobNotes DEF TypeOK
  <2>4. Added(x) = 0 /\ Added(x)' = 1
    <3>1. notes[<<"schedule", x>>] \in Nat /\ notes[<<"schedule", x>>] > 0 /\ Added(x) \in {0, 1}
      BY <1>1, <1>4 DEF TypeOK, NotesOK
    <3>2. CASE type[x] = "new"
      <4>1. Added(x) = 0 - notes[<<"schedule", x>>]
        BY <3>2 DEF Added
      <4> QED
        BY <3>1, <4>1, SMT
    <3>3. CASE type[x] # "new"
      <4>1. /\ Added(x) = 1 - notes[<<"schedule", x>>]
            /\ Added(x)' = 1 - (notes[<<"schedule", x>>] - 1)
        BY <1>1, <2>2, <3>3 DEF Added
      <4> QED
        BY <3>1, <4>1, SMT
    <3> QED
      BY <3>2, <3>3
  <2>5. Taken(x)' = Taken(x)
    BY <1>1, <2>3 DEF Taken
  <2>6. \A y \in Job : /\ datasize(y)' = datasize(y)
                       /\ y # x => Added(y)' = Added(y) /\ Taken(y)' = Taken(y)
    BY <1>3, <1>4
  <2> QED
    BY <2>1, <2>4, <2>5, <2>6 DEF Adds
<1>5. ASSUME NEW x \in Job, n = <<"finished", x>>
      PROVE  \E size \in datasize(x) : Takes(x, size)
  <2>1. PICK size \in datasize(x) : queue_size' = queue_size - size
    BY <1>5 DEF Handle, finished_a_job, Starting, Registered, Rescheduled
  <2>2. notes'[<<"finished", x>>] = notes[<<"finished", x>>] - 1
    BY <1>3, <1>5
  <2>3. notes'[<<"schedule", x>>] = notes[<<"schedule", x>>]
    BY <1>1, <1>5, JobNotes DEF TypeOK
  <2>4. Added(x)' = Added(x)
    BY <1>1, <2>3 DEF Added
  <2>5. Taken(x)' = Taken(x) + 1
    <3>1. notes[<<"finished", x>>] \in Nat /\ completed[x] \in Nat
      BY <1>5 DEF TypeOK, DispatchTypeOK
    <3>2. /\ Taken(x) = completed[x] - notes[<<"finished", x>>]
          /\ Taken(x)' = completed[x] - (notes[<<"finished", x>>] - 1)
      BY <1>1, <2>2 DEF Taken
    <3> QED
      BY <3>1, <3>2, SMT
  <2>6. \A y \in Job : /\ datasize(y)' = datasize(y)
                       /\ y # x => Added(y)' = Added(y) /\ Taken(y)' = Taken(y)
    BY <1>3, <1>5
  <2> QED
    BY <2>1, <2>4, <2>5, <2>6 DEF Takes
<1>6. \/ n \in {Starting, Registered, Rescheduled}
      \/ \E x \in Job : n = <<"schedule", x>> \/ n = <<"finished", x>>
  BY SMT DEF Note
<1> QED
  BY <1>2, <1>4, <1>5, <1>6

\* A step of the launcher and its policies, to max_queue.
LEMMA StepCounts ==
  ASSUME TypeOK, NotesOK, sc.policy = "max_queue", [Next]_vars
  PROVE  Keeps \/ \E x \in Job : \E size \in datasize(x) : Adds(x, size) \/ Takes(x, size)
<1>1. ASSUME NEW n \in Note, Handle(n)
      PROVE  Keeps \/ \E x \in Job : \E size \in datasize(x) : Adds(x, size) \/ Takes(x, size)
  BY <1>1, HandleCounts
<1>2. CASE execute \/ TriggerLost \/ UNCHANGED vars
  <2>1. UNCHANGED <<queue_size, type, completed, notes>>
    BY <1>2 DEF execute, TriggerLost, vars, poolVars, countVars, dispatchVars, jobVars
  <2> QED
    BY <2>1, NothingCounted
<1>3. CASE start_create_worker_with_policy
  <2>1. UNCHANGED <<queue_size, type, completed>>
    BY <1>3 DEF start_create_worker_with_policy, countVars, dispatchVars, jobVars
  <2>2. \E k : notes' = [notes EXCEPT ![Starting] = k]
    BY <1>3 DEF start_create_worker_with_policy
  <2> QED
    BY <2>1, <2>2, OtherNote, NothingCounted
<1>4. ASSUME NEW w \in Worker, WorkerStarts(w) \/ WorkerJoins(w) \/ Close(w) PROVE Keeps
  <2>1. UNCHANGED <<queue_size, type, completed>>
    BY <1>4 DEF WorkerStarts, WorkerJoins, Close, add_worker, worker_dereg, ReadError,
                WriteError, countVars, jobVars
  <2>2. Post(Registered) \/ Post(Rescheduled) \/ notes' = notes
    BY <1>4 DEF WorkerStarts, WorkerJoins, Close
  <2>3. \A y \in Job : /\ notes'[<<"schedule", y>>] = notes[<<"schedule", y>>]
                       /\ notes'[<<"finished", y>>] = notes[<<"finished", y>>]
    BY <2>2, OtherPosted
  <2> QED
    BY <2>1, <2>3, NothingCounted
<1>5. ASSUME NEW j \in Job, RescheduleJob(j) PROVE Keeps
  <2>1. UNCHANGED <<queue_size, type, completed>> /\ Post(Rescheduled)
    BY <1>5 DEF RescheduleJob, countVars, dispatchVars, jobVars
  <2>2. \A y \in Job : /\ notes'[<<"schedule", y>>] = notes[<<"schedule", y>>]
                       /\ notes'[<<"finished", y>>] = notes[<<"finished", y>>]
    BY <2>1, OtherPosted
  <2> QED
    BY <2>1, <2>2, NothingCounted
<1>6. ASSUME NEW j \in Job, Finish(j) PROVE Keeps
  BY <1>6, FinishKeeps
<1>7. ASSUME NEW j \in Job, NEW t \in {"worker_push_request", "proxy_send"}, Schedule(j, t)
      PROVE  Keeps
  BY <1>7, ScheduleKeeps
<1>8. CASE Other
  <2>1. UNCHANGED <<queue_size, notes>>
    BY <1>8 DEF Other, poolVars, countVars
  <2>2. UNCHANGED <<type, completed>>
    BY <1>8, ZenonT(30) DEF Other, process_job, start_write, Answer, AnswerTimeout,
                ReadResponse, ReadTimeout, ConnectionLost, ReadBodyError, WriteDone, WriterStops, jobVars
  <2> QED
    BY <2>1, <2>2, NothingCounted
<1> QED
  BY <1>1, <1>2, <1>3, <1>4, <1>5, <1>6, <1>7, <1>8 DEF Next

\* The shares of the requests are integers.
LEMMA SharesTyped ==
  ASSUME \A j \in Job : Added(j) \in {0, 1} /\ Taken(j) \in Nat
  PROVE  Least \in [Job -> Int] /\ Most \in [Job -> Int]
<1>1. ASSUME NEW j \in Job PROVE Least[j] \in Int /\ Most[j] \in Int
  <2>1. PICK l, h : Sizes(j, l, h)
    BY SizesOf
  <2>2. Least[j] = l * Added(j) - h * Taken(j) /\ Most[j] = h * Added(j) - l * Taken(j)
    BY <2>1 DEF Least, Most, Sizes
  <2>3. l \in Nat /\ h \in Nat
    BY <2>1 DEF Sizes
  <2> QED
    BY <2>2, <2>3, SMT
<1> QED
  BY <1>1 DEF Least, Most

\* The sizes of a request after a step.
LEMMA NextSizes ==
  ASSUME NEW y \in Job
  PROVE  /\ Min(datasize(y)') \in Nat /\ Max(datasize(y)') \in Nat
         /\ \A n \in datasize(y)' : n \in Nat /\ Min(datasize(y)') <= n /\ n <= Max(datasize(y)')
<1>1. DataSize[y] \in Nat /\ AnswerSize \in Nat
  BY PoolAssumption
<1>2. PICK D : D = datasize(y)'
  OBVIOUS
<1>3. D = {DataSize[y]} \/ D = {DataSize[y], AnswerSize}
  BY <1>2 DEF datasize
<1>4. /\ Min(D) \in D /\ Max(D) \in D /\ D \subseteq Nat
      /\ \A n \in D : Min(D) <= n /\ n <= Max(D)
  BY <1>1, <1>3, TwoSizes
<1> QED
  BY <1>2, <1>4

\* The shares after a step are integers too.
LEMMA NextSharesTyped ==
  ASSUME \A j \in Job : Added(j)' \in {0, 1} /\ Taken(j)' \in Nat
  PROVE  Least' \in [Job -> Int] /\ Most' \in [Job -> Int]
<1>1. ASSUME NEW j \in Job PROVE Least'[j] \in Int /\ Most'[j] \in Int
  <2>1. PICK m, k : m = Min(datasize(j)') /\ k = Max(datasize(j)')
    OBVIOUS
  <2>2. m \in Nat /\ k \in Nat
    BY <2>1, NextSizes
  <2>3. PICK a \in {0, 1}, t \in Nat : a = Added(j)' /\ t = Taken(j)'
    OBVIOUS
  <2>4. Least'[j] = m * a - k * t /\ Most'[j] = k * a - m * t
    BY <2>1, <2>3 DEF Least, Most
  <2> QED
    BY <2>2, <2>4, SMT
<1> QED
  BY <1>1 DEF Least, Most

\* The shares of a request whose sizes may have spread.
LEMMA ShareOfKept ==
  ASSUME NEW y \in Job, Added(y) \in {0, 1}, Taken(y) \in Nat,
         datasize(y) \subseteq datasize(y)', Added(y)' = Added(y), Taken(y)' = Taken(y)
  PROVE  Least'[y] <= Least[y] /\ Most[y] <= Most'[y]
<1>1. PICK l, h : Sizes(y, l, h)
  BY SizesOf
<1>2. PICK D, m, k : D = datasize(y)' /\ m = Min(D) /\ k = Max(D)
  OBVIOUS
<1>3. m \in Nat /\ k \in Nat /\ \A n \in D : n \in Nat /\ m <= n /\ n <= k
  BY <1>2, NextSizes
<1>4. l \in Nat /\ h \in Nat /\ l \in datasize(y) /\ h \in datasize(y)
  BY <1>1 DEF Sizes
<1>5. m <= l /\ h <= k
  BY <1>2, <1>3, <1>4
<1>6. /\ m * Added(y) - k * Taken(y) <= l * Added(y) - h * Taken(y)
      /\ h * Added(y) - l * Taken(y) <= k * Added(y) - m * Taken(y)
  BY <1>3, <1>4, <1>5, ShareKept
<1>7. Least[y] = l * Added(y) - h * Taken(y) /\ Most[y] = h * Added(y) - l * Taken(y)
  BY <1>1 DEF Least, Most, Sizes
<1>8. Least'[y] = m * Added(y) - k * Taken(y) /\ Most'[y] = k * Added(y) - m * Taken(y)
  BY <1>2 DEF Least, Most
<1> QED
  BY <1>6, <1>7, <1>8

\* A request of size n is counted, or not any more.
LEMMA CountedStep ==
  ASSUME IsFiniteSet(Job), NEW x \in Job, NEW d \in Int, queue_size \in Int,
         Least \in [Job -> Int], Most \in [Job -> Int],
         Least' \in [Job -> Int], Most' \in [Job -> Int],
         Least'[x] <= Least[x] + d, Most[x] <= Most'[x] + (0 - d),
         \A y \in Job : y # x => Least'[y] <= Least[y] /\ Most[y] <= Most'[y],
         Total(Least) <= queue_size, queue_size <= Total(Most)
  PROVE  Total(Least') <= queue_size + d /\ queue_size + d <= Total(Most')
<1>1. /\ Total(Least) \in Int /\ Total(Least') \in Int
      /\ Total(Least') <= Total(Least) + d
  BY TotalGrows
<1>2. 0 - d \in Int
  BY SMT
<1>3. /\ Total(Most) \in Int /\ Total(Most') \in Int
      /\ Total(Most) <= Total(Most') + (0 - d)
  BY <1>2, TotalGrows
<1> QED
  BY <1>1, <1>3, SMT

\* Every step of the launcher and its policies keeps the count.
LEMMA QueueStep ==
  ASSUME IsFiniteSet(Job), TypeOK, NotesOK, QueueCounted, [Next]_vars, TypeOK'
  PROVE  NotesOK' /\ QueueCounted'
<1>1. sc' = sc
  BY DEF Next, Handle, execute, start_create_worker_with_policy, TriggerLost, WorkerStarts,
         WorkerJoins, Close, RescheduleJob, Finish, Schedule, Other, vars, poolVars
<1> SUFFICES ASSUME sc.policy = "max_queue"
             PROVE  /\ \A j \in Job : Added(j)' \in {0, 1} /\ Taken(j)' \in Nat
                    /\ Total(Least') <= queue_size' /\ queue_size' <= Total(Most')
  <2>1. Total(Least)' = Total(Least') /\ Total(Most)' = Total(Most')
    BY DEF Total, MapThenSumSet, MapThenFoldSet
  <2> QED
    BY <1>1, <2>1 DEF NotesOK, QueueCounted
<1>2. /\ \A j \in Job : Added(j) \in {0, 1} /\ Taken(j) \in Nat
      /\ Total(Least) <= queue_size /\ queue_size <= Total(Most) /\ queue_size \in Int
  BY DEF NotesOK, QueueCounted, TypeOK
<1>3. Least \in [Job -> Int] /\ Most \in [Job -> Int]
  BY <1>2, SharesTyped
<1>4. ASSUME \A j \in Job : Added(j)' \in {0, 1} /\ Taken(j)' \in Nat
      PROVE  Least' \in [Job -> Int] /\ Most' \in [Job -> Int]
  BY <1>4, NextSharesTyped
<1>5. CASE Keeps
  <2>1. \A j \in Job : Added(j)' \in {0, 1} /\ Taken(j)' \in Nat
    BY <1>2, <1>5 DEF Keeps
  <2>2. \A y \in Job : Least'[y] <= Least[y] /\ Most[y] <= Most'[y]
    BY <1>2, <1>5, ShareOfKept DEF Keeps
  <2>3. Least' \in [Job -> Int] /\ Most' \in [Job -> Int]
    BY <1>4, <2>1
  <2>4. Total(Least) \in Int /\ Total(Least') \in Int /\ Total(Least') <= Total(Least)
    BY <1>3, <2>2, <2>3, TotalKept
  <2>5. Total(Most) \in Int /\ Total(Most') \in Int /\ Total(Most) <= Total(Most')
    BY <1>3, <2>2, <2>3, TotalKept
  <2>6. queue_size' = queue_size
    BY <1>5 DEF Keeps
  <2>7. Total(Least') <= queue_size' /\ queue_size' <= Total(Most')
    BY <1>2, <2>4, <2>5, <2>6, SMT
  <2> QED
    BY <2>1, <2>7
<1>6. ASSUME NEW x \in Job, NEW n \in datasize(x), Adds(x, n)
      PROVE  /\ \A j \in Job : Added(j)' \in {0, 1} /\ Taken(j)' \in Nat
             /\ Total(Least') <= queue_size' /\ queue_size' <= Total(Most')
  <2>1. \A j \in Job : Added(j)' \in {0, 1} /\ Taken(j)' \in Nat
    BY <1>2, <1>6 DEF Adds
  <2>2. \A y \in Job : y # x => Least'[y] <= Least[y] /\ Most[y] <= Most'[y]
    BY <1>2, <1>6, ShareOfKept DEF Adds
  <2>3. Least' \in [Job -> Int] /\ Most' \in [Job -> Int]
    BY <1>4, <2>1
  <2>4. PICK l, h : Sizes(x, l, h)
    BY SizesOf
  <2>5. /\ l \in Nat /\ h \in Nat /\ n \in Nat /\ l <= n /\ n <= h
        /\ l = Min(datasize(x)) /\ h = Max(datasize(x))
    BY <2>4 DEF Sizes
  <2>6. PICK t \in Nat : t = Taken(x)
    BY <1>2
  <2>7. Least[x] = l * 0 - h * t /\ Most[x] = h * 0 - l * t
    BY <1>6, <2>5, <2>6 DEF Least, Most, Adds
  <2>8. Least'[x] = l * 1 - h * t /\ Most'[x] = h * 1 - l * t
    BY <1>6, <2>5, <2>6 DEF Least, Most, Adds
  <2>9. Least'[x] <= Least[x] + n /\ Most[x] <= Most'[x] + (0 - n) /\ n \in Int
    <3>1. /\ l * 1 - h * t <= l * 0 - h * t + n
          /\ h * 0 - l * t <= h * 1 - l * t + (0 - n)
      BY <2>5, ShareAdded
    <3> QED
      BY <2>5, <2>7, <2>8, <3>1, SMT
  <2>10. Total(Least') <= queue_size + n /\ queue_size + n <= Total(Most')
    BY <1>2, <1>3, <2>2, <2>3, <2>9, CountedStep
  <2> QED
    BY <1>6, <2>1, <2>10 DEF Adds
<1>7. ASSUME NEW x \in Job, NEW n \in datasize(x), Takes(x, n)
      PROVE  /\ \A j \in Job : Added(j)' \in {0, 1} /\ Taken(j)' \in Nat
             /\ Total(Least') <= queue_size' /\ queue_size' <= Total(Most')
  <2>1. \A j \in Job : Added(j)' \in {0, 1} /\ Taken(j)' \in Nat
    <3>1. Taken(x)' \in Nat
      BY <1>2, <1>7, SMT DEF Takes
    <3> QED
      BY <1>2, <1>7, <3>1 DEF Takes
  <2>2. \A y \in Job : y # x => Least'[y] <= Least[y] /\ Most[y] <= Most'[y]
    BY <1>2, <1>7, ShareOfKept DEF Takes
  <2>3. Least' \in [Job -> Int] /\ Most' \in [Job -> Int]
    BY <1>4, <2>1
  <2>4. PICK l, h : Sizes(x, l, h)
    BY SizesOf
  <2>5. /\ l \in Nat /\ h \in Nat /\ n \in Nat /\ l <= n /\ n <= h
        /\ l = Min(datasize(x)) /\ h = Max(datasize(x))
    BY <2>4 DEF Sizes
  <2>6. PICK t \in Nat, a \in {0, 1} : t = Taken(x) /\ a = Added(x)
    BY <1>2
  <2>7. Least[x] = l * a - h * t /\ Most[x] = h * a - l * t
    BY <2>5, <2>6 DEF Least, Most
  <2>8. Least'[x] = l * a - h * (t + 1) /\ Most'[x] = h * a - l * (t + 1)
    BY <1>7, <2>5, <2>6 DEF Least, Most, Takes
  <2>9. 0 - n \in Int /\ 0 - (0 - n) = n /\ queue_size' = queue_size + (0 - n)
    BY <1>2, <1>7, <2>5, SMT DEF Takes
  <2>10. Least'[x] <= Least[x] + (0 - n) /\ Most[x] <= Most'[x] + (0 - (0 - n))
    <3>1. /\ l * a - h * (t + 1) <= l * a - h * t + (0 - n)
          /\ h * a - l * t <= h * a - l * (t + 1) + n
      BY <2>5, ShareTaken
    <3> QED
      BY <2>7, <2>8, <2>9, <3>1
  <2>11. Total(Least') <= queue_size + (0 - n) /\ queue_size + (0 - n) <= Total(Most')
    BY <1>2, <1>3, <2>2, <2>3, <2>9, <2>10, CountedStep
  <2> QED
    BY <2>1, <2>9, <2>11
<1> QED
  BY <1>5, <1>6, <1>7, StepCounts

\* queue_size_ is what the unanswered requests come to, for any requests, sizes,
\* workers and threads: max_queue counts every request once, when its note is
\* handled, and takes off every answer.
THEOREM QueueAccounted ==
    ASSUME IsFiniteSet(Job)
    PROVE  Spec => []QueueCounted
<1>1. Init => NotesOK /\ QueueCounted
  <2> SUFFICES ASSUME Init PROVE NotesOK /\ QueueCounted
    OBVIOUS
  <2>1. ASSUME NEW j \in Job
        PROVE  type[j] = "new" /\ completed[j] = 0
               /\ notes[<<"schedule", j>>] = 0 /\ notes[<<"finished", j>>] = 0
    BY JobNotes DEF Init, DispatchInit
  <2>2. ASSUME NEW j \in Job PROVE Added(j) = 0 /\ Taken(j) = 0
    <3>1. Added(j) = 0 - 0 /\ Taken(j) = 0 - 0
      BY <2>1 DEF Added, Taken
    <3> QED
      BY <3>1, SMT
  <2>3. \A j \in Job : Added(j) \in {0, 1} /\ Taken(j) \in Nat
    BY <2>2, SMT
  <2>4. Least \in [Job -> Int] /\ Most \in [Job -> Int]
    BY <2>3, SharesTyped
  <2>5. ASSUME NEW j \in Job PROVE Least[j] = 0 /\ Most[j] = 0
    <3>1. PICK l, h : Sizes(j, l, h)
      BY SizesOf
    <3>2. Least[j] = l * 0 - h * 0 /\ Most[j] = h * 0 - l * 0
      BY <2>2, <3>1 DEF Least, Most, Sizes
    <3>3. l \in Nat /\ h \in Nat
      BY <3>1 DEF Sizes
    <3> QED
      BY <3>2, <3>3, SMT
  <2>6. Total(Least) = 0 /\ Total(Most) = 0
    BY <2>4, <2>5, TotalZero
  <2>7. queue_size = 0
    BY DEF Init
  <2>8. Total(Least) <= queue_size /\ queue_size <= Total(Most)
    BY <2>6, <2>7, SMT
  <2> QED
    BY <2>3, <2>8 DEF NotesOK, QueueCounted
<1>2. TypeOK /\ NotesOK /\ QueueCounted /\ [Next]_vars /\ TypeOK' => (NotesOK /\ QueueCounted)'
  BY QueueStep
<1> QED
  BY <1>1, <1>2, PoolTypes, PTL DEF Spec
=============================================================================
