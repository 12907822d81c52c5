-------------------------- MODULE JobDispatchProofs --------------------------
(***************************************************************************)
(* The proxy's dispatch keeps its types, and on one io thread it keeps     *)
(* every job.  NoJobLost is not inductive: that a worker is valid when     *)
(* process_job chooses it has to hold still when the job is written to it. *)
(***************************************************************************)
EXTENDS JobDispatch, FiniteSetTheorems, TLAPS

USE Zenon

-----------------------------------------------------------------------------
\* The types of the dispatch.

\* The launcher begins with well-typed tables.
LEMMA DispatchInitTyped == DispatchInit => DispatchTypeOK
  BY DispatchAssumption, SMT DEF DispatchInit, DispatchTypeOK, Nothing

\* What worker::close does to the jobs and the bindings keeps the types.
LEMMA CloseTyped ==
    ASSUME DispatchTypeOK, NEW w \in Worker, close(w)
    PROVE  /\ valid' \in [Worker -> {"new", "yes", "no"}]
           /\ connected' \in [Worker -> BOOLEAN]
           /\ serving' \in [Worker -> [Job -> Nat]]
           /\ posted' \in [Job -> Nat]
           /\ fileid_to_worker' \in [Dir -> Worker \cup {Nobody}]
           /\ started_jobs' \in [Worker -> SUBSET Job]
<1>1. Nothing \in [Job -> Nat]
  BY DEF Nothing
<1>2. posted' \in [Job -> Nat]
  BY SMT DEF close, Reschedule, DispatchTypeOK
<1>3. serving' \in [Worker -> [Job -> Nat]]
  BY <1>1 DEF close, DispatchTypeOK
<1>4. fileid_to_worker' \in [Dir -> Worker \cup {Nobody}]
  BY DEF close, DispatchTypeOK
<1> QED
  BY <1>2, <1>3, <1>4 DEF close, DispatchTypeOK

\* A step of one of the steps that close a worker keeps the types.
LEMMA ClosersTyped ==
    ASSUME DispatchTypeOK, NEW w \in Worker, worker_dereg(w) \/ ReadError(w) \/ WriteError(w)
    PROVE  DispatchTypeOK'
<1>0. close(w)
  BY DEF worker_dereg, ReadError, WriteError
<1>1. CASE worker_dereg(w)
  <2>1. transfer_requests' \in Seq(SUBSET Dir)
    BY <1>1, SMT DEF worker_dereg, DispatchTypeOK
  <2>2. reading' \in [Worker -> {"no", "yes", "cut"}]
    BY <1>1 DEF worker_dereg, DispatchTypeOK
  <2> QED
    BY <1>0, <1>1, <2>1, <2>2, CloseTyped DEF worker_dereg, DispatchTypeOK, writeVars
<1>2. CASE ReadError(w)
  <2>1. answers' \in [Worker -> [Job -> Nat]] /\ timeouts' \in [Worker -> [Job -> Nat]]
    BY <1>2 DEF ReadError, DispatchTypeOK, Nothing
  <2>2. reading' \in [Worker -> {"no", "yes", "cut"}]
    BY <1>2 DEF ReadError, DispatchTypeOK
  <2> QED
    BY <1>0, <1>2, <2>1, <2>2, CloseTyped DEF ReadError, DispatchTypeOK, writeVars
<1>3. CASE WriteError(w)
  <2>1. write_queue[w] \in Seq(Job) /\ write_queue[w] # <<>>
    BY <1>3 DEF WriteError, DispatchTypeOK
  <2>2. Tail(write_queue[w]) \in Seq(Job)
    BY <2>1, SMT
  <2>3. write_queue' \in [Worker -> Seq(Job)]
    BY <1>3, <2>2 DEF WriteError, DispatchTypeOK
  <2>4. lowering' \subseteq Worker
    BY <1>3 DEF WriteError, DispatchTypeOK
  <2> QED
    BY <1>0, <1>3, <2>3, <2>4, CloseTyped DEF WriteError, DispatchTypeOK
<1> QED
  BY <1>1, <1>2, <1>3

\* Every other step of the dispatch keeps the types.
LEMMA DispatchTyped == DispatchTypeOK /\ [DispatchNext]_dispatchVars => DispatchTypeOK'
<1> SUFFICES ASSUME DispatchTypeOK, [DispatchNext]_dispatchVars PROVE DispatchTypeOK'
  OBVIOUS
<1> USE DEF jobVars, connVars, writeVars
<1>1. ASSUME NEW j \in Job, process_job(j) PROVE DispatchTypeOK'
  <2>1. posted[j] \in Nat /\ posted[j] > 0
    BY <1>1 DEF process_job, DispatchTypeOK
  <2>2. posted' \in [Job -> Nat]
    BY <1>1, <2>1, SMT DEF process_job, DispatchTypeOK
  <2>3. PICK w \in Assignable(j) :
            /\ picked' = picked \cup {<<j, w>>}
            /\ fileid_to_worker' = [fileid_to_worker EXCEPT
                                      ![DirOf[j]] = IF @ = Nobody THEN w ELSE @]
    BY <1>1 DEF process_job
  <2>4. w \in Worker
    BY <2>3 DEF Assignable
  <2>5. picked' \subseteq Job \X Worker
    BY <2>3, <2>4, SMT DEF DispatchTypeOK
  <2>6. fileid_to_worker' \in [Dir -> Worker \cup {Nobody}]
    BY <2>3, <2>4 DEF DispatchTypeOK
  <2> QED
    BY <1>1, <2>2, <2>5, <2>6 DEF process_job, DispatchTypeOK
<1>2. ASSUME NEW j \in Job, NEW w \in Worker, start_write(j, w) PROVE DispatchTypeOK'
  <2>1. picked' \subseteq Job \X Worker /\ replying' \subseteq Job
    BY <1>2 DEF start_write, DispatchTypeOK
  <2>2. started_jobs[w] \cup {j} \in SUBSET Job /\ Append(write_queue[w], j) \in Seq(Job)
    BY SMT DEF DispatchTypeOK
  <2>3. /\ started_jobs' \in [Worker -> SUBSET Job]
        /\ write_queue' \in [Worker -> Seq(Job)] /\ writing' \in [Worker -> BOOLEAN]
    <3>1. CASE type[j] = "worker_push_request"
      <4>1. /\ started_jobs' = [started_jobs EXCEPT ![w] = started_jobs[w] \cup {j}]
            /\ write_queue' = [write_queue EXCEPT ![w] = Append(write_queue[w], j)]
            /\ writing' = [writing EXCEPT ![w] = TRUE]
        BY <1>2, <3>1 DEF start_write
      <4> QED
        BY <2>2, <4>1 DEF DispatchTypeOK
    <3>2. CASE type[j] = "proxy_send"
      BY <1>2, <3>2 DEF start_write, DispatchTypeOK
    <3> QED
      BY <1>2, <3>1, <3>2 DEF start_write
  <2> QED
    BY <1>2, <2>1, <2>2, <2>3 DEF start_write, DispatchTypeOK
<1>3. ASSUME NEW j \in Job, proxy_send(j) PROVE DispatchTypeOK'
  <2>1. replying' \subseteq Job
    BY <1>3 DEF proxy_send, DispatchTypeOK
  <2>2. completed' \in [Job -> Nat]
    BY <1>3, SMT DEF proxy_send, DispatchTypeOK
  <2> QED
    BY <1>3, <2>1, <2>2 DEF proxy_send, DispatchTypeOK
<1>4. ASSUME NEW j \in Job, NEW w \in Worker, on_worker_response(w, j) PROVE DispatchTypeOK'
  <2> DEFINE row == [responded[w] EXCEPT ![j] = @ - 1]
  <2>1. responded[w] \in [Job -> Nat] /\ responded[w][j] > 0
    BY <1>4 DEF on_worker_response, DispatchTypeOK
  <2>2. row \in [Job -> Nat]
    BY <2>1, SMT
  <2>3. responded' = [responded EXCEPT ![w] = row]
    BY <1>4 DEF on_worker_response
  <2> HIDE DEF row
  <2>4. responded' \in [Worker -> [Job -> Nat]]
    BY <2>2, <2>3 DEF DispatchTypeOK
  <2>5. started_jobs' \in [Worker -> SUBSET Job] /\ completed' \in [Job -> Nat]
    BY <1>4, SMTT(30) DEF on_worker_response, DispatchTypeOK
  <2> QED
    BY <1>4, <2>4, <2>5 DEF on_worker_response, DispatchTypeOK
<1>5. ASSUME NEW j \in Job, NEW w \in Worker, Answer(w, j) PROVE DispatchTypeOK'
  <2> DEFINE srow == [serving[w] EXCEPT ![j] = @ - 1]
             arow == [answers[w] EXCEPT ![j] = @ + 1]
  <2>1. serving[w] \in [Job -> Nat] /\ serving[w][j] > 0 /\ answers[w] \in [Job -> Nat]
    BY <1>5 DEF Answer, DispatchTypeOK
  <2>2. srow \in [Job -> Nat] /\ arow \in [Job -> Nat]
    BY <2>1, SMT
  <2>3. serving' = [serving EXCEPT ![w] = srow] /\ answers' = [answers EXCEPT ![w] = arow]
    BY <1>5 DEF Answer
  <2> HIDE DEF srow, arow
  <2>4. serving' \in [Worker -> [Job -> Nat]] /\ answers' \in [Worker -> [Job -> Nat]]
    BY <2>2, <2>3 DEF DispatchTypeOK
  <2> QED
    BY <1>5, <2>4 DEF Answer, DispatchTypeOK
<1>6. ASSUME NEW j \in Job, NEW w \in Worker, ReadResponse(w, j) PROVE DispatchTypeOK'
  <2> DEFINE arow == [answers[w] EXCEPT ![j] = @ - 1]
             rrow == [responded[w] EXCEPT ![j] = @ + 1]
  <2>1. answers[w] \in [Job -> Nat] /\ answers[w][j] > 0 /\ responded[w] \in [Job -> Nat]
    BY <1>6 DEF ReadResponse, DispatchTypeOK
  <2>2. arow \in [Job -> Nat] /\ rrow \in [Job -> Nat]
    BY <2>1, SMT
  <2>3. answers' = [answers EXCEPT ![w] = arow] /\ responded' = [responded EXCEPT ![w] = rrow]
    BY <1>6 DEF ReadResponse
  <2> HIDE DEF arow, rrow
  <2>4. answers' \in [Worker -> [Job -> Nat]] /\ responded' \in [Worker -> [Job -> Nat]]
    BY <2>2, <2>3 DEF DispatchTypeOK
  <2> QED
    BY <1>6, <2>4 DEF ReadResponse, DispatchTypeOK
<1>7. ASSUME NEW w \in Worker, add_worker(w) PROVE DispatchTypeOK'
  <2>1. /\ valid' \in [Worker -> {"new", "yes", "no"}]
        /\ connected' \in [Worker -> BOOLEAN]
        /\ reading' \in [Worker -> {"no", "yes", "cut"}]
    BY <1>7 DEF add_worker, DispatchTypeOK
  <2>2. /\ transfer_requests' \in Seq(SUBSET Dir)
        /\ fileid_to_worker' \in [Dir -> Worker \cup {Nobody}]
    <3>1. CASE transfer_requests = <<>>
      BY <1>7, <3>1 DEF add_worker, DispatchTypeOK
    <3>2. CASE transfer_requests # <<>>
      <4>1. transfer_requests \in Seq(SUBSET Dir)
        BY DEF DispatchTypeOK
      <4>2. Tail(transfer_requests) \in Seq(SUBSET Dir)
        BY <3>2, <4>1, SMT
      <4> QED
        BY <1>7, <3>2, <4>2 DEF add_worker, DispatchTypeOK
    <3> QED
      BY <3>1, <3>2
  <2> QED
    BY <1>7, <2>1, <2>2 DEF add_worker, DispatchTypeOK
<1>8. ASSUME NEW w \in Worker, worker_dereg(w) \/ ReadError(w) \/ WriteError(w) PROVE DispatchTypeOK'
  BY <1>8, ClosersTyped
<1>9. ASSUME NEW w \in Worker, ConnectionLost(w) PROVE DispatchTypeOK'
  <2>1. serving' \in [Worker -> [Job -> Nat]]
    BY <1>9 DEF ConnectionLost, DispatchTypeOK, Nothing
  <2> QED
    BY <1>9, <2>1 DEF ConnectionLost, DispatchTypeOK
<1>10. ASSUME NEW w \in Worker, ReadBodyError(w) PROVE DispatchTypeOK'
  <2>1. answers' \in [Worker -> [Job -> Nat]] /\ timeouts' \in [Worker -> [Job -> Nat]]
    BY <1>10 DEF ReadBodyError, DispatchTypeOK, Nothing
  <2> QED
    BY <1>10, <2>1 DEF ReadBodyError, DispatchTypeOK
<1>11. ASSUME NEW w \in Worker, WriteDone(w) PROVE DispatchTypeOK'
  <2> DEFINE j == Head(write_queue[w])
             row == [serving[w] EXCEPT ![j] = @ + 1]
  <2>1. write_queue[w] \in Seq(Job) /\ write_queue[w] # <<>>
    BY <1>11 DEF WriteDone, DispatchTypeOK
  <2>2. Tail(write_queue[w]) \in Seq(Job) /\ j \in Job
    BY <2>1, SMT
  <2>3. serving' = [serving EXCEPT ![w] = row]
    BY <1>11 DEF WriteDone
  <2> HIDE DEF j
  <2>4. row \in [Job -> Nat]
    <3>1. serving[w] \in [Job -> Nat]
      BY DEF DispatchTypeOK
    <3>2. serving[w][j] + 1 \in Nat
      BY <2>2, <3>1, SMT
    <3> QED
      BY <3>1, <3>2
  <2> HIDE DEF row
  <2>5. serving' \in [Worker -> [Job -> Nat]]
    BY <2>3, <2>4 DEF DispatchTypeOK
  <2>6. write_queue' \in [Worker -> Seq(Job)]
    BY <1>11, <2>2 DEF WriteDone, DispatchTypeOK
  <2>7. writing' \in [Worker -> BOOLEAN]
    BY <1>11, SMT DEF WriteDone, DispatchTypeOK
  <2> QED
    BY <1>11, <2>5, <2>6, <2>7 DEF WriteDone, DispatchTypeOK
<1>12. ASSUME NEW w \in Worker, WriterStops(w) PROVE DispatchTypeOK'
  BY <1>12 DEF WriterStops, DispatchTypeOK
<1>13. ASSUME NEW j \in Job, NEW t \in {"worker_push_request", "proxy_send"}, schedule(j, t)
       PROVE  DispatchTypeOK'
  <2>1. posted' \in [Job -> Nat]
    BY <1>13, SMT DEF schedule, DispatchTypeOK
  <2>2. type' \in [Job -> {"new", "worker_push_request", "proxy_send"}]
    BY <1>13 DEF schedule, DispatchTypeOK
  <2> QED
    BY <1>13, <2>1, <2>2 DEF schedule, DispatchTypeOK
<1>14. ASSUME NEW j \in Job, NEW w \in Worker, AnswerTimeout(w, j) PROVE DispatchTypeOK'
  <2> DEFINE row == [timeouts[w] EXCEPT ![j] = @ + 1]
  <2>1. timeouts[w] \in [Job -> Nat]
    BY DEF DispatchTypeOK
  <2>2. row \in [Job -> Nat]
    BY <2>1, SMT
  <2>3. timeouts' = [timeouts EXCEPT ![w] = row]
    BY <1>14 DEF AnswerTimeout
  <2> HIDE DEF row
  <2>4. timeouts' \in [Worker -> [Job -> Nat]]
    BY <2>2, <2>3 DEF DispatchTypeOK
  <2> QED
    BY <1>14, <2>4 DEF AnswerTimeout, DispatchTypeOK
<1>15. ASSUME NEW j \in Job, NEW w \in Worker, ReadTimeout(w, j) PROVE DispatchTypeOK'
  <2> DEFINE arow == [timeouts[w] EXCEPT ![j] = @ - 1]
             rrow == [responded[w] EXCEPT ![j] = @ + 1]
  <2>1. timeouts[w] \in [Job -> Nat] /\ timeouts[w][j] > 0 /\ responded[w] \in [Job -> Nat]
    BY <1>15 DEF ReadTimeout, DispatchTypeOK
  <2>2. arow \in [Job -> Nat] /\ rrow \in [Job -> Nat]
    BY <2>1, SMT
  <2>3. timeouts' = [timeouts EXCEPT ![w] = arow] /\ responded' = [responded EXCEPT ![w] = rrow]
    BY <1>15 DEF ReadTimeout
  <2> HIDE DEF arow, rrow
  <2>4. timeouts' \in [Worker -> [Job -> Nat]] /\ responded' \in [Worker -> [Job -> Nat]]
    BY <2>2, <2>3 DEF DispatchTypeOK
  <2> QED
    BY <1>15, <2>4 DEF ReadTimeout, DispatchTypeOK
<1>16. CASE UNCHANGED dispatchVars
  BY <1>16 DEF dispatchVars, DispatchTypeOK
<1> QED
  BY <1>1, <1>2, <1>3, <1>4, <1>5, <1>6, <1>7, <1>8, <1>9, <1>10, <1>11, <1>12, <1>13, <1>14, <1>15, <1>16
     DEF DispatchNext, Dispatch

-----------------------------------------------------------------------------
\* No job is lost when io_context_ has one thread.

\* A job is posted or processed, its answer is posted, or it is in started_jobs_
\* of a worker that is valid or has answered it.
Kept(j) ==
    \/ posted[j] > 0
    \/ j \in replying
    \/ \E w \in Worker :
          \/ <<j, w>> \in picked
          \/ j \in started_jobs[w] /\ (valid[w] = "yes" \/ responded[w][j] > 0)

\* On one thread no worker closes while a job is on its way to it: the worker
\* that process_job has chosen is valid when the job is written to it.
Held ==
    /\ IsFiniteSet(picked) /\ IsFiniteSet(lowering)
    /\ \A p \in picked : valid[p[2]] = "yes"
    /\ \A w \in Worker : valid[w] = "yes" => reading[w] # "no"
    /\ \A j \in Job : type[j] # "new" /\ completed[j] = 0 => Kept(j)

\* A free thread, of one, is in no handler.
LEMMA FreeAlone ==
    ASSUME Threads = 1, IsFiniteSet(picked), IsFiniteSet(lowering), Free
    PROVE  picked = {} /\ lowering = {}
<1>1. Cardinality(picked) \in Nat /\ Cardinality(lowering) \in Nat
  BY FS_CardinalityType
<1>2. Cardinality(picked) = 0 /\ Cardinality(lowering) = 0
  BY <1>1, SMT DEF Free
<1> QED
  BY <1>2, FS_EmptySet

\* A worker closes: all its jobs are posted, and no job was on its way to it.
LEMMA ClosersHold ==
    ASSUME Threads = 1, DispatchTypeOK, Held,
           NEW w \in Worker, worker_dereg(w) \/ ReadError(w) \/ WriteError(w)
    PROVE  Held'
<1>0. close(w) /\ Free
  BY DEF worker_dereg, ReadError, WriteError
<1>1. picked = {} /\ picked' = {} /\ lowering = {}
  BY <1>0, FreeAlone DEF Held, worker_dereg, ReadError, WriteError
<1>2. IsFiniteSet(picked') /\ IsFiniteSet(lowering')
  <2>1. lowering' = {} \/ lowering' = {} \cup {w}
    BY <1>1 DEF worker_dereg, ReadError, WriteError, writeVars
  <2>2. IsFiniteSet({})
    BY FS_EmptySet
  <2>3. IsFiniteSet({} \cup {w})
    BY <2>2, FS_AddElement
  <2> QED
    BY <1>1, <2>1, <2>2, <2>3
<1>3. \A p \in picked' : valid'[p[2]] = "yes"
  BY <1>1
<1>4. ASSUME NEW v \in Worker, valid'[v] = "yes" PROVE reading'[v] # "no"
  <2>1. v # w /\ valid[v] = "yes"
    BY <1>0, <1>4 DEF close, DispatchTypeOK
  <2> QED
    BY <2>1 DEF Held, worker_dereg, ReadError, WriteError, DispatchTypeOK
<1>5. ASSUME NEW j \in Job, type'[j] # "new" /\ completed'[j] = 0 PROVE Kept(j)'
  <2>1. UNCHANGED <<type, completed, replying, responded, started_jobs>>
    BY DEF worker_dereg, ReadError, WriteError, close
  <2>2. posted'[j] = posted[j] + IF j \in started_jobs[w] THEN 1 ELSE 0
    BY <1>0 DEF close, Reschedule
  <2>3. posted[j] \in Nat
    BY DEF DispatchTypeOK
  <2>4. Kept(j)
    BY <1>5, <2>1 DEF Held
  <2>5. CASE posted[j] > 0 \/ j \in started_jobs[w]
    BY <2>2, <2>3, <2>5, SMT DEF Kept
  <2>6. CASE j \in replying
    BY <2>1, <2>6 DEF Kept
  <2>7. ASSUME NEW v \in Worker, v # w, j \in started_jobs[v], valid[v] = "yes" \/ responded[v][j] > 0
        PROVE  Kept(j)'
    <3>1. valid'[v] = valid[v]
      BY <1>0, <2>7 DEF close, DispatchTypeOK
    <3> QED
      BY <2>1, <2>7, <3>1 DEF Kept
  <2> QED
    BY <1>1, <2>4, <2>5, <2>6, <2>7 DEF Kept
<1> QED
  BY <1>2, <1>3, <1>4, <1>5 DEF Held

\* Every step of the dispatch keeps the jobs.
LEMMA DispatchHolds ==
    ASSUME Threads = 1
    PROVE  DispatchTypeOK /\ Held /\ [DispatchNext]_dispatchVars => Held'
<1> SUFFICES ASSUME DispatchTypeOK, Held, [DispatchNext]_dispatchVars PROVE Held'
  OBVIOUS
<1> USE DEF jobVars, connVars, writeVars
<1>1. ASSUME NEW j \in Job, process_job(j) PROVE Held'
  <2>1. PICK w \in Assignable(j) : picked' = picked \cup {<<j, w>>}
    BY <1>1 DEF process_job
  <2>2. w \in Worker
    BY <2>1 DEF Assignable
  <2>3. picked = {} /\ valid[w] = "yes"
    BY <1>1, <2>1, FreeAlone DEF process_job, Held, Assignable
  <2>4. IsFiniteSet(picked') /\ IsFiniteSet(lowering')
    BY <1>1, <2>1, FS_AddElement DEF Held, process_job
  <2>5. \A p \in picked' : valid'[p[2]] = "yes"
    BY <1>1, <2>1, <2>3, SMT DEF process_job
  <2>6. \A v \in Worker : valid'[v] = "yes" => reading'[v] # "no"
    BY <1>1 DEF process_job, Held
  <2>7. ASSUME NEW k \in Job, type'[k] # "new" /\ completed'[k] = 0 PROVE Kept(k)'
    <3>1. k # j => posted'[k] = posted[k]
      BY <1>1 DEF process_job, DispatchTypeOK
    <3>2. CASE k = j
      BY <2>1, <2>2, <3>2 DEF Kept
    <3>3. CASE k # j
      BY <1>1, <2>1, <2>7, <3>1, <3>3 DEF process_job, Held, Kept
    <3> QED
      BY <3>2, <3>3
  <2> QED
    BY <2>4, <2>5, <2>6, <2>7 DEF Held
<1>2. ASSUME NEW j \in Job, NEW w \in Worker, start_write(j, w) PROVE Held'
  <2>1. valid[w] = "yes"
    BY <1>2 DEF start_write, Held
  <2>2. IsFiniteSet(picked') /\ IsFiniteSet(lowering')
    BY <1>2, FS_RemoveElement DEF start_write, Held
  <2>3. /\ \A p \in picked' : valid'[p[2]] = "yes"
        /\ \A v \in Worker : valid'[v] = "yes" => reading'[v] # "no"
    BY <1>2 DEF start_write, Held
  <2>4. ASSUME NEW k \in Job, type'[k] # "new" /\ completed'[k] = 0 PROVE Kept(k)'
    <3>1. UNCHANGED <<posted, valid, responded, type, completed>>
      BY <1>2 DEF start_write
    <3>2. \A v \in Worker : started_jobs[v] \subseteq started_jobs'[v]
      <4>1. \/ started_jobs' = started_jobs
            \/ started_jobs' = [started_jobs EXCEPT ![w] = started_jobs[w] \cup {j}]
        BY <1>2 DEF start_write
      <4> QED
        BY <4>1, ZenonT(30) DEF DispatchTypeOK
    <3>3. replying \subseteq replying'
      BY <1>2 DEF start_write
    <3>4. Kept(k)
      BY <2>4, <3>1 DEF Held
    <3>5. k = j => k \in replying' \/ k \in started_jobs'[w]
      BY <1>2, SMT DEF start_write, DispatchTypeOK
    <3>6. CASE k = j
      BY <2>1, <3>1, <3>5, <3>6 DEF Kept
    <3>7. CASE k # j
      <4>1. \A v \in Worker : <<k, v>> \in picked => <<k, v>> \in picked'
        BY <1>2, <3>7 DEF start_write
      <4> QED
        BY <3>1, <3>2, <3>3, <3>4, <4>1 DEF Kept
    <3> QED
      BY <3>6, <3>7
  <2> QED
    BY <2>2, <2>3, <2>4 DEF Held
<1>3. ASSUME NEW j \in Job, proxy_send(j) PROVE Held'
  <2>1. ASSUME NEW k \in Job, type'[k] # "new" /\ completed'[k] = 0 PROVE Kept(k)'
    <3>1. k # j
      BY <1>3, <2>1, SMT DEF proxy_send, DispatchTypeOK
    <3>2. completed[k] = 0
      BY <1>3, <2>1, <3>1 DEF proxy_send, DispatchTypeOK
    <3> QED
      BY <1>3, <2>1, <3>1, <3>2 DEF proxy_send, Held, Kept
  <2> QED
    BY <1>3, <2>1 DEF proxy_send, Held
<1>4. ASSUME NEW j \in Job, NEW w \in Worker, on_worker_response(w, j) PROVE Held'
  <2>1. ASSUME NEW k \in Job, type'[k] # "new" /\ completed'[k] = 0 PROVE Kept(k)'
    <3>1. completed'[k] = IF k = j /\ j \in started_jobs[w] THEN completed[k] + 1 ELSE completed[k]
      BY <1>4 DEF on_worker_response, DispatchTypeOK
    <3>2. completed[k] \in Nat
      BY DEF DispatchTypeOK
    <3>3. completed[k] = 0 /\ ~(k = j /\ j \in started_jobs[w])
      BY <2>1, <3>1, <3>2, SMT
    <3>4. \A v \in Worker : k \in started_jobs[v] =>
              k \in started_jobs'[v] /\ responded'[v][k] = responded[v][k]
      BY <1>4, <3>3 DEF on_worker_response, DispatchTypeOK
    <3> QED
      BY <1>4, <2>1, <3>3, <3>4 DEF on_worker_response, Held, Kept
  <2> QED
    BY <1>4, <2>1 DEF on_worker_response, Held
<1>5. ASSUME NEW j \in Job, NEW w \in Worker, Answer(w, j) \/ AnswerTimeout(w, j) PROVE Held'
  BY <1>5 DEF Answer, AnswerTimeout, Held, Kept
<1>6. ASSUME NEW j \in Job, NEW w \in Worker, ReadResponse(w, j) \/ ReadTimeout(w, j) PROVE Held'
  <2>1. \A v \in Worker, k \in Job : responded[v][k] > 0 => responded'[v][k] > 0
    <3> SUFFICES ASSUME NEW v \in Worker, NEW k \in Job, responded[v][k] > 0 PROVE responded'[v][k] > 0
      OBVIOUS
    <3>1. responded[v][k] \in Nat
      BY DEF DispatchTypeOK
    <3>2. responded'[v][k] = responded[v][k] \/ responded'[v][k] = responded[v][k] + 1
      <4>1. responded' = [responded EXCEPT ![w][j] = @ + 1]
        BY <1>6 DEF ReadResponse, ReadTimeout
      <4> QED
        BY <4>1 DEF DispatchTypeOK
    <3> QED
      BY <3>1, <3>2, SMT
  <2> QED
    BY <1>6, <2>1 DEF ReadResponse, ReadTimeout, Held, Kept
<1>7. ASSUME NEW w \in Worker, add_worker(w) PROVE Held'
  <2>1. \A v \in Worker : valid[v] = "yes" => valid'[v] = "yes"
    BY <1>7 DEF add_worker, DispatchTypeOK
  <2>2. \A v \in Worker : valid'[v] = "yes" => reading'[v] # "no"
    BY <1>7 DEF add_worker, DispatchTypeOK, Held
  <2>3. \A p \in picked' : valid'[p[2]] = "yes"
    BY <1>7, FreeAlone DEF add_worker, Held
  <2>4. ASSUME NEW k \in Job, type'[k] # "new" /\ completed'[k] = 0 PROVE Kept(k)'
    BY <1>7, <2>1, <2>4 DEF add_worker, Held, Kept
  <2> QED
    BY <1>7, <2>2, <2>3, <2>4 DEF add_worker, Held
<1>8. ASSUME NEW w \in Worker, worker_dereg(w) \/ ReadError(w) \/ WriteError(w) PROVE Held'
  BY <1>8, ClosersHold
<1>9. ASSUME NEW w \in Worker, ConnectionLost(w) PROVE Held'
  BY <1>9 DEF ConnectionLost, Held, Kept
<1>10. ASSUME NEW w \in Worker, ReadBodyError(w) PROVE Held'
  <2>1. \A v \in Worker : valid'[v] = "yes" => reading'[v] # "no"
    BY <1>10 DEF ReadBodyError, DispatchTypeOK, Held
  <2> QED
    BY <1>10, <2>1 DEF ReadBodyError, Held, Kept
<1>11. ASSUME NEW w \in Worker, WriteDone(w) PROVE Held'
  BY <1>11 DEF WriteDone, Held, Kept
<1>12. ASSUME NEW w \in Worker, WriterStops(w) PROVE Held'
  <2>1. IsFiniteSet(lowering')
    BY <1>12, FS_RemoveElement DEF WriterStops, Held
  <2> QED
    BY <1>12, <2>1 DEF WriterStops, Held, Kept
<1>13. ASSUME NEW j \in Job, NEW t \in {"worker_push_request", "proxy_send"}, schedule(j, t)
       PROVE  Held'
  <2>1. ASSUME NEW k \in Job, type'[k] # "new" /\ completed'[k] = 0 PROVE Kept(k)'
    <3>1. posted'[j] > 0
      BY <1>13, SMT DEF schedule, DispatchTypeOK
    <3>2. k # j => type'[k] = type[k] /\ posted'[k] = posted[k]
      BY <1>13 DEF schedule, DispatchTypeOK
    <3> QED
      BY <1>13, <2>1, <3>1, <3>2 DEF schedule, Held, Kept
  <2> QED
    BY <1>13, <2>1 DEF schedule, Held
<1>14. CASE UNCHANGED dispatchVars
  BY <1>14 DEF dispatchVars, Held, Kept
<1> QED
  BY <1>1, <1>2, <1>3, <1>4, <1>5, <1>6, <1>7, <1>8, <1>9, <1>10, <1>11, <1>12, <1>13, <1>14
     DEF DispatchNext, Dispatch

\* What Held says of a job is what NoJobLost asks for: a valid worker is read, or
\* is stranded.
LEMMA HeldNotLost == DispatchTypeOK /\ Held => NoJobLost
<1> SUFFICES ASSUME DispatchTypeOK, Held, NEW j \in Job, type[j] # "new", completed[j] = 0
             PROVE  \/ posted[j] > 0
                    \/ j \in replying
                    \/ \E w \in Worker :
                          \/ <<j, w>> \in picked
                          \/ /\ j \in started_jobs[w]
                             /\ \/ reading[w] = "yes" \/ Stranded(w)
                                \/ responded[w][j] > 0
                                \/ writing[w] /\ w \notin lowering
  BY DEF NoJobLost
<1>1. \A w \in Worker : valid[w] = "yes" => reading[w] = "yes" \/ Stranded(w)
  BY DEF Held, DispatchTypeOK, Stranded
<1> QED
  BY <1>1 DEF Held, Kept
=============================================================================
