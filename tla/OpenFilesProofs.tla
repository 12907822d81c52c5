--------------------------- MODULE OpenFilesProofs ---------------------------
(***************************************************************************)
(* The proxy's tables of open files and locks agree with what the clients  *)
(* hold and the workers do, for any requests and workers.  The locks are   *)
(* never too many and the counts never too small, whatever happens; that   *)
(* the counts are exact as long as no worker closes rests on a request     *)
(* being in one place at a time, the answers of its timers apart.          *)
(***************************************************************************)
EXTENDS OpenFiles, JobDispatchProofs

USE Zenon

\* What start_trigger_post does to the job of a request: it is scheduled.
LEMMA Scheduled ==
    ASSUME NEW j \in Job, start_trigger_post(j)
    PROVE  \E t \in {"worker_push_request", "proxy_send"} : schedule(j, t)
  BY DEF start_trigger_post, Refused, Open, DeleteFile, Rename, Close, Lock, Access

\* Every step is one of the dispatch's.
LEMMA DispatchSteps == [Next]_vars => [DispatchNext]_dispatchVars
<1> SUFFICES ASSUME [Next]_vars PROVE [DispatchNext]_dispatchVars
  OBVIOUS
<1>1. ASSUME NEW j \in Job, start_trigger_post(j) PROVE DispatchNext
  BY <1>1, Scheduled DEF DispatchNext
<1>2. ASSUME NEW j \in Job, NEW w \in Worker, Answered(w, j) PROVE DispatchNext
  BY <1>2 DEF Answered, OpenAnswered, RenameAnswered, OtherAnswered, ReadAnswer, DispatchNext
<1> QED
  BY <1>1, <1>2 DEF Next, DispatchNext, vars

\* The steps of the dispatch but the arrival of a request leave header.type alone.
LEMMA TypeKept ==
    \/ Dispatch
    \/ \E w \in Worker, j \in Job : ReadResponse(w, j) \/ ReadTimeout(w, j)
    => type' = type
  BY ZenonT(30) DEF Dispatch, process_job, proxy_send, start_write, on_worker_response, Answer,
         AnswerTimeout, add_worker, worker_dereg, ConnectionLost, ReadError, ReadBodyError,
         WriteDone, WriteError, WriterStops, ReadResponse, ReadTimeout, jobVars

\* The clients ask for what they ask for.
LEMMA MixKept == [Next]_vars => mix' = mix /\ op' = op
  BY DEF Next, vars, op

\* What the reading of an answer does.
LEMMA Read ==
    ASSUME NEW j \in Job, NEW w \in Worker, Answered(w, j)
    PROVE  /\ \/ ReadResponse(w, j)
              \/ ReadTimeout(w, j) /\ granted' = granted
           /\ answered' = answered \cup {j} /\ again' = again \cup ({j} \cap answered)
           /\ granted' \in {granted, granted \cup {j}}
           /\ type' = type /\ closed' = closed
<1>1. ASSUME NEW success \in BOOLEAN, ReadAnswer(w, j, success)
      PROVE  /\ ReadResponse(w, j) \/ (ReadTimeout(w, j) /\ ~success)
             /\ answered' = answered \cup {j} /\ again' = again \cup ({j} \cap answered)
             /\ type' = type
  BY <1>1, TypeKept DEF ReadAnswer
<1>2. ASSUME NEW success \in BOOLEAN, OpenAnswered(w, j, success)
      PROVE  /\ ReadAnswer(w, j, success) /\ closed' = closed
             /\ granted' \in {granted, granted \cup {j}} /\ (~success => granted' = granted)
  BY <1>2 DEF OpenAnswered
<1>3. ASSUME NEW success \in BOOLEAN, RenameAnswered(w, j, success)
      PROVE  ReadAnswer(w, j, success) /\ UNCHANGED <<closed, granted>>
  BY <1>3 DEF RenameAnswered
<1>4. ASSUME OtherAnswered(w, j) PROVE ReadAnswer(w, j, FALSE) /\ UNCHANGED <<closed, granted>>
  BY <1>4 DEF OtherAnswered
<1> QED
  BY <1>1, <1>2, <1>3, <1>4 DEF Answered

-----------------------------------------------------------------------------
\* Types.

\* The tables are well typed to begin with.
LEMMA TablesInit == Init => TypeOK
  BY DispatchInitTyped, SMT DEF Init, TypeOK

\* Counts stay natural numbers: a close or a failed open is taken off only where
\* there is one.
LEMMA TablesTyped == TypeOK /\ [Next]_vars => TypeOK'
<1> SUFFICES ASSUME TypeOK, [Next]_vars PROVE TypeOK'
  OBVIOUS
<1>1. DispatchTypeOK'
  BY DispatchSteps, DispatchTyped DEF TypeOK
<1>2. mix' \in Mixes
  BY MixKept DEF TypeOK
<1>3. ASSUME NEW j \in Job, start_trigger_post(j) PROVE TypeOK'
  <2>1. FileOf[j] \in File /\ DirOf[j] \in Dir /\ From[j] \in Dir
    BY OpenFilesAssumption, DispatchAssumption
  <2>2. CASE Refused(j)
    BY <1>1, <1>2, <2>2 DEF Refused, TypeOK, history
  <2>3. CASE Open(j)
    BY <1>1, <1>2, <2>1, <2>3, SMT DEF Open, TypeOK
  <2>4. CASE DeleteFile(j) \/ Access(j)
    BY <1>1, <1>2, <2>4 DEF DeleteFile, Access, TypeOK, history, tables
  <2>5. CASE Rename(j) \/ Lock(j)
    BY <1>1, <1>2, <2>1, <2>5 DEF Rename, Lock, TypeOK, history
  <2>6. CASE Close(j)
    BY <1>1, <1>2, <2>1, <2>6, SMT DEF Close, TypeOK
  <2> QED
    BY <1>3, <2>2, <2>3, <2>4, <2>5, <2>6 DEF start_trigger_post
<1>4. ASSUME NEW j \in Job, NEW w \in Worker, Answered(w, j) PROVE TypeOK'
  <2>0. answered' \subseteq Job /\ again' \subseteq Job /\ granted' \subseteq Job /\ closed' \subseteq Job
    BY <1>4, Read DEF TypeOK
  <2>1. FileOf[j] \in File
    BY OpenFilesAssumption
  <2>2. ASSUME NEW success \in BOOLEAN, OpenAnswered(w, j, success) PROVE TypeOK'
    <3>1. LockAfterOpen(FileOf[j], success) \in Nat
      BY <2>1, SMT DEF LockAfterOpen, TypeOK
    <3> QED
      BY <1>1, <1>2, <2>0, <2>1, <2>2, <3>1, SMT DEF OpenAnswered, TypeOK
  <2>3. ASSUME NEW success \in BOOLEAN, RenameAnswered(w, j, success) PROVE TypeOK'
    BY <1>1, <1>2, <2>0, <2>3 DEF RenameAnswered, TypeOK
  <2>4. CASE OtherAnswered(w, j)
    BY <1>1, <1>2, <2>0, <2>4 DEF OtherAnswered, TypeOK, tables
  <2> QED
    BY <1>4, <2>2, <2>3, <2>4 DEF Answered
<1>5. CASE UNCHANGED <<tables, history>>
  BY <1>1, <1>2, <1>5 DEF TypeOK, tables, history
<1> QED
  BY <1>3, <1>4, <1>5 DEF Next, vars

\* The proxy's tables are well typed for any requests and workers: opened_files_
\* and locked_files_for_open_ never go below zero.
THEOREM TableTypes == Spec => []TypeOK
  BY TablesInit, TablesTyped, PTL DEF Spec

-----------------------------------------------------------------------------
\* Where a job is.

Elems(q) == {q[i] : i \in DOMAIN q}
Single(q) == \A i, k \in DOMAIN q : q[i] = q[k] => i = k

\* A push to the writer's queue.
LEMMA Pushed ==
    ASSUME NEW q \in Seq(Job), NEW x \in Job
    PROVE  /\ Elems(Append(q, x)) = Elems(q) \cup {x}
           /\ Single(q) /\ x \notin Elems(q) => Single(Append(q, x))
<1>1. /\ Len(Append(q, x)) = Len(q) + 1 /\ DOMAIN Append(q, x) = 1..(Len(q) + 1)
      /\ DOMAIN q = 1..Len(q) /\ Len(q) \in Nat
      /\ \A i \in 1..Len(q) : Append(q, x)[i] = q[i]
      /\ Append(q, x)[Len(q) + 1] = x
  BY SMT
<1> QED
  BY <1>1, SMT DEF Elems, Single

\* A pop of it.
LEMMA Popped ==
    ASSUME NEW q \in Seq(Job), q # <<>>
    PROVE  /\ Head(q) \in Elems(q) /\ Elems(Tail(q)) \subseteq Elems(q)
           /\ \A x \in Elems(q) : x # Head(q) => x \in Elems(Tail(q))
           /\ Single(q) => Single(Tail(q)) /\ Head(q) \notin Elems(Tail(q))
<1>1. /\ DOMAIN q = 1..Len(q) /\ Len(q) \in Nat /\ Len(q) > 0 /\ Head(q) = q[1]
      /\ DOMAIN Tail(q) = 1..(Len(q) - 1)
      /\ \A i \in 1..(Len(q) - 1) : Tail(q)[i] = q[i + 1]
  BY SMT
<1>2. \A i \in 2..Len(q) : i - 1 \in DOMAIN Tail(q) /\ Tail(q)[i - 1] = q[i]
  BY <1>1, SMT
<1>3. \A i \in DOMAIN Tail(q) : i + 1 \in DOMAIN q /\ i + 1 # 1 /\ Tail(q)[i] = q[i + 1]
  BY <1>1, SMT
<1>4. Head(q) \in Elems(q) /\ Elems(Tail(q)) \subseteq Elems(q)
  BY <1>1, <1>3, SMT DEF Elems
<1>5. ASSUME NEW x \in Elems(q), x # Head(q) PROVE x \in Elems(Tail(q))
  <2>1. PICK i \in DOMAIN q : q[i] = x
    BY DEF Elems
  <2>2. i \in 2..Len(q)
    BY <1>1, <1>5, <2>1, SMT
  <2> QED
    BY <1>2, <2>1, <2>2 DEF Elems
<1>6. ASSUME Single(q) PROVE Single(Tail(q)) /\ Head(q) \notin Elems(Tail(q))
  BY <1>1, <1>3, <1>6, SMT DEF Elems, Single
<1> QED
  BY <1>4, <1>5, <1>6

\* Before start_trigger_post a job is nowhere, and one that the proxy answers is
\* with no worker.
Asked(j) ==
    /\ type[j] = "new" => /\ posted[j] = 0 /\ j \notin granted
                          /\ \A v \in Worker : <<j, v>> \notin picked
    /\ type[j] # "worker_push_request" =>
          /\ j \notin answered
          /\ \A v \in Worker : /\ j \notin started_jobs[v] /\ j \notin Elems(write_queue[v])
                               /\ serving[v][j] = 0 /\ answers[v][j] = 0 /\ timeouts[v][j] = 0

\* Where a job can be, on its way to a worker, there, and back: an open that a
\* worker's answer granted has been answered for good.
Stage == {"new", "posted", "picked", "queued", "serving", "answers", "answered"}

At(j, s, w) ==
    /\ posted[j] = IF s = "posted" THEN 1 ELSE 0
    /\ \A v \in Worker :
          /\ <<j, v>> \in picked => s = "picked" /\ v = w
          /\ j \in Elems(write_queue[v]) => s = "queued" /\ v = w
          /\ serving[v][j] = 0 \/ (serving[v][j] = 1 /\ s = "serving" /\ v = w)
          /\ answers[v][j] = 0 \/ (answers[v][j] = 1 /\ s = "answers" /\ v = w)
    /\ j \in granted /\ type[j] = "worker_push_request" => s = "answered"

AllOpen == \A w \in Worker : valid[w] # "no"

\* As long as no worker closes, nothing is rescheduled: a job is in one place,
\* once.
Places ==
    /\ \A j \in Job : Asked(j)
    /\ AllOpen => /\ \A j \in Job : \E s \in Stage, w \in Worker \cup {Nobody} : At(j, s, w)
                  /\ \A v \in Worker : Single(write_queue[v])

\* A step that is not about a job.
Same(j) ==
    /\ type'[j] = type[j] /\ posted'[j] = posted[j]
    /\ j \in answered' <=> j \in answered
    /\ j \in granted' <=> j \in granted
    /\ \A v \in Worker :
          /\ <<j, v>> \in picked' <=> <<j, v>> \in picked
          /\ j \in started_jobs'[v] => j \in started_jobs[v]
          /\ j \in Elems(write_queue'[v]) <=> j \in Elems(write_queue[v])
          /\ serving'[v][j] = serving[v][j] /\ answers'[v][j] = answers[v][j]
          /\ timeouts'[v][j] = timeouts[v][j]

\* It leaves the job where it is.
LEMMA SameStays ==
    ASSUME NEW j \in Job, Same(j)
    PROVE  /\ Asked(j) => Asked(j)'
           /\ \A s \in Stage, w \in Worker \cup {Nobody} : At(j, s, w) => At(j, s, w)'
<1>1. Asked(j) => Asked(j)'
  BY DEF Same, Asked
<1>2. ASSUME NEW s \in Stage, NEW w \in Worker \cup {Nobody}, At(j, s, w) PROVE At(j, s, w)'
  BY <1>2 DEF Same, At
<1> QED
  BY <1>1, <1>2

\* Enough to show of a step: jobs move one at a time.
LEMMA OneMoves ==
    ASSUME Places, NEW k \in Job, \A j \in Job \ {k} : Same(j), Asked(k)', AllOpen' => AllOpen,
           ASSUME AllOpen, NEW s \in Stage, NEW w \in Worker \cup {Nobody}, At(k, s, w)
           PROVE  \E r \in Stage, v \in Worker \cup {Nobody} : At(k, r, v)',
           AllOpen => \A v \in Worker : Single(write_queue'[v])
    PROVE  Places'
<1>1. ASSUME NEW j \in Job PROVE Asked(j)'
  BY SameStays DEF Places
<1>2. ASSUME NEW j \in Job, AllOpen PROVE \E r \in Stage, v \in Worker \cup {Nobody} : At(j, r, v)'
  <2>1. PICK s \in Stage, w \in Worker \cup {Nobody} : At(j, s, w)
    BY <1>2 DEF Places
  <2> QED
    BY <1>2, <2>1, SameStays
<1> QED
  BY <1>1, <1>2 DEF Places

\* A job is scheduled, and posted.
LEMMA ScheduleMoves ==
    ASSUME TypeOK, Places, NEW k \in Job, NEW t \in {"worker_push_request", "proxy_send"},
           schedule(k, t), answered' = answered,
           granted' = granted \/ (granted' = granted \cup {k} /\ t = "proxy_send")
    PROVE  Places'
<1> USE DEF connVars, writeVars
<1>1. type[k] = "new" /\ Asked(k)
  BY DEF schedule, Places
<1>2. ASSUME NEW j \in Job \ {k} PROVE Same(j)
  BY DEF schedule, Same, TypeOK, DispatchTypeOK
<1>3. /\ type'[k] = t /\ posted'[k] = 1 /\ k \notin answered'
      /\ k \in granted' => t = "proxy_send"
  BY <1>1, SMT DEF schedule, Asked, TypeOK, DispatchTypeOK
<1>4. ASSUME NEW v \in Worker
      PROVE  /\ <<k, v>> \notin picked' /\ k \notin Elems(write_queue'[v]) /\ k \notin started_jobs'[v]
             /\ serving'[v][k] = 0 /\ answers'[v][k] = 0 /\ timeouts'[v][k] = 0
  BY <1>1 DEF schedule, Asked
<1>5. Asked(k)' /\ At(k, "posted", Nobody)'
  BY <1>3, <1>4 DEF Asked, At
<1>6. AllOpen' = AllOpen /\ write_queue' = write_queue
  BY DEF schedule, AllOpen
<1> QED
  BY <1>2, <1>5, <1>6, OneMoves DEF Places, Stage

\* process_job gives it to a worker, ...
LEMMA ProcessMoves ==
    ASSUME TypeOK, Places, NEW k \in Job, process_job(k), UNCHANGED <<answered, granted>>
    PROVE  Places'
<1> USE DEF connVars, writeVars
<1>1. PICK w \in Worker : picked' = picked \cup {<<k, w>>}
  BY DEF process_job, Assignable
<1>2. posted[k] > 0 /\ posted' = [posted EXCEPT ![k] = @ - 1] /\ posted \in [Job -> Nat]
  BY DEF process_job, TypeOK, DispatchTypeOK
<1>3. ASSUME NEW j \in Job \ {k} PROVE Same(j)
  BY <1>1, <1>2 DEF process_job, Same
<1>4. Asked(k) /\ type[k] # "new"
  BY <1>2, SMT DEF Places, Asked
<1>5. Asked(k)'
  BY <1>4 DEF process_job, Asked
<1>6. ASSUME NEW s \in Stage, NEW u \in Worker \cup {Nobody}, At(k, s, u) PROVE At(k, "picked", w)'
  <2>1. s = "posted" /\ posted'[k] = 0
    BY <1>2, <1>6, SMT DEF At
  <2> QED
    BY <1>1, <1>6, <2>1 DEF At, process_job
<1>7. AllOpen' = AllOpen /\ write_queue' = write_queue
  BY DEF process_job, AllOpen
<1> QED
  BY <1>3, <1>5, <1>6, <1>7, OneMoves DEF Places, Stage

\* ... start_write to its writer, or to the proxy's own answers.
LEMMA StartWriteMoves ==
    ASSUME TypeOK, Places, NEW k \in Job, NEW w \in Worker, start_write(k, w),
           UNCHANGED <<answered, granted>>
    PROVE  Places'
<1> USE DEF connVars
<1>0. /\ <<k, w>> \in picked /\ picked' = picked \ {<<k, w>>}
      /\ UNCHANGED <<type, posted, serving, answers, timeouts, valid>>
  BY DEF start_write
<1>1. type[k] # "new" /\ Asked(k)
  BY <1>0 DEF Places, Asked
<1>2. CASE type[k] = "proxy_send"
  <2>1. UNCHANGED <<started_jobs, write_queue>>
    BY <1>2 DEF start_write
  <2>2. ASSUME NEW j \in Job \ {k} PROVE Same(j)
    BY <1>0, <2>1 DEF Same
  <2>3. Asked(k)'
    BY <1>0, <1>1, <2>1 DEF Asked
  <2>4. ASSUME NEW s \in Stage, NEW u \in Worker \cup {Nobody}, At(k, s, u) PROVE At(k, "new", Nobody)'
    BY <1>0, <2>1, <2>4 DEF At
  <2> QED
    BY <1>0, <2>1, <2>2, <2>3, <2>4, OneMoves DEF Places, Stage, AllOpen
<1>3. CASE type[k] = "worker_push_request"
  <2>1. /\ started_jobs' = [started_jobs EXCEPT ![w] = @ \cup {k}]
        /\ write_queue' = [write_queue EXCEPT ![w] = Append(@, k)]
    BY <1>3 DEF start_write
  <2>2. write_queue \in [Worker -> Seq(Job)] /\ started_jobs \in [Worker -> SUBSET Job]
    BY DEF TypeOK, DispatchTypeOK
  <2>3. \A v \in Worker : Elems(write_queue'[v]) = IF v = w THEN Elems(write_queue[v]) \cup {k}
                                                            ELSE Elems(write_queue[v])
    BY <2>1, <2>2, Pushed
  <2>4. \A v \in Worker : started_jobs'[v] \subseteq started_jobs[v] \cup {k}
    BY <2>1, <2>2
  <2>5. ASSUME NEW j \in Job \ {k} PROVE Same(j)
    BY <1>0, <2>3, <2>4 DEF Same
  <2>6. Asked(k)'
    BY <1>0, <1>3 DEF Asked
  <2>7. ASSUME NEW s \in Stage, NEW u \in Worker \cup {Nobody}, At(k, s, u)
        PROVE  At(k, "queued", w)' /\ k \notin Elems(write_queue[w])
    BY <1>0, <2>3, <2>7 DEF At
  <2>8. AllOpen => \A v \in Worker : Single(write_queue'[v])
    <3> SUFFICES ASSUME AllOpen, NEW v \in Worker PROVE Single(write_queue'[v])
      OBVIOUS
    <3>1. k \notin Elems(write_queue[w]) /\ Single(write_queue[v])
      BY <2>7 DEF Places
    <3> QED
      BY <2>1, <2>2, <3>1, Pushed
  <2> QED
    BY <1>0, <2>5, <2>6, <2>7, <2>8, OneMoves DEF Stage, AllOpen
<1> QED
  BY <1>1, <1>2, <1>3 DEF TypeOK, DispatchTypeOK

\* The writer sends it, ...
LEMMA WriteMoves ==
    ASSUME TypeOK, Places, NEW w \in Worker, WriteDone(w), UNCHANGED <<answered, granted>>
    PROVE  Places'
<1> USE DEF jobVars
<1>0. /\ write_queue \in [Worker -> Seq(Job)] /\ write_queue[w] \in Seq(Job) /\ write_queue[w] # <<>>
      /\ serving \in [Worker -> [Job -> Nat]] /\ serving[w] \in [Job -> Nat]
  BY DEF WriteDone, TypeOK, DispatchTypeOK
<1>1. PICK k \in Job : k = Head(write_queue[w])
  BY <1>0, SMT
<1> DEFINE row == [serving[w] EXCEPT ![k] = @ + 1]
<1>2. /\ write_queue' = [write_queue EXCEPT ![w] = Tail(@)] /\ serving' = [serving EXCEPT ![w] = row]
      /\ UNCHANGED <<type, posted, picked, started_jobs, answers, timeouts, valid>>
  BY <1>1 DEF WriteDone
<1>3. \A j \in Job : row[j] = IF j = k THEN serving[w][j] + 1 ELSE serving[w][j]
  BY <1>0, <1>1
<1> HIDE DEF row
<1>4. \A v \in Worker, j \in Job :
          serving'[v][j] = IF v = w /\ j = k THEN serving[v][j] + 1 ELSE serving[v][j]
  BY <1>0, <1>2, <1>3
<1>5. \A v \in Worker, j \in Job : j # k => (j \in Elems(write_queue'[v]) <=> j \in Elems(write_queue[v]))
  BY <1>0, <1>1, <1>2, Popped
<1>6. \A v \in Worker : Elems(write_queue'[v]) \subseteq Elems(write_queue[v])
  BY <1>0, <1>2, Popped
<1>7. k \in Elems(write_queue[w])
  BY <1>0, <1>1, Popped
<1>8. ASSUME NEW j \in Job \ {k} PROVE Same(j)
  BY <1>2, <1>4, <1>5, SMT DEF Same
<1>9. Asked(k)'
  <2>1. type[k] = "worker_push_request"
    BY <1>1, <1>7 DEF Places, Asked
  <2> QED
    BY <1>2, <2>1 DEF Asked
<1>10. ASSUME AllOpen, NEW s \in Stage, NEW u \in Worker \cup {Nobody}, At(k, s, u)
       PROVE  At(k, "serving", w)'
  <2>1. s = "queued" /\ u = w
    BY <1>7, <1>10 DEF At
  <2>2. k \notin Elems(write_queue'[w])
    BY <1>0, <1>1, <1>2, <1>10, Popped DEF Places
  <2>3. \A v \in Worker : k \notin Elems(write_queue'[v]) /\ <<k, v>> \notin picked'
    BY <1>2, <1>6, <1>10, <2>1, <2>2 DEF At
  <2>4. \A v \in Worker : serving'[v][k] = 0 \/ (serving'[v][k] = 1 /\ v = w)
    <3>1. \A v \in Worker : serving[v][k] = 0
      BY <1>10, <2>1 DEF At
    <3> QED
      BY <1>4, <3>1, SMT
  <2> QED
    BY <1>2, <1>10, <2>1, <2>3, <2>4 DEF At
<1>11. AllOpen => \A v \in Worker : Single(write_queue'[v])
  BY <1>0, <1>2, Popped DEF Places
<1> QED
  BY <1>1, <1>2, <1>8, <1>9, <1>10, <1>11, OneMoves DEF Stage, AllOpen

\* ... the worker answers it, ...
LEMMA AnswerMoves ==
    ASSUME TypeOK, Places, NEW w \in Worker, NEW k \in Job, Answer(w, k),
           UNCHANGED <<answered, granted>>
    PROVE  Places'
<1> USE DEF jobVars, writeVars
<1> DEFINE srow == [serving[w] EXCEPT ![k] = @ - 1]
           arow == [answers[w] EXCEPT ![k] = @ + 1]
<1>0. /\ serving \in [Worker -> [Job -> Nat]] /\ answers \in [Worker -> [Job -> Nat]]
      /\ serving[w] \in [Job -> Nat] /\ answers[w] \in [Job -> Nat]
      /\ serving[w][k] > 0
  BY DEF Answer, TypeOK, DispatchTypeOK
<1>1. /\ serving' = [serving EXCEPT ![w] = srow] /\ answers' = [answers EXCEPT ![w] = arow]
      /\ UNCHANGED <<type, posted, picked, started_jobs, write_queue, timeouts, valid>>
  BY DEF Answer
<1>2. \A j \in Job : /\ srow[j] = IF j = k THEN serving[w][j] - 1 ELSE serving[w][j]
                     /\ arow[j] = IF j = k THEN answers[w][j] + 1 ELSE answers[w][j]
  BY <1>0
<1> HIDE DEF srow, arow
<1>3. \A v \in Worker, j \in Job :
          /\ serving'[v][j] = IF v = w /\ j = k THEN serving[v][j] - 1 ELSE serving[v][j]
          /\ answers'[v][j] = IF v = w /\ j = k THEN answers[v][j] + 1 ELSE answers[v][j]
  BY <1>0, <1>1, <1>2
<1>4. ASSUME NEW j \in Job \ {k} PROVE Same(j)
  BY <1>1, <1>3, SMT DEF Same
<1>5. type[k] = "worker_push_request"
  BY <1>0, SMT DEF Places, Asked
<1>6. Asked(k)'
  BY <1>1, <1>5 DEF Asked
<1>7. ASSUME NEW s \in Stage, NEW u \in Worker \cup {Nobody}, At(k, s, u) PROVE At(k, "answers", w)'
  <2>0. \A v \in Worker : /\ serving[v][k] = 0 \/ (serving[v][k] = 1 /\ s = "serving" /\ v = u)
                          /\ answers[v][k] = 0 \/ (answers[v][k] = 1 /\ s = "answers" /\ v = u)
    BY <1>7 DEF At
  <2>1. s = "serving" /\ u = w /\ serving[w][k] = 1
    BY <1>0, <2>0, SMT
  <2>2. \A v \in Worker : serving'[v][k] = 0 /\ (answers'[v][k] = 0 \/ (answers'[v][k] = 1 /\ v = w))
    BY <1>3, <2>0, <2>1, SMT
  <2> QED
    BY <1>1, <1>7, <2>1, <2>2 DEF At
<1> QED
  BY <1>1, <1>4, <1>6, <1>7, OneMoves DEF Places, Stage, AllOpen

\* ... and the answer is read.
LEMMA ResponseMoves ==
    ASSUME TypeOK, Places, NEW w \in Worker, NEW k \in Job, ReadResponse(w, k),
           answered' = answered \cup {k}, granted' \in {granted, granted \cup {k}}
    PROVE  Places' /\ (AllOpen => k \notin granted)
<1> USE DEF writeVars
<1> DEFINE arow == [answers[w] EXCEPT ![k] = @ - 1]
<1>0. answers \in [Worker -> [Job -> Nat]] /\ answers[w] \in [Job -> Nat] /\ answers[w][k] > 0
  BY DEF ReadResponse, TypeOK, DispatchTypeOK
<1>1. /\ answers' = [answers EXCEPT ![w] = arow]
      /\ UNCHANGED <<type, posted, picked, started_jobs, write_queue, serving, timeouts, valid>>
  BY DEF ReadResponse
<1>2. \A j \in Job : arow[j] = IF j = k THEN answers[w][j] - 1 ELSE answers[w][j]
  BY <1>0
<1> HIDE DEF arow
<1>3. \A v \in Worker, j \in Job :
          answers'[v][j] = IF v = w /\ j = k THEN answers[v][j] - 1 ELSE answers[v][j]
  BY <1>0, <1>1, <1>2
<1>4. ASSUME NEW j \in Job \ {k} PROVE Same(j)
  BY <1>1, <1>3, SMT DEF Same
<1>5. type[k] = "worker_push_request"
  BY <1>0, SMT DEF Places, Asked
<1>6. Asked(k)'
  BY <1>1, <1>5 DEF Asked
<1>7. ASSUME NEW s \in Stage, NEW u \in Worker \cup {Nobody}, At(k, s, u)
      PROVE  At(k, "answered", w)' /\ k \notin granted
  <2>0. \A v \in Worker : answers[v][k] = 0 \/ (answers[v][k] = 1 /\ s = "answers" /\ v = u)
    BY <1>7 DEF At
  <2>1. s = "answers" /\ u = w /\ answers[w][k] = 1
    BY <1>0, <2>0, SMT
  <2>2. \A v \in Worker : answers'[v][k] = 0
    BY <1>3, <2>0, <2>1, SMT
  <2> QED
    BY <1>1, <1>5, <1>7, <2>1, <2>2 DEF At
<1>8. AllOpen => k \notin granted
  BY <1>7 DEF Places
<1> QED
  BY <1>1, <1>4, <1>6, <1>7, <1>8, OneMoves DEF Places, Stage, AllOpen

\* What was with a worker, or on its way back, when its connection was lost is
\* nowhere then.
LEMMA LossMoves ==
    ASSUME TypeOK, Places, NEW w \in Worker, ConnectionLost(w) \/ ReadBodyError(w),
           UNCHANGED <<answered, granted>>
    PROVE  Places'
<1> USE DEF jobVars, writeVars
<1>1. UNCHANGED <<type, posted, picked, started_jobs, write_queue, valid>>
  BY DEF ConnectionLost, ReadBodyError
<1>2. \A v \in Worker, j \in Job : /\ serving'[v][j] \in {serving[v][j], 0}
                                   /\ answers'[v][j] \in {answers[v][j], 0}
                                   /\ timeouts'[v][j] \in {timeouts[v][j], 0}
  <2>1. /\ serving' \in {serving, [serving EXCEPT ![w] = Nothing]}
        /\ answers' \in {answers, [answers EXCEPT ![w] = Nothing]}
        /\ timeouts' \in {timeouts, [timeouts EXCEPT ![w] = Nothing]}
    BY DEF ConnectionLost, ReadBodyError
  <2>2. /\ serving \in [Worker -> [Job -> Nat]] /\ answers \in [Worker -> [Job -> Nat]]
        /\ timeouts \in [Worker -> [Job -> Nat]]
        /\ \A j \in Job : Nothing[j] = 0
    BY DEF TypeOK, DispatchTypeOK, Nothing
  <2> QED
    BY <2>1, <2>2
<1>3. ASSUME NEW j \in Job PROVE Asked(j)'
  BY <1>1, <1>2 DEF Places, Asked
<1>4. ASSUME NEW j \in Job, NEW s \in Stage, NEW u \in Worker \cup {Nobody}, At(j, s, u)
      PROVE  At(j, s, u)'
  BY <1>1, <1>2, <1>4, SMT DEF At
<1> QED
  BY <1>1, <1>3, <1>4 DEF Places, AllOpen

\* A worker that closes has its jobs posted again; there may be two of each.
LEMMA CloseMoves ==
    ASSUME TypeOK, Places, NEW w \in Worker, worker_dereg(w) \/ ReadError(w) \/ WriteError(w),
           UNCHANGED <<answered, granted>>
    PROVE  Places'
<1> USE DEF writeVars
<1>1. close(w) /\ UNCHANGED <<type, picked>> /\ started_jobs' = started_jobs
  BY DEF worker_dereg, ReadError, WriteError, close
<1>2. ~AllOpen'
  BY <1>1 DEF close, AllOpen, TypeOK, DispatchTypeOK
<1>3. \A v \in Worker, j \in Job : /\ serving'[v][j] \in {serving[v][j], 0}
                                   /\ answers'[v][j] \in {answers[v][j], 0}
                                   /\ timeouts'[v][j] \in {timeouts[v][j], 0}
  <2>1. /\ serving' \in {serving, [serving EXCEPT ![w] = Nothing]}
        /\ answers' \in {answers, [answers EXCEPT ![w] = Nothing]}
        /\ timeouts' \in {timeouts, [timeouts EXCEPT ![w] = Nothing]}
    BY <1>1 DEF worker_dereg, ReadError, WriteError, close
  <2>2. /\ serving \in [Worker -> [Job -> Nat]] /\ answers \in [Worker -> [Job -> Nat]]
        /\ timeouts \in [Worker -> [Job -> Nat]]
        /\ \A j \in Job : Nothing[j] = 0
    BY DEF TypeOK, DispatchTypeOK, Nothing
  <2> QED
    BY <2>1, <2>2
<1>4. \A v \in Worker : Elems(write_queue'[v]) \subseteq Elems(write_queue[v])
  <2>1. write_queue \in [Worker -> Seq(Job)]
    BY DEF TypeOK, DispatchTypeOK
  <2>2. CASE WriteError(w)
    BY <2>1, <2>2, Popped DEF WriteError
  <2>3. CASE worker_dereg(w) \/ ReadError(w)
    BY <2>3 DEF worker_dereg, ReadError
  <2> QED
    BY <2>2, <2>3
<1>5. ASSUME NEW j \in Job PROVE Asked(j)'
  <2>1. Asked(j) /\ posted'[j] = posted[j] + IF j \in started_jobs[w] THEN 1 ELSE 0
    BY <1>1 DEF close, Reschedule, Places
  <2>2. type[j] = "new" => posted'[j] = 0
    BY <2>1, SMT DEF Asked
  <2> QED
    BY <1>1, <1>3, <1>4, <2>1, <2>2 DEF Asked
<1> QED
  BY <1>2, <1>5 DEF Places

\* A timer answers, or its answer is read: the request stays where it is.
LEMMA TimerMoves ==
    ASSUME TypeOK, Places, NEW w \in Worker, NEW k \in Job, granted' = granted,
           \/ AnswerTimeout(w, k) /\ answered' = answered
           \/ ReadTimeout(w, k) /\ answered' = answered \cup {k}
    PROVE  Places'
<1> USE DEF jobVars, writeVars
<1>0. /\ serving \in [Worker -> [Job -> Nat]] /\ timeouts \in [Worker -> [Job -> Nat]]
      /\ serving[w][k] \in Nat /\ timeouts[w][k] \in Nat
      /\ serving[w][k] > 0 \/ timeouts[w][k] > 0
  <2>1. serving \in [Worker -> [Job -> Nat]] /\ timeouts \in [Worker -> [Job -> Nat]]
    BY DEF TypeOK, DispatchTypeOK
  <2>2. serving[w][k] > 0 \/ timeouts[w][k] > 0
    BY DEF AnswerTimeout, ReadTimeout
  <2> QED
    BY <2>1, <2>2
<1>1. UNCHANGED <<type, posted, picked, started_jobs, write_queue, serving, answers, valid>>
  BY DEF AnswerTimeout, ReadTimeout
<1>2. ASSUME NEW v \in Worker, NEW j \in Job, j # k PROVE timeouts'[v][j] = timeouts[v][j]
  <2>1. PICK n : timeouts' = [timeouts EXCEPT ![w][k] = n]
    BY DEF AnswerTimeout, ReadTimeout
  <2> QED
    BY <1>0, <1>2, <2>1
<1>3. ASSUME NEW j \in Job \ {k} PROVE Same(j)
  BY <1>1, <1>2 DEF Same
<1>4. type[k] = "worker_push_request"
  <2>1. serving[w][k] # 0 \/ timeouts[w][k] # 0
    BY <1>0, SMT
  <2> QED
    BY <2>1 DEF Places, Asked
<1>5. Asked(k)'
  BY <1>1, <1>4 DEF Asked
<1>6. ASSUME NEW s \in Stage, NEW u \in Worker \cup {Nobody}, At(k, s, u) PROVE At(k, s, u)'
  BY <1>1, <1>6 DEF At
<1> QED
  BY <1>1, <1>3, <1>5, <1>6, OneMoves DEF Places, AllOpen

\* The other steps of the dispatch leave the jobs where they are.
LEMMA RestStays ==
    ASSUME TypeOK, Places, UNCHANGED <<answered, granted>>,
           \/ \E k \in Job : proxy_send(k)
           \/ \E w \in Worker, k \in Job : on_worker_response(w, k)
           \/ \E w \in Worker : add_worker(w) \/ WriterStops(w)
    PROVE  Places'
<1> USE DEF jobVars, connVars, writeVars
<1>1. UNCHANGED <<type, posted, picked, write_queue, serving, answers, timeouts>>
  BY DEF proxy_send, on_worker_response, add_worker, WriterStops
<1>2. \A v \in Worker : started_jobs'[v] \subseteq started_jobs[v]
  <2>1. \/ started_jobs' = started_jobs
        \/ \E w \in Worker, k \in Job : started_jobs' = [started_jobs EXCEPT ![w] = @ \ {k}]
    BY DEF proxy_send, on_worker_response, add_worker, WriterStops
  <2>2. started_jobs \in [Worker -> SUBSET Job]
    BY DEF TypeOK, DispatchTypeOK
  <2> QED
    BY <2>1, <2>2
<1>3. AllOpen' => AllOpen
  BY DEF AllOpen, proxy_send, on_worker_response, add_worker, WriterStops, TypeOK, DispatchTypeOK
<1>4. \A j \in Job : Same(j)
  BY <1>1, <1>2 DEF Same
<1>5. write_queue' = write_queue
  BY <1>1
<1> QED
  BY <1>3, <1>4, <1>5, SameStays DEF Places

\* Every step keeps the jobs' places.
LEMMA PlacesStep == TypeOK /\ Places /\ [Next]_vars => Places'
<1> SUFFICES ASSUME TypeOK, Places, [Next]_vars PROVE Places'
  OBVIOUS
<1>1. ASSUME NEW j \in Job, start_trigger_post(j) PROVE Places'
  <2>1. answered' = answered
    BY <1>1 DEF start_trigger_post, Refused, Open, DeleteFile, Rename, Close, Lock, Access, history
  <2>2. \E t \in {"worker_push_request", "proxy_send"} :
            /\ schedule(j, t)
            /\ granted' = granted \/ (granted' = granted \cup {j} /\ t = "proxy_send")
    BY <1>1 DEF start_trigger_post, Refused, Open, DeleteFile, Rename, Close, Lock, Access, history
  <2> QED
    BY <2>1, <2>2, ScheduleMoves
<1>2. ASSUME NEW j \in Job, NEW w \in Worker, Answered(w, j) PROVE Places'
  BY <1>2, Read, ResponseMoves, TimerMoves
<1>3. ASSUME Dispatch, UNCHANGED <<tables, history>> PROVE Places'
  <2>1. UNCHANGED <<answered, granted>>
    BY <1>3 DEF history
  <2>2. ASSUME NEW j \in Job, process_job(j) PROVE Places'
    BY <2>1, <2>2, ProcessMoves
  <2>3. ASSUME NEW j \in Job, NEW w \in Worker, start_write(j, w) PROVE Places'
    BY <2>1, <2>3, StartWriteMoves
  <2>4. ASSUME NEW j \in Job, NEW w \in Worker, Answer(w, j) PROVE Places'
    BY <2>1, <2>4, AnswerMoves
  <2>5. ASSUME NEW w \in Worker, WriteDone(w) PROVE Places'
    BY <2>1, <2>5, WriteMoves
  <2>6. ASSUME NEW w \in Worker, ConnectionLost(w) \/ ReadBodyError(w) PROVE Places'
    BY <2>1, <2>6, LossMoves
  <2>7. ASSUME NEW w \in Worker, worker_dereg(w) \/ ReadError(w) \/ WriteError(w) PROVE Places'
    BY <2>1, <2>7, CloseMoves
  <2>8. CASE \/ \E k \in Job : proxy_send(k)
             \/ \E w \in Worker, k \in Job : on_worker_response(w, k)
             \/ \E w \in Worker : add_worker(w) \/ WriterStops(w)
    BY <2>1, <2>8, RestStays
  <2>9. ASSUME NEW j \in Job, NEW w \in Worker, AnswerTimeout(w, j) PROVE Places'
    BY <2>1, <2>9, TimerMoves
  <2> QED
    BY <1>3, <2>2, <2>3, <2>4, <2>5, <2>6, <2>7, <2>8, <2>9 DEF Dispatch
<1>4. CASE UNCHANGED vars
  <2>1. UNCHANGED <<type, posted, picked, answered, granted, started_jobs, write_queue, serving,
                    answers, timeouts, valid>>
    BY <1>4 DEF vars, dispatchVars, jobVars, connVars, writeVars, history
  <2>2. \A j \in Job : Same(j)
    BY <2>1 DEF Same
  <2> QED
    BY <2>1, <2>2, SameStays DEF Places, AllOpen
<1> QED
  BY <1>1, <1>2, <1>3, <1>4 DEF Next

-----------------------------------------------------------------------------
\* Locks are given back.

\* There are finitely many requests, so those under way can be counted.
LEMMA UnderWayFinite ==
    ASSUME NEW o, NEW f
    PROVE  IsFiniteSet(UnderWay(o, f)) /\ Cardinality(UnderWay(o, f)) \in Nat
<1>1. UnderWay(o, f) \subseteq Job
  BY DEF UnderWay
<1> QED
  BY <1>1, OpenFilesAssumption, FS_Subset, FS_CardinalityType

\* A step in which no open of f is answered leaves those under way there.
LEMMA UnderWayStays ==
    ASSUME NEW f \in File, UnderWay("open", f) \subseteq UnderWay("open", f)',
           TypeOK, locked_files_for_open'[f] = locked_files_for_open[f],
           locked_files_for_open[f] <= Cardinality(UnderWay("open", f))
    PROVE  locked_files_for_open'[f] <= Cardinality(UnderWay("open", f)')
<1>1. IsFiniteSet(UnderWay("open", f)')
  <2>1. UnderWay("open", f)' \subseteq Job
    BY DEF UnderWay
  <2> QED
    BY <2>1, OpenFilesAssumption, FS_Subset
<1>2. Cardinality(UnderWay("open", f)) <= Cardinality(UnderWay("open", f)')
  BY <1>1, FS_Subset
<1>3. Cardinality(UnderWay("open", f)) \in Nat /\ Cardinality(UnderWay("open", f)') \in Nat
  BY <1>1, UnderWayFinite, FS_CardinalityType
<1>4. locked_files_for_open[f] \in Nat
  BY DEF TypeOK
<1> QED
  BY <1>2, <1>3, <1>4, SMT

\* start_trigger_post leaves the requests that are with a worker there, and
\* adds its own if it sends it to one.
LEMMA PostUnderWay ==
    ASSUME TypeOK, NEW j \in Job, NEW t, schedule(j, t), answered' = answered, op' = op, NEW o, NEW f
    PROVE  /\ j \notin UnderWay(o, f)
           /\ UnderWay(o, f) \subseteq UnderWay(o, f)'
           /\ UnderWay(o, f)' \subseteq UnderWay(o, f) \cup {j}
           /\ t # "worker_push_request" \/ op[j] # o \/ FileOf[j] # f
                 => UnderWay(o, f)' = UnderWay(o, f)
           /\ t = "worker_push_request" /\ op[j] = o /\ FileOf[j] = f /\ j \notin answered
                 => UnderWay(o, f)' = UnderWay(o, f) \cup {j}
<1>1. type[j] = "new" /\ type' = [type EXCEPT ![j] = t] /\ type \in [Job -> {"new", "worker_push_request", "proxy_send"}]
  BY DEF schedule, TypeOK, DispatchTypeOK
<1>2. \A k \in Job : type'[k] = IF k = j THEN t ELSE type[k]
  BY <1>1
<1> QED
  BY <1>1, <1>2 DEF UnderWay

\* An answer takes its request away.
LEMMA AnswerUnderWay ==
    ASSUME NEW j \in Job, type' = type, answered' = answered \cup {j}, op' = op, NEW o, NEW f
    PROVE  /\ op[j] = o /\ FileOf[j] = f => UnderWay(o, f)' = UnderWay(o, f) \ {j}
           /\ op[j] # o \/ FileOf[j] # f => UnderWay(o, f)' = UnderWay(o, f)
  BY SMT DEF UnderWay

\* No step leaves a lock without its open: an answer takes off the open's part
\* of the lock, or all of it.
LEMMA LockStep == TypeOK /\ Places /\ NoGhostLock /\ [Next]_vars => NoGhostLock'
<1> SUFFICES ASSUME TypeOK, Places, NoGhostLock, [Next]_vars, NEW f \in File
             PROVE  locked_files_for_open'[f] <= Cardinality(UnderWay("open", f)')
  BY DEF NoGhostLock
<1> DEFINE U == UnderWay("open", f)
<1>0. /\ locked_files_for_open[f] \in Nat /\ IsFiniteSet(U) /\ Cardinality(U) \in Nat
      /\ locked_files_for_open[f] <= Cardinality(U)
  BY UnderWayFinite DEF TypeOK, NoGhostLock
<1>1. ASSUME NEW j \in Job, start_trigger_post(j), op' = op
      PROVE  locked_files_for_open'[f] <= Cardinality(U')
  <2>1. PICK t \in {"worker_push_request", "proxy_send"} : schedule(j, t)
    BY <1>1, Scheduled
  <2>2. answered' = answered
    BY <1>1 DEF start_trigger_post, Refused, Open, DeleteFile, Rename, Close, Lock, Access, history
  <2>3. U \subseteq U' /\ j \notin U
    BY <1>1, <2>1, <2>2, PostUnderWay
  <2>4. CASE locked_files_for_open'[f] = locked_files_for_open[f]
    BY <1>0, <2>3, <2>4, UnderWayStays
  <2>5. CASE locked_files_for_open'[f] # locked_files_for_open[f]
    <3>1. /\ op[j] = "open" /\ FileOf[j] = f /\ schedule(j, "worker_push_request")
          /\ locked_files_for_open'[f] = locked_files_for_open[f] + 1
      BY <1>1, <2>5 DEF start_trigger_post, Refused, Open, DeleteFile, Rename, Close, Lock, Access,
                        tables, Admitted, Request, TypeOK
    <3>2. j \notin answered
      BY <3>1 DEF schedule, Places, Asked
    <3>3. U' = U \cup {j}
      BY <1>1, <2>2, <3>1, <3>2, PostUnderWay
    <3>4. Cardinality(U') = Cardinality(U) + 1
      BY <1>0, <2>3, <3>3, FS_AddElement
    <3> QED
      BY <1>0, <3>1, <3>4, SMT
  <2> QED
    BY <2>4, <2>5
<1>2. ASSUME NEW j \in Job, NEW w \in Worker, Answered(w, j), op' = op
      PROVE  locked_files_for_open'[f] <= Cardinality(U')
  <2>1. answered' = answered \cup {j} /\ type' = type
    BY <1>2, Read
  <2>2. CASE op[j] = "open" /\ FileOf[j] = f
    <3>1. PICK success \in BOOLEAN : OpenAnswered(w, j, success)
      BY <1>2, <2>2 DEF Answered, RenameAnswered, OtherAnswered
    <3>2. locked_files_for_open'[f] = LockAfterOpen(f, success)
      BY <2>2, <3>1 DEF OpenAnswered, TypeOK
    <3>3. locked_files_for_open'[f] = 0 \/ locked_files_for_open'[f] = locked_files_for_open[f] - 1
      BY <3>2 DEF LockAfterOpen
    <3>4. U' = U \ {j}
      BY <1>2, <2>1, <2>2, AnswerUnderWay
    <3>5. /\ Cardinality(U') \in Nat
          /\ Cardinality(U') = Cardinality(U) \/ Cardinality(U') = Cardinality(U) - 1
      BY <1>0, <3>4, FS_RemoveElement, FS_CardinalityType
    <3> QED
      BY <1>0, <3>3, <3>5, SMT
  <2>3. CASE ~(op[j] = "open" /\ FileOf[j] = f)
    <3>1. U' = U
      BY <1>2, <2>1, <2>3, AnswerUnderWay
    <3>2. locked_files_for_open'[f] = locked_files_for_open[f]
      BY <1>2, <2>3 DEF Answered, OpenAnswered, RenameAnswered, OtherAnswered, TypeOK, tables
    <3> QED
      BY <1>0, <3>1, <3>2
  <2> QED
    BY <2>2, <2>3
<1>3. CASE \/ Dispatch /\ UNCHANGED <<tables, history, op>>
           \/ UNCHANGED vars
  <2>1. UNCHANGED <<type, answered, op, locked_files_for_open>>
    BY <1>3, TypeKept, MixKept DEF vars, dispatchVars, jobVars, tables, history
  <2>2. U' = U
    BY <2>1 DEF UnderWay
  <2> QED
    BY <1>0, <2>1, <2>2
<1> QED
  BY <1>1, <1>2, <1>3, MixKept DEF Next

\* A directory stays locked only as long as a rename out of it is under way: the
\* answer, whatever it says, takes the lock.
LEMMA DirectoryLockStep ==
    TypeOK /\ Places /\ NoGhostDirectoryLock /\ [Next]_vars => NoGhostDirectoryLock'
<1> DEFINE For(d, j) == \/ \E f \in File : j \in UnderWay("rename", f) /\ From[j] = d
                        \/ op[j] \in {"lock", "unlock"} /\ DirOf[j] = d /\ type[j] # "new"
<1> SUFFICES ASSUME TypeOK, Places, NoGhostDirectoryLock, [Next]_vars,
                    NEW d \in locked_directories_for_rename'
             PROVE  \E j \in Job : For(d, j)'
  BY SMT DEF NoGhostDirectoryLock, UnderWay
<1>0. d \in locked_directories_for_rename => \E j \in Job : For(d, j)
  BY DEF NoGhostDirectoryLock, UnderWay
<1>1. ASSUME NEW j \in Job, start_trigger_post(j), op' = op PROVE \E k \in Job : For(d, k)'
  <2>1. PICK t \in {"worker_push_request", "proxy_send"} : schedule(j, t)
    BY <1>1, Scheduled
  <2>2. answered' = answered
    BY <1>1 DEF start_trigger_post, Refused, Open, DeleteFile, Rename, Close, Lock, Access, history
  <2>3. \A k \in Job : type'[k] = IF k = j THEN t ELSE type[k]
    BY <2>1 DEF schedule, TypeOK, DispatchTypeOK
  <2>4. type[j] = "new" /\ j \notin answered
    BY <2>1 DEF schedule, Places, Asked
  <2>5. CASE d \in locked_directories_for_rename
    <3>1. PICK k \in Job : For(d, k)
      BY <1>0, <2>5
    <3>2. For(d, k)'
      BY <1>1, <2>2, <2>3, <2>4, <3>1 DEF UnderWay
    <3> QED
      BY <3>2
  <2>6. CASE d \notin locked_directories_for_rename
    <3>1. Rename(j) \/ Lock(j)
      BY <1>1, <2>6 DEF start_trigger_post, Refused, Open, DeleteFile, Close, Access, tables
    <3>2. CASE Rename(j)
      <4>1. op[j] = "rename" /\ From[j] = d /\ schedule(j, "worker_push_request")
        BY <2>6, <3>2 DEF Rename, Admitted, Request
      <4>2. type'[j] = "worker_push_request"
        BY <4>1 DEF schedule, TypeOK, DispatchTypeOK
      <4>3. FileOf[j] \in File
        BY OpenFilesAssumption
      <4> QED
        BY <1>1, <2>2, <2>4, <4>1, <4>2, <4>3 DEF UnderWay
    <3>3. CASE Lock(j)
      <4>1. op[j] \in {"lock", "unlock"} /\ DirOf[j] = d
        BY <2>6, <3>3 DEF Lock, Admitted, Request
      <4> QED
        BY <1>1, <2>3, <4>1
    <3> QED
      BY <3>1, <3>2, <3>3
  <2> QED
    BY <2>5, <2>6
<1>2. ASSUME NEW j \in Job, NEW w \in Worker, Answered(w, j), op' = op PROVE \E k \in Job : For(d, k)'
  <2>1. answered' = answered \cup {j} /\ type' = type
    BY <1>2, Read
  <2>2. d \in locked_directories_for_rename /\ (op[j] = "rename" => From[j] # d)
    BY <1>2 DEF Answered, OpenAnswered, RenameAnswered, OtherAnswered, tables
  <2>3. PICK k \in Job : For(d, k)
    BY <1>0, <2>2
  <2> QED
    BY <1>2, <2>1, <2>2, <2>3 DEF UnderWay
<1>3. CASE \/ Dispatch /\ UNCHANGED <<tables, history, op>>
           \/ UNCHANGED vars
  <2>1. UNCHANGED <<type, answered, op, locked_directories_for_rename>>
    BY <1>3, TypeKept, MixKept DEF vars, dispatchVars, jobVars, tables, history
  <2> QED
    BY <1>0, <2>1 DEF UnderWay
<1> QED
  BY <1>1, <1>2, <1>3, MixKept DEF Next

-----------------------------------------------------------------------------
\* The counts, and the lock of a file that no open has been granted for.

\* Requests on f.
On(S, f) == {j \in S : FileOf[j] = f}

\* Another grant counts for its file.
LEMMA CountedOne ==
    ASSUME NEW S \in SUBSET Job, NEW j \in Job, j \notin S, NEW f
    PROVE  /\ Cardinality(On(S, f)) \in Nat
           /\ FileOf[j] = f => Cardinality(On(S \cup {j}, f)) = Cardinality(On(S, f)) + 1
           /\ FileOf[j] # f => Cardinality(On(S \cup {j}, f)) = Cardinality(On(S, f))
<1>1. IsFiniteSet(On(S, f)) /\ j \notin On(S, f)
  <2>1. On(S, f) \subseteq Job
    BY DEF On
  <2> QED
    BY <2>1, OpenFilesAssumption, FS_Subset DEF On
<1>2. Cardinality(On(S, f)) \in Nat
  BY <1>1, FS_CardinalityType
<1>3. FileOf[j] = f => On(S \cup {j}, f) = On(S, f) \cup {j}
  BY DEF On
<1>4. FileOf[j] # f => On(S \cup {j}, f) = On(S, f)
  BY DEF On
<1> QED
  BY <1>1, <1>2, <1>3, <1>4, FS_AddElement

\* Opens of f that were granted, or answered twice.
Settled(f) == {o \in granted \cup again : op[o] = "open" /\ FileOf[o] = f}

\* What was granted or closed was asked for; the count of a file is not too small;
\* and until an open of it is granted or answered twice, each open that is with a
\* worker has its part of the lock.
Tallied ==
    /\ \A j \in granted \cup closed : type[j] # "new"
    /\ \A f \in File : opened_files[f] >= Cardinality(On(granted, f)) - Cardinality(On(closed, f))
    /\ \A f \in File : Settled(f) = {}
          => Cardinality(UnderWay("open", f)) <= locked_files_for_open[f]

\* The count of a file is right.
Exact ==
    \A f \in File : opened_files[f] = Cardinality(On(granted, f)) - Cardinality(On(closed, f))

\* Counts are numbers.
LEMMA CountsTyped ==
    ASSUME TypeOK, NEW f \in File
    PROVE  /\ opened_files[f] \in Int
           /\ Cardinality(On(granted, f)) \in Int /\ Cardinality(On(closed, f)) \in Int
           /\ Cardinality(On(granted, f)) - Cardinality(On(closed, f)) \in Int
<1>1. On(granted, f) \subseteq Job /\ On(closed, f) \subseteq Job
  BY DEF On, TypeOK
<1>2. Cardinality(On(granted, f)) \in Nat /\ Cardinality(On(closed, f)) \in Nat
  BY <1>1, OpenFilesAssumption, FS_Subset, FS_CardinalityType
<1>3. opened_files[f] \in Nat
  BY DEF TypeOK
<1> QED
  BY <1>2, <1>3, SMT

\* valid_ is never set again.
LEMMA OpenBefore == TypeOK /\ [Next]_vars /\ AllOpen' => AllOpen
<1> SUFFICES ASSUME TypeOK, [Next]_vars, NEW w \in Worker, valid[w] = "no" PROVE valid'[w] = "no"
  BY DEF AllOpen
<1> USE DEF TypeOK, DispatchTypeOK
<1>1. ASSUME NEW v \in Worker, add_worker(v) PROVE valid'[w] = "no"
  BY <1>1 DEF add_worker
<1>2. ASSUME NEW v \in Worker, close(v) PROVE valid'[w] = "no"
  BY <1>2 DEF close
<1>3. CASE UNCHANGED valid
  BY <1>3
<1>4. [DispatchNext]_dispatchVars
  BY DispatchSteps
<1> QED
  BY <1>1, <1>2, <1>3, <1>4, ZenonT(30)
     DEF DispatchNext, Dispatch, dispatchVars, connVars, process_job, proxy_send, start_write,
         on_worker_response, Answer, AnswerTimeout, worker_dereg, ConnectionLost, ReadError,
         ReadBodyError, WriteDone, WriteError, WriterStops, ReadResponse, ReadTimeout, schedule

\* What a request does to the counts: an open that the proxy grants adds one, a
\* close takes one off.
LEMMA PostCounts ==
    ASSUME TypeOK, NEW j \in Job, start_trigger_post(j)
    PROVE  \/ /\ granted' = granted \cup {j} /\ closed' = closed
              /\ opened_files' = [opened_files EXCEPT ![FileOf[j]] = opened_files[FileOf[j]] + 1]
           \/ /\ granted' = granted /\ closed' = closed \cup {j}
              /\ opened_files' = [opened_files EXCEPT ![FileOf[j]] = opened_files[FileOf[j]] - 1]
           \/ UNCHANGED <<granted, closed, opened_files>>
<1>1. CASE Open(j)
  BY <1>1 DEF Open
<1>2. CASE Close(j)
  BY <1>2 DEF Close
<1> QED
  BY <1>1, <1>2 DEF start_trigger_post, Refused, DeleteFile, Rename, Lock, Access, history, tables

\* So it moves the count of a file as it moves the number of those who hold it.
LEMMA PostHolds ==
    ASSUME TypeOK, Tallied, NEW j \in Job, start_trigger_post(j), type[j] = "new", NEW f \in File
    PROVE  \E d \in {-1, 0, 1} :
              /\ opened_files'[f] = opened_files[f] + d
              /\ Cardinality(On(granted', f)) - Cardinality(On(closed', f))
                    = Cardinality(On(granted, f)) - Cardinality(On(closed, f)) + d
<1>1. j \notin granted /\ j \notin closed /\ granted \in SUBSET Job /\ closed \in SUBSET Job
  BY DEF Tallied, TypeOK
<1>2. opened_files \in [File -> Nat] /\ FileOf[j] \in File /\ opened_files[f] \in Int
  BY OpenFilesAssumption, SMT DEF TypeOK
<1>3. /\ Cardinality(On(granted, f)) \in Int /\ Cardinality(On(closed, f)) \in Int
      /\ FileOf[j] = f => /\ Cardinality(On(granted \cup {j}, f)) = Cardinality(On(granted, f)) + 1
                          /\ Cardinality(On(closed \cup {j}, f)) = Cardinality(On(closed, f)) + 1
      /\ FileOf[j] # f => /\ Cardinality(On(granted \cup {j}, f)) = Cardinality(On(granted, f))
                          /\ Cardinality(On(closed \cup {j}, f)) = Cardinality(On(closed, f))
  <2>1. \A n \in Nat : n \in Int
    BY SMT
  <2> QED
    BY <1>1, <2>1, CountedOne
<1>4. CASE /\ granted' = granted \cup {j} /\ closed' = closed
           /\ opened_files' = [opened_files EXCEPT ![FileOf[j]] = opened_files[FileOf[j]] + 1]
  <2>1. opened_files'[f] = IF FileOf[j] = f THEN opened_files[f] + 1 ELSE opened_files[f]
    BY <1>2, <1>4
  <2> QED
    BY <1>2, <1>3, <1>4, <2>1, SMT
<1>5. CASE /\ granted' = granted /\ closed' = closed \cup {j}
           /\ opened_files' = [opened_files EXCEPT ![FileOf[j]] = opened_files[FileOf[j]] - 1]
  <2>1. opened_files'[f] = IF FileOf[j] = f THEN opened_files[f] - 1 ELSE opened_files[f]
    BY <1>2, <1>5
  <2> QED
    BY <1>2, <1>3, <1>5, <2>1, SMT
<1>6. CASE UNCHANGED <<granted, closed, opened_files>>
  BY <1>2, <1>3, <1>6, SMT
<1> QED
  BY <1>4, <1>5, <1>6, PostCounts

\* A request that comes is new.
LEMMA PostNew ==
    ASSUME TypeOK, NEW j \in Job, start_trigger_post(j)
    PROVE  \E t \in {"worker_push_request", "proxy_send"} :
              /\ schedule(j, t) /\ type[j] = "new"
              /\ \A k \in Job : type'[k] = IF k = j THEN t ELSE type[k]
<1>1. PICK t \in {"worker_push_request", "proxy_send"} : schedule(j, t)
  BY Scheduled
<1>2. type[j] = "new" /\ \A k \in Job : type'[k] = IF k = j THEN t ELSE type[k]
  BY <1>1 DEF schedule, TypeOK, DispatchTypeOK
<1> QED
  BY <1>1, <1>2

\* A request that comes: an open that is sent to a worker takes its part of the lock.
LEMMA PostKept ==
    ASSUME TypeOK, Places, Tallied, NEW j \in Job, start_trigger_post(j), op' = op
    PROVE  Tallied'
<1>1. PICK t \in {"worker_push_request", "proxy_send"} :
          /\ schedule(j, t) /\ type[j] = "new"
          /\ \A k \in Job : type'[k] = IF k = j THEN t ELSE type[k]
  BY PostNew
<1>2. answered' = answered /\ again' = again
  BY DEF start_trigger_post, Refused, Open, DeleteFile, Rename, Close, Lock, Access, history
<1>3. j \notin answered /\ granted \subseteq granted'
  BY <1>1, PostCounts DEF Places, Asked
<1>4. \A k \in granted' \cup closed' : type'[k] # "new"
  BY <1>1, PostCounts DEF Tallied, TypeOK
<1>5. ASSUME NEW f \in File
      PROVE  opened_files'[f] >= Cardinality(On(granted', f)) - Cardinality(On(closed', f))
  <2> DEFINE held == Cardinality(On(granted, f)) - Cardinality(On(closed, f))
  <2>1. opened_files[f] \in Int /\ held \in Int /\ opened_files[f] >= held
    BY CountsTyped DEF Tallied
  <2>2. PICK d \in {-1, 0, 1} :
            /\ opened_files'[f] = opened_files[f] + d
            /\ Cardinality(On(granted', f)) - Cardinality(On(closed', f)) = held + d
    BY <1>1, PostHolds
  <2> HIDE DEF held
  <2> QED
    BY <2>1, <2>2, SMT
<1>6. ASSUME NEW f \in File, Settled(f)' = {}
      PROVE  Cardinality(UnderWay("open", f)') <= locked_files_for_open'[f]
  <2> DEFINE U == UnderWay("open", f)
  <2>1. Settled(f) = {}
    BY <1>2, <1>3, <1>6 DEF Settled
  <2>2. /\ IsFiniteSet(U) /\ Cardinality(U) \in Nat /\ locked_files_for_open[f] \in Nat
        /\ Cardinality(U) <= locked_files_for_open[f]
    BY <2>1, UnderWayFinite DEF Tallied, TypeOK
  <2>3. CASE op[j] = "open" /\ FileOf[j] = f /\ t = "worker_push_request"
    <3>1. locked_files_for_open'[f] = locked_files_for_open[f] + 1
      <4>1. Open(j) \/ Refused(j)
        BY <2>3 DEF start_trigger_post, DeleteFile, Rename, Close, Lock, Access, Admitted, Request
      <4>2. ~schedule(j, "proxy_send")
        BY <1>1, <2>3 DEF schedule, TypeOK, DispatchTypeOK
      <4>3. Open(j)
        BY <4>1, <4>2 DEF Refused
      <4> QED
        BY <2>3, <4>2, <4>3 DEF Open, TypeOK
    <3>2. U' = U \cup {j} /\ j \notin U
      BY <1>1, <1>2, <1>3, <2>3, PostUnderWay, SMTT(30)
    <3>3. Cardinality(U') = Cardinality(U) + 1
      BY <2>2, <3>2, FS_AddElement
    <3> QED
      BY <2>2, <3>1, <3>3, SMT
  <2>4. CASE ~(op[j] = "open" /\ FileOf[j] = f /\ t = "worker_push_request")
    <3>1. U' = U
      BY <1>1, <1>2, <2>4, PostUnderWay, SMTT(30)
    <3>2. locked_files_for_open'[f] \in Nat /\ locked_files_for_open'[f] >= locked_files_for_open[f]
      BY <2>2, SMT DEF start_trigger_post, Refused, Open, DeleteFile, Rename, Close, Lock, Access,
                       tables, TypeOK
    <3> QED
      BY <2>2, <3>1, <3>2, SMT
  <2> QED
    BY <2>3, <2>4
<1> QED
  BY <1>4, <1>5, <1>6 DEF Tallied

\* It keeps an exact count exact.
LEMMA PostExact ==
    ASSUME TypeOK, Tallied, Exact, NEW j \in Job, start_trigger_post(j)
    PROVE  Exact'
<1>1. type[j] = "new"
  BY PostNew
<1>2. ASSUME NEW f \in File
      PROVE  opened_files'[f] = Cardinality(On(granted', f)) - Cardinality(On(closed', f))
  <2>1. opened_files[f] = Cardinality(On(granted, f)) - Cardinality(On(closed, f))
    BY DEF Exact
  <2> QED
    BY <1>1, <2>1, PostHolds
<1> QED
  BY <1>2 DEF Exact

\* What an answer does to the counts: an open that succeeds adds one to its file,
\* and one to those granted, unless it was granted before.
LEMMA AnswerHolds ==
    ASSUME TypeOK, NEW j \in Job, NEW w \in Worker, Answered(w, j), NEW f \in File
    PROVE  /\ closed' = closed
           /\ \/ opened_files'[f] = opened_files[f] /\ On(granted', f) = On(granted, f)
              \/ /\ opened_files'[f] = opened_files[f] + 1 /\ ReadResponse(w, j)
                 /\ \/ On(granted', f) = On(granted, f) /\ j \in granted
                    \/ Cardinality(On(granted', f)) = Cardinality(On(granted, f)) + 1
<1>1. closed' = closed /\ granted \in SUBSET Job /\ opened_files \in [File -> Nat] /\ FileOf[j] \in File
  BY Read, OpenFilesAssumption DEF TypeOK
<1>2. ASSUME NEW success \in BOOLEAN, OpenAnswered(w, j, success)
      PROVE  \/ opened_files'[f] = opened_files[f] /\ On(granted', f) = On(granted, f)
             \/ /\ opened_files'[f] = opened_files[f] + 1 /\ ReadResponse(w, j)
                /\ \/ On(granted', f) = On(granted, f) /\ j \in granted
                   \/ Cardinality(On(granted', f)) = Cardinality(On(granted, f)) + 1
  <2>1. /\ granted' = IF success THEN granted \cup {j} ELSE granted
        /\ opened_files' = [opened_files EXCEPT ![FileOf[j]] =
                               IF success THEN opened_files[FileOf[j]] + 1 ELSE opened_files[FileOf[j]]]
        /\ success => ReadResponse(w, j)
    BY <1>2 DEF OpenAnswered, ReadAnswer
  <2>2. opened_files'[f] = IF success /\ FileOf[j] = f THEN opened_files[f] + 1 ELSE opened_files[f]
    BY <1>1, <2>1
  <2>3. CASE success /\ FileOf[j] = f
    <3>1. CASE j \in granted
      <4>1. granted' = granted
        BY <2>1, <2>3, <3>1
      <4> QED
        BY <2>1, <2>2, <2>3, <3>1, <4>1
    <3>2. CASE j \notin granted
      BY <1>1, <2>1, <2>2, <2>3, <3>2, CountedOne
    <3> QED
      BY <3>1, <3>2
  <2>4. CASE ~(success /\ FileOf[j] = f)
    <3>1. On(granted', f) = On(granted, f)
      BY <2>1, <2>4 DEF On
    <3> QED
      BY <2>2, <2>4, <3>1
  <2> QED
    BY <2>3, <2>4
<1>3. CASE \/ \E success \in BOOLEAN : RenameAnswered(w, j, success)
           \/ OtherAnswered(w, j)
  BY <1>3 DEF RenameAnswered, OtherAnswered, tables
<1> QED
  BY <1>1, <1>2, <1>3 DEF Answered

\* Answers come for what was sent to a worker.
LEMMA AnswerPushed ==
    ASSUME TypeOK, Places, NEW j \in Job, NEW w \in Worker, Answered(w, j)
    PROVE  type[j] = "worker_push_request"
<1>1. answers[w][j] # 0 \/ timeouts[w][j] # 0
  <2>1. answers[w][j] \in Nat /\ timeouts[w][j] \in Nat
    BY DEF TypeOK, DispatchTypeOK
  <2>2. answers[w][j] > 0 \/ timeouts[w][j] > 0
    BY Read DEF ReadResponse, ReadTimeout
  <2> QED
    BY <2>1, <2>2, SMT
<1> QED
  BY <1>1 DEF Places, Asked

\* A worker's answer: an open that succeeds is counted, and one that fails gives its
\* part of the lock back; another answer to it takes another part.
LEMMA AnswerKept ==
    ASSUME TypeOK, Places, Tallied, NEW j \in Job, NEW w \in Worker, Answered(w, j), op' = op
    PROVE  Tallied'
<1>1. /\ answered' = answered \cup {j} /\ again' = again \cup ({j} \cap answered)
      /\ granted' \in {granted, granted \cup {j}} /\ type' = type /\ closed' = closed
  BY Read
<1>2. type[j] = "worker_push_request"
  BY AnswerPushed
<1>3. \A k \in granted' \cup closed' : type'[k] # "new"
  BY <1>1, <1>2 DEF Tallied
<1>4. ASSUME NEW f \in File
      PROVE  opened_files'[f] >= Cardinality(On(granted', f)) - Cardinality(On(closed', f))
  <2>1. /\ opened_files[f] \in Int
        /\ Cardinality(On(granted, f)) \in Int /\ Cardinality(On(closed, f)) \in Int
        /\ opened_files[f] >= Cardinality(On(granted, f)) - Cardinality(On(closed, f))
    BY CountsTyped DEF Tallied
  <2>2. \/ /\ opened_files'[f] = opened_files[f]
           /\ Cardinality(On(granted', f)) = Cardinality(On(granted, f))
        \/ /\ opened_files'[f] = opened_files[f] + 1
           /\ \/ Cardinality(On(granted', f)) = Cardinality(On(granted, f))
              \/ Cardinality(On(granted', f)) = Cardinality(On(granted, f)) + 1
    BY AnswerHolds
  <2> QED
    BY <1>1, <2>1, <2>2, SMT
<1>5. ASSUME NEW f \in File, Settled(f)' = {}
      PROVE  Cardinality(UnderWay("open", f)') <= locked_files_for_open'[f]
  <2> DEFINE U == UnderWay("open", f)
  <2>1. Settled(f) = {}
    BY <1>1, <1>5 DEF Settled
  <2>2. /\ IsFiniteSet(U) /\ Cardinality(U) \in Nat /\ locked_files_for_open[f] \in Nat
        /\ Cardinality(U) <= locked_files_for_open[f]
    BY <2>1, UnderWayFinite DEF Tallied, TypeOK
  <2>3. CASE op[j] = "open" /\ FileOf[j] = f
    <3>1. PICK success \in BOOLEAN : OpenAnswered(w, j, success)
      BY <2>3 DEF Answered, RenameAnswered, OtherAnswered
    <3>2. j \notin granted' /\ j \notin again'
      BY <1>5, <2>3 DEF Settled
    <3>3. ~success /\ j \notin answered
      BY <1>1, <3>1, <3>2 DEF OpenAnswered
    <3>4. U' = U \ {j} /\ j \in U
      <4>1. j \in U
        BY <1>2, <2>3, <3>3 DEF UnderWay
      <4> QED
        BY <1>1, <2>3, <4>1, AnswerUnderWay
    <3>5. Cardinality(U') = Cardinality(U) - 1
      BY <2>2, <3>4, FS_RemoveElement, ZenonT(30)
    <3>6. locked_files_for_open'[f] = LockAfterOpen(f, success)
      BY <2>3, <3>1 DEF OpenAnswered, TypeOK
    <3>7. \/ locked_files_for_open'[f] = locked_files_for_open[f] - 1
          \/ locked_files_for_open[f] = 0 /\ locked_files_for_open'[f] = 0
      BY <3>3, <3>6 DEF LockAfterOpen
    <3> QED
      BY <2>2, <3>5, <3>7, SMTT(30)
  <2>4. CASE ~(op[j] = "open" /\ FileOf[j] = f)
    <3>1. U' = U
      BY <1>1, <2>4, AnswerUnderWay
    <3>2. locked_files_for_open'[f] = locked_files_for_open[f]
      BY <2>4 DEF Answered, OpenAnswered, RenameAnswered, OtherAnswered, TypeOK, tables
    <3> QED
      BY <2>2, <3>1, <3>2
  <2> QED
    BY <2>3, <2>4
<1> QED
  BY <1>3, <1>4, <1>5 DEF Tallied

\* As long as no worker closes, an open is granted once: the count stays exact.
LEMMA AnswerExact ==
    ASSUME TypeOK, Places, AllOpen, Exact, NEW j \in Job, NEW w \in Worker, Answered(w, j)
    PROVE  Exact'
<1>1. ReadResponse(w, j) => j \notin granted
  BY Read, ResponseMoves
<1>2. ASSUME NEW f \in File
      PROVE  opened_files'[f] = Cardinality(On(granted', f)) - Cardinality(On(closed', f))
  <2>1. /\ Cardinality(On(granted, f)) \in Int /\ Cardinality(On(closed, f)) \in Int
        /\ opened_files[f] = Cardinality(On(granted, f)) - Cardinality(On(closed, f))
    BY CountsTyped DEF Exact
  <2>2. /\ closed' = closed
        /\ \/ /\ opened_files'[f] = opened_files[f]
              /\ Cardinality(On(granted', f)) = Cardinality(On(granted, f))
           \/ /\ opened_files'[f] = opened_files[f] + 1
              /\ Cardinality(On(granted', f)) = Cardinality(On(granted, f)) + 1
    BY <1>1, AnswerHolds
  <2> QED
    BY <2>1, <2>2, SMT
<1> QED
  BY <1>2 DEF Exact

\* The inductive invariant.
IInv ==
    /\ TypeOK
    /\ Places
    /\ NoGhostLock
    /\ NoGhostDirectoryLock
    /\ Tallied
    /\ AllOpen => Exact

\* It holds before the first request.
LEMMA InitIInv == Init => IInv
<1> SUFFICES ASSUME Init PROVE IInv
  OBVIOUS
<1>1. TypeOK
  BY TablesInit
<1>2. Places
  <2>1. ASSUME NEW j \in Job PROVE Asked(j) /\ At(j, "new", Nobody)
    BY SMT DEF Init, DispatchInit, Asked, At, Elems, Nothing
  <2>2. \A v \in Worker : Single(write_queue[v])
    BY SMT DEF Init, DispatchInit, Single
  <2> QED
    BY <2>1, <2>2 DEF Places, Stage
<1>3. \A o, f : UnderWay(o, f) = {}
  BY DEF Init, DispatchInit, UnderWay
<1>4. \A f : On({}, f) = {}
  BY DEF On
<1>5. Cardinality({}) = 0
  BY FS_EmptySet
<1>6. NoGhostLock /\ NoGhostDirectoryLock
  BY <1>3, <1>5, SMTT(30) DEF Init, NoGhostLock, NoGhostDirectoryLock
<1>7. Tallied /\ Exact
  <2>1. /\ granted = {} /\ closed = {}
        /\ \A f \in File : opened_files[f] = 0 /\ locked_files_for_open[f] = 0
    BY <1>4 DEF Init
  <2>2. \A f \in File : Cardinality(On(granted, f)) = 0 /\ Cardinality(On(closed, f)) = 0
    BY <1>4, <1>5, <2>1
  <2>3. \A f \in File : opened_files[f] = Cardinality(On(granted, f)) - Cardinality(On(closed, f))
    BY <2>1, <2>2, SMT
  <2>4. \A f \in File : opened_files[f] >= Cardinality(On(granted, f)) - Cardinality(On(closed, f))
    BY <2>1, <2>2, SMT
  <2>5. \A f \in File : Cardinality(UnderWay("open", f)) <= locked_files_for_open[f]
    BY <1>3, <1>5, <2>1, SMT
  <2> QED
    BY <2>1, <2>3, <2>4, <2>5 DEF Tallied, Exact
<1> QED
  BY <1>1, <1>2, <1>6, <1>7 DEF IInv

\* And every step keeps it.
LEMMA StepIInv == IInv /\ [Next]_vars => IInv'
<1> SUFFICES ASSUME IInv, [Next]_vars PROVE IInv'
  OBVIOUS
<1>1. TypeOK' /\ Places' /\ NoGhostLock' /\ NoGhostDirectoryLock'
  BY TablesTyped, PlacesStep, LockStep, DirectoryLockStep DEF IInv
<1>2. op' = op /\ TypeOK /\ Places /\ Tallied
  BY MixKept DEF IInv
<1>3. CASE \/ Dispatch /\ UNCHANGED <<tables, history>>
           \/ UNCHANGED vars
  <2>1. UNCHANGED <<type, answered, again, granted, closed, opened_files, locked_files_for_open>>
    BY <1>3, TypeKept DEF vars, dispatchVars, jobVars, tables, history
  <2>2. \A f : UnderWay("open", f)' = UnderWay("open", f) /\ Settled(f)' = Settled(f)
    BY <1>2, <2>1 DEF UnderWay, Settled
  <2>3. Tallied' /\ (AllOpen => Exact')
    BY <1>2, <2>1, <2>2 DEF IInv, Tallied, Exact
  <2> QED
    BY <1>1, <2>3, OpenBefore DEF IInv
<1>4. ASSUME NEW j \in Job, start_trigger_post(j) PROVE IInv'
  <2>1. Tallied' /\ (AllOpen => Exact')
    BY <1>2, <1>4, PostKept, PostExact DEF IInv
  <2> QED
    BY <1>1, <2>1, OpenBefore DEF IInv
<1>5. ASSUME NEW j \in Job, NEW w \in Worker, Answered(w, j) PROVE IInv'
  <2>1. Tallied' /\ (AllOpen => Exact')
    BY <1>2, <1>5, AnswerKept, AnswerExact DEF IInv
  <2> QED
    BY <1>1, <2>1, OpenBefore DEF IInv
<1> QED
  BY <1>3, <1>4, <1>5 DEF Next

\* No lock on a file outlives the opens it stands for, through any crashes,
\* reschedules and answers that come twice.
THEOREM LocksReleased == Spec => []NoGhostLock
<1>1. IInv => NoGhostLock
  BY DEF IInv
<1> QED
  BY <1>1, InitIInv, StepIInv, PTL DEF Spec

\* No lock on a directory outlives the renames it stands for.
THEOREM DirectoryLocksReleased == Spec => []NoGhostDirectoryLock
<1>1. IInv => NoGhostDirectoryLock
  BY DEF IInv
<1> QED
  BY <1>1, InitIInv, StepIInv, PTL DEF Spec

\* opened_files_ is never less than the opens granted and not closed, whatever
\* crashes and however often an open is answered; and exactly that as long as no
\* worker closes, though timers answer opens that the servers answer later.
THEOREM OpensAreCounted == Spec => []OpensCounted
<1>1. IInv => OpensCounted
  <2> SUFFICES ASSUME IInv, NEW f \in File
               PROVE  /\ opened_files[f] >= Holders(f)
                      /\ AllOpen => opened_files[f] = Holders(f)
    BY DEF OpensCounted, AllOpen
  <2>1. Holders(f) = Cardinality(On(granted, f)) - Cardinality(On(closed, f))
    BY DEF Holders, On
  <2> QED
    BY <2>1 DEF IInv, Tallied, Exact
<1> QED
  BY <1>1, InitIInv, StepIInv, PTL DEF Spec

\* A file is not deleted while it is being opened, but for what the property
\* leaves out: the open has its part of the lock, and deletefile looks at it.
THEOREM NotDeleted == Spec => NoDeleteWhileOpening
<1> DEFINE Kind(j) == /\ op[j] = "deletefile" /\ type[j] = "new" /\ type'[j] = "worker_push_request"
                      /\ UnderWay("open", FileOf[j]) # {}
           A == \A j \in Job : Kind(j) =>
                    \E o \in granted \cup again : op[o] = "open" /\ FileOf[o] = FileOf[j]
<1>1. IInv /\ [Next]_vars => [A]_vars
  <2> SUFFICES ASSUME IInv, Next, NEW j \in Job, Kind(j), Settled(FileOf[j]) = {}
               PROVE  FALSE
    BY DEF Settled
  <2>1. start_trigger_post(j)
    <3>1. ~(Dispatch \/ \E k \in Job, w \in Worker : Answered(w, k))
      BY TypeKept, Read
    <3>2. PICK k \in Job : start_trigger_post(k)
      BY <3>1 DEF Next
    <3>3. k = j
      <4>1. PICK t : schedule(k, t)
        BY <3>2, Scheduled
      <4>2. type' = [type EXCEPT ![k] = t] /\ type \in [Job -> {"new", "worker_push_request", "proxy_send"}]
        BY <4>1 DEF schedule, IInv, TypeOK, DispatchTypeOK
      <4>3. type[j] # type'[j]
        OBVIOUS
      <4> QED
        BY <4>2, <4>3
    <3> QED
      BY <3>2, <3>3
  <2>2. ~schedule(j, "proxy_send")
    BY DEF schedule, IInv, TypeOK, DispatchTypeOK
  <2>3. ~InUse(FileOf[j])
    BY <2>1, <2>2 DEF start_trigger_post, Refused, Open, DeleteFile, Rename, Close, Lock, Access,
                      Admitted, Request
  <2>4. FileOf[j] \in File /\ locked_files_for_open[FileOf[j]] \in Nat
    BY OpenFilesAssumption DEF IInv, TypeOK
  <2>5. Cardinality(UnderWay("open", FileOf[j])) = 0
    <3>1. locked_files_for_open[FileOf[j]] = 0
      BY <2>3, <2>4, SMT DEF InUse
    <3>2. Cardinality(UnderWay("open", FileOf[j])) <= locked_files_for_open[FileOf[j]]
      BY <2>4 DEF IInv, Tallied
    <3> QED
      BY <3>1, <3>2, UnderWayFinite, SMTT(30)
  <2> QED
    BY <2>5, UnderWayFinite, FS_EmptySet
<1> QED
  BY <1>1, InitIInv, StepIInv, PTL DEF Spec, NoDeleteWhileOpening
=============================================================================
