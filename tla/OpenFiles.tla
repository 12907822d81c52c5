------------------------------ MODULE OpenFiles ------------------------------
(***************************************************************************)
(* The proxy's table of open files and its locks, on top of JobDispatch:   *)
(* what start_trigger_post does with a request before it schedules the     *)
(* job, and what the answer of a worker does to the table before the job   *)
(* completes.                                                              *)
(*                                                                         *)
(* header.key of a request is the directory it works in, for a rename the  *)
(* one the file moves to.                                                  *)
(***************************************************************************)
EXTENDS JobDispatch, Integers

CONSTANTS File,    \* file keys
          Mixes,   \* what the clients may ask for, the operation of each job;
                   \* the workers that connect; jobs whose timer may expire
          FileOf,  \* the file of a job
          From     \* rename_info.file_parent_key: where a rename takes its file

\* A job whose operation is none is not asked for.
Operation == {"open", "close", "deletefile", "rename", "lock", "unlock", "access",
              "other", "none"}

ASSUME OpenFilesAssumption ==
    /\ IsFiniteSet(Job)
    /\ Mixes \subseteq [ask : [Job -> Operation], workers : SUBSET Worker, slow : SUBSET Job]
    /\ FileOf \in [Job -> File]
    /\ From \in [Job -> Dir]

VARIABLES
    mix,                            \* the member of Mixes
    opened_files,                   \* how often a file is open; 0: no entry
    locked_files_for_open,          \* a file's opens under way; 0: no entry
    locked_directories_for_rename,
    granted,   \* history: opens that the proxy or a worker's answer granted
    closed,    \* history: closes granted to a client
    answered,  \* history: jobs some worker's answer was read for
    again      \* ... and those for which another was

op == mix.ask

tables == <<opened_files, locked_files_for_open, locked_directories_for_rename>>
history == <<granted, closed, answered, again>>
vars == <<dispatchVars, mix, tables, history>>

TypeOK ==
    /\ DispatchTypeOK
    /\ mix \in Mixes
    /\ opened_files \in [File -> Nat]
    /\ locked_files_for_open \in [File -> Nat]
    /\ locked_directories_for_rename \subseteq Dir
    /\ granted \subseteq Job
    /\ closed \subseteq Job
    /\ answered \subseteq Job
    /\ again \subseteq Job

Init ==
    /\ DispatchInit
    /\ mix \in Mixes
    /\ opened_files = [f \in File |-> 0]
    /\ locked_files_for_open = [f \in File |-> 0]
    /\ locked_directories_for_rename = {}
    /\ granted = {}
    /\ closed = {}
    /\ answered = {}
    /\ again = {}

-----------------------------------------------------------------------------
\* start_trigger_post: a job reaches the tables.
Request(j, o) == type[j] = "new" /\ op[j] = o

\* It works in a directory that is not locked.
Admitted(j, o) == Request(j, o) /\ DirOf[j] \notin locked_directories_for_rename

\* File is opened or is being opened.
InUse(f) == locked_files_for_open[f] > 0 \/ opened_files[f] > 0

\* The directory is locked: everything but unlock is refused.
Refused(j) ==
    /\ type[j] = "new" /\ op[j] # "none"
    /\ DirOf[j] \in locked_directories_for_rename
    /\ locked_directories_for_rename' =
          IF op[j] = "unlock" THEN locked_directories_for_rename \ {DirOf[j]}
                              ELSE locked_directories_for_rename
    /\ schedule(j, "proxy_send")
    /\ UNCHANGED <<opened_files, locked_files_for_open, history>>

\* An open of an open file is counted and answered; another is sent to a
\* worker, and counted as a lock meanwhile.
Open(j) ==
    LET f == FileOf[j] IN
    /\ Admitted(j, "open")
    /\ \/ /\ opened_files[f] > 0
          /\ opened_files' = [opened_files EXCEPT ![f] = @ + 1]
          /\ granted' = granted \cup {j}
          /\ schedule(j, "proxy_send")
          /\ UNCHANGED locked_files_for_open
       \/ /\ opened_files[f] = 0
          /\ locked_files_for_open' = [locked_files_for_open EXCEPT ![f] = @ + 1]
          /\ schedule(j, "worker_push_request")
          /\ UNCHANGED <<opened_files, granted>>
    /\ UNCHANGED <<locked_directories_for_rename, closed, answered, again>>

\* Slip: a file is deleted while it is being opened.
DeleteFile_notOpen(j) ==
    /\ Admitted(j, "deletefile")
    /\ schedule(j, IF opened_files[FileOf[j]] > 0 THEN "proxy_send" ELSE "worker_push_request")
    /\ UNCHANGED <<tables, history>>

\* A file in use is not deleted.
DeleteFile(j) ==
    /\ Admitted(j, "deletefile")
    /\ schedule(j, IF InUse(FileOf[j]) THEN "proxy_send" ELSE "worker_push_request")
    /\ UNCHANGED <<tables, history>>

\* Nor renamed; the directory a file is moved from is locked.
Rename(j) ==
    /\ Admitted(j, "rename")
    /\ \/ /\ InUse(FileOf[j])
          /\ schedule(j, "proxy_send")
          /\ UNCHANGED locked_directories_for_rename
       \/ /\ ~InUse(FileOf[j])
          /\ locked_directories_for_rename' = locked_directories_for_rename \cup {From[j]}
          /\ schedule(j, "worker_push_request")
    /\ UNCHANGED <<opened_files, locked_files_for_open, history>>

\* Slip: a close takes the whole entry out.
Close_erases(j) ==
    LET f == FileOf[j] IN
    /\ Admitted(j, "close")
    /\ \/ /\ opened_files[f] > 0
          /\ opened_files' = [opened_files EXCEPT ![f] = 0]
          /\ closed' = closed \cup {j}
       \/ opened_files[f] = 0 /\ UNCHANGED <<opened_files, closed>>
    /\ schedule(j, "proxy_send")
    /\ UNCHANGED <<locked_files_for_open, locked_directories_for_rename, granted, answered,
                   again>>

\* Slip: a close is counted without looking whether the file is open.
Close_unchecked(j) ==
    LET f == FileOf[j] IN
    /\ Admitted(j, "close")
    /\ opened_files' = [opened_files EXCEPT ![f] = @ - 1]
    /\ closed' = closed \cup {j}
    /\ schedule(j, "proxy_send")
    /\ UNCHANGED <<locked_files_for_open, locked_directories_for_rename, granted, answered,
                   again>>

\* A close is counted, or answered with an error if the file is not open.
Close(j) ==
    LET f == FileOf[j] IN
    /\ Admitted(j, "close")
    /\ \/ /\ opened_files[f] > 0
          /\ opened_files' = [opened_files EXCEPT ![f] = @ - 1]
          /\ closed' = closed \cup {j}
       \/ opened_files[f] = 0 /\ UNCHANGED <<opened_files, closed>>
    /\ schedule(j, "proxy_send")
    /\ UNCHANGED <<locked_files_for_open, locked_directories_for_rename, granted, answered,
                   again>>

\* A lock is taken; and an unlock of a directory that is not locked inserts a
\* lock as well.
Lock(j) ==
    /\ Admitted(j, "lock") \/ Admitted(j, "unlock")
    /\ locked_directories_for_rename' = locked_directories_for_rename \cup {DirOf[j]}
    /\ schedule(j, "proxy_send")
    /\ UNCHANGED <<opened_files, locked_files_for_open, history>>

\* Reads and writes need an open file; other metadata operations go through.
Access(j) ==
    /\ \/ /\ Admitted(j, "access")
          /\ schedule(j, IF opened_files[FileOf[j]] > 0 THEN "worker_push_request"
                                                        ELSE "proxy_send")
       \/ /\ Admitted(j, "other")
          /\ schedule(j, "worker_push_request")
    /\ UNCHANGED <<tables, history>>

-----------------------------------------------------------------------------
\* An answer of a worker is read; that of a timer is an error.
ReadAnswer(w, j, success) ==
    /\ \/ ReadResponse(w, j)
       \/ ~success /\ ReadTimeout(w, j)
    /\ answered' = answered \cup {j}
    /\ again' = again \cup ({j} \cap answered)

\* Slip: an open that failed leaves its lock.
LockAfterOpen_onSuccess(f, success) == IF success THEN 0 ELSE locked_files_for_open[f]

\* on_worker_finished_opening_a_file on the lock: one open that succeeds
\* erases the file's entry, one that fails is taken off.
LockAfterOpen(f, success) ==
    IF success \/ locked_files_for_open[f] = 0 THEN 0 ELSE locked_files_for_open[f] - 1

\* The answer to an open is read: on_worker_finished_opening_a_file.
OpenAnswered(w, j, success) ==
    LET f == FileOf[j] IN
    /\ op[j] = "open"
    /\ ReadAnswer(w, j, success)
    /\ opened_files' = [opened_files EXCEPT ![f] = IF success THEN @ + 1 ELSE @]
    /\ locked_files_for_open' =
          [locked_files_for_open EXCEPT ![f] = LockAfterOpen(f, success)]
    /\ granted' = IF success THEN granted \cup {j} ELSE granted
    /\ UNCHANGED <<locked_directories_for_rename, closed>>

\* Slip: only a successful rename releases the directory.
RenameAnswered_ifOk(w, j, success) ==
    /\ op[j] = "rename"
    /\ ReadAnswer(w, j, success)
    /\ locked_directories_for_rename' =
          IF success THEN locked_directories_for_rename \ {From[j]}
                     ELSE locked_directories_for_rename
    /\ UNCHANGED <<opened_files, locked_files_for_open, granted, closed>>

\* That to a rename: on_worker_finished_renaming_file, successful or not.
RenameAnswered(w, j, success) ==
    /\ op[j] = "rename"
    /\ ReadAnswer(w, j, success)
    /\ locked_directories_for_rename' = locked_directories_for_rename \ {From[j]}
    /\ UNCHANGED <<opened_files, locked_files_for_open, granted, closed>>

\* Other answers leave the tables alone.
OtherAnswered(w, j) ==
    /\ op[j] \notin {"open", "rename"}
    /\ ReadAnswer(w, j, FALSE)
    /\ UNCHANGED <<tables, granted, closed>>

-----------------------------------------------------------------------------
start_trigger_post(j) ==
    \/ Refused(j) \/ Open(j) \/ DeleteFile(j) \/ Rename(j) \/ Close(j) \/ Lock(j) \/ Access(j)

Answered(w, j) ==
    \/ \E success \in BOOLEAN : OpenAnswered(w, j, success) \/ RenameAnswered(w, j, success)
    \/ OtherAnswered(w, j)

\* Only the workers of the mix connect, and the timers of its slow jobs expire.
WithinMix ==
    \A w \in Worker : /\ valid'[w] = "yes" => w \in mix.workers
                      /\ \A j \in Job : timeouts'[w][j] > 0 => j \in mix.slow

Next ==
    /\ \/ \E j \in Job : start_trigger_post(j)
       \/ \E j \in Job, w \in Worker : Answered(w, j)
       \/ Dispatch /\ WithinMix /\ UNCHANGED <<tables, history>>
    /\ UNCHANGED mix

Spec == Init /\ [][Next]_vars

-----------------------------------------------------------------------------
\* Requests of operation o on file f that are with a worker and unanswered.
UnderWay(o, f) ==
    {j \in Job : op[j] = o /\ FileOf[j] = f /\ type[j] = "worker_push_request"
                 /\ j \notin answered}

\* A lock on a file is never left behind: the count is at most the number of
\* opens of the file that are with a worker, through crashes, reschedules and
\* answers that come twice.  So the file can be deleted again some time.
NoGhostLock ==
    \A f \in File : locked_files_for_open[f] <= Cardinality(UnderWay("open", f))

\* A directory is locked only on behalf of a rename out of it that is with a
\* worker, or because of a lock or unlock request.  So a rename that fails, or
\* whose worker crashes, does not lock its directory for good.
NoGhostDirectoryLock ==
    \A d \in locked_directories_for_rename :
        \/ \E f \in File : \E j \in UnderWay("rename", f) : From[j] = d
        \/ \E j \in Job : op[j] \in {"lock", "unlock"} /\ DirOf[j] = d /\ type[j] # "new"

\* The opens of a file that were granted, less those closed: what clients can
\* have open.  Of an open that its timer answered first the client does not know.
Holders(f) ==
    Cardinality({j \in granted : FileOf[j] = f}) - Cardinality({j \in closed : FileOf[j] = f})

\* What a client has open is never uncounted, so it is not deleted or renamed:
\* a file's count is at least the number of opens granted less those closed,
\* through crashes, reschedules and answers that come twice.  And it is no more
\* as long as no worker has closed, whose opens may be granted twice.
OpensCounted ==
    \A f \in File :
        /\ opened_files[f] >= Holders(f)
        /\ (\A w \in Worker : valid[w] # "no") => opened_files[f] = Holders(f)

\* "File is opened or is being opened": a deletefile that comes while an open
\* of the file is with a worker and not answered is answered by the proxy,
\* unless another open of the file has been granted, which erases the lock of
\* both, or has been answered twice, by two workers or by its timer and the
\* servers, which takes it off the lock twice.
NoDeleteWhileOpening ==
    [][\A j \in Job :
         (/\ op[j] = "deletefile" /\ type[j] = "new" /\ type'[j] = "worker_push_request"
          /\ UnderWay("open", FileOf[j]) # {})
            => \E o \in granted \cup again : op[o] = "open" /\ FileOf[o] = FileOf[j]]_vars
=============================================================================
