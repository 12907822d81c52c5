---------------------------- MODULE PrepareCount ----------------------------
(***************************************************************************)
(* The counter of start_2pc_prepare, *outstanding_requests, on a worker    *)
(* whose io_context has some threads.  The loop that counts and sends the  *)
(* prepares of a request's blocks runs on one; the handlers of the         *)
(* responses run on any, and may overtake it.  Each access to the counter  *)
(* and to *all_ssbd_agree is a step.  (The other operations of the SSBD    *)
(* backend that fan out, from mkdir to rename, count the same way.)        *)
(***************************************************************************)
EXTENDS Integers, Sequences, FiniteSets

CONSTANTS N,             \* blocks of the request
          ThreadCounts   \* numbers of threads the io_context may have

ASSUME CountAssumption ==
    /\ N \in Nat \ {0}
    /\ ThreadCounts \subseteq Nat \ {0}

Block == 1 .. N

VARIABLES
    threads,               \* the one of ThreadCounts it has
    sent,                  \* blocks whose prepare the loop has sent
    counted,               \* the loop has counted the next block but not sent it
    outstanding_requests,  \* *outstanding_requests
    agree,                 \* *all_ssbd_agree
    vote,                  \* history: what the response to block b says
    handler,               \* where the handler of block b's response is
    told,                  \* what *next was invoked with
    decisions              \* the calls of start_2pc_commit

countVars ==
    <<threads, sent, counted, outstanding_requests, agree, vote, handler, told, decisions>>

CountInit ==
    /\ threads \in ThreadCounts
    /\ sent = 0
    /\ counted = FALSE
    /\ outstanding_requests = 0
    /\ agree = TRUE
    /\ vote = [b \in Block |-> "none"]
    /\ handler = [b \in Block |-> "none"]
    /\ told = <<>>
    /\ decisions = <<>>

\* Threads in a handler, and in the loop until it is through.
Running == Cardinality({b \in Block : handler[b] \in {"voted", "answer", "commit"}})
           + IF sent < N THEN 1 ELSE 0

-----------------------------------------------------------------------------
\* (*outstanding_requests)++
Count ==
    /\ sent < N /\ ~counted
    /\ counted' = TRUE
    /\ outstanding_requests' = outstanding_requests + 1
    /\ UNCHANGED <<threads, sent, agree, vote, handler, told, decisions>>

\* start_send_request
Send ==
    /\ counted
    /\ counted' = FALSE
    /\ sent' = sent + 1
    /\ UNCHANGED <<threads, outstanding_requests, agree, vote, handler, told, decisions>>

\* The response to block b, an error counting as an abort, is noted.
Receive(b) ==
    /\ b <= sent
    /\ handler[b] = "none"
    /\ Running < threads
    /\ \E v \in {"agree", "abort"} :
          /\ vote' = [vote EXCEPT ![b] = v]
          /\ agree' = (agree /\ v = "agree")
    /\ handler' = [handler EXCEPT ![b] = "voted"]
    /\ UNCHANGED <<threads, sent, counted, outstanding_requests, told, decisions>>

\* Slip: one response before the last is taken for the last.
CountDown_early(b) ==
    /\ handler[b] = "voted"
    /\ outstanding_requests' = outstanding_requests - 1
    /\ handler' = [handler EXCEPT ![b] = IF outstanding_requests <= 2 THEN "answer" ELSE "done"]
    /\ UNCHANGED <<threads, sent, counted, agree, vote, told, decisions>>

\* Slip: the counter is not compared with 0 after, but before counting down.
CountDown_before(b) ==
    /\ handler[b] = "voted"
    /\ outstanding_requests' = outstanding_requests - 1
    /\ handler' = [handler EXCEPT ![b] = IF outstanding_requests = 0 THEN "answer" ELSE "done"]
    /\ UNCHANGED <<threads, sent, counted, agree, vote, told, decisions>>

\* if (--(*outstanding_requests) == 0)
CountDown(b) ==
    /\ handler[b] = "voted"
    /\ outstanding_requests' = outstanding_requests - 1
    /\ handler' = [handler EXCEPT ![b] = IF outstanding_requests = 1 THEN "answer" ELSE "done"]
    /\ UNCHANGED <<threads, sent, counted, agree, vote, told, decisions>>

\* *next is invoked with the outcome, ...
Tell(b) ==
    /\ handler[b] = "answer"
    /\ told' = Append(told, agree)
    /\ handler' = [handler EXCEPT ![b] = "commit"]
    /\ UNCHANGED <<threads, sent, counted, outstanding_requests, agree, vote, decisions>>

\* ... and *all_ssbd_agree is read again for start_2pc_commit.
Commit(b) ==
    /\ handler[b] = "commit"
    /\ decisions' = Append(decisions, agree)
    /\ handler' = [handler EXCEPT ![b] = "done"]
    /\ UNCHANGED <<threads, sent, counted, outstanding_requests, agree, vote, told>>

-----------------------------------------------------------------------------
CountNext == Count \/ Send \/ \E b \in Block : Receive(b) \/ CountDown(b) \/ Tell(b) \/ Commit(b)

CountSpec == CountInit /\ [][CountNext]_countVars

-----------------------------------------------------------------------------
AllAgree == \A b \in Block : vote[b] = "agree"

\* However the handlers overtake the loop and each other, the request is
\* decided in the end, and no block that aborted can be forgotten: once all
\* responses are handled the last decision is the right one.
LastDecisionRight ==
    (\A b \in Block : handler[b] = "done") =>
        /\ decisions # <<>>
        /\ decisions[Len(decisions)] = AllAgree

\* On one thread the request is decided once, with every vote in, and the
\* client is told the decision.
OneDecision ==
    threads = 1 =>
        /\ Len(decisions) <= 1
        /\ decisions # <<>> => /\ \A b \in Block : vote[b] # "none"
                               /\ decisions = <<AllAgree>>
                               /\ told = decisions
=============================================================================
