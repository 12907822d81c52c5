------------------------ MODULE TwoPhaseCommitProofs ------------------------
(***************************************************************************)
(* Type correctness and the safety of TwoPhaseCommit, for any workers,     *)
(* blocks and requests, however they overlap, expire, crash or restart.    *)
(* What makes the invariant inductive is where the messages of a request   *)
(* are: each block's prepare, and each block's decision, exists once, as a *)
(* request or as a response, until the coordinator has counted it.  Then   *)
(* what the blocks and their logs hold, which needs, besides, what each    *)
(* server has put in its log; what the clients are told; and when requests *)
(* are replicated.                                                         *)
(***************************************************************************)
EXTENDS TwoPhaseCommit, FiniteSetTheorems, TLAPS

USE Zenon

\* The messages of a pipe.
In(s) == {s[i] : i \in 1..Len(s)}

\* Two messages of one exchange: the request or the response of the same job.
Same(m, n) == m.job = n.job /\ m.t = n.t

\* No pipe holds two messages of one exchange.
Unique(s) == \A i, j \in 1..Len(s) : Same(s[i], s[j]) => i = j

\* Between them, the pipes of a connection hold no exchange twice.
Clean(q, r) ==
    /\ Unique(q) /\ Unique(r)
    /\ \A m \in In(q), n \in In(r) : ~Same(m, n)

PipeInv == \A w \in Worker, b \in Block : Clean(req[w][b], resp[w][b])

\* A request in flight has not been carried out.
ReqOK(w, b, m) ==
    /\ Owner[m.t] = w /\ m.t \in started /\ b \in BlocksOf(m.t)
    /\ m.kind \in {"prepare", "quick"} <=> m.job = "prepare"
    /\ m.job = "prepare" => vote[m.t][b] = "none" /\ b \notin heard[m.t]
    /\ m.job = "commit" => /\ decision[m.t] = m.kind
                           /\ b \notin done[m.t] \cup acked[m.t]

ReqInv == \A w \in Worker, b \in Block : \A m \in In(req[w][b]) : ReqOK(w, b, m)

\* A response in flight has not been counted.
RespOK(w, b, m) ==
    /\ Owner[m.t] = w /\ m.t \in started /\ b \in BlocksOf(m.t)
    /\ m.job = "prepare" => /\ b \notin heard[m.t]
                            /\ m.kind = "agree" => vote[m.t][b] = "agree"
    /\ m.job = "commit" => decision[m.t] # "none" /\ b \notin acked[m.t]

RespInv == \A w \in Worker, b \in Block : \A m \in In(resp[w][b]) : RespOK(w, b, m)

\* The counters are the responses not yet handled, *all_ssbd_agree speaks for
\* the handled ones, and a decision is taken when all of them are.
CoordOK(t) ==
    /\ t \notin started => /\ heard[t] = {} /\ decision[t] = "none"
                           /\ \A b \in Block : vote[t][b] = "none"
    /\ heard[t] \subseteq BlocksOf(t)
    /\ t \in started => outstanding[t] = Cardinality(BlocksOf(t) \ heard[t])
    /\ agree[t] => \A b \in heard[t] : vote[t][b] = "agree"
    /\ decision[t] # "none" => heard[t] = BlocksOf(t)
    /\ decision[t] = "execute" => agree[t]
    /\ decision[t] = "none" => acked[t] = {} /\ done[t] = {}
    /\ acked[t] \subseteq BlocksOf(t)
    /\ decision[t] # "none" => left[t] = Cardinality(BlocksOf(t) \ acked[t])

CoordInv == \A t \in Txn : CoordOK(t)

IInv == TypeOK /\ PipeInv /\ ReqInv /\ RespInv /\ CoordInv

-----------------------------------------------------------------------------
\* Pipes.

\* An empty pipe holds nothing.
LEMMA EmptyPipe == In(<<>>) = {} /\ Unique(<<>>)
  BY SMT DEF In, Unique

\* What a send does to a pipe.
LEMMA AppendPipe ==
  ASSUME NEW S, NEW s \in Seq(S), NEW e \in S
  PROVE  /\ Append(s, e) \in Seq(S)
         /\ In(Append(s, e)) = In(s) \cup {e}
         /\ Unique(s) /\ (\A m \in In(s) : ~Same(m, e)) => Unique(Append(s, e))
<1> DEFINE u == Append(s, e)
<1>1. /\ u \in Seq(S)
      /\ Len(u) = Len(s) + 1
      /\ \A i \in 1..Len(s) : u[i] = s[i]
      /\ u[Len(s) + 1] = e
      /\ Len(s) \in Nat
  BY SMT
<1> HIDE DEF u
<1>2. In(u) = In(s) \cup {e}
  BY <1>1, SMT DEF In
<1>3. ASSUME Unique(s), \A m \in In(s) : ~Same(m, e)
      PROVE  Unique(u)
  <2>1. \A i \in 1..Len(s) : ~Same(s[i], e) /\ ~Same(e, s[i])
    BY <1>3 DEF In, Same
  <2> QED
    BY <1>1, <1>3, <2>1, SMT DEF Unique
<1> QED
  BY <1>1, <1>2, <1>3 DEF u

\* What taking the first message does to a pipe.
LEMMA TailPipe ==
  ASSUME NEW S, NEW s \in Seq(S), s # <<>>
  PROVE  /\ Tail(s) \in Seq(S)
         /\ Head(s) \in In(s) /\ Head(s) \in S
         /\ In(Tail(s)) \subseteq In(s)
         /\ Unique(s) => Unique(Tail(s)) /\ \A m \in In(Tail(s)) : ~Same(m, Head(s))
<1> DEFINE u == Tail(s)
<1>1. /\ u \in Seq(S)
      /\ Len(s) \in Nat \ {0} /\ Len(u) = Len(s) - 1
      /\ \A i \in 1..Len(u) : u[i] = s[i + 1]
      /\ Head(s) = s[1] /\ Head(s) \in S
  BY SMT
<1> HIDE DEF u
<1>2. Head(s) \in In(s) /\ In(u) \subseteq In(s)
  BY <1>1, SMT DEF In
<1>3. ASSUME Unique(s)
      PROVE  Unique(u) /\ \A m \in In(u) : ~Same(m, Head(s))
  <2>1. Unique(u)
    BY <1>1, <1>3, SMTT(30) DEF Unique
  <2>2. \A i \in 1..Len(u) : ~Same(u[i], s[1])
    BY <1>1, <1>3, SMT DEF Unique
  <2> QED
    BY <1>1, <2>1, <2>2 DEF In
<1> QED
  BY <1>1, <1>2, <1>3 DEF u

\* What losing the end of a pipe does to it.
LEMMA PrefixPipe ==
  ASSUME NEW S, NEW s \in Seq(S), NEW u \in Prefixes(s)
  PROVE  u \in Seq(S) /\ In(u) \subseteq In(s) /\ (Unique(s) => Unique(u))
<1>1. PICK n \in 0..Len(s) : u = SubSeq(s, 1, n)
  BY DEF Prefixes
<1>2. u \in Seq(S) /\ Len(u) = n /\ \A i \in 1..n : u[i] = s[i]
  BY <1>1, SMT
<1> QED
  BY <1>2, SMT DEF In, Unique

\* What the counters need to know of finite sets: handling one more response
\* counts the rest down by one, a count of zero means that every response was
\* handled, and the blocks of a request can be counted.  TwoPhaseCommitProofs
\* proves it.
Counting ==
    /\ Cardinality({}) = 0
    /\ \A A, H, x : IsFiniteSet(A) /\ x \in A \ H =>
         /\ Cardinality(A \ H) \in Nat \ {0}
         /\ Cardinality(A \ (H \cup {x})) = Cardinality(A \ H) - 1
    /\ \A A, H : IsFiniteSet(A) /\ Cardinality(A \ H) = 0 => A \subseteq H
    /\ \A t \in Txn : IsFiniteSet(BlocksOf(t)) /\ Cardinality(BlocksOf(t)) \in Nat

\* Handling one more response counts the rest down by one.
LEMMA CountDown ==
  ASSUME Counting, NEW A, IsFiniteSet(A), NEW H, NEW x \in A \ H
  PROVE  /\ Cardinality(A \ H) \in Nat \ {0}
         /\ Cardinality(A \ (H \cup {x})) = Cardinality(A \ H) - 1
  BY DEF Counting

\* A count of zero means that every response was handled.
LEMMA CountedDown ==
  ASSUME Counting, NEW A, IsFiniteSet(A), NEW H, Cardinality(A \ H) = 0
  PROVE  A \subseteq H
  BY DEF Counting

\* The blocks of a request are finitely many.
LEMMA BlocksFinite ==
  ASSUME Counting, NEW t \in Txn
  PROVE  /\ BlocksOf(t) \subseteq Block /\ IsFiniteSet(BlocksOf(t))
         /\ BlockCount(t) = Cardinality(BlocksOf(t)) /\ BlockCount(t) \in Nat
<1>1. BlocksOf(t) \subseteq Block
  BY DEF BlocksOf
<1> QED
  BY <1>1 DEF Counting, BlockCount

-----------------------------------------------------------------------------
\* What the three ways of moving messages do to the pipes of a connection.

\* start_send_request of a message m of a new exchange to the blocks bs, rs
\* being the response pipes and e the failure of m.
NewExchange(w, bs, m, e, rs) ==
    /\ w \in Worker /\ bs \subseteq Block /\ m \in Request /\ e \in Response
    /\ rs \in [Block -> Seq(Response)]
    /\ Same(m, e)
    /\ \A b \in Block : Clean(req[w][b], rs[b])
    /\ \A b \in bs : \A n \in In(req[w][b]) \cup In(rs[b]) : ~Same(n, m)
    /\ req' = [req EXCEPT ![w] = [b \in Block |->
                 IF b \in bs /\ link[w][b] THEN Append(req[w][b], m)
                                           ELSE req[w][b]]]
    /\ \E failed \in SUBSET {b \in bs : ~link[w][b]} :
         resp' = [resp EXCEPT ![w] = [b \in Block |->
                   IF b \in failed THEN Append(rs[b], e) ELSE rs[b]]]

\* Its effect on the messages: only m and e are new.
Sent(w, bs, m, e, rs) ==
    /\ req' \in [Worker -> [Block -> Seq(Request)]]
    /\ resp' \in [Worker -> [Block -> Seq(Response)]]
    /\ \A v \in Worker : v # w => req'[v] = req[v] /\ resp'[v] = resp[v]
    /\ \A b \in Block :
         /\ Clean(req'[w][b], resp'[w][b])
         /\ In(req'[w][b]) \subseteq In(req[w][b]) \cup (IF b \in bs THEN {m} ELSE {})
         /\ In(resp'[w][b]) \subseteq In(rs[b]) \cup (IF b \in bs THEN {e} ELSE {})

\* A send of a new exchange keeps the pipes clean.
LEMMA SendPipes ==
  ASSUME TypeOK, NEW w, NEW bs, NEW m, NEW e, NEW rs,
         NewExchange(w, bs, m, e, rs)
  PROVE  Sent(w, bs, m, e, rs)
<1> USE DEF NewExchange
<1>1. \A n : Same(n, m) <=> Same(n, e)
  BY DEF Same
<1>2. PICK failed \in SUBSET {b \in bs : ~link[w][b]} :
        resp' = [resp EXCEPT ![w] = [b \in Block |->
                   IF b \in failed THEN Append(rs[b], e) ELSE rs[b]]]
  OBVIOUS
<1>3. /\ req \in [Worker -> [Block -> Seq(Request)]]
      /\ resp \in [Worker -> [Block -> Seq(Response)]]
  BY DEF TypeOK
<1>4. \A b \in Block : /\ req[w][b] \in Seq(Request) /\ rs[b] \in Seq(Response)
                       /\ Append(req[w][b], m) \in Seq(Request)
                       /\ Append(rs[b], e) \in Seq(Response)
  BY <1>1, <1>3, AppendPipe
<1>5. /\ req' \in [Worker -> [Block -> Seq(Request)]]
      /\ resp' \in [Worker -> [Block -> Seq(Response)]]
      /\ \A v \in Worker : v # w => req'[v] = req[v] /\ resp'[v] = resp[v]
  BY <1>2, <1>3, <1>4
<1>6. ASSUME NEW b \in Block
      PROVE  /\ Clean(req'[w][b], resp'[w][b])
             /\ In(req'[w][b]) \subseteq In(req[w][b]) \cup (IF b \in bs THEN {m} ELSE {})
             /\ In(resp'[w][b]) \subseteq In(rs[b]) \cup (IF b \in bs THEN {e} ELSE {})
  <2> DEFINE q == req[w][b]
             r == rs[b]
  <2>1. /\ q \in Seq(Request) /\ r \in Seq(Response) /\ Clean(q, r)
        /\ b \in bs => \A n \in In(q) \cup In(r) : ~Same(n, m)
    BY <1>4
  <2>2. /\ req'[w][b] = IF b \in bs /\ link[w][b] THEN Append(q, m) ELSE q
        /\ resp'[w][b] = IF b \in failed THEN Append(r, e) ELSE r
        /\ b \in failed => b \in bs /\ ~link[w][b]
    BY <1>2, <1>3
  <2>3. /\ In(Append(q, m)) = In(q) \cup {m}
        /\ Unique(q) /\ (\A n \in In(q) : ~Same(n, m)) => Unique(Append(q, m))
    BY <2>1, AppendPipe, SMT
  <2>4. /\ In(Append(r, e)) = In(r) \cup {e}
        /\ Unique(r) /\ (\A n \in In(r) : ~Same(n, e)) => Unique(Append(r, e))
    BY <1>1, <2>1, AppendPipe, SMT
  <2>5. \A n : Same(m, n) => Same(n, m)
    BY DEF Same
  <2> HIDE DEF q, r
  <2>6. CASE b \notin bs
    BY <2>1, <2>2, <2>6 DEF q, r
  <2>7. CASE b \in bs /\ link[w][b]
    <3>1. req'[w][b] = Append(q, m) /\ resp'[w][b] = r
      BY <2>2, <2>7
    <3>2. Unique(Append(q, m)) /\ Unique(r)
      BY <2>1, <2>3, <2>7 DEF Clean
    <3>3. \A x \in In(Append(q, m)), n \in In(r) : ~Same(x, n)
      BY <2>1, <2>3, <2>5, <2>7 DEF Clean
    <3> QED
      BY <2>3, <2>7, <3>1, <3>2, <3>3 DEF Clean, q, r
  <2>8. CASE b \in bs /\ ~link[w][b] /\ b \in failed
    <3>1. req'[w][b] = q /\ resp'[w][b] = Append(r, e)
      BY <2>2, <2>8
    <3>2. Unique(q) /\ Unique(Append(r, e))
      BY <1>1, <2>1, <2>4, <2>8 DEF Clean
    <3>3. \A x \in In(q), n \in In(Append(r, e)) : ~Same(x, n)
      BY <1>1, <2>1, <2>4, <2>8 DEF Clean
    <3> QED
      BY <2>4, <2>8, <3>1, <3>2, <3>3 DEF Clean, q, r
  <2>9. CASE b \in bs /\ ~link[w][b] /\ b \notin failed
    BY <2>1, <2>2, <2>9 DEF q, r
  <2> QED
    BY <2>6, <2>7, <2>8, <2>9
<1> QED
  BY <1>5, <1>6 DEF Sent

\* The next response m of a connection's pipe is taken, which leaves rs.
Taken(w, b, m, rs) ==
    /\ m \in In(resp[w][b]) /\ m \in Response
    /\ rs \in [Block -> Seq(Response)]
    /\ \A c \in Block : /\ Clean(req[w][c], rs[c])
                        /\ In(rs[c]) \subseteq In(resp[w][c])
                        /\ c # b => rs[c] = resp[w][c]
    /\ \A n \in In(rs[b]) \cup In(req[w][b]) : ~Same(n, m)

\* A handler takes a response: its exchange is over.
LEMMA TakePipes ==
  ASSUME TypeOK, PipeInv, NEW w \in Worker, NEW b \in Block, resp[w][b] # <<>>
  PROVE  Taken(w, b, Head(resp[w][b]), [resp[w] EXCEPT ![b] = Tail(@)])
<1> DEFINE m == Head(resp[w][b])
           rs == [resp[w] EXCEPT ![b] = Tail(@)]
<1>1. resp[w] \in [Block -> Seq(Response)] /\ resp[w][b] \in Seq(Response)
  BY DEF TypeOK
<1>2. Clean(req[w][b], resp[w][b])
  BY DEF PipeInv
<1>3. /\ Tail(resp[w][b]) \in Seq(Response)
      /\ m \in In(resp[w][b]) /\ m \in Response
      /\ In(Tail(resp[w][b])) \subseteq In(resp[w][b])
      /\ Unique(Tail(resp[w][b]))
      /\ \A n \in In(Tail(resp[w][b])) : ~Same(n, m)
  BY <1>1, <1>2, TailPipe DEF Clean
<1>4. Clean(req[w][b], Tail(resp[w][b]))
  BY <1>2, <1>3 DEF Clean
<1>5. /\ rs \in [Block -> Seq(Response)]
      /\ rs[b] = Tail(resp[w][b])
      /\ \A c \in Block : c # b => rs[c] = resp[w][c]
  BY <1>1, <1>3
<1>6. \A c \in Block : Clean(req[w][c], resp[w][c])
  BY DEF PipeInv
<1>7. \A n \in In(req[w][b]) : ~Same(n, m)
  BY <1>2, <1>3 DEF Clean
<1> HIDE DEF m, rs
<1>8. Taken(w, b, m, rs)
  BY <1>3, <1>4, <1>5, <1>6, <1>7 DEF Taken
<1> QED
  BY <1>8 DEF m, rs

\* A server takes the next request m of a connection's pipe and answers it
\* with e, unless the worker is gone.
Served(w, b, m, e) ==
    /\ m \in In(req[w][b]) /\ m \in Request /\ e \in Response
    /\ e.job = m.job /\ e.t = m.t
    /\ req' \in [Worker -> [Block -> Seq(Request)]]
    /\ resp' \in [Worker -> [Block -> Seq(Response)]]
    /\ PipeInv'
    /\ \A v \in Worker, c \in Block :
         /\ In(req'[v][c]) \subseteq In(req[v][c])
         /\ In(resp'[v][c]) \subseteq In(resp[v][c]) \cup
              (IF v = w /\ c = b THEN {e} ELSE {})
    /\ \A n \in In(req'[w][b]) \cup In(resp[w][b]) : ~Same(n, m)

\* An answer moves the exchange to the responses.
LEMMA ServePipes ==
  ASSUME TypeOK, PipeInv, NEW w \in Worker, NEW b \in Block, NEW kind, NEW k,
         NEW reply \in {"agree", "abort", "ack"}, Serve(w, b, kind, k, reply),
         NEW m, m = Head(req[w][b])
  PROVE  Served(w, b, m, [m EXCEPT !.kind = reply])
<1> DEFINE q == req[w][b]
           r == resp[w][b]
           e == [m EXCEPT !.kind = reply]
<1>1. /\ req \in [Worker -> [Block -> Seq(Request)]] /\ q \in Seq(Request)
      /\ resp \in [Worker -> [Block -> Seq(Response)]] /\ r \in Seq(Response)
      /\ q # <<>> /\ Clean(q, r)
  BY DEF TypeOK, PipeInv, Serve
<1>2. /\ Tail(q) \in Seq(Request)
      /\ m \in In(q) /\ m \in Request
      /\ In(Tail(q)) \subseteq In(q)
      /\ Unique(Tail(q))
      /\ \A n \in In(Tail(q)) : ~Same(n, m)
  BY <1>1, TailPipe DEF Clean
<1>3. /\ e \in Response /\ e.job = m.job /\ e.t = m.t
      /\ \A n : (Same(n, m) <=> Same(n, e)) /\ (Same(n, m) <=> Same(m, n))
  BY <1>2 DEF Request, Response, Message, Same
<1>4. \A n \in In(r) : ~Same(n, m)
  BY <1>1, <1>2, <1>3 DEF Clean
<1> HIDE DEF e
<1>5. /\ Append(r, e) \in Seq(Response)
      /\ In(Append(r, e)) = In(r) \cup {e}
      /\ Unique(Append(r, e))
  BY <1>1, <1>3, <1>4, AppendPipe, SMT DEF Clean
<1>6. /\ Clean(Tail(q), r)
      /\ Clean(Tail(q), Append(r, e))
  BY <1>1, <1>2, <1>3, <1>4, <1>5 DEF Clean
<1>7. /\ req' = [req EXCEPT ![w][b] = Tail(q)]
      /\ resp' = [resp EXCEPT ![w][b] = Append(r, e)] \/ resp' = resp
  BY DEF Serve, e
<1>8. /\ req' \in [Worker -> [Block -> Seq(Request)]]
      /\ req'[w][b] = Tail(q)
      /\ \A v \in Worker, c \in Block : v # w \/ c # b => req'[v][c] = req[v][c]
  BY <1>1, <1>2, <1>7
<1>9. /\ resp' \in [Worker -> [Block -> Seq(Response)]]
      /\ resp'[w][b] = Append(r, e) \/ resp'[w][b] = r
      /\ \A v \in Worker, c \in Block : v # w \/ c # b => resp'[v][c] = resp[v][c]
  <2>1. CASE resp' = [resp EXCEPT ![w][b] = Append(r, e)]
    BY <1>1, <1>5, <2>1
  <2>2. CASE resp' = resp
    BY <1>1, <2>2
  <2> QED
    BY <1>7, <2>1, <2>2
<1> HIDE DEF q, r
<1>10. PipeInv'
  <2> SUFFICES ASSUME NEW v \in Worker, NEW c \in Block
               PROVE  Clean(req'[v][c], resp'[v][c])
    BY DEF PipeInv
  <2>1. CASE v = w /\ c = b
    BY <1>6, <1>8, <1>9, <2>1
  <2>2. CASE v # w \/ c # b
    <3>1. req'[v][c] = req[v][c] /\ resp'[v][c] = resp[v][c]
      BY <1>8, <1>9, <2>2
    <3>2. Clean(req[v][c], resp[v][c])
      BY DEF PipeInv
    <3> QED
      BY <3>1, <3>2
  <2> QED
    BY <2>1, <2>2
<1>11. \A v \in Worker, c \in Block :
         /\ In(req'[v][c]) \subseteq In(req[v][c])
         /\ In(resp'[v][c]) \subseteq In(resp[v][c]) \cup
              (IF v = w /\ c = b THEN {e} ELSE {})
  BY <1>2, <1>5, <1>8, <1>9, ZenonT(30) DEF q, r
<1>12. \A n \in In(req'[w][b]) \cup In(resp[w][b]) : ~Same(n, m)
  BY <1>2, <1>4, <1>8 DEF r
<1>13. Served(w, b, m, e)
  BY <1>2, <1>3, <1>8, <1>9, <1>10, <1>11, <1>12 DEF Served, q
<1> QED
  BY <1>13 DEF e

\* A step that leaves request u to its coordinator alone, and of its votes and
\* carried-out decisions those that CoordOK speaks of.
Unmoved(u) ==
    /\ u \in started' <=> u \in started
    /\ outstanding'[u] = outstanding[u] /\ heard'[u] = heard[u]
    /\ decision'[u] = decision[u] /\ left'[u] = left[u] /\ acked'[u] = acked[u]
    /\ agree'[u] <=> agree[u]
    /\ \A b \in Block : u \notin started \/ b \in heard[u] => vote'[u][b] = vote[u][b]
    /\ decision[u] = "none" => done'[u] = done[u]

\* Such a step keeps its counters right.
LEMMA CoordUnmoved ==
  ASSUME NEW u \in Txn, CoordOK(u), Unmoved(u)
  PROVE  CoordOK(u)'
<1>1. BlocksOf(u) \subseteq Block
  BY DEF BlocksOf
<1>2. heard[u] \subseteq Block
  BY <1>1 DEF CoordOK
<1>3. agree'[u] => \A b \in heard'[u] : vote'[u][b] = "agree"
  BY <1>2 DEF CoordOK, Unmoved
<1>4. decision'[u] = "execute" => agree'[u]
  BY DEF CoordOK, Unmoved
<1>5. u \notin started' => /\ heard'[u] = {} /\ decision'[u] = "none"
                           /\ \A b \in Block : vote'[u][b] = "none"
  BY DEF CoordOK, Unmoved
<1>6. /\ heard'[u] \subseteq BlocksOf(u)
      /\ u \in started' => outstanding'[u] = Cardinality(BlocksOf(u) \ heard'[u])
      /\ decision'[u] # "none" => heard'[u] = BlocksOf(u)
      /\ decision'[u] = "none" => acked'[u] = {} /\ done'[u] = {}
      /\ acked'[u] \subseteq BlocksOf(u)
      /\ decision'[u] # "none" => left'[u] = Cardinality(BlocksOf(u) \ acked'[u])
  BY DEF CoordOK, Unmoved
<1> QED
  BY <1>3, <1>4, <1>5, <1>6 DEF CoordOK

\* What is in a pipe is a message.
LEMMA MessageTypes ==
  ASSUME TypeOK, NEW w \in Worker, NEW b \in Block
  PROVE  /\ \A m \in In(req[w][b]) : m \in Request
         /\ \A m \in In(resp[w][b]) : m \in Response
<1>1. req[w][b] \in Seq(Request) /\ resp[w][b] \in Seq(Response)
  BY SMT DEF TypeOK
<1> QED
  BY <1>1, SMT DEF In

\* What the invariant says of one request ...
LEMMA ReqMessage ==
  ASSUME IInv, NEW w \in Worker, NEW b \in Block, NEW m \in In(req[w][b])
  PROVE  m \in Request /\ m.t \in Txn /\ ReqOK(w, b, m)
<1>1. m \in Request
  BY MessageTypes DEF IInv
<1>2. m.t \in Txn
  BY <1>1 DEF Request, Message
<1>3. ReqOK(w, b, m)
  BY DEF IInv, ReqInv
<1> QED
  BY <1>1, <1>2, <1>3

\* ... and of one response.
LEMMA RespMessage ==
  ASSUME IInv, NEW w \in Worker, NEW b \in Block, NEW m \in In(resp[w][b])
  PROVE  m \in Response /\ m.t \in Txn /\ RespOK(w, b, m)
<1>1. m \in Response
  BY MessageTypes DEF IInv
<1>2. m.t \in Txn
  BY <1>1 DEF Response, Message
<1>3. RespOK(w, b, m)
  BY DEF IInv, RespInv
<1> QED
  BY <1>1, <1>2, <1>3

-----------------------------------------------------------------------------
\* The system starts with no message and no request.
LEMMA InitIInv == Init => IInv
<1> SUFFICES ASSUME Init PROVE IInv
  OBVIOUS
<1>1. FreshBlock \in Blocks
  BY DEF FreshBlock, Blocks, Empty, Content
<1>2. TypeOK
  BY <1>1, SMT DEF Init, TypeOK
<1>3. PipeInv /\ ReqInv /\ RespInv
  BY EmptyPipe DEF Init, PipeInv, ReqInv, RespInv, Clean
<1>4. CoordInv
  BY DEF Init, CoordInv, CoordOK
<1> QED
  BY <1>2, <1>3, <1>4 DEF IInv

\* start_2pc_prepare sends messages of exchanges that did not exist.
LEMMA PrepareIInv ==
  ASSUME Counting, IInv, NEW t \in Txn, Prepare(t)
  PROVE  IInv'
<1> DEFINE w == Owner[t]
           m == [kind |-> IF w \in checked THEN "quick" ELSE "prepare",
                 job |-> "prepare", t |-> t]
           e == [m EXCEPT !.kind = "err"]
<1>1. w \in Worker /\ m \in Request /\ BlocksOf(t) \in SUBSET Block
  BY ConfigAssumption, BlocksFinite DEF Request, Message
<1>2. /\ m.t = t /\ m.job = "prepare" /\ m.kind \in {"prepare", "quick"}
      /\ e.t = t /\ e.job = "prepare" /\ e.kind = "err"
  OBVIOUS
<1> HIDE DEF m, e
<1>3. t \notin started /\ started' = started \cup {t} /\ Send(w, BlocksOf(t), m, resp[w])
  BY DEF Prepare, m
<1>4. \A b \in Block : \A n \in In(req[w][b]) \cup In(resp[w][b]) : ~Same(n, m)
  <2> SUFFICES ASSUME NEW b \in Block, NEW n \in In(req[w][b]) \cup In(resp[w][b])
               PROVE  n.t # t
    BY <1>2 DEF Same
  <2>1. n.t \in started
    BY <1>1, ReqMessage, RespMessage DEF ReqOK, RespOK
  <2> QED
    BY <1>3, <2>1
<1>5. resp[w] \in [Block -> Seq(Response)] /\ \A b \in Block : Clean(req[w][b], resp[w][b])
  BY <1>1 DEF IInv, TypeOK, PipeInv
<1>6. Sent(w, BlocksOf(t), m, e, resp[w])
  <2>1. e \in Response /\ Same(m, e)
    BY <1>1, <1>2 DEF Request, Response, Message, Same, e
  <2>2. NewExchange(w, BlocksOf(t), m, e, resp[w])
    BY <1>1, <1>3, <1>4, <1>5, <2>1 DEF NewExchange, Send, e
  <2> QED
    BY <2>2, SendPipes DEF IInv
<1> HIDE DEF w
<1>7. PipeInv'
  BY <1>1, <1>6 DEF IInv, PipeInv, Sent
<1>8. TypeOK'
  BY <1>6, BlocksFinite DEF IInv, TypeOK, Prepare, server, Sent
<1>9. ReqInv'
  <2> SUFFICES ASSUME NEW v \in Worker, NEW b \in Block, NEW n \in In(req'[v][b])
               PROVE  ReqOK(v, b, n)'
    BY DEF ReqInv
  <2>1. vote' = vote /\ heard' = heard /\ decision' = decision /\ done' = done /\ acked' = acked
    BY DEF Prepare, server
  <2>2. CASE n \in In(req[v][b])
    <3>1. ReqOK(v, b, n)
      BY <2>2, ReqMessage
    <3> QED
      BY <1>3, <2>1, <3>1 DEF ReqOK
  <2>3. CASE n \notin In(req[v][b])
    <3>1. v = w /\ b \in BlocksOf(t) /\ n = m
      BY <1>1, <1>6, <2>3 DEF Sent
    <3>2. vote[t][b] = "none" /\ heard[t] = {}
      BY <1>3 DEF IInv, CoordInv, CoordOK
    <3> QED
      BY <1>2, <1>3, <2>1, <3>1, <3>2 DEF w, ReqOK
  <2> QED
    BY <2>2, <2>3
<1>10. RespInv'
  <2> SUFFICES ASSUME NEW v \in Worker, NEW b \in Block, NEW n \in In(resp'[v][b])
               PROVE  RespOK(v, b, n)'
    BY DEF RespInv
  <2>1. vote' = vote /\ heard' = heard /\ decision' = decision /\ acked' = acked
    BY DEF Prepare, server
  <2>2. CASE n \in In(resp[v][b])
    <3>1. RespOK(v, b, n)
      BY <2>2, RespMessage
    <3> QED
      BY <1>3, <2>1, <3>1 DEF RespOK
  <2>3. CASE n \notin In(resp[v][b])
    <3>1. v = w /\ b \in BlocksOf(t) /\ n = e
      BY <1>1, <1>6, <2>3 DEF Sent
    <3>2. heard[t] = {}
      BY <1>3 DEF IInv, CoordInv, CoordOK
    <3> QED
      BY <1>2, <1>3, <2>1, <3>1, <3>2 DEF w, RespOK
  <2> QED
    BY <2>2, <2>3
<1>11. CoordInv'
  <2>1. heard[t] = {} => BlocksOf(t) \ heard[t] = BlocksOf(t)
    OBVIOUS
  <2>2. /\ outstanding'[t] = Cardinality(BlocksOf(t))
        /\ \A u \in Txn \ {t} : outstanding'[u] = outstanding[u]
    BY BlocksFinite DEF Prepare, IInv, TypeOK
  <2>3. /\ heard' = heard /\ decision' = decision /\ vote' = vote /\ agree' = agree
        /\ done' = done /\ acked' = acked /\ left' = left
    BY DEF Prepare, server
  <2> QED
    BY <1>3, <2>1, <2>2, <2>3, ZenonT(30) DEF IInv, CoordInv, CoordOK
<1> QED
  BY <1>7, <1>8, <1>9, <1>10, <1>11 DEF IInv

\* A response to a prepare that is not the last one is counted.
LEMMA PrepareResponseIInv ==
  ASSUME Counting, IInv, NEW w \in Worker, NEW b \in Block, PrepareResponse(w, b)
  PROVE  IInv'
<1> DEFINE rs == [resp[w] EXCEPT ![b] = Tail(@)]
<1>1. PICK m, t : /\ m = Head(resp[w][b]) /\ t = m.t
                  /\ resp[w][b] # <<>> /\ m.job = "prepare"
  BY DEF PrepareResponse, Received
<1>2. Taken(w, b, m, rs)
  BY <1>1, TakePipes DEF IInv
<1>3. t \in Txn /\ t \in started /\ Owner[t] = w /\ b \in BlocksOf(t) \ heard[t]
      /\ (m.kind = "agree" => vote[t][b] = "agree")
  <2>1. m \in In(resp[w][b])
    BY <1>2 DEF Taken
  <2>2. m.t \in Txn /\ RespOK(w, b, m)
    BY <2>1, RespMessage
  <2> QED
    BY <1>1, <2>2 DEF RespOK
<1>4. /\ resp' = [resp EXCEPT ![w] = rs]
      /\ outstanding' = [outstanding EXCEPT ![t] = outstanding[t] - 1]
      /\ agree' = [agree EXCEPT ![t] = agree[t] /\ m.kind = "agree"]
      /\ heard' = [heard EXCEPT ![t] = heard[t] \cup {b}]
      /\ outstanding[t] # 1
      /\ UNCHANGED <<server, req, link, alive, checked, started, timer, answers,
                     decision, left, replicated, acked>>
  BY <1>1 DEF PrepareResponse, Agreed, IInv, TypeOK
<1> HIDE DEF rs
<1>5. /\ resp' \in [Worker -> [Block -> Seq(Response)]] /\ resp'[w] = rs
      /\ \A v \in Worker : v # w => resp'[v] = resp[v]
  BY <1>2, <1>4 DEF IInv, TypeOK, Taken
<1>6. /\ outstanding[t] = Cardinality(BlocksOf(t) \ heard[t])
      /\ outstanding[t] \in Nat \ {0}
      /\ outstanding[t] - 1 = Cardinality(BlocksOf(t) \ (heard[t] \cup {b}))
  <2>1. IsFiniteSet(BlocksOf(t))
    BY <1>3, BlocksFinite
  <2>2. outstanding[t] = Cardinality(BlocksOf(t) \ heard[t])
    BY <1>3 DEF IInv, CoordInv, CoordOK
  <2>3. b \in BlocksOf(t) \ heard[t]
    BY <1>3
  <2> QED
    BY <2>1, <2>2, <2>3, CountDown, SMT
<1>7. PipeInv'
  BY <1>2, <1>4, <1>5 DEF IInv, PipeInv, Taken
<1>8. TypeOK'
  <2>1. outstanding' \in [Txn -> Nat]
    BY <1>3, <1>4, <1>6, SMT DEF IInv, TypeOK
  <2>2. agree' \in [Txn -> BOOLEAN]
    BY <1>3, <1>4 DEF IInv, TypeOK
  <2>3. heard' \in [Txn -> SUBSET Block]
    BY <1>3, <1>4 DEF IInv, TypeOK
  <2> QED
    BY <1>4, <1>5, <2>1, <2>2, <2>3 DEF IInv, TypeOK, server
<1>9. heard'[t] = heard[t] \cup {b} /\ \A u \in Txn : u # t => heard'[u] = heard[u]
  BY <1>3, <1>4 DEF IInv, TypeOK
<1>10. UNCHANGED <<req, vote, done, started, decision, acked>>
  BY <1>4 DEF server
<1>11. ReqInv'
  <2> SUFFICES ASSUME NEW v \in Worker, NEW c \in Block, NEW n \in In(req'[v][c])
               PROVE  ReqOK(v, c, n)'
    BY DEF ReqInv
  <2>1. n \in In(req[v][c])
    BY <1>10
  <2>2. n.t \in Txn /\ ReqOK(v, c, n)
    BY <2>1, ReqMessage
  <2>3. ASSUME n.t = t, c = b, n.job = "prepare" PROVE FALSE
    <3>1. v = w
      BY <1>3, <2>2, <2>3 DEF ReqOK
    <3> QED
      BY <1>1, <1>2, <2>1, <2>3, <3>1 DEF Same, Taken
  <2> QED
    BY <1>9, <1>10, <2>2, <2>3 DEF ReqOK
<1>12. RespInv'
  <2> SUFFICES ASSUME NEW v \in Worker, NEW c \in Block, NEW n \in In(resp'[v][c])
               PROVE  RespOK(v, c, n)'
    BY DEF RespInv
  <2>1. n \in In(resp[v][c])
    BY <1>2, <1>5 DEF Taken
  <2>2. n.t \in Txn /\ RespOK(v, c, n)
    BY <2>1, RespMessage
  <2>3. ASSUME n.t = t, c = b, n.job = "prepare" PROVE FALSE
    <3>1. v = w
      BY <1>3, <2>2, <2>3 DEF RespOK
    <3> QED
      BY <1>1, <1>2, <1>5, <2>3, <3>1 DEF Same, Taken
  <2> QED
    BY <1>9, <1>10, <2>2, <2>3 DEF RespOK
<1>13. CoordInv'
  <2>1. decision[t] = "none"
    BY <1>3 DEF IInv, CoordInv, CoordOK
  <2>2. /\ outstanding'[t] = outstanding[t] - 1
        /\ \A u \in Txn : u # t => outstanding'[u] = outstanding[u]
    BY <1>3, <1>4 DEF IInv, TypeOK
  <2>3. /\ agree'[t] <=> agree[t] /\ m.kind = "agree"
        /\ \A u \in Txn : u # t => (agree'[u] <=> agree[u])
    BY <1>3, <1>4 DEF IInv, TypeOK
  <2>4. /\ started' = started /\ decision' = decision /\ vote' = vote
        /\ done' = done /\ acked' = acked /\ left' = left
    BY <1>4 DEF server
  <2>5. \A u \in Txn : CoordOK(u)
    BY DEF IInv, CoordInv
  <2>6. CoordOK(t)'
    <3>1. heard'[t] \subseteq BlocksOf(t)
      BY <1>3, <1>9, <2>5, ZenonT(30) DEF CoordOK
    <3>2. outstanding'[t] = Cardinality(BlocksOf(t) \ heard'[t])
      BY <1>6, <1>9, <2>2
    <3>3. ASSUME agree'[t], NEW c \in heard'[t] PROVE vote[t][c] = "agree"
      <4>1. agree[t] /\ vote[t][b] = "agree"
        BY <1>3, <2>3, <3>3
      <4>2. c = b \/ c \in heard[t]
        BY <1>9
      <4> QED
        BY <1>3, <2>5, <4>1, <4>2 DEF CoordOK
    <3> QED
      BY <1>3, <2>1, <2>4, <2>5, <3>1, <3>2, <3>3 DEF CoordOK
  <2>7. ASSUME NEW u \in Txn, u # t PROVE CoordOK(u)'
    <3>1. Unmoved(u)
      BY <1>9, <2>2, <2>3, <2>4, <2>7 DEF Unmoved
    <3> QED
      BY <2>5, <3>1, CoordUnmoved
  <2> QED
    BY <2>6, <2>7 DEF CoordInv
<1> QED
  BY <1>7, <1>8, <1>11, <1>12, <1>13 DEF IInv

\* The timer touches neither messages nor counters.
LEMMA TimerIInv ==
  ASSUME IInv, NEW t \in Txn, TimerExpires(t) \/ TimerFires(t)
  PROVE  IInv'
<1>1. UNCHANGED <<blk, vote, done, req, resp, link, alive, started, outstanding,
                  agree, decision, left, replicated, heard, acked>>
  BY DEF TimerExpires, TimerFires, server
<1>2. /\ timer' \in [Txn -> {"off", "armed", "expired", "fired", "cancelled"}]
      /\ checked' \subseteq Worker
  BY DEF TimerExpires, TimerFires, IInv, TypeOK
<1>3. answers' \in [Txn -> Seq(Answer)]
  <2>1. PICK e \in Answer : e = "Error: request timeout internally"
    BY DEF Answer
  <2>2. answers[t] \in Seq(Answer) /\ answers \in [Txn -> Seq(Answer)]
    BY DEF IInv, TypeOK
  <2>3. Append(answers[t], e) \in Seq(Answer)
    BY <2>2, SMT
  <2>4. answers' = answers \/ answers' = [answers EXCEPT ![t] = Append(answers[t], e)]
    BY <2>1 DEF TimerExpires, TimerFires
  <2> QED
    BY <2>2, <2>3, <2>4
<1>4. TypeOK'
  BY <1>1, <1>2, <1>3 DEF IInv, TypeOK
<1>5. PipeInv'
  BY <1>1 DEF IInv, PipeInv
<1>6. ReqInv'
  <2> SUFFICES ASSUME NEW v \in Worker, NEW c \in Block, NEW n \in In(req'[v][c])
               PROVE  ReqOK(v, c, n)'
    BY DEF ReqInv
  <2> QED
    BY <1>1, ReqMessage, SMT DEF ReqOK
<1>7. RespInv'
  <2> SUFFICES ASSUME NEW v \in Worker, NEW c \in Block, NEW n \in In(resp'[v][c])
               PROVE  RespOK(v, c, n)'
    BY DEF RespInv
  <2> QED
    BY <1>1, RespMessage, SMT DEF RespOK
<1>8. CoordInv'
  BY <1>1 DEF IInv, CoordInv, CoordOK
<1> QED
  BY <1>4, <1>5, <1>6, <1>7, <1>8 DEF IInv
\* The last response to a prepare starts the exchanges of the decision.
LEMMA LastPrepareResponseIInv ==
  ASSUME Counting, IInv, NEW w \in Worker, NEW b \in Block, LastPrepareResponse(w, b)
  PROVE  IInv'
<1> DEFINE rs == [resp[w] EXCEPT ![b] = Tail(@)]
<1>1. PICK m, t : /\ m = Head(resp[w][b]) /\ t = m.t
                  /\ resp[w][b] # <<>> /\ m.job = "prepare"
  BY DEF LastPrepareResponse, Received
<1>2. Taken(w, b, m, rs)
  BY <1>1, TakePipes DEF IInv
<1>3. t \in Txn /\ t \in started /\ Owner[t] = w /\ b \in BlocksOf(t) \ heard[t]
      /\ (m.kind = "agree" => vote[t][b] = "agree")
  <2>1. m \in In(resp[w][b])
    BY <1>2 DEF Taken
  <2>2. m.t \in Txn /\ RespOK(w, b, m)
    BY <2>1, RespMessage
  <2> QED
    BY <1>1, <2>2 DEF RespOK
<1>4. PICK d, q, e :
        /\ d = IF agree[t] /\ m.kind = "agree" THEN "execute" ELSE "rollback"
        /\ q = [kind |-> d, job |-> "commit", t |-> t]
        /\ e = [q EXCEPT !.kind = "err"]
  OBVIOUS
<1>5. /\ d \in {"execute", "rollback"} /\ q \in Request /\ e \in Response /\ Same(q, e)
      /\ q.t = t /\ q.job = "commit" /\ q.kind = d
      /\ e.t = t /\ e.job = "commit" /\ e.kind = "err"
  BY <1>3, <1>4 DEF Request, Response, Message, Same
<1>6. /\ Send(w, BlocksOf(t), q, rs)
      /\ outstanding[t] = 1
      /\ outstanding' = [outstanding EXCEPT ![t] = 0]
      /\ agree' = [agree EXCEPT ![t] = agree[t] /\ m.kind = "agree"]
      /\ heard' = [heard EXCEPT ![t] = heard[t] \cup {b}]
      /\ decision' = [decision EXCEPT ![t] = d]
      /\ left' = [left EXCEPT ![t] = BlockCount(t)]
      /\ UNCHANGED <<server, link, alive, started, replicated, acked>>
  BY <1>1, <1>4 DEF LastPrepareResponse, Agreed, IInv, TypeOK
<1> HIDE DEF rs
<1>7. /\ decision[t] = "none" /\ acked[t] = {} /\ done[t] = {}
      /\ heard[t] \subseteq BlocksOf(t)
  BY <1>3 DEF IInv, CoordInv, CoordOK
<1>8. heard[t] \cup {b} = BlocksOf(t)
  <2>1. IsFiniteSet(BlocksOf(t))
    BY <1>3, BlocksFinite
  <2>2. Cardinality(BlocksOf(t) \ heard[t]) = 1
    BY <1>3, <1>6 DEF IInv, CoordInv, CoordOK
  <2>3. b \in BlocksOf(t) \ heard[t]
    BY <1>3
  <2>4. Cardinality(BlocksOf(t) \ (heard[t] \cup {b})) = 0
    BY <2>1, <2>2, <2>3, CountDown, SMT
  <2>5. BlocksOf(t) \subseteq heard[t] \cup {b}
    BY <2>1, <2>4, CountedDown
  <2> QED
    BY <1>3, <1>7, <2>5
<1>9. \A c \in Block : \A n \in In(req[w][c]) \cup In(rs[c]) : ~Same(n, q)
  <2>1. \A c \in Block : \A n \in In(req[w][c]) : n.job = "commit" => n.t # t
    BY <1>7, ReqMessage, SMT DEF ReqOK, Request, Message
  <2>2. \A c \in Block : \A n \in In(rs[c]) : n.job = "commit" => n.t # t
    BY <1>2, <1>7, RespMessage, SMT DEF RespOK, Taken
  <2> QED
    BY <1>5, <2>1, <2>2 DEF Same
<1>10. Sent(w, BlocksOf(t), q, e, rs)
  <2>1. BlocksOf(t) \subseteq Block
    BY <1>3, BlocksFinite
  <2>2. \E failed \in SUBSET {c \in BlocksOf(t) : ~link[w][c]} :
          resp' = [resp EXCEPT ![w] = [c \in Block |->
                     IF c \in failed THEN Append(rs[c], e) ELSE rs[c]]]
    BY <1>4, <1>6 DEF Send
  <2>3. req' = [req EXCEPT ![w] = [c \in Block |->
                  IF c \in BlocksOf(t) /\ link[w][c] THEN Append(req[w][c], q)
                                                     ELSE req[w][c]]]
    BY <1>6 DEF Send
  <2>4. /\ rs \in [Block -> Seq(Response)]
        /\ \A c \in Block : Clean(req[w][c], rs[c])
    BY <1>2 DEF Taken
  <2>5. \A c \in BlocksOf(t) : \A n \in In(req[w][c]) \cup In(rs[c]) : ~Same(n, q)
    BY <1>9, <2>1
  <2>6. NewExchange(w, BlocksOf(t), q, e, rs)
    BY <1>5, <2>1, <2>2, <2>3, <2>4, <2>5 DEF NewExchange
  <2> QED
    BY <2>6, SendPipes DEF IInv
<1>11. /\ \A u \in Txn : u # t => /\ heard'[u] = heard[u] /\ decision'[u] = decision[u]
                                  /\ outstanding'[u] = outstanding[u] /\ left'[u] = left[u]
                                  /\ (agree'[u] <=> agree[u])
       /\ heard'[t] = BlocksOf(t) /\ decision'[t] = d /\ outstanding'[t] = 0
       /\ left'[t] = Cardinality(BlocksOf(t))
       /\ agree'[t] <=> agree[t] /\ m.kind = "agree"
       /\ acked' = acked /\ done' = done /\ vote' = vote /\ started' = started
  BY <1>3, <1>6, <1>8, BlocksFinite DEF IInv, TypeOK, server
<1>12. PipeInv'
  BY <1>10 DEF IInv, PipeInv, Sent
<1>13. TypeOK'
  <2>1. /\ outstanding' \in [Txn -> Nat] /\ left' \in [Txn -> Nat]
        /\ heard' \in [Txn -> SUBSET Block]
        /\ decision' \in [Txn -> {"none", "execute", "rollback"}]
    BY <1>3, <1>5, <1>6, BlocksFinite DEF IInv, TypeOK
  <2>2. agree' \in [Txn -> BOOLEAN]
    BY <1>3, <1>6 DEF IInv, TypeOK
  <2>3. /\ timer' \in [Txn -> {"off", "armed", "expired", "fired", "cancelled"}]
        /\ checked' \subseteq Worker
    BY <1>1, <1>3 DEF LastPrepareResponse, IInv, TypeOK
  <2>4. answers' \in [Txn -> Seq(Answer)]
    <3>1. \A x \in Answer : \A s \in Seq(Answer) : Append(s, x) \in Seq(Answer)
      BY SMT
    <3>2. "OK" \in Answer /\ "Error: Found Pending 2PC Log" \in Answer
      BY DEF Answer
    <3> QED
      BY <1>1, <1>3, <3>1, <3>2 DEF LastPrepareResponse, IInv, TypeOK
  <2> QED
    BY <1>6, <1>10, <2>1, <2>2, <2>3, <2>4 DEF IInv, TypeOK, server, Sent
<1>14. ReqInv'
  <2> SUFFICES ASSUME NEW v \in Worker, NEW c \in Block, NEW n \in In(req'[v][c])
               PROVE  ReqOK(v, c, n)'
    BY DEF ReqInv
  <2>1. CASE n \in In(req[v][c])
    <3>1. n.t \in Txn /\ ReqOK(v, c, n) /\ n.job \in {"prepare", "commit"}
      BY <2>1, ReqMessage DEF Request, Message
    <3>2. n.t # t
      <4> SUFFICES ASSUME n.t = t PROVE FALSE
        OBVIOUS
      <4>1. v = w /\ c \in BlocksOf(t)
        BY <1>3, <3>1 DEF ReqOK
      <4>2. n.job = "prepare"
        BY <1>5, <1>9, <2>1, <3>1, <4>1 DEF Same
      <4>3. c = b
        BY <1>8, <3>1, <4>1, <4>2 DEF ReqOK
      <4> QED
        BY <1>1, <1>2, <2>1, <4>1, <4>2, <4>3 DEF Taken, Same
    <3> QED
      BY <1>11, <3>1, <3>2 DEF ReqOK
  <2>2. CASE n \notin In(req[v][c])
    <3>1. v = w /\ c \in BlocksOf(t) /\ n = q
      BY <1>10, <2>2 DEF Sent
    <3> QED
      BY <1>3, <1>5, <1>7, <1>11, <3>1 DEF ReqOK
  <2> QED
    BY <2>1, <2>2
<1>15. RespInv'
  <2> SUFFICES ASSUME NEW v \in Worker, NEW c \in Block, NEW n \in In(resp'[v][c])
               PROVE  RespOK(v, c, n)'
    BY DEF RespInv
  <2>1. CASE n \in In(resp[v][c]) /\ (v = w => n \in In(rs[c]))
    <3>1. n.t \in Txn /\ RespOK(v, c, n) /\ n.job \in {"prepare", "commit"}
      BY <2>1, RespMessage DEF Response, Message
    <3>2. n.t # t
      <4> SUFFICES ASSUME n.t = t PROVE FALSE
        OBVIOUS
      <4>1. v = w /\ c \in BlocksOf(t)
        BY <1>3, <3>1 DEF RespOK
      <4>2. n.job = "prepare"
        BY <1>5, <1>9, <2>1, <3>1, <4>1 DEF Same
      <4>3. c = b
        BY <1>8, <3>1, <4>1, <4>2 DEF RespOK
      <4> QED
        BY <1>1, <1>2, <2>1, <4>1, <4>2, <4>3 DEF Taken, Same
    <3> QED
      BY <1>11, <3>1, <3>2 DEF RespOK
  <2>2. CASE ~(n \in In(resp[v][c]) /\ (v = w => n \in In(rs[c])))
    <3>1. v = w /\ c \in BlocksOf(t) /\ n = e
      BY <1>2, <1>10, <2>2 DEF Sent, Taken
    <3> QED
      BY <1>3, <1>5, <1>7, <1>11, <3>1 DEF RespOK
  <2> QED
    BY <2>1, <2>2
<1>16. CoordInv'
  <2>1. \A u \in Txn : CoordOK(u)
    BY DEF IInv, CoordInv
  <2>2. ASSUME NEW u \in Txn, u # t PROVE CoordOK(u)'
    <3>1. Unmoved(u)
      BY <1>11, <2>2 DEF Unmoved
    <3> QED
      BY <2>1, <3>1, CoordUnmoved
  <2>3. CoordOK(t)'
    <3>1. outstanding'[t] = Cardinality(BlocksOf(t) \ heard'[t])
      <4>1. BlocksOf(t) \ heard'[t] = {}
        BY <1>11
      <4> QED
        BY <1>11, <4>1 DEF Counting
    <3>2. ASSUME agree'[t], NEW c \in heard'[t] PROVE vote[t][c] = "agree"
      <4>1. agree[t] /\ vote[t][b] = "agree"
        BY <1>3, <1>11, <3>2
      <4>2. c = b \/ c \in heard[t]
        BY <1>8, <1>11
      <4> QED
        BY <1>3, <2>1, <4>1, <4>2 DEF CoordOK
    <3>3. d = "execute" => agree'[t]
      BY <1>4, <1>11
    <3>4. BlocksOf(t) \ acked[t] = BlocksOf(t)
      BY <1>7
    <3> QED
      BY <1>3, <1>5, <1>7, <1>11, <3>1, <3>2, <3>3, <3>4 DEF CoordOK
  <2> QED
    BY <2>2, <2>3 DEF CoordInv
<1> QED
  BY <1>12, <1>13, <1>14, <1>15, <1>16 DEF IInv

\* A response to a decision is counted.
LEMMA CommitResponseIInv ==
  ASSUME Counting, IInv, NEW w \in Worker, NEW b \in Block, CommitResponse(w, b)
  PROVE  IInv'
<1> DEFINE rs == [resp[w] EXCEPT ![b] = Tail(@)]
<1>1. PICK m, t : /\ m = Head(resp[w][b]) /\ t = m.t
                  /\ resp[w][b] # <<>> /\ m.job = "commit"
  BY DEF CommitResponse, Received
<1>2. Taken(w, b, m, rs)
  BY <1>1, TakePipes DEF IInv
<1>3. t \in Txn /\ Owner[t] = w /\ b \in BlocksOf(t) \ acked[t] /\ decision[t] # "none"
  <2>1. m \in In(resp[w][b])
    BY <1>2 DEF Taken
  <2>2. m.t \in Txn /\ RespOK(w, b, m)
    BY <2>1, RespMessage
  <2> QED
    BY <1>1, <2>2 DEF RespOK
<1>4. /\ resp' = [resp EXCEPT ![w] = rs]
      /\ left' = [left EXCEPT ![t] = left[t] - 1]
      /\ acked' = [acked EXCEPT ![t] = acked[t] \cup {b}]
      /\ replicated' \subseteq replicated \cup {t}
      /\ UNCHANGED <<server, req, link, alive, checked, started, outstanding,
                     agree, timer, answers, decision, heard>>
  BY <1>1 DEF CommitResponse, IInv, TypeOK
<1> HIDE DEF rs
<1>5. /\ resp' \in [Worker -> [Block -> Seq(Response)]] /\ resp'[w] = rs
      /\ \A v \in Worker : v # w => resp'[v] = resp[v]
  BY <1>2, <1>4 DEF IInv, TypeOK, Taken
<1>6. /\ left[t] \in Nat \ {0}
      /\ left[t] - 1 = Cardinality(BlocksOf(t) \ (acked[t] \cup {b}))
  <2>1. IsFiniteSet(BlocksOf(t))
    BY <1>3, BlocksFinite
  <2>2. left[t] = Cardinality(BlocksOf(t) \ acked[t])
    BY <1>3 DEF IInv, CoordInv, CoordOK
  <2> QED
    BY <1>3, <2>1, <2>2, CountDown, SMT
<1>7. PipeInv'
  BY <1>2, <1>4, <1>5 DEF IInv, PipeInv, Taken
<1>8. TypeOK'
  <2>1. left' \in [Txn -> Nat] /\ acked' \in [Txn -> SUBSET Block]
    BY <1>3, <1>4, <1>6, SMT DEF IInv, TypeOK
  <2> QED
    BY <1>3, <1>4, <1>5, <2>1 DEF IInv, TypeOK, server
<1>9. /\ acked'[t] = acked[t] \cup {b} /\ \A u \in Txn : u # t => acked'[u] = acked[u]
      /\ left'[t] = left[t] - 1 /\ \A u \in Txn : u # t => left'[u] = left[u]
  BY <1>3, <1>4 DEF IInv, TypeOK
<1>10. UNCHANGED <<req, vote, done, started, decision, heard>>
  BY <1>4 DEF server
<1>11. ReqInv'
  <2> SUFFICES ASSUME NEW v \in Worker, NEW c \in Block, NEW n \in In(req'[v][c])
               PROVE  ReqOK(v, c, n)'
    BY DEF ReqInv
  <2>1. n \in In(req[v][c])
    BY <1>10
  <2>2. n.t \in Txn /\ ReqOK(v, c, n)
    BY <2>1, ReqMessage
  <2>3. ASSUME n.t = t, c = b, n.job = "commit" PROVE FALSE
    <3>1. v = w
      BY <1>3, <2>2, <2>3 DEF ReqOK
    <3> QED
      BY <1>1, <1>2, <2>1, <2>3, <3>1 DEF Same, Taken
  <2> QED
    BY <1>9, <1>10, <2>2, <2>3 DEF ReqOK
<1>12. RespInv'
  <2> SUFFICES ASSUME NEW v \in Worker, NEW c \in Block, NEW n \in In(resp'[v][c])
               PROVE  RespOK(v, c, n)'
    BY DEF RespInv
  <2>1. n \in In(resp[v][c])
    BY <1>2, <1>5 DEF Taken
  <2>2. n.t \in Txn /\ RespOK(v, c, n)
    BY <2>1, RespMessage
  <2>3. ASSUME n.t = t, c = b, n.job = "commit" PROVE FALSE
    <3>1. v = w
      BY <1>3, <2>2, <2>3 DEF RespOK
    <3> QED
      BY <1>1, <1>2, <1>5, <2>3, <3>1 DEF Same, Taken
  <2> QED
    BY <1>9, <1>10, <2>2, <2>3 DEF RespOK
<1>13. CoordInv'
  <2>1. /\ started' = started /\ decision' = decision /\ vote' = vote
        /\ done' = done /\ heard' = heard /\ outstanding' = outstanding
        /\ \A u \in Txn : agree'[u] <=> agree[u]
    BY <1>4 DEF server
  <2>2. \A u \in Txn : CoordOK(u)
    BY DEF IInv, CoordInv
  <2>3. CoordOK(t)'
    BY <1>3, <1>6, <1>9, <2>1, <2>2, ZenonT(30) DEF CoordOK
  <2>4. ASSUME NEW u \in Txn, u # t PROVE CoordOK(u)'
    <3>1. Unmoved(u)
      BY <1>9, <2>1, <2>4 DEF Unmoved
    <3> QED
      BY <2>2, <3>1, CoordUnmoved
  <2> QED
    BY <2>3, <2>4 DEF CoordInv
<1> QED
  BY <1>7, <1>8, <1>11, <1>12, <1>13 DEF IInv

-----------------------------------------------------------------------------
\* The answers of the servers.

\* The server of b answers a prepare m with e and votes v.
Voted(w, b, m, e, v) ==
    /\ w \in Worker /\ b \in Block /\ v \in {"agree", "abort"}
    /\ Served(w, b, m, e) /\ m.job = "prepare" /\ e.kind = v
    /\ blk' \in [Block -> Blocks]
    /\ vote' = [vote EXCEPT ![m.t] = [vote[m.t] EXCEPT ![b] = v]]
    /\ done' = done
    /\ UNCHANGED <<link, alive, checked, coord>>

\* A vote is cast once, before its response exists.
LEMMA VotedIInv ==
  ASSUME IInv, NEW w, NEW b, NEW m, NEW e, NEW v, Voted(w, b, m, e, v)
  PROVE  IInv'
<1>1. /\ w \in Worker /\ b \in Block /\ v \in {"agree", "abort"}
      /\ Served(w, b, m, e) /\ m.job = "prepare" /\ e.kind = v
  BY DEF Voted
<1>2. PICK t : t = m.t
  OBVIOUS
<1>3. /\ t \in Txn /\ t \in started /\ Owner[t] = w /\ b \in BlocksOf(t) \ heard[t]
      /\ vote[t][b] = "none"
      /\ e.t = t /\ e.job = "prepare"
  <2>1. m \in In(req[w][b]) /\ e.t = m.t /\ e.job = m.job
    BY <1>1 DEF Served
  <2>2. m.t \in Txn /\ ReqOK(w, b, m)
    BY <1>1, <2>1, ReqMessage
  <2>3. m.kind \in {"execute", "rollback"} \/ m.job # "commit"
    BY <1>1, <2>1, <2>2, ReqMessage DEF Request, Message, ReqOK
  <2> QED
    BY <1>1, <1>2, <2>1, <2>2, <2>3 DEF ReqOK
<1>4. /\ vote' \in [Txn -> [Block -> {"none", "agree", "abort"}]]
      /\ vote'[t][b] = v
      /\ \A u \in Txn, c \in Block : u # t \/ c # b => vote'[u][c] = vote[u][c]
  BY <1>1, <1>2, <1>3 DEF Voted, IInv, TypeOK
<1>5. /\ UNCHANGED <<link, alive, checked, started, outstanding, agree, timer,
                     answers, decision, left, replicated, heard, acked, done>>
      /\ blk' \in [Block -> Blocks]
  BY DEF Voted, coord
<1>6. TypeOK'
  BY <1>1, <1>4, <1>5 DEF IInv, TypeOK, Served
<1>7. PipeInv'
  BY <1>1 DEF Served
<1>8. ReqInv'
  <2> SUFFICES ASSUME NEW x \in Worker, NEW c \in Block, NEW n \in In(req'[x][c])
               PROVE  ReqOK(x, c, n)'
    BY DEF ReqInv
  <2>1. n \in In(req[x][c])
    BY <1>1 DEF Served
  <2>2. n.t \in Txn /\ ReqOK(x, c, n)
    BY <2>1, ReqMessage
  <2>3. ASSUME n.t = t, c = b, n.job = "prepare" PROVE FALSE
    <3>1. x = w
      BY <1>3, <2>2, <2>3 DEF ReqOK
    <3> QED
      BY <1>1, <1>2, <2>3, <3>1 DEF Same, Served
  <2> QED
    BY <1>4, <1>5, <2>2, <2>3 DEF ReqOK
<1>9. RespInv'
  <2> SUFFICES ASSUME NEW x \in Worker, NEW c \in Block, NEW n \in In(resp'[x][c])
               PROVE  RespOK(x, c, n)'
    BY DEF RespInv
  <2>1. CASE n \in In(resp[x][c])
    <3>1. n.t \in Txn /\ RespOK(x, c, n)
      BY <2>1, RespMessage
    <3> QED
      BY <1>3, <1>4, <1>5, <3>1 DEF RespOK
  <2>2. CASE n \notin In(resp[x][c])
    <3>1. x = w /\ c = b /\ n = e
      BY <1>1, <2>2 DEF Served
    <3> QED
      BY <1>1, <1>3, <1>4, <1>5, <3>1 DEF RespOK
  <2> QED
    BY <2>1, <2>2
<1>10. CoordInv'
  <2>1. \A u \in Txn : CoordOK(u)
    BY DEF IInv, CoordInv
  <2>2. \A u \in Txn : agree'[u] <=> agree[u]
    BY <1>5
  <2>3. ASSUME NEW u \in Txn PROVE CoordOK(u)'
    <3>1. \A c \in Block : u \notin started \/ c \in heard[u] => vote'[u][c] = vote[u][c]
      BY <1>3, <1>4
    <3>2. Unmoved(u)
      BY <1>5, <2>2, <3>1 DEF Unmoved
    <3> QED
      BY <2>1, <3>2, CoordUnmoved
  <2> QED
    BY <2>3 DEF CoordInv
<1> QED
  BY <1>6, <1>7, <1>8, <1>9, <1>10 DEF IInv

\* The server of b carries out a decision m and answers it with e.
Carried(w, b, m, e) ==
    /\ w \in Worker /\ b \in Block
    /\ Served(w, b, m, e) /\ m.job = "commit"
    /\ blk' \in [Block -> Blocks]
    /\ done' = [done EXCEPT ![m.t] = done[m.t] \cup {b}]
    /\ vote' = vote
    /\ UNCHANGED <<link, alive, checked, coord>>

\* A decision is carried out once, before its response exists.
LEMMA CarriedIInv ==
  ASSUME IInv, NEW w, NEW b, NEW m, NEW e, Carried(w, b, m, e)
  PROVE  IInv'
<1>1. w \in Worker /\ b \in Block /\ Served(w, b, m, e) /\ m.job = "commit"
  BY DEF Carried
<1>2. PICK t : t = m.t
  OBVIOUS
<1>3. /\ t \in Txn /\ t \in started /\ Owner[t] = w /\ b \in BlocksOf(t) \ acked[t]
      /\ decision[t] # "none"
      /\ e.t = t /\ e.job = "commit"
  <2>1. m \in In(req[w][b]) /\ e.t = m.t /\ e.job = m.job
    BY <1>1 DEF Served
  <2>2. m.t \in Txn /\ ReqOK(w, b, m)
    BY <1>1, <2>1, ReqMessage
  <2>3. m.kind \in {"execute", "rollback"} \/ m.job # "commit"
    BY <1>1, <2>1, <2>2, ReqMessage, SMT DEF Request, Message, ReqOK
  <2> QED
    BY <1>1, <1>2, <2>1, <2>2, <2>3 DEF ReqOK
<1>4. /\ done' \in [Txn -> SUBSET Block]
      /\ done'[t] = done[t] \cup {b}
      /\ \A u \in Txn : u # t => done'[u] = done[u]
  BY <1>1, <1>2, <1>3, SMT DEF Carried, IInv, TypeOK
<1>5. /\ UNCHANGED <<link, alive, checked, started, outstanding, agree, timer,
                     answers, decision, left, replicated, heard, acked, vote>>
      /\ blk' \in [Block -> Blocks]
  BY DEF Carried, coord
<1>6. TypeOK'
  BY <1>1, <1>4, <1>5 DEF IInv, TypeOK, Served
<1>7. PipeInv'
  BY <1>1 DEF Served
<1>8. ReqInv'
  <2> SUFFICES ASSUME NEW x \in Worker, NEW c \in Block, NEW n \in In(req'[x][c])
               PROVE  ReqOK(x, c, n)'
    BY DEF ReqInv
  <2>1. n \in In(req[x][c])
    BY <1>1 DEF Served
  <2>2. n.t \in Txn /\ ReqOK(x, c, n)
    BY <2>1, ReqMessage
  <2>3. ASSUME n.t = t, c = b, n.job = "commit" PROVE FALSE
    <3>1. x = w
      BY <1>3, <2>2, <2>3 DEF ReqOK
    <3> QED
      BY <1>1, <1>2, <2>3, <3>1 DEF Same, Served
  <2> QED
    BY <1>4, <1>5, <2>2, <2>3 DEF ReqOK
<1>9. RespInv'
  <2> SUFFICES ASSUME NEW x \in Worker, NEW c \in Block, NEW n \in In(resp'[x][c])
               PROVE  RespOK(x, c, n)'
    BY DEF RespInv
  <2>1. CASE n \in In(resp[x][c])
    <3>1. n.t \in Txn /\ RespOK(x, c, n)
      BY <2>1, RespMessage
    <3> QED
      BY <1>3, <1>4, <1>5, <3>1 DEF RespOK
  <2>2. CASE n \notin In(resp[x][c])
    <3>1. x = w /\ c = b /\ n = e
      BY <1>1, <2>2 DEF Served
    <3> QED
      BY <1>1, <1>3, <1>4, <1>5, <3>1 DEF RespOK
  <2> QED
    BY <2>1, <2>2
<1>10. CoordInv'
  <2>1. \A u \in Txn : CoordOK(u)
    BY DEF IInv, CoordInv
  <2>2. \A u \in Txn : agree'[u] <=> agree[u]
    BY <1>5
  <2>3. ASSUME NEW u \in Txn PROVE CoordOK(u)'
    <3>1. decision[u] = "none" => done'[u] = done[u]
      BY <1>3, <1>4
    <3>2. Unmoved(u)
      BY <1>5, <2>2, <3>1 DEF Unmoved
    <3> QED
      BY <2>1, <3>2, CoordUnmoved
  <2> QED
    BY <2>3 DEF CoordInv
<1> QED
  BY <1>6, <1>7, <1>8, <1>9, <1>10 DEF IInv



\* The handlers leave a block's four leveldb entries in their types.
LEMMA BlockTypes ==
  ASSUME NEW k \in Blocks, NEW t \in Txn, NEW ps, NEW v \in Nat
  PROVE  /\ AfterPrepare(k, t, ps, v) \in Blocks
         /\ AfterPrepareQuick(k, t, ps, v) \in Blocks
         /\ AfterExecute(k) \in Blocks
         /\ AfterRollback(k) \in Blocks
         /\ PrepareVote(k) \in {"agree", "abort"}
<1>1. Empty \in Content
  BY DEF Empty, Content
<1>2. Created(k) \in Blocks
  BY <1>1 DEF Created, FreshBlock, Blocks
<1>3. ASSUME NEW c \in Blocks PROVE PutPending(c, t, ps, v) \in Blocks
  <2>1. c.data \in Content
    BY DEF Blocks
  <2>2. Merge(c.data, t, ps) \in Content
    BY <2>1 DEF Merge, Content
  <2> QED
    BY <2>2 DEF PutPending, Blocks
<1>4. AfterPrepare(k, t, ps, v) \in Blocks /\ AfterPrepareQuick(k, t, ps, v) \in Blocks
  BY <1>2, <1>3 DEF AfterPrepare, AfterPrepareQuick
<1>5. AfterExecute(k) \in Blocks /\ AfterRollback(k) \in Blocks
  BY <1>1 DEF AfterExecute, AfterRollback, Blocks
<1> QED
  BY <1>4, <1>5 DEF PrepareVote

\* A prepare, checked or quick, is a vote.
LEMMA PreparesVote ==
  ASSUME IInv, NEW w \in Worker, NEW b \in Block,
         two_pc_prepare(w, b) \/ two_pc_prepare_quick(w, b)
  PROVE  \E m, e, v : Voted(w, b, m, e, v)
<1>1. PICK m, t, kind, k, v :
        /\ m = Head(req[w][b]) /\ t = m.t
        /\ kind \in {"prepare", "quick"}
        /\ \/ k = AfterPrepare(blk[b], t, Writes[t][b], Ver[t]) /\ v = PrepareVote(blk[b])
           \/ k = AfterPrepareQuick(blk[b], t, Writes[t][b], Ver[t]) /\ v = "agree"
        /\ Serve(w, b, kind, k, v) /\ Vote(t, b, v)
  BY DEF two_pc_prepare, two_pc_prepare_quick
<1>2. blk[b] \in Blocks /\ blk \in [Block -> Blocks]
  BY DEF IInv, TypeOK
<1>3. v \in {"agree", "abort"}
  BY <1>1, <1>2 DEF PrepareVote
<1>4. PICK e : e = [m EXCEPT !.kind = v]
  OBVIOUS
<1>5. Served(w, b, m, e)
  BY <1>1, <1>3, <1>4, ServePipes DEF IInv
<1>6. m \in Request /\ m \in In(req[w][b]) /\ m.kind = kind
  BY <1>1, <1>5 DEF Served, Serve
<1>7. t \in Txn /\ m.job = "prepare" /\ e.kind = v
  <2>1. t \in Txn /\ e.kind = v
    BY <1>1, <1>4, <1>6 DEF Request, Message
  <2>2. m.kind \in {"prepare", "quick"}
    BY <1>1, <1>6
  <2>3. ReqOK(w, b, m)
    BY <1>6, ReqMessage
  <2>4. m.job = "prepare"
    BY <2>2, <2>3, ZenonT(30) DEF ReqOK
  <2> QED
    BY <2>1, <2>4
<1>8. k \in Blocks
  <2>1. Ver[t] \in Nat
    BY <1>7, ConfigAssumption
  <2> QED
    BY <1>1, <1>2, <1>7, <2>1, BlockTypes, SMTT(30)
<1>9. blk' \in [Block -> Blocks] /\ UNCHANGED <<link, alive, checked, coord>>
  BY <1>1, <1>2, <1>8 DEF Serve
<1>10. /\ vote' = [vote EXCEPT ![m.t] = [vote[m.t] EXCEPT ![b] = v]]
       /\ done' = done
  BY <1>1 DEF Vote
<1> QED
  BY <1>3, <1>5, <1>7, <1>9, <1>10 DEF Voted

\* An execute or a rollback carries a decision out.
LEMMA CommitsCarry ==
  ASSUME IInv, NEW w \in Worker, NEW b \in Block,
         two_pc_commit_execute(w, b) \/ two_pc_commit_rollback(w, b)
  PROVE  \E m, e : Carried(w, b, m, e)
<1>1. PICK m, t, kind, k :
        /\ m = Head(req[w][b]) /\ t = m.t
        /\ kind \in {"execute", "rollback"}
        /\ k \in {AfterExecute(blk[b]), AfterRollback(blk[b])}
        /\ Serve(w, b, kind, k, "ack") /\ Done(t, b)
  BY DEF two_pc_commit_execute, two_pc_commit_rollback
<1>2. blk[b] \in Blocks /\ blk \in [Block -> Blocks]
  BY DEF IInv, TypeOK
<1>3. PICK e : e = [m EXCEPT !.kind = "ack"]
  OBVIOUS
<1>4. Served(w, b, m, e)
  BY <1>1, <1>3, ServePipes DEF IInv
<1>5. m \in Request /\ m \in In(req[w][b]) /\ m.kind = kind
  BY <1>1, <1>4 DEF Served, Serve
<1>6. t \in Txn /\ m.job = "commit"
  BY <1>1, <1>5, ReqMessage, SMT DEF ReqOK, Request, Message
<1>7. k \in Blocks
  BY <1>1, <1>2, <1>6, BlockTypes, ConfigAssumption
<1>8. blk' \in [Block -> Blocks] /\ UNCHANGED <<link, alive, checked, coord>>
  BY <1>1, <1>2, <1>7 DEF Serve
<1>9. done' = [done EXCEPT ![m.t] = done[m.t] \cup {b}] /\ vote' = vote
  BY <1>1 DEF Done
<1> QED
  BY <1>4, <1>6, <1>8, <1>9 DEF Carried

\* A failure only loses messages.
Lossy ==
    /\ req' \in [Worker -> [Block -> Seq(Request)]]
    /\ resp' \in [Worker -> [Block -> Seq(Response)]]
    /\ \A w \in Worker, b \in Block :
         /\ In(req'[w][b]) \subseteq In(req[w][b])
         /\ In(resp'[w][b]) \subseteq In(resp[w][b])
         /\ Unique(req[w][b]) => Unique(req'[w][b])
         /\ Unique(resp[w][b]) => Unique(resp'[w][b])
    /\ link' \in [Worker -> [Block -> BOOLEAN]]
    /\ alive' \subseteq Worker
    /\ UNCHANGED <<server, checked, coord>>

\* Losing messages keeps the invariant: it only says where messages are.
LEMMA LossyIInv == IInv /\ Lossy => IInv'
<1> SUFFICES ASSUME IInv, Lossy PROVE IInv'
  OBVIOUS
<1>1. UNCHANGED <<blk, vote, done, checked, started, outstanding, agree, timer,
                  answers, decision, left, replicated, heard, acked>>
  BY DEF Lossy, server, coord
<1>2. TypeOK'
  BY <1>1 DEF IInv, TypeOK, Lossy
<1>3. PipeInv'
  BY DEF IInv, PipeInv, Clean, Lossy
<1>4. ReqInv'
  <2> SUFFICES ASSUME NEW w \in Worker, NEW b \in Block, NEW m \in In(req'[w][b])
               PROVE  ReqOK(w, b, m)'
    BY DEF ReqInv
  <2>1. ReqOK(w, b, m)
    BY ReqMessage DEF Lossy
  <2> QED
    BY <1>1, <2>1 DEF ReqOK
<1>5. RespInv'
  <2> SUFFICES ASSUME NEW w \in Worker, NEW b \in Block, NEW m \in In(resp'[w][b])
               PROVE  RespOK(w, b, m)'
    BY DEF RespInv
  <2>1. RespOK(w, b, m)
    BY RespMessage DEF Lossy
  <2> QED
    BY <1>1, <2>1 DEF RespOK
<1>6. CoordInv'
  <2> SUFFICES ASSUME NEW u \in Txn PROVE CoordOK(u)'
    BY DEF CoordInv
  <2>1. Unmoved(u)
    BY <1>1 DEF Unmoved
  <2> QED
    BY <2>1, CoordUnmoved DEF IInv, CoordInv
<1> QED
  BY <1>2, <1>3, <1>4, <1>5, <1>6 DEF IInv

\* A worker's crash loses the ends of its requests and all its responses.
LEMMA WorkerCrashesLossy ==
  ASSUME IInv, NEW w \in Worker, WorkerCrashes(w)
  PROVE  Lossy
<1>1. PICK d : /\ d \in [Block -> UNION {Prefixes(req[w][b]) : b \in Block}]
               /\ \A b \in Block : d[b] \in Prefixes(req[w][b])
               /\ req' = [req EXCEPT ![w] = d]
  BY DEF WorkerCrashes
<1>2. /\ req \in [Worker -> [Block -> Seq(Request)]]
      /\ resp \in [Worker -> [Block -> Seq(Response)]]
  BY DEF IInv, TypeOK
<1>3. \A b \in Block : /\ d[b] \in Seq(Request) /\ In(d[b]) \subseteq In(req[w][b])
                       /\ Unique(req[w][b]) => Unique(d[b])
  BY <1>1, <1>2, PrefixPipe, SMT
<1>4. d \in [Block -> Seq(Request)]
  BY <1>1, <1>3
<1>5. /\ req' \in [Worker -> [Block -> Seq(Request)]]
      /\ req'[w] = d /\ \A v \in Worker : v # w => req'[v] = req[v]
  BY <1>1, <1>2, <1>4
<1>6. /\ resp' \in [Worker -> [Block -> Seq(Response)]]
      /\ \A b \in Block : resp'[w][b] = <<>>
      /\ \A v \in Worker : v # w => resp'[v] = resp[v]
  BY <1>2, SMT DEF WorkerCrashes
<1>7. \A v \in Worker, b \in Block :
         /\ In(req'[v][b]) \subseteq In(req[v][b])
         /\ Unique(req[v][b]) => Unique(req'[v][b])
  BY <1>3, <1>5
<1>8. \A v \in Worker, b \in Block :
         /\ In(resp'[v][b]) \subseteq In(resp[v][b])
         /\ Unique(resp[v][b]) => Unique(resp'[v][b])
  BY <1>6, EmptyPipe
<1>9. /\ link' \in [Worker -> [Block -> BOOLEAN]] /\ alive' \subseteq Worker
      /\ UNCHANGED <<server, checked, coord>>
  BY DEF WorkerCrashes, IInv, TypeOK
<1> QED
  BY <1>5, <1>6, <1>7, <1>8, <1>9 DEF Lossy

\* A server's restart loses the requests of the broken connections and the
\* ends of their responses.
LEMMA ServerRestartsLossy ==
  ASSUME IInv, NEW b \in Block, ServerRestarts(b)
  PROVE  Lossy
<1>1. PICK broken, d :
        /\ broken \in SUBSET Worker
        /\ link' = [w \in Worker |->
              IF w \in broken THEN [link[w] EXCEPT ![b] = FALSE] ELSE link[w]]
        /\ req' = [w \in Worker |->
              IF w \in broken THEN [req[w] EXCEPT ![b] = <<>>] ELSE req[w]]
        /\ \A w \in broken : d[w] \in Prefixes(resp[w][b])
        /\ resp' = [w \in Worker |->
              IF w \in broken THEN [resp[w] EXCEPT ![b] = d[w]] ELSE resp[w]]
  <2>1. PICK broken \in SUBSET {w \in Worker : link[w][b]} :
         /\ link' = [w \in Worker |->
              IF w \in broken THEN [link[w] EXCEPT ![b] = FALSE] ELSE link[w]]
         /\ req' = [w \in Worker |->
              IF w \in broken THEN [req[w] EXCEPT ![b] = <<>>] ELSE req[w]]
         /\ \E d \in [broken -> UNION {Prefixes(resp[w][b]) : w \in broken}] :
              /\ \A w \in broken : d[w] \in Prefixes(resp[w][b])
              /\ resp' = [w \in Worker |->
                   IF w \in broken THEN [resp[w] EXCEPT ![b] = d[w]]
                                   ELSE resp[w]]
    BY DEF ServerRestarts
  <2> QED
    BY <2>1
<1>2. /\ req \in [Worker -> [Block -> Seq(Request)]]
      /\ resp \in [Worker -> [Block -> Seq(Response)]]
  BY DEF IInv, TypeOK
<1>3. \A w \in broken : /\ d[w] \in Seq(Response) /\ In(d[w]) \subseteq In(resp[w][b])
                        /\ Unique(resp[w][b]) => Unique(d[w])
  BY <1>1, <1>2, PrefixPipe, SMTT(30)
<1>4. /\ req' \in [Worker -> [Block -> Seq(Request)]]
      /\ \A v \in Worker, c \in Block : req'[v][c] = <<>> \/ req'[v][c] = req[v][c]
  BY <1>1, <1>2, SMT
<1>5. /\ resp' \in [Worker -> [Block -> Seq(Response)]]
      /\ \A v \in Worker, c \in Block :
           \/ resp'[v][c] = resp[v][c]
           \/ v \in broken /\ c = b /\ resp'[v][c] = d[v]
  BY <1>1, <1>2, <1>3
<1>6. \A v \in Worker, c \in Block :
         /\ In(req'[v][c]) \subseteq In(req[v][c])
         /\ Unique(req[v][c]) => Unique(req'[v][c])
  BY <1>4, EmptyPipe
<1>7. \A v \in Worker, c \in Block :
         /\ In(resp'[v][c]) \subseteq In(resp[v][c])
         /\ Unique(resp[v][c]) => Unique(resp'[v][c])
  BY <1>3, <1>5
<1>8. link' \in [Worker -> [Block -> BOOLEAN]]
  BY <1>1 DEF IInv, TypeOK
<1>9. alive' \subseteq Worker /\ UNCHANGED <<server, checked, coord>>
  BY DEF ServerRestarts, IInv, TypeOK
<1> QED
  BY <1>4, <1>5, <1>6, <1>7, <1>8, <1>9 DEF Lossy

\* The library's facts about finite sets.
LEMMA CountingHolds == Counting
<1>1. Cardinality({}) = 0
  BY FS_EmptySet
<1>2. ASSUME NEW A, IsFiniteSet(A), NEW H PROVE IsFiniteSet(A \ H)
  BY <1>2, FS_Difference
<1>3. ASSUME NEW A, IsFiniteSet(A), NEW H, NEW x \in A \ H
      PROVE  /\ Cardinality(A \ H) \in Nat \ {0}
             /\ Cardinality(A \ (H \cup {x})) = Cardinality(A \ H) - 1
  <2>1. IsFiniteSet(A \ H)
    BY <1>2, <1>3
  <2>2. A \ (H \cup {x}) = (A \ H) \ {x}
    OBVIOUS
  <2>3. /\ Cardinality(A \ H) \in Nat
        /\ Cardinality((A \ H) \ {x}) = Cardinality(A \ H) - 1
        /\ IsFiniteSet((A \ H) \ {x})
    BY <2>1, FS_CardinalityType, FS_RemoveElement
  <2>4. Cardinality((A \ H) \ {x}) \in Nat
    BY <2>3, FS_CardinalityType
  <2> QED
    BY <2>2, <2>3, <2>4, SMT
<1>4. ASSUME NEW A, IsFiniteSet(A), NEW H, Cardinality(A \ H) = 0
      PROVE  A \subseteq H
  <2>1. IsFiniteSet(A \ H)
    BY <1>2, <1>4
  <2>2. A \ H = {}
    BY <1>4, <2>1, FS_EmptySet
  <2> QED
    BY <2>2
<1>5. ASSUME NEW t \in Txn
      PROVE  IsFiniteSet(BlocksOf(t)) /\ Cardinality(BlocksOf(t)) \in Nat
  <2>1. BlocksOf(t) \subseteq Block
    BY DEF BlocksOf
  <2>2. IsFiniteSet(BlocksOf(t))
    BY <2>1, FS_Subset, ConfigAssumption
  <2> QED
    BY <2>2, FS_CardinalityType
<1> QED
  BY <1>1, <1>3, <1>4, <1>5, ZenonT(30) DEF Counting

\* Every step keeps the invariant.
LEMMA NextIInv == IInv /\ [Next]_vars => IInv'
<1> SUFFICES ASSUME IInv, [Next]_vars PROVE IInv'
  OBVIOUS
<1>1. ASSUME NEW t \in Txn, Prepare(t) PROVE IInv'
  BY <1>1, PrepareIInv, CountingHolds
<1>2. ASSUME NEW t \in Txn, TimerExpires(t) \/ TimerFires(t) PROVE IInv'
  BY <1>2, TimerIInv
<1>3. ASSUME NEW w \in Worker, NEW b \in Block, PrepareResponse(w, b) PROVE IInv'
  BY <1>3, PrepareResponseIInv, CountingHolds
<1>4. ASSUME NEW w \in Worker, NEW b \in Block, LastPrepareResponse(w, b) PROVE IInv'
  BY <1>4, LastPrepareResponseIInv, CountingHolds
<1>5. ASSUME NEW w \in Worker, NEW b \in Block, CommitResponse(w, b) PROVE IInv'
  BY <1>5, CommitResponseIInv, CountingHolds
<1>6. ASSUME NEW w \in Worker, NEW b \in Block,
             two_pc_prepare(w, b) \/ two_pc_prepare_quick(w, b)
      PROVE  IInv'
  BY <1>6, PreparesVote, VotedIInv
<1>7. ASSUME NEW w \in Worker, NEW b \in Block,
             two_pc_commit_execute(w, b) \/ two_pc_commit_rollback(w, b)
      PROVE  IInv'
  BY <1>7, CommitsCarry, CarriedIInv
<1>8. ASSUME NEW w \in Worker, WorkerCrashes(w) PROVE IInv'
  BY <1>8, WorkerCrashesLossy, LossyIInv
<1>9. ASSUME NEW b \in Block, ServerRestarts(b) PROVE IInv'
  BY <1>9, ServerRestartsLossy, LossyIInv
<1>10. CASE UNCHANGED vars
  <2>1. UNCHANGED <<req, resp, link, alive, server, checked, coord>>
    BY <1>10 DEF vars
  <2>2. Lossy
    BY <2>1 DEF Lossy, IInv, TypeOK
  <2> QED
    BY <2>2, LossyIInv
<1> QED
  BY <1>1, <1>2, <1>3, <1>4, <1>5, <1>6, <1>7, <1>8, <1>9, <1>10, ZenonT(30)
     DEF Next, CoordinatorStep, ServerStep, Failure

\* The invariant holds in every reachable state.
LEMMA Invariance == Spec => []IInv
  BY InitIInv, NextIInv, PTL DEF Spec

\* The blocks, the messages in flight, the counters and the answers keep their
\* types; above all *outstanding_requests of the prepare and of the commit
\* never wrap below zero, because no response is ever counted twice.
THEOREM TypeCorrect == Spec => []TypeOK
<1>1. IInv => TypeOK
  BY DEF IInv
<1> QED
  BY <1>1, Invariance, PTL

\* start_2pc_commit is called with all_ssbd_agree set only when the server of
\* every block of the request agreed to prepare it, for any number of workers,
\* servers, blocks and overlapping requests, and through timeouts, worker
\* crashes and server restarts.
THEOREM VotesDecide == Spec => []DecisionFollowsVotes
<1>1. ASSUME IInv, NEW t \in Txn, decision[t] = "execute", NEW b \in BlocksOf(t)
      PROVE  vote[t][b] = "agree"
  <2>1. CoordOK(t)
    BY <1>1 DEF IInv, CoordInv
  <2>2. agree[t] /\ heard[t] = BlocksOf(t)
    BY <1>1, <2>1 DEF CoordOK
  <2>3. agree[t] => \A c \in heard[t] : vote[t][c] = "agree"
    BY <2>1 DEF CoordOK
  <2> QED
    BY <1>1, <2>2, <2>3
<1>2. IInv => DecisionFollowsVotes
  BY <1>1 DEF DecisionFollowsVotes
<1> QED
  BY <1>2, Invariance, PTL

-----------------------------------------------------------------------------
\* Blocks and logs.

\* t may be seen on part p of block b.
Accounted(t, b, p) == t # None => p \in Writes[t][b] /\ vote[t][b] = "agree"

\* The log accounts for its bytes like the block does: it is what a commit
\* will show.
LogInv ==
    /\ NoOrphanedLog
    /\ \A b \in Block, p \in Part :
         Accounted(blk[b].data[p], b, p) /\ Accounted(blk[b].pdata[p], b, p)

\* The server of b prepares request t: it refuses, and leaves a pending log as
\* it is, or agrees and puts the merged block into the log.
Prepared(b, t) ==
    /\ b \in Block /\ t \in Txn /\ vote[t][b] = "none" /\ b \notin done[t]
    /\ done' = done
    /\ \E v, k :
         /\ v \in {"agree", "abort"}
         /\ vote' = [vote EXCEPT ![t] = [vote[t] EXCEPT ![b] = v]]
         /\ blk' = [blk EXCEPT ![b] = k]
         /\ \/ v = "abort" /\ k = blk[b]
            \/ v = "agree" /\ k = PutPending(Created(blk[b]), t, Writes[t][b], Ver[t])

\* The two prepare handlers do that; a block that is not in db_ has no log, so
\* it is never refused.
LEMMA PreparesPrepared ==
  ASSUME IInv, NEW w \in Worker, NEW b \in Block,
         two_pc_prepare(w, b) \/ two_pc_prepare_quick(w, b)
  PROVE  \E t : Prepared(b, t)
<1>1. PICK m, t, kind, k, v :
        /\ m = Head(req[w][b]) /\ t = m.t
        /\ kind \in {"prepare", "quick"}
        /\ \/ k = AfterPrepare(blk[b], t, Writes[t][b], Ver[t]) /\ v = PrepareVote(blk[b])
           \/ k = AfterPrepareQuick(blk[b], t, Writes[t][b], Ver[t]) /\ v = "agree"
        /\ Serve(w, b, kind, k, v) /\ Vote(t, b, v)
  BY DEF two_pc_prepare, two_pc_prepare_quick
<1>2. req[w][b] \in Seq(Request) /\ req[w][b] # <<>> /\ m.kind = kind
  BY <1>1 DEF IInv, TypeOK, Serve
<1>3. m \in Request /\ m \in In(req[w][b])
  BY <1>1, <1>2, TailPipe
<1>4. t \in Txn /\ vote[t][b] = "none" /\ b \in BlocksOf(t) \ heard[t]
  <2>1. t \in Txn
    BY <1>1, <1>3 DEF Request, Message
  <2>2. m.kind \in {"prepare", "quick"} /\ ReqOK(w, b, m)
    <3>1. m.kind \in {"prepare", "quick"}
      BY <1>1, <1>2
    <3> QED
      BY <1>3, <3>1, ReqMessage
  <2>3. vote[m.t][b] = "none" /\ b \notin heard[m.t] /\ b \in BlocksOf(m.t)
    BY <2>2 DEF ReqOK
  <2>4. t = m.t
    BY <1>1
  <2> QED
    BY <2>1, <2>3, <2>4
<1>5. b \notin done[t]
  BY <1>4 DEF IInv, CoordInv, CoordOK
<1>6. /\ vote' = [vote EXCEPT ![t] = [vote[t] EXCEPT ![b] = v]]
      /\ done' = done
      /\ blk' = [blk EXCEPT ![b] = k]
  BY <1>1 DEF Serve, Vote
<1>7. HavePendingLog(Created(blk[b])) => Created(blk[b]) = blk[b]
  BY DEF HavePendingLog, Created, FreshBlock
<1>8. \/ v = "abort" /\ k = blk[b]
      \/ v = "agree" /\ k = PutPending(Created(blk[b]), t, Writes[t][b], Ver[t])
  BY <1>1, <1>7 DEF AfterPrepare, AfterPrepareQuick, PrepareVote
<1> DEFINE Does(x, y) ==
             /\ x \in {"agree", "abort"}
             /\ vote' = [vote EXCEPT ![t] = [vote[t] EXCEPT ![b] = x]]
             /\ blk' = [blk EXCEPT ![b] = y]
             /\ \/ x = "abort" /\ y = blk[b]
                \/ x = "agree" /\ y = PutPending(Created(blk[b]), t, Writes[t][b], Ver[t])
<1>9. \E x, y : Does(x, y)
  <2>1. Does(v, k)
    BY <1>6, <1>8
  <2> HIDE DEF Does
  <2> QED
    BY <2>1
<1>10. Prepared(b, t)
  BY <1>4, <1>5, <1>6, <1>9 DEF Prepared
<1> QED
  BY <1>10

\* A prepare keeps LogInv: an agreed log is the request's own.
LEMMA PreparedLogInv ==
  ASSUME IInv, LogInv, NEW b, NEW t, Prepared(b, t)
  PROVE  LogInv'
<1>1. /\ b \in Block /\ t \in Txn /\ vote[t][b] = "none" /\ b \notin done[t]
      /\ done' = done
  BY DEF Prepared
<1>2. PICK v, k :
        /\ v \in {"agree", "abort"}
        /\ vote' = [vote EXCEPT ![t] = [vote[t] EXCEPT ![b] = v]]
        /\ blk' = [blk EXCEPT ![b] = k]
        /\ \/ v = "abort" /\ k = blk[b]
           \/ v = "agree" /\ k = PutPending(Created(blk[b]), t, Writes[t][b], Ver[t])
  BY DEF Prepared
<1>3. /\ vote'[t][b] = v
      /\ \A u \in Txn, c \in Block : u # t \/ c # b => vote'[u][c] = vote[u][c]
      /\ blk'[b] = k /\ \A c \in Block : c # b => blk'[c] = blk[c]
  BY <1>1, <1>2 DEF IInv, TypeOK
<1>4. \A u \in Txn, c \in Block : vote[u][c] = "agree" => vote'[u][c] = "agree"
  BY <1>1, <1>3
<1>5. NoOrphanedLog'
  <2> SUFFICES ASSUME NEW c \in Block, HavePendingLog(blk'[c])
               PROVE  \E u \in Txn : vote'[u][c] = "agree" /\ c \notin done'[u]
    BY DEF NoOrphanedLog, HavePendingLog
  <2>1. CASE c = b /\ v = "agree"
    BY <1>1, <1>3, <2>1
  <2>2. CASE ~(c = b /\ v = "agree")
    <3>1. blk'[c] = blk[c]
      BY <1>2, <1>3, <2>2
    <3>2. PICK u \in Txn : vote[u][c] = "agree" /\ c \notin done[u]
      BY <3>1 DEF LogInv, NoOrphanedLog
    <3> QED
      BY <1>1, <1>4, <3>2
  <2> QED
    BY <2>1, <2>2
<1>6. ASSUME NEW u \in Txn \cup {None}, NEW c \in Block, NEW p \in Part, Accounted(u, c, p)
      PROVE  Accounted(u, c, p)'
  <2>1. u # None => u \in Txn
    OBVIOUS
  <2> QED
    BY <1>4, <1>6, <2>1 DEF Accounted
<1>7. ASSUME NEW c \in Block, NEW p \in Part
      PROVE  Accounted(blk[c].data[p], c, p)' /\ Accounted(blk[c].pdata[p], c, p)'
  <2>1. blk[c] \in Blocks /\ blk[b] \in Blocks
    BY <1>1 DEF IInv, TypeOK
  <2>2. PICK x, y : x = blk[c].data[p] /\ y = blk[c].pdata[p]
    OBVIOUS
  <2>3. x \in Txn \cup {None} /\ y \in Txn \cup {None} /\ Accounted(x, c, p) /\ Accounted(y, c, p)
    BY <2>1, <2>2 DEF LogInv, Blocks, Content
  <2>4. Accounted(x, c, p)' /\ Accounted(y, c, p)'
    BY <1>6, <2>3
  <2>5. CASE blk'[c] = blk[c]
    BY <2>2, <2>4, <2>5 DEF Accounted
  <2>6. CASE c = b /\ v = "agree" /\ k = PutPending(Created(blk[b]), t, Writes[t][b], Ver[t])
    <3>1. /\ Created(blk[b]) \in Blocks
          /\ Created(blk[b]).data[p] \in {x, None}
      BY <2>1, <2>2, <2>6 DEF Created, FreshBlock, Empty, Blocks, Content
    <3>2. /\ blk'[c].data = Created(blk[b]).data
          /\ blk'[c].pdata = Merge(Created(blk[b]).data, t, Writes[t][b])
      BY <1>3, <2>6, <3>1 DEF PutPending, Blocks
    <3>3. blk'[c].data[p] \in {x, None}
      BY <3>1, <3>2
    <3>4. \/ blk'[c].pdata[p] = t /\ p \in Writes[t][b]
          \/ blk'[c].pdata[p] \in {x, None}
      BY <3>1, <3>2 DEF Merge
    <3> QED
      BY <1>3, <2>4, <2>6, <3>3, <3>4 DEF Accounted
  <2> QED
    BY <1>2, <1>3, <2>5, <2>6
<1> QED
  BY <1>5, <1>7 DEF LogInv

\* A commit empties the account of the log: an execute makes its version the
\* committed one, a rollback makes it 0.
LEMMA CommitsLogInv ==
  ASSUME IInv, LogInv, NEW w \in Worker, NEW b \in Block,
         two_pc_commit_execute(w, b) \/ two_pc_commit_rollback(w, b)
  PROVE  LogInv'
<1>1. PICK t, k :
        /\ t = Head(req[w][b]).t
        /\ k = AfterExecute(blk[b]) \/ k = AfterRollback(blk[b])
        /\ blk' = [blk EXCEPT ![b] = k]
        /\ done' = [done EXCEPT ![t] = done[t] \cup {b}]
        /\ vote' = vote
  BY DEF two_pc_commit_execute, two_pc_commit_rollback, Serve, Done
<1>2. /\ blk[b] \in Blocks /\ blk'[b] = k
      /\ \A c \in Block : c # b => blk'[c] = blk[c]
      /\ \A u \in Txn, c \in Block : c # b => (c \in done'[u] <=> c \in done[u])
  BY <1>1 DEF IInv, TypeOK
<1>3. ~HavePendingLog(k)
  BY <1>1, <1>2 DEF HavePendingLog, AfterExecute, AfterRollback, Blocks
<1>4. NoOrphanedLog'
  <2> SUFFICES ASSUME NEW c \in Block, HavePendingLog(blk'[c])
               PROVE  \E u \in Txn : vote'[u][c] = "agree" /\ c \notin done'[u]
    BY DEF NoOrphanedLog, HavePendingLog
  <2>1. c # b /\ HavePendingLog(blk[c])
    BY <1>2, <1>3
  <2>2. PICK u \in Txn : vote[u][c] = "agree" /\ c \notin done[u]
    BY <2>1 DEF LogInv, NoOrphanedLog
  <2> QED
    BY <1>1, <1>2, <2>1, <2>2
<1>5. ASSUME NEW c \in Block, NEW p \in Part
      PROVE  Accounted(blk[c].data[p], c, p)' /\ Accounted(blk[c].pdata[p], c, p)'
  <2>1. blk'[c].data \in {blk[c].data, blk[c].pdata}
    <3>1. k.data \in {blk[b].data, blk[b].pdata}
      BY <1>1, <1>2 DEF AfterExecute, AfterRollback, Blocks
    <3> QED
      BY <1>2, <3>1
  <2>2. blk'[c].pdata \in {blk[c].pdata, Empty}
    <3>1. k.pdata \in {blk[b].pdata, Empty}
      BY <1>1, <1>2 DEF AfterExecute, AfterRollback, Blocks
    <3> QED
      BY <1>2, <3>1
  <2>3. Accounted(blk[c].data[p], c, p) /\ Accounted(blk[c].pdata[p], c, p)
    BY DEF LogInv
  <2> QED
    BY <1>1, <2>1, <2>2, <2>3, ZenonT(30) DEF Accounted, Empty
<1> QED
  BY <1>4, <1>5 DEF LogInv

\* Every step keeps LogInv.
LEMMA NextLogInv == IInv /\ LogInv /\ [Next]_vars => LogInv'
<1> SUFFICES ASSUME IInv, LogInv, [Next]_vars PROVE LogInv'
  OBVIOUS
<1>1. ASSUME UNCHANGED server PROVE LogInv'
  BY <1>1 DEF server, LogInv, NoOrphanedLog, HavePendingLog, Accounted
<1>2. ASSUME CoordinatorStep \/ Failure \/ UNCHANGED vars PROVE UNCHANGED server
  <2>1. ASSUME NEW t \in Txn, Prepare(t) \/ TimerExpires(t) \/ TimerFires(t)
        PROVE  UNCHANGED server
    BY <2>1 DEF Prepare, TimerExpires, TimerFires
  <2>2. ASSUME NEW w \in Worker, NEW b \in Block,
               PrepareResponse(w, b) \/ LastPrepareResponse(w, b) \/ CommitResponse(w, b)
        PROVE  UNCHANGED server
    BY <2>2 DEF PrepareResponse, LastPrepareResponse, CommitResponse
  <2>3. ASSUME NEW w \in Worker, WorkerCrashes(w) PROVE UNCHANGED server
    BY <2>3 DEF WorkerCrashes
  <2>4. ASSUME NEW b \in Block, ServerRestarts(b) PROVE UNCHANGED server
    BY <2>4 DEF ServerRestarts
  <2>5. ASSUME UNCHANGED vars PROVE UNCHANGED server
    BY <2>5 DEF vars
  <2> QED
    BY <1>2, <2>1, <2>2, <2>3, <2>4, <2>5 DEF CoordinatorStep, Failure
<1>3. ASSUME NEW w \in Worker, NEW b \in Block,
             two_pc_prepare(w, b) \/ two_pc_prepare_quick(w, b)
      PROVE  LogInv'
  BY <1>3, PreparesPrepared, PreparedLogInv
<1>4. ASSUME NEW w \in Worker, NEW b \in Block,
             two_pc_commit_execute(w, b) \/ two_pc_commit_rollback(w, b)
      PROVE  LogInv'
  BY <1>4, CommitsLogInv
<1> QED
  BY <1>1, <1>2, <1>3, <1>4 DEF Next, ServerStep

\* A block that no request touched has an empty log and shows nothing.
LEMMA InitLogInv == Init => LogInv
<1> SUFFICES ASSUME Init PROVE LogInv
  OBVIOUS
<1>1. \A b \in Block : blk[b] = FreshBlock
  BY DEF Init
<1>2. ~HavePendingLog(FreshBlock)
  BY DEF HavePendingLog, FreshBlock
<1>3. \A p \in Part : FreshBlock.data[p] = None /\ FreshBlock.pdata[p] = None
  BY DEF FreshBlock, Empty
<1> QED
  BY <1>1, <1>2, <1>3 DEF LogInv, NoOrphanedLog, Accounted

\* LogInv holds in every reachable state.
LEMMA LogInvariance == Spec => []LogInv
  BY InitLogInv, NextLogInv, Invariance, PTL DEF Spec

\* A pending log, which makes its block refuse every ordinary prepare, is
\* always accounted for by a request that the server agreed to and whose
\* decision it has still to carry out: no overlap of requests, timeout, crash
\* or restart makes the servers forget to clear one.
THEOREM LogsAccounted == Spec => []NoOrphanedLog
<1>1. LogInv => NoOrphanedLog
  BY DEF LogInv
<1> QED
  BY <1>1, LogInvariance, PTL

\* A block never shows a byte outside the range its request wrote, nor one of
\* a request the server refused or was never asked to prepare.
THEOREM OnlyPreparedVisible == Spec => []VisibleWasPrepared
<1>1. LogInv => VisibleWasPrepared
  BY DEF LogInv, VisibleWasPrepared, Accounted
<1> QED
  BY <1>1, LogInvariance, PTL

-----------------------------------------------------------------------------
\* The answers to the client.

\* The answers s to a request whose decision is d and whose timer is at f: the
\* timer answers when it fires, and only then.
AnswersOK(s, d, f) ==
    /\ \A i, j \in DOMAIN s : s[i] = s[j] => i = j
    /\ \A i \in DOMAIN s :
         /\ s[i] = "OK" => d = "execute"
         /\ s[i] = "Error: Found Pending 2PC Log" => d = "rollback"
         /\ s[i] = "Error: request timeout internally" => f = "fired"

\* The timer is armed with the request.
AnswerInv ==
    \A t \in Txn : /\ AnswersOK(answers[t], decision[t], timer[t])
                   /\ t \notin started => timer[t] = "off"

\* The handler of a request gives one more answer, which it has not given yet.
LEMMA OneMoreAnswer ==
  ASSUME NEW s \in Seq(Answer), NEW x \in Answer, \A i \in DOMAIN s : s[i] # x,
         \A i, j \in DOMAIN s : s[i] = s[j] => i = j,
         NEW u, u = Append(s, x)
  PROVE  /\ \A i, j \in DOMAIN u : u[i] = u[j] => i = j
         /\ \A i \in DOMAIN u : u[i] = x \/ \E j \in DOMAIN s : u[i] = s[j]
<1>1. /\ Len(s) \in Nat /\ DOMAIN s = 1..Len(s) /\ DOMAIN u = 1..(Len(s) + 1)
      /\ u[Len(s) + 1] = x /\ \A i \in 1..Len(s) : u[i] = s[i]
  BY SMT
<1> QED
  BY <1>1, SMT

\* A step that answers nobody.
LEMMA NoAnswer ==
  ASSUME AnswerInv, UNCHANGED <<answers, decision>>,
         \A t \in Txn : timer[t] = "fired" => timer'[t] = "fired",
         \A t \in Txn : t \notin started' => t \notin started /\ timer'[t] = timer[t]
  PROVE  AnswerInv'
<1> SUFFICES ASSUME NEW t \in Txn
             PROVE  /\ AnswersOK(answers'[t], decision'[t], timer'[t])
                    /\ t \notin started' => timer'[t] = "off"
  BY DEF AnswerInv
<1>1. AnswersOK(answers[t], decision[t], timer[t])
  BY DEF AnswerInv
<1>2. AnswersOK(answers[t], decision[t], timer'[t])
  BY <1>1 DEF AnswersOK
<1> QED
  BY <1>2 DEF AnswerInv

\* A step that answers request t with x only.
LEMMA AnswerOnce ==
  ASSUME IInv, AnswerInv, NEW t \in Txn, NEW x \in Answer,
         started' = started, t \in started,
         answers' = [answers EXCEPT ![t] = Append(answers[t], x)],
         \A i \in DOMAIN answers[t] : answers[t][i] # x,
         \A u \in Txn : u # t => decision'[u] = decision[u] /\ timer'[u] = timer[u],
         decision'[t] = decision[t] \/ decision[t] = "none",
         timer[t] = "fired" => timer'[t] = "fired",
         x = "OK" => decision'[t] = "execute",
         x = "Error: Found Pending 2PC Log" => decision'[t] = "rollback",
         x = "Error: request timeout internally" => timer'[t] = "fired"
  PROVE  AnswerInv'
<1>1. /\ answers[t] \in Seq(Answer) /\ answers'[t] = Append(answers[t], x)
      /\ \A u \in Txn : u # t => answers'[u] = answers[u]
  BY DEF IInv, TypeOK
<1>2. PICK s, d, f, r, e, g :
        /\ s = answers[t] /\ d = decision[t] /\ f = timer[t]
        /\ r = answers'[t] /\ e = decision'[t] /\ g = timer'[t]
  OBVIOUS
<1>3. AnswersOK(s, d, f)
  BY <1>2 DEF AnswerInv
<1>4. /\ \A i, j \in DOMAIN r : r[i] = r[j] => i = j
      /\ \A i \in DOMAIN r : r[i] = x \/ \E j \in DOMAIN s : r[i] = s[j]
  <2>1. s \in Seq(Answer) /\ r = Append(s, x)
    BY <1>1, <1>2
  <2>2. /\ \A i \in DOMAIN s : s[i] # x
        /\ \A i, j \in DOMAIN s : s[i] = s[j] => i = j
    BY <1>2, <1>3 DEF AnswersOK
  <2> QED
    BY <2>1, <2>2, OneMoreAnswer
<1>5. /\ e = d \/ d = "none"
      /\ f = "fired" => g = "fired"
      /\ x = "OK" => e = "execute"
      /\ x = "Error: Found Pending 2PC Log" => e = "rollback"
      /\ x = "Error: request timeout internally" => g = "fired"
  BY <1>2
<1>6. \A i \in DOMAIN s :
        /\ s[i] = "OK" => e = "execute"
        /\ s[i] = "Error: Found Pending 2PC Log" => e = "rollback"
        /\ s[i] = "Error: request timeout internally" => g = "fired"
  BY <1>2, <1>3 DEF AnswersOK
<1>7. AnswersOK(r, e, g)
  BY <1>4, <1>5, <1>6 DEF AnswersOK
<1> SUFFICES ASSUME NEW u \in Txn
             PROVE  /\ AnswersOK(answers'[u], decision'[u], timer'[u])
                    /\ u \notin started' => timer'[u] = "off"
  BY DEF AnswerInv
<1>8. CASE u = t
  BY <1>2, <1>7, <1>8
<1>9. CASE u # t
  BY <1>1, <1>9 DEF AnswerInv
<1> QED
  BY <1>8, <1>9

\* The last response to a prepare answers with the decision it takes.
LEMMA LastPrepareResponseAnswer ==
  ASSUME IInv, AnswerInv, NEW w \in Worker, NEW b \in Block, LastPrepareResponse(w, b)
  PROVE  AnswerInv'
<1>1. PICK m, t : /\ m = Head(resp[w][b]) /\ t = m.t
                  /\ resp[w][b] # <<>> /\ m.job = "prepare"
  BY DEF LastPrepareResponse, Received
<1>2. m \in In(resp[w][b])
  BY <1>1, TakePipes DEF IInv, Taken
<1>3. t \in Txn /\ t \in started /\ outstanding[t] = 1
  <2>1. m.t \in Txn /\ RespOK(w, b, m)
    BY <1>2, RespMessage
  <2> QED
    BY <1>1, <2>1 DEF RespOK, LastPrepareResponse
<1>4. decision[t] = "none"
  <2>1. SUFFICES ASSUME decision[t] # "none" PROVE FALSE
    OBVIOUS
  <2>2. heard[t] = BlocksOf(t) /\ outstanding[t] = Cardinality(BlocksOf(t) \ heard[t])
    BY <1>3, <2>1 DEF IInv, CoordInv, CoordOK
  <2>3. outstanding[t] = 0
    <3>1. BlocksOf(t) \ heard[t] = {}
      BY <2>2
    <3> QED
      BY <2>2, <3>1, CountingHolds DEF Counting
  <2> QED
    BY <1>3, <2>3, SMT
<1>5. PICK ok, x, d :
        /\ ok <=> (agree[t] /\ Agreed(m))
        /\ x = IF ok THEN "OK" ELSE "Error: Found Pending 2PC Log"
        /\ d = IF ok THEN "execute" ELSE "rollback"
        /\ started' = started
        /\ answers' = [answers EXCEPT ![t] = Append(answers[t], x)]
        /\ decision' = [decision EXCEPT ![t] = d]
        /\ timer' = [timer EXCEPT ![t] = IF timer[t] = "armed" THEN "cancelled" ELSE timer[t]]
  BY <1>1 DEF LastPrepareResponse
<1>6. x \in Answer /\ (x = "OK" => d = "execute")
      /\ (x = "Error: Found Pending 2PC Log" => d = "rollback")
      /\ x # "Error: request timeout internally"
  BY <1>5 DEF Answer
<1>7. /\ decision'[t] = d /\ \A u \in Txn : u # t => decision'[u] = decision[u]
      /\ \A u \in Txn : u # t => timer'[u] = timer[u]
      /\ timer[t] = "fired" => timer'[t] = "fired"
  BY <1>3, <1>5 DEF IInv, TypeOK
<1>8. \A i \in DOMAIN answers[t] : answers[t][i] # x
  BY <1>3, <1>4, <1>5 DEF AnswerInv, AnswersOK
<1>9. /\ t \in Txn /\ t \in started /\ started' = started
      /\ answers' = [answers EXCEPT ![t] = Append(answers[t], x)]
      /\ decision[t] = "none" /\ x \in Answer
      /\ \A u \in Txn : u # t => decision'[u] = decision[u] /\ timer'[u] = timer[u]
  BY <1>3, <1>4, <1>5, <1>6, <1>7
<1>10. /\ x = "OK" => decision'[t] = "execute"
       /\ x = "Error: Found Pending 2PC Log" => decision'[t] = "rollback"
       /\ x = "Error: request timeout internally" => timer'[t] = "fired"
       /\ timer[t] = "fired" => timer'[t] = "fired"
  BY <1>6, <1>7
<1> QED
  BY <1>8, <1>9, <1>10, AnswerOnce

\* The timer answers once.
LEMMA TimerFiresAnswer ==
  ASSUME IInv, AnswerInv, NEW t \in Txn, TimerFires(t)
  PROVE  AnswerInv'
<1>1. PICK x : x = "Error: request timeout internally"
  OBVIOUS
<1>2. /\ answers' = [answers EXCEPT ![t] = Append(answers[t], x)]
      /\ decision' = decision /\ timer[t] = "expired" /\ started' = started
      /\ timer' = [timer EXCEPT ![t] = "fired"]
  BY <1>1 DEF TimerFires
<1>3. timer'[t] = "fired" /\ \A u \in Txn : u # t => timer'[u] = timer[u]
  BY <1>2 DEF IInv, TypeOK
<1>4. \A i \in DOMAIN answers[t] : answers[t][i] # x
  BY <1>1, <1>2 DEF AnswerInv, AnswersOK
<1>5. x \in Answer /\ x # "OK" /\ x # "Error: Found Pending 2PC Log"
  BY <1>1 DEF Answer
<1>6. t \in started
  BY <1>2 DEF AnswerInv
<1> QED
  BY <1>2, <1>3, <1>4, <1>5, <1>6, AnswerOnce

\* Every step keeps AnswerInv.
LEMMA NextAnswerInv == IInv /\ AnswerInv /\ [Next]_vars => AnswerInv'
<1> SUFFICES ASSUME IInv, AnswerInv, [Next]_vars PROVE AnswerInv'
  OBVIOUS
<1>1. ASSUME NEW t \in Txn, Prepare(t) \/ TimerExpires(t) PROVE AnswerInv'
  <2>1. UNCHANGED <<answers, decision>>
    BY <1>1 DEF Prepare, TimerExpires
  <2>2. timer[t] # "fired"
    <3>1. CASE TimerExpires(t)
      BY <3>1 DEF TimerExpires
    <3>2. CASE Prepare(t)
      BY <3>2 DEF Prepare, AnswerInv
    <3> QED
      BY <1>1, <3>1, <3>2
  <2>3. \A u \in Txn : u # t => timer'[u] = timer[u]
    BY <1>1 DEF Prepare, TimerExpires, IInv, TypeOK
  <2>4. started' = started \cup {t} \/ (started' = started /\ t \in started)
    <3>1. CASE TimerExpires(t)
      BY <3>1 DEF TimerExpires, AnswerInv
    <3>2. CASE Prepare(t)
      BY <3>2 DEF Prepare
    <3> QED
      BY <1>1, <3>1, <3>2
  <2> QED
    BY <2>1, <2>2, <2>3, <2>4, NoAnswer
<1>2. ASSUME NEW t \in Txn, TimerFires(t) PROVE AnswerInv'
  BY <1>2, TimerFiresAnswer
<1>3. ASSUME NEW w \in Worker, NEW b \in Block, LastPrepareResponse(w, b) PROVE AnswerInv'
  BY <1>3, LastPrepareResponseAnswer
<1>4. ASSUME NEW w \in Worker, NEW b \in Block,
             PrepareResponse(w, b) \/ CommitResponse(w, b)
      PROVE  AnswerInv'
  BY <1>4, NoAnswer DEF PrepareResponse, CommitResponse
<1>5. ASSUME ServerStep \/ Failure \/ UNCHANGED vars PROVE AnswerInv'
  <2>1. UNCHANGED coord
    <3>1. CASE ServerStep
      <4>1. PICK w \in Worker, b \in Block :
              \/ two_pc_prepare(w, b) \/ two_pc_prepare_quick(w, b)
              \/ two_pc_commit_execute(w, b) \/ two_pc_commit_rollback(w, b)
        BY <3>1 DEF ServerStep
      <4>2. \E kind, k, reply : Serve(w, b, kind, k, reply)
        BY <4>1 DEF two_pc_prepare, two_pc_prepare_quick, two_pc_commit_execute,
             two_pc_commit_rollback
      <4> QED
        BY <4>2 DEF Serve
    <3>2. CASE Failure
      BY <3>2 DEF Failure, WorkerCrashes, ServerRestarts
    <3>3. CASE UNCHANGED vars
      BY <3>3 DEF vars
    <3> QED
      BY <1>5, <3>1, <3>2, <3>3
  <2> QED
    BY <2>1, NoAnswer DEF coord
<1> QED
  BY <1>1, <1>2, <1>3, <1>4, <1>5 DEF Next, CoordinatorStep

\* Nothing is answered at first.
LEMMA InitAnswerInv == Init => AnswerInv
<1> SUFFICES ASSUME Init PROVE AnswerInv
  OBVIOUS
<1>1. \A t \in Txn : answers[t] = <<>> /\ timer[t] = "off"
  BY DEF Init
<1>2. DOMAIN <<>> = {}
  BY SMT
<1> QED
  BY <1>1, <1>2 DEF AnswerInv, AnswersOK

\* A client is told each outcome at most once, whatever responses and timers
\* race, and the outcome it is told is the one start_2pc_commit sends.
THEOREM OutcomesAnswered == Spec => []AnswersMatchDecision
<1>1. AnswerInv => AnswersMatchDecision
  BY DEF AnswerInv, AnswersOK, AnswersMatchDecision
<1> QED
  BY <1>1, InitAnswerInv, NextAnswerInv, Invariance, PTL DEF Spec

-----------------------------------------------------------------------------
\* The replication.

\* The server of b has carried out t's decision, or its connection to w broke.
Settled(w, b, t) == b \in done[t] \/ ~link[w][b]

\* A response to a decision, in flight or counted, comes from a server that
\* carried it out or from a broken connection, and the replication waits for
\* the last one.
ReplInv ==
    /\ \A w \in Worker, b \in Block : \A m \in In(resp[w][b]) :
         m.job = "commit" => Settled(w, b, m.t)
    /\ \A t \in Txn : \A b \in acked[t] : Settled(Owner[t], b, t)
    /\ \A t \in replicated : BlocksOf(t) \subseteq acked[t]

\* What a step adds to the responses, to the counted ones and to the replicated
\* requests is settled.
Onward ==
    /\ \A w \in Worker, b \in Block : \A m \in In(resp'[w][b]) :
         m.job = "commit" => m \in In(resp[w][b]) \/ Settled(w, b, m.t)'
    /\ \A w \in Worker, b \in Block, t \in Txn : Settled(w, b, t) => Settled(w, b, t)'
    /\ \A t \in Txn : acked[t] \subseteq acked'[t]
    /\ \A t \in Txn : \A b \in acked'[t] : b \in acked[t] \/ Settled(Owner[t], b, t)'
    /\ \A t \in replicated' : t \in replicated \/ BlocksOf(t) \subseteq acked'[t]

\* Such a step keeps ReplInv.
LEMMA OnwardReplInv ==
  ASSUME IInv, ReplInv, Onward
  PROVE  ReplInv'
<1>1. ASSUME NEW w \in Worker, NEW b \in Block, NEW m \in In(resp'[w][b]), m.job = "commit"
      PROVE  Settled(w, b, m.t)'
  <2>1. CASE m \in In(resp[w][b])
    <3>1. m.t \in Txn
      BY <2>1, RespMessage
    <3>2. Settled(w, b, m.t)
      BY <1>1, <2>1 DEF ReplInv
    <3> QED
      BY <3>1, <3>2 DEF Onward
  <2> QED
    BY <1>1, <2>1 DEF Onward
<1>2. ASSUME NEW t \in Txn, NEW b \in acked'[t]
      PROVE  Settled(Owner[t], b, t)'
  <2>1. CASE b \in acked[t]
    <3>1. b \in Block /\ Owner[t] \in Worker
      BY <2>1, ConfigAssumption DEF IInv, TypeOK
    <3>2. Settled(Owner[t], b, t)
      BY <2>1 DEF ReplInv
    <3> QED
      BY <3>1, <3>2 DEF Onward
  <2> QED
    BY <1>2, <2>1 DEF Onward
<1>3. ASSUME NEW t \in replicated'
      PROVE  BlocksOf(t) \subseteq acked'[t]
  <2>1. CASE t \in replicated
    BY <2>1 DEF ReplInv, Onward, IInv, TypeOK
  <2> QED
    BY <2>1 DEF Onward
<1> QED
  BY <1>1, <1>2, <1>3 DEF ReplInv, BlocksOf

\* A step that counts nothing, carries nothing out and reconnects nobody.
LEMMA MessagesOnward ==
  ASSUME UNCHANGED <<acked, replicated, done>>,
         \A w \in Worker, b \in Block : link'[w][b] => link[w][b],
         \A w \in Worker, b \in Block : \A m \in In(resp'[w][b]) :
           m.job = "commit" => m \in In(resp[w][b]) \/ ~link'[w][b]
  PROVE  Onward
<1>1. \A w \in Worker, b \in Block, t \in Txn : Settled(w, b, t) => Settled(w, b, t)'
  BY DEF Settled
<1>2. \A w \in Worker, b \in Block : \A m \in In(resp'[w][b]) :
        m.job = "commit" => m \in In(resp[w][b]) \/ Settled(w, b, m.t)'
  BY DEF Settled
<1> QED
  BY <1>1, <1>2 DEF Onward

\* The responses after a send of m over the connections of w, which held rs:
\* a new one is the failure of m on a broken connection.
Answered(w, m, rs) ==
    \A v \in Worker, c \in Block : \A n \in In(resp'[v][c]) :
        \/ v # w /\ n \in In(resp[v][c])
        \/ v = w /\ n \in In(rs[c])
        \/ ~link[v][c] /\ n.job = m.job

\* A send runs the handler at once only where the connection is broken.
LEMMA SendFails ==
  ASSUME TypeOK, NEW w \in Worker, NEW bs, NEW m \in Request,
         NEW rs \in [Block -> Seq(Response)], Send(w, bs, m, rs)
  PROVE  Answered(w, m, rs)
<1> SUFFICES ASSUME NEW v \in Worker, NEW c \in Block, NEW n \in In(resp'[v][c])
             PROVE  \/ v # w /\ n \in In(resp[v][c])
                    \/ v = w /\ n \in In(rs[c])
                    \/ ~link[v][c] /\ n.job = m.job
  BY DEF Answered
<1>1. PICK e : e = [m EXCEPT !.kind = "err"]
  OBVIOUS
<1>2. e \in Response /\ e.job = m.job
  BY <1>1 DEF Request, Response, Message
<1>3. PICK failed \in SUBSET {b \in bs : ~link[w][b]} :
        resp' = [resp EXCEPT ![w] = [b \in Block |->
                   IF b \in failed THEN Append(rs[b], e) ELSE rs[b]]]
  BY <1>1 DEF Send
<1>4. CASE v # w
  BY <1>3, <1>4 DEF TypeOK
<1>5. CASE v = w
  <2>1. resp'[w][c] = IF c \in failed THEN Append(rs[c], e) ELSE rs[c]
    BY <1>3 DEF TypeOK
  <2>2. CASE c \notin failed
    BY <1>5, <2>1, <2>2
  <2>3. CASE c \in failed
    <3>1. rs[c] \in Seq(Response) /\ ~link[w][c]
      BY <1>3, <2>3
    <3>2. In(Append(rs[c], e)) = In(rs[c]) \cup {e}
      BY <1>2, <3>1, AppendPipe, SMT
    <3> QED
      BY <1>2, <1>5, <2>1, <2>3, <3>1, <3>2
  <2> QED
    BY <2>2, <2>3
<1> QED
  BY <1>4, <1>5

\* start_2pc_prepare's sends are no decisions.
LEMMA PrepareOnward ==
  ASSUME IInv, NEW t \in Txn, Prepare(t)
  PROVE  Onward
<1>1. PICK w, m : /\ w = Owner[t]
                  /\ m = [kind |-> IF w \in checked THEN "quick" ELSE "prepare",
                          job |-> "prepare", t |-> t]
  OBVIOUS
<1>2. /\ Send(w, BlocksOf(t), m, resp[w])
      /\ UNCHANGED <<acked, replicated, done, link>>
  BY <1>1 DEF Prepare, server
<1>3. w \in Worker /\ resp[w] \in [Block -> Seq(Response)] /\ TypeOK
  BY <1>1, ConfigAssumption DEF IInv, TypeOK
<1>4. m \in Request /\ m.job = "prepare"
  BY <1>1 DEF Request, Message
<1>5. Answered(w, m, resp[w])
  BY <1>2, <1>3, <1>4, SendFails
<1>6. ASSUME NEW v \in Worker, NEW c \in Block, NEW n \in In(resp'[v][c]), n.job = "commit"
      PROVE  n \in In(resp[v][c])
  BY <1>4, <1>5, <1>6 DEF Answered
<1> QED
  BY <1>2, <1>6, MessagesOnward

\* What a handler leaves of the responses of its connection.
LEMMA TakenResponses ==
  ASSUME IInv, NEW w \in Worker, NEW b \in Block, resp[w][b] # <<>>,
         resp' = [resp EXCEPT ![w] = [resp[w] EXCEPT ![b] = Tail(resp[w][b])]]
  PROVE  \A v \in Worker, c \in Block : In(resp'[v][c]) \subseteq In(resp[v][c])
<1>1. PICK rs : rs = [resp[w] EXCEPT ![b] = Tail(resp[w][b])]
  OBVIOUS
<1>2. \A c \in Block : In(rs[c]) \subseteq In(resp[w][c])
  BY <1>1, TakePipes DEF IInv, Taken
<1>3. \A v \in Worker : resp'[v] = IF v = w THEN rs ELSE resp[v]
  BY <1>1 DEF IInv, TypeOK
<1> QED
  BY <1>2, <1>3

\* A response to a prepare is no response to a decision.
LEMMA PrepareResponseOnward ==
  ASSUME IInv, NEW w \in Worker, NEW b \in Block, PrepareResponse(w, b)
  PROVE  Onward
<1>1. /\ resp[w][b] # <<>> /\ UNCHANGED <<acked, replicated, done, link>>
      /\ resp' = [resp EXCEPT ![w] = [resp[w] EXCEPT ![b] = Tail(resp[w][b])]]
  BY DEF PrepareResponse, Received, server
<1>2. \A v \in Worker, c \in Block : In(resp'[v][c]) \subseteq In(resp[v][c])
  BY <1>1, TakenResponses
<1> QED
  BY <1>1, <1>2, MessagesOnward

\* A decision fails at once only where the connection is broken.
LEMMA LastPrepareResponseOnward ==
  ASSUME IInv, NEW w \in Worker, NEW b \in Block, LastPrepareResponse(w, b)
  PROVE  Onward
<1>1. PICK t, d, rs, m :
        /\ t = Head(resp[w][b]).t
        /\ d \in {"execute", "rollback"}
        /\ rs = [resp[w] EXCEPT ![b] = Tail(resp[w][b])]
        /\ m = [kind |-> d, job |-> "commit", t |-> t]
        /\ resp[w][b] # <<>>
        /\ Send(w, BlocksOf(t), m, rs)
        /\ UNCHANGED <<acked, replicated, done, link>>
  BY DEF LastPrepareResponse, Received, server
<1>2. Taken(w, b, Head(resp[w][b]), rs)
  BY <1>1, TakePipes DEF IInv
<1>3. t \in Txn /\ rs \in [Block -> Seq(Response)] /\ TypeOK
  BY <1>1, <1>2 DEF Taken, Response, Message, IInv
<1>4. m \in Request
  BY <1>1, <1>3 DEF Request, Message
<1>5. Answered(w, m, rs)
  BY <1>1, <1>3, <1>4, SendFails
<1>6. ASSUME NEW v \in Worker, NEW c \in Block, NEW n \in In(resp'[v][c]), n.job = "commit"
      PROVE  n \in In(resp[v][c]) \/ ~link'[v][c]
  <2>1. In(rs[c]) \subseteq In(resp[w][c])
    BY <1>2 DEF Taken
  <2> QED
    BY <1>1, <1>5, <2>1 DEF Answered
<1> QED
  BY <1>1, <1>6, MessagesOnward

\* The response that starts the replication is the last one not counted.
LEMMA CommitResponseOnward ==
  ASSUME IInv, ReplInv, NEW w \in Worker, NEW b \in Block, CommitResponse(w, b)
  PROVE  Onward
<1>1. PICK m, t : /\ m = Head(resp[w][b]) /\ t = m.t
                  /\ resp[w][b] # <<>> /\ m.job = "commit"
  BY DEF CommitResponse, Received
<1>2. m \in In(resp[w][b])
  BY <1>1, TakePipes DEF IInv, Taken
<1>3. /\ t \in Txn /\ Owner[t] = w /\ b \in BlocksOf(t) \ acked[t]
      /\ decision[t] # "none"
  <2>1. m.t \in Txn /\ RespOK(w, b, m)
    BY <1>2, RespMessage
  <2> QED
    BY <1>1, <2>1 DEF RespOK
<1>4. Settled(w, b, t)
  BY <1>1, <1>2 DEF ReplInv
<1>5. /\ resp' = [resp EXCEPT ![w] = [resp[w] EXCEPT ![b] = Tail(resp[w][b])]]
      /\ acked' = [acked EXCEPT ![t] = acked[t] \cup {b}]
      /\ replicated' = replicated \/ (left[t] = 1 /\ replicated' = replicated \cup {t})
      /\ UNCHANGED <<done, link>>
  BY <1>1 DEF CommitResponse, LastAck, server
<1>6. \A v \in Worker, c \in Block : In(resp'[v][c]) \subseteq In(resp[v][c])
  BY <1>1, <1>5, TakenResponses
<1>7. acked'[t] = acked[t] \cup {b} /\ \A u \in Txn : u # t => acked'[u] = acked[u]
  BY <1>3, <1>5 DEF IInv, TypeOK
<1>8. ASSUME left[t] = 1 PROVE BlocksOf(t) \subseteq acked'[t]
  <2>1. IsFiniteSet(BlocksOf(t))
    BY <1>3, CountingHolds, BlocksFinite
  <2>2. left[t] = Cardinality(BlocksOf(t) \ acked[t])
    BY <1>3 DEF IInv, CoordInv, CoordOK
  <2>3. Cardinality(BlocksOf(t) \ (acked[t] \cup {b})) = Cardinality(BlocksOf(t) \ acked[t]) - 1
    BY <1>3, <2>1, CountingHolds, CountDown
  <2>4. Cardinality(BlocksOf(t) \ (acked[t] \cup {b})) = 0
    BY <1>8, <2>2, <2>3, SMT
  <2> QED
    BY <1>7, <2>1, <2>4, CountingHolds, CountedDown
<1>9. ASSUME NEW u \in replicated', u \notin replicated
      PROVE  BlocksOf(u) \subseteq acked'[u]
  <2>1. left[t] = 1 /\ u = t
    BY <1>5, <1>9
  <2> QED
    BY <1>8, <2>1
<1>10. \A v \in Worker, c \in Block, u \in Txn : Settled(v, c, u) => Settled(v, c, u)'
  BY <1>5 DEF Settled
<1>11. \A u \in Txn : \A c \in acked'[u] : c \in acked[u] \/ Settled(Owner[u], c, u)'
  <2>1. Settled(w, b, t)'
    BY <1>3, <1>4, <1>10
  <2> QED
    BY <1>3, <1>7, <2>1
<1> QED
  BY <1>6, <1>7, <1>9, <1>10, <1>11 DEF Onward

\* A vote is no response to a decision.
LEMMA VotedOnward ==
  ASSUME IInv, NEW w, NEW b, NEW m, NEW e, NEW v, Voted(w, b, m, e, v)
  PROVE  Onward
<1>1. /\ Served(w, b, m, e) /\ m.job = "prepare"
      /\ UNCHANGED <<acked, replicated, done, link>>
  BY DEF Voted, coord
<1>2. e.job # "commit" /\ \A u \in Worker, c \in Block :
        In(resp'[u][c]) \subseteq In(resp[u][c]) \cup {e}
  BY <1>1 DEF Served
<1> QED
  BY <1>1, <1>2, MessagesOnward

\* A server answers a decision once it has carried it out.
LEMMA CarriedOnward ==
  ASSUME IInv, NEW w, NEW b, NEW m, NEW e, Carried(w, b, m, e)
  PROVE  Onward
<1>1. /\ w \in Worker /\ b \in Block /\ Served(w, b, m, e)
      /\ done' = [done EXCEPT ![m.t] = done[m.t] \cup {b}]
      /\ UNCHANGED <<acked, replicated, link>>
  BY DEF Carried, coord
<1>2. m.t \in Txn /\ e.t = m.t
  BY <1>1, ReqMessage DEF Served
<1>3. b \in done'[m.t] /\ \A u \in Txn : done[u] \subseteq done'[u]
  BY <1>1, <1>2 DEF IInv, TypeOK
<1>4. \A v \in Worker, c \in Block, u \in Txn : Settled(v, c, u) => Settled(v, c, u)'
  BY <1>1, <1>3 DEF Settled
<1>5. ASSUME NEW v \in Worker, NEW c \in Block, NEW n \in In(resp'[v][c])
      PROVE  n \in In(resp[v][c]) \/ Settled(v, c, n.t)'
  <2>1. CASE v = w /\ c = b
    <3>1. In(resp'[v][c]) \subseteq In(resp[v][c]) \cup {e}
      BY <1>1, <2>1 DEF Served
    <3> QED
      BY <1>2, <1>3, <2>1, <3>1 DEF Settled
  <2>2. CASE ~(v = w /\ c = b)
    BY <1>1, <2>2 DEF Served
  <2> QED
    BY <2>1, <2>2
<1> QED
  BY <1>1, <1>4, <1>5 DEF Onward

\* A crash breaks no connection, a restart makes none.
LEMMA FailureOnward ==
  ASSUME IInv, Failure
  PROVE  Onward
<1>1. CASE \E w \in Worker : WorkerCrashes(w)
  <2>1. PICK w \in Worker : WorkerCrashes(w)
    BY <1>1
  <2>2. Lossy /\ link' = link
    BY <2>1, WorkerCrashesLossy DEF WorkerCrashes
  <2> QED
    BY <2>2, MessagesOnward DEF Lossy, server, coord
<1>2. CASE \E b \in Block : ServerRestarts(b)
  <2>1. PICK b \in Block : ServerRestarts(b)
    BY <1>2
  <2>2. Lossy
    BY <2>1, ServerRestartsLossy
  <2>3. PICK broken : link' = [w \in Worker |->
          IF w \in broken THEN [link[w] EXCEPT ![b] = FALSE] ELSE link[w]]
    BY <2>1 DEF ServerRestarts
  <2>4. ASSUME NEW w \in Worker, NEW c \in Block, link'[w][c] PROVE link[w][c]
    <3>1. link[w] \in [Block -> BOOLEAN]
      BY DEF IInv, TypeOK
    <3>2. link'[w] = link[w] \/ link'[w] = [link[w] EXCEPT ![b] = FALSE]
      BY <2>3
    <3> QED
      BY <2>4, <3>1, <3>2
  <2> QED
    BY <2>2, <2>4, MessagesOnward DEF Lossy, server, coord
<1> QED
  BY <1>1, <1>2 DEF Failure

\* Every step keeps ReplInv.
LEMMA NextReplInv == IInv /\ ReplInv /\ [Next]_vars => ReplInv'
<1> SUFFICES ASSUME IInv, ReplInv, [Next]_vars PROVE Onward
  BY OnwardReplInv
<1>1. ASSUME NEW t \in Txn, Prepare(t) PROVE Onward
  BY <1>1, PrepareOnward
<1>2. ASSUME NEW t \in Txn, TimerExpires(t) \/ TimerFires(t) PROVE Onward
  BY <1>2, MessagesOnward DEF TimerExpires, TimerFires, server
<1>3. ASSUME NEW w \in Worker, NEW b \in Block,
             PrepareResponse(w, b) \/ LastPrepareResponse(w, b) \/ CommitResponse(w, b)
      PROVE  Onward
  BY <1>3, PrepareResponseOnward, LastPrepareResponseOnward, CommitResponseOnward
<1>4. ASSUME NEW w \in Worker, NEW b \in Block,
             two_pc_prepare(w, b) \/ two_pc_prepare_quick(w, b)
      PROVE  Onward
  BY <1>4, PreparesVote, VotedOnward
<1>5. ASSUME NEW w \in Worker, NEW b \in Block,
             two_pc_commit_execute(w, b) \/ two_pc_commit_rollback(w, b)
      PROVE  Onward
  BY <1>5, CommitsCarry, CarriedOnward
<1>6. CASE Failure
  BY <1>6, FailureOnward
<1>7. CASE UNCHANGED vars
  BY <1>7, MessagesOnward DEF vars, server, coord
<1> QED
  BY <1>1, <1>2, <1>3, <1>4, <1>5, <1>6, <1>7 DEF Next, CoordinatorStep, ServerStep

\* Nothing is in flight at first.
LEMMA InitReplInv == Init => ReplInv
<1> SUFFICES ASSUME Init PROVE ReplInv
  OBVIOUS
<1>1. \A w \in Worker, b \in Block : In(resp[w][b]) = {}
  BY EmptyPipe DEF Init
<1>2. replicated = {} /\ \A t \in Txn : acked[t] = {}
  BY DEF Init
<1> QED
  BY <1>1, <1>2 DEF ReplInv

\* start_replication runs only for requests whose decision every server has
\* carried out, but for the servers the worker has lost its connection to.
THEOREM ReplicatesCommitted == Spec => []ReplicationAfterCommit
<1>1. IInv /\ ReplInv => ReplicationAfterCommit
  BY DEF IInv, TypeOK, ReplInv, Settled, ReplicationAfterCommit
<1> QED
  BY <1>1, InitReplInv, NextReplInv, Invariance, PTL DEF Spec
=============================================================================
