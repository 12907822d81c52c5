------------------------- MODULE SharedStateProofs -------------------------
(***************************************************************************)
(* Proofs about the places where actors share state without a lock: the    *)
(* queue and the flag of SocketWriter, for any number of packets and       *)
(* threads; the counter of responses of PrepareCount, for any number of    *)
(* blocks and threads; and the nodes of Membership in ZooKeeper, for any   *)
(* hosts, clients and scenarios: a proxy that is started again has the id  *)
(* it had, no proxy has two watchers on one ring, and clients that watch   *)
(* the nodes miss none.                                                    *)
(***************************************************************************)
EXTENDS SocketWriter, PrepareCount, Membership, FiniteSetTheorems, WellFoundedInduction, TLAPS

USE Zenon

\* Every access to the queue and the flag keeps the writer's state well typed.
THEOREM WriterTypeCorrect == WriterSpec => []WriterTypeOK
<1>1. WriterInit => WriterTypeOK
  <2> SUFFICES ASSUME WriterInit PROVE WriterTypeOK
    OBVIOUS
  <2>1. write_queue \in Seq(Packet)
    BY SMT DEF WriterInit
  <2>2. is_writing \in BOOLEAN /\ disconnected \in BOOLEAN
    BY DEF WriterInit
  <2> QED
    BY <2>1, <2>2 DEF WriterInit, WriterTypeOK
<1>2. WriterTypeOK /\ [WriterNext]_writerVars => WriterTypeOK'
  <2> SUFFICES ASSUME WriterTypeOK, [WriterNext]_writerVars PROVE WriterTypeOK'
    OBVIOUS
  <2>1. ASSUME NEW p \in Packet, Call(p) PROVE WriterTypeOK'
    <3>1. CASE Push(p)
      BY <3>1, SMT DEF Push, WriterTypeOK, Agent
    <3>2. CASE CheckWriting(p)
      <4>1. pc' \in [Agent -> {"out", "check", "raise", "pop", "lower"}]
        BY <3>2 DEF CheckWriting, WriterTypeOK, Agent
      <4> QED
        BY <3>2, <4>1 DEF CheckWriting, WriterTypeOK
    <3>3. CASE Raise(p)
      BY <3>3 DEF Raise, WriterTypeOK, Agent
    <3> QED
      BY <2>1, <3>1, <3>2, <3>3 DEF Call
  <2>2. ASSUME NEW p \in Packet, Complete(p) PROVE WriterTypeOK'
    BY <2>2 DEF Complete, PacketWritten, WriteError, WriterTypeOK, Agent
  <2>3. ASSUME NEW a \in Agent, WriteOne(a) PROVE WriterTypeOK'
    <3>1. CASE Pop(a)
      <4>1. write_queue' \in Seq(Packet) /\ Head(write_queue) \in Packet
        BY <3>1, SMT DEF Pop, WriterTypeOK
      <4> QED
        BY <3>1, <4>1 DEF Pop, WriterTypeOK
    <3>2. CASE PopNone(a)
      BY <3>2 DEF PopNone, WriterTypeOK
    <3>3. CASE Lower(a)
      BY <3>3 DEF Lower, WriterTypeOK
    <3> QED
      BY <2>3, <3>1, <3>2, <3>3 DEF WriteOne
  <2>4. CASE Break
    BY <2>4 DEF Break, WriterTypeOK
  <2>5. CASE UNCHANGED writerVars
    BY <2>5 DEF writerVars, WriterTypeOK
  <2> QED
    BY <2>1, <2>2, <2>3, <2>4, <2>5 DEF WriterNext
<1> QED
  BY <1>1, <1>2, PTL DEF WriterSpec

\* Nobody is inside the writer for a packet that was not handed over yet.
Uncalled == \A p \in Packet : p \notin called => pc[p] = "out"

\* Nobody is inside for it until start_write_socket is called.
LEMMA UncalledOut == WriterSpec => []Uncalled
<1>1. WriterInit => Uncalled
  BY DEF WriterInit, Uncalled, Agent
<1>2. WriterTypeOK /\ Uncalled /\ [WriterNext]_writerVars => Uncalled'
  <2> SUFFICES ASSUME WriterTypeOK, Uncalled, [WriterNext]_writerVars, NEW q \in Packet, q \notin called'
               PROVE  pc'[q] = "out"
    BY DEF Uncalled
  <2>1. ASSUME NEW p \in Packet, Call(p) PROVE pc'[q] = "out"
    BY <2>1 DEF Call, Push, CheckWriting, Raise, WriterTypeOK, Agent, Uncalled
  <2>2. ASSUME NEW p \in Packet, Complete(p) PROVE pc'[q] = "out"
    BY <2>2, WriterAssumption DEF Complete, PacketWritten, WriteError, WriterTypeOK, Agent, Uncalled
  <2>3. ASSUME NEW a \in Agent, WriteOne(a) PROVE pc'[q] = "out"
    BY <2>3 DEF WriteOne, Pop, PopNone, Lower, WriterTypeOK, Agent, Uncalled
  <2>4. Break \/ UNCHANGED writerVars => pc'[q] = "out"
    BY DEF Break, writerVars, Uncalled
  <2> QED
    BY <2>1, <2>2, <2>3, <2>4 DEF WriterNext
<1> QED
  BY <1>1, <1>2, WriterTypeCorrect, PTL DEF WriterSpec

\* However many threads call start_write_socket and complete writes, and
\* wherever errors occur, is_writing_ is up only while somebody writes or is
\* about to look for a packet or to lower it.
THEOREM WriterNeverWedged == WriterSpec => []NeverWedged
<1>1. WriterInit => NeverWedged
  BY DEF WriterInit, NeverWedged
<1>2. WriterTypeOK /\ Uncalled /\ NeverWedged /\ [WriterNext]_writerVars => NeverWedged'
  <2> SUFFICES ASSUME WriterTypeOK, Uncalled, NeverWedged, [WriterNext]_writerVars PROVE NeverWedged'
    OBVIOUS
  <2>1. ASSUME NEW p \in Packet, Push(p) \/ CheckWriting(p) PROVE NeverWedged'
    <3>1. /\ is_writing' => is_writing
          /\ outstanding' = outstanding
      BY <2>1, SMT DEF Push, CheckWriting
    <3>2. \A a \in Agent : pc[a] \in {"pop", "lower"} => pc'[a] = pc[a]
      BY <2>1 DEF Push, CheckWriting, WriterTypeOK, Uncalled
    <3> QED
      BY <3>1, <3>2 DEF NeverWedged
  <2>2. ASSUME NEW p \in Packet, Raise(p) PROVE NeverWedged'
    BY <2>2 DEF Raise, WriterTypeOK, Agent, NeverWedged
  <2>3. ASSUME NEW p \in Packet, Complete(p) PROVE NeverWedged'
    BY <2>3 DEF Complete, PacketWritten, WriteError, WriterTypeOK, Agent, NeverWedged
  <2>4. ASSUME NEW a \in Agent, WriteOne(a) PROVE NeverWedged'
    BY <2>4 DEF WriteOne, Pop, PopNone, Lower, WriterTypeOK, NeverWedged
  <2>5. CASE Break
    BY <2>5 DEF Break, NeverWedged
  <2>6. CASE UNCHANGED writerVars
    BY <2>6 DEF writerVars, NeverWedged
  <2> QED
    BY <2>1, <2>2, <2>3, <2>4, <2>5, <2>6 DEF WriterNext, Call
<1> QED
  BY <1>1, <1>2, WriterTypeCorrect, UncalledOut, PTL DEF WriterSpec

-----------------------------------------------------------------------------
\* What Tail leaves of the queue.
LEMMA TailFacts ==
    ASSUME NEW s \in Seq(Packet), s # <<>>
    PROVE  /\ Tail(s) \in Seq(Packet)
           /\ Len(Tail(s)) = Len(s) - 1
           /\ Len(s) \in Nat \ {0}
           /\ Head(s) = s[1]
           /\ \A i \in 1..Len(Tail(s)) : Tail(s)[i] = s[i + 1]
  BY SMT

\* No packet is lost or written twice, whichever threads pop the queue.
THEOREM WriterEachPacketOnce == WriterSpec => []EachPacketOnce
<1>1. WriterInit => EachPacketOnce
  BY SMT DEF WriterInit, EachPacketOnce
<1>2. WriterTypeOK /\ EachPacketOnce /\ [WriterNext]_writerVars => EachPacketOnce'
  <2> SUFFICES ASSUME WriterTypeOK, EachPacketOnce, [WriterNext]_writerVars PROVE EachPacketOnce'
    OBVIOUS
  <2>1. ASSUME NEW p \in Packet, Push(p) PROVE EachPacketOnce'
    <3>1. /\ Len(write_queue') = Len(write_queue) + 1
          /\ Len(write_queue) \in Nat
          /\ write_queue'[Len(write_queue) + 1] = p
          /\ \A i \in 1..Len(write_queue) : write_queue'[i] = write_queue[i]
          /\ DOMAIN write_queue = 1..Len(write_queue)
          /\ DOMAIN write_queue' = 1..(Len(write_queue) + 1)
      BY <2>1, SMT DEF Push, WriterTypeOK
    <3>2. \A i \in DOMAIN write_queue : write_queue[i] # p
      BY <2>1 DEF Push, EachPacketOnce
    <3>3. {write_queue'[i] : i \in DOMAIN write_queue'}
            = {write_queue[i] : i \in DOMAIN write_queue} \cup {p}
      BY <3>1, SMT
    <3>4. \A i, j \in DOMAIN write_queue' : write_queue'[i] = write_queue'[j] => i = j
      BY <3>1, <3>2, SMT DEF EachPacketOnce
    <3> QED
      BY <2>1, <3>3, <3>4, ZenonT(30) DEF Push, EachPacketOnce
  <2>2. ASSUME NEW p \in Packet, Complete(p) PROVE EachPacketOnce'
    <3>1. result' \in [Packet -> {"none", "written", "error"}]
      BY <2>2 DEF Complete, PacketWritten, WriteError, WriterTypeOK
    <3>2. {q \in Packet : result'[q] # "none"} = {q \in Packet : result[q] # "none"} \cup {p}
      BY <2>2 DEF Complete, PacketWritten, WriteError, WriterTypeOK
    <3>3. p \in outstanding /\ outstanding' = outstanding \ {p}
          /\ UNCHANGED <<write_queue, called>>
      BY <2>2 DEF Complete, PacketWritten, WriteError
    <3> QED
      BY <3>2, <3>3, SMT DEF EachPacketOnce
  <2>3. ASSUME NEW a \in Agent, Pop(a) PROVE EachPacketOnce'
    <3>1. PICK s, h : s = write_queue' /\ h = Head(write_queue)
      OBVIOUS
    <3>2. /\ s = Tail(write_queue) /\ h = Head(write_queue)
          /\ s \in Seq(Packet)
          /\ DOMAIN write_queue = 1..Len(write_queue)
          /\ DOMAIN s = 1..(Len(write_queue) - 1)
          /\ Len(write_queue) \in Nat \ {0}
          /\ h = write_queue[1]
          /\ \A i \in DOMAIN s : s[i] = write_queue[i + 1]
      BY <2>3, <3>1, TailFacts, SMT DEF Pop, WriterTypeOK
    <3>3. \A i, j \in DOMAIN s : s[i] = s[j] => i = j
      BY <3>2, SMT DEF EachPacketOnce
    <3>4. \A i \in DOMAIN s : s[i] # h
      BY <3>2, SMT DEF EachPacketOnce
    <3>5. {write_queue[i] : i \in DOMAIN write_queue} = {s[i] : i \in DOMAIN s} \cup {h}
      <4>1. ASSUME NEW i \in DOMAIN write_queue, i # 1
            PROVE  i - 1 \in DOMAIN s /\ s[i - 1] = write_queue[i]
        BY <3>2, <4>1, SMT
      <4>2. \A i \in DOMAIN s : i + 1 \in DOMAIN write_queue
        BY <3>2, SMT
      <4>3. ASSUME NEW x \in {write_queue[i] : i \in DOMAIN write_queue}
            PROVE  x \in {s[i] : i \in DOMAIN s} \cup {h}
        <5>1. PICK i \in DOMAIN write_queue : x = write_queue[i]
          OBVIOUS
        <5> QED
          BY <3>2, <4>1, <5>1
      <4>4. ASSUME NEW x \in {s[i] : i \in DOMAIN s} \cup {h}
            PROVE  x \in {write_queue[i] : i \in DOMAIN write_queue}
        BY <3>2, <4>2, SMT
      <4> QED
        BY <4>3, <4>4
    <3>6. outstanding' = outstanding \cup {h} /\ UNCHANGED <<called, result>>
      BY <2>3, <3>1 DEF Pop
    <3>7. {s[i] : i \in DOMAIN s} \cap {h} = {}
      BY <3>4
    <3>8. PICK old, new, handled :
            /\ old = {write_queue[i] : i \in DOMAIN write_queue}
            /\ new = {s[i] : i \in DOMAIN s}
            /\ handled = {p \in Packet : result[p] # "none"}
      OBVIOUS
    <3>9. /\ old \cap outstanding = {}
          /\ (old \cup outstanding) \cap handled = {}
          /\ old \cup outstanding \cup handled = called
      BY <3>8 DEF EachPacketOnce
    <3>10. old = new \cup {h} /\ new \cap {h} = {}
      BY <3>5, <3>7, <3>8
    <3>11. /\ new \cap (outstanding \cup {h}) = {}
           /\ (new \cup (outstanding \cup {h})) \cap handled = {}
           /\ new \cup (outstanding \cup {h}) \cup handled = called
      BY <3>9, <3>10
    <3> QED
      BY <3>1, <3>3, <3>6, <3>8, <3>11, SMT DEF EachPacketOnce
  <2>4. ASSUME UNCHANGED <<write_queue, outstanding, result, called>>
        PROVE  EachPacketOnce'
    BY <2>4, SMT DEF EachPacketOnce
  <2>5. ASSUME NEW p \in Packet, CheckWriting(p) \/ Raise(p) PROVE EachPacketOnce'
    BY <2>4, <2>5 DEF CheckWriting, Raise
  <2>6. ASSUME NEW a \in Agent, PopNone(a) \/ Lower(a) PROVE EachPacketOnce'
    BY <2>4, <2>6 DEF PopNone, Lower
  <2>7. Break \/ UNCHANGED writerVars => EachPacketOnce'
    BY <2>4 DEF Break, writerVars
  <2> QED
    BY <2>1, <2>2, <2>3, <2>5, <2>6, <2>7 DEF WriterNext, Call, WriteOne
<1> QED
  BY <1>1, <1>2, WriterTypeCorrect, PTL DEF WriterSpec

-----------------------------------------------------------------------------
\* The state of a writer used by one thread: at most one agent is inside,
\* nothing is on the wire while it is about to write or to stop, and the flag
\* says exactly that a write is under way or about to be.
Exclusive ==
    /\ \A a, b \in Inside : a = b
    /\ \A p, q \in outstanding : p = q
    /\ \A a \in Agent : pc[a] = "raise" => ~is_writing
    /\ \A a \in Agent : pc[a] \in {"pop", "lower"} => is_writing /\ outstanding = {}
    /\ outstanding # {} => is_writing

\* The only thread enters the writer when nobody is inside.
LEMMA EnterAlone ==
    ASSUME Threads = 1, Enter
    PROVE  Inside = {}
<1>1. IsFiniteSet(Agent)
  BY WriterAssumption, FS_AddElement DEF Agent
<1>2. IsFiniteSet(Inside)
  BY <1>1, FS_Subset DEF Inside
<1> QED
  BY <1>2, FS_EmptySet, FS_CardinalityType, SMT DEF Enter

\* On one thread the check of is_writing_ and its store cannot be interleaved,
\* and two async_writes are never under way on the same socket.
THEOREM SingleThreadExclusive ==
    ASSUME Threads = 1
    PROVE  WriterSpec => []OneWriteAtATime
<1>1. WriterInit => Exclusive
  BY DEF WriterInit, Exclusive, Inside
<1>2. WriterTypeOK /\ Exclusive /\ [WriterNext]_writerVars => Exclusive'
  <2> SUFFICES ASSUME WriterTypeOK, Exclusive, [WriterNext]_writerVars PROVE Exclusive'
    OBVIOUS
  <2>1. ASSUME NEW p \in Packet, Push(p) PROVE Exclusive'
    <3>1. Inside = {}
      BY <2>1, EnterAlone DEF Push
    <3> QED
      BY <2>1, <3>1 DEF Push, WriterTypeOK, Agent, Inside, Exclusive
  <2>2. ASSUME NEW p \in Packet, CheckWriting(p) PROVE Exclusive'
    BY <2>2 DEF CheckWriting, WriterTypeOK, Agent, Inside, Exclusive
  <2>3. ASSUME NEW p \in Packet, Raise(p) PROVE Exclusive'
    BY <2>3 DEF Raise, WriterTypeOK, Agent, Inside, Exclusive
  <2>4. ASSUME NEW p \in Packet, Complete(p) PROVE Exclusive'
    <3>1. Inside = {}
      BY <2>4, EnterAlone DEF Complete, PacketWritten, WriteError
    <3> QED
      BY <2>4, <3>1, SMT DEF Complete, PacketWritten, WriteError, WriterTypeOK, Agent, Inside, Exclusive
  <2>5. ASSUME NEW a \in Agent, Pop(a) PROVE Exclusive'
    BY <2>5, SMT DEF Pop, WriterTypeOK, Inside, Exclusive
  <2>6. ASSUME NEW a \in Agent, PopNone(a) PROVE Exclusive'
    BY <2>6, ZenonT(30) DEF PopNone, WriterTypeOK, Inside, Exclusive
  <2>7. ASSUME NEW a \in Agent, Lower(a) PROVE Exclusive'
    BY <2>7, SMT DEF Lower, WriterTypeOK, Inside, Exclusive
  <2>8. Break \/ UNCHANGED writerVars => Exclusive'
    BY SMT DEF Break, writerVars, Inside, Exclusive
  <2> QED
    BY <2>1, <2>2, <2>3, <2>4, <2>5, <2>6, <2>7, <2>8 DEF WriterNext, Call, WriteOne
<1>3. WriterTypeOK /\ Exclusive => OneWriteAtATime
  <2> SUFFICES ASSUME WriterTypeOK, Exclusive PROVE Cardinality(outstanding) <= 1
    BY DEF OneWriteAtATime
  <2>1. CASE outstanding = {}
    BY <2>1, FS_EmptySet, SMT
  <2>2. ASSUME NEW p \in outstanding PROVE Cardinality(outstanding) <= 1
    <3>1. outstanding = {p}
      BY <2>2 DEF Exclusive
    <3> QED
      BY <3>1, FS_Singleton, SMT
  <2> QED
    BY <2>1, <2>2
<1> QED
  BY <1>1, <1>2, <1>3, WriterTypeCorrect, PTL DEF WriterSpec

-----------------------------------------------------------------------------
\* The counter of start_2pc_prepare.

\* Where the handler of a response can be.
HandlerState == {"none", "voted", "answer", "commit", "done"}

\* The blocks whose response has been counted down, and those whose handler is
\* under way.
Past == {b \in Block : handler[b] \in {"answer", "commit", "done"}}
Active == {b \in Block : handler[b] \in {"voted", "answer", "commit"}}

\* The counter is what the loop has counted and no handler has counted down.
CounterOK ==
    /\ sent \in 0..N /\ outstanding_requests \in Int /\ threads \in ThreadCounts
    /\ \/ ~counted /\ outstanding_requests = sent - Cardinality(Past)
       \/ counted /\ sent < N /\ outstanding_requests = sent + 1 - Cardinality(Past)

\* *all_ssbd_agree speaks for the responses received, which are to prepares
\* that the loop has sent.
VotesOK ==
    /\ agree \in BOOLEAN
    /\ vote \in [Block -> {"none", "agree", "abort"}]
    /\ handler \in [Block -> HandlerState]
    /\ \A b \in Block : vote[b] = "none" <=> handler[b] = "none"
    /\ \A b \in Block : handler[b] # "none" => b <= sent
    /\ agree <=> \A b \in Block : vote[b] # "abort"

\* When all responses are counted down, somebody is about to decide, or the
\* last to decide found all the votes in.
DecidedOK ==
    /\ decisions \in Seq(BOOLEAN) /\ told \in Seq(BOOLEAN)
    /\ Past = Block =>
          \/ \E b \in Block : handler[b] \in {"answer", "commit"}
          \/ decisions # <<>> /\ (decisions[Len(decisions)] <=> agree)

\* On one thread the handlers come after the loop, one after the other, and
\* the last one answers and decides.
OneOK ==
    /\ \A b \in Block : handler[b] # "none" => sent = N
    /\ \A b, c \in Active : b = c
    /\ Past # Block =>
          /\ told = <<>> /\ decisions = <<>>
          /\ \A b \in Block : handler[b] \notin {"answer", "commit"}
    /\ \A b \in Block :
          /\ handler[b] = "answer" => told = <<>> /\ decisions = <<>>
          /\ handler[b] = "commit" => told = <<agree>> /\ decisions = <<>>
    /\ (\A b \in Block : handler[b] = "done") =>
          told = <<agree>> /\ decisions = <<agree>>

CountInv == CounterOK /\ VotesOK /\ DecidedOK /\ (threads = 1 => OneOK)

\* Sets of blocks can be counted, and N is the number of all of them.
LEMMA BlockCounts ==
  ASSUME NEW S \in SUBSET Block
  PROVE  /\ IsFiniteSet(S) /\ Cardinality(S) \in Nat /\ Cardinality(S) <= N
         /\ Cardinality(S) = N <=> S = Block
<1>1. IsFiniteSet(1..N) /\ Cardinality(1..N) = N
  <2>1. N \in Int /\ 1 \in Int /\ ~(1 > N) /\ N - 1 + 1 = N
    BY CountAssumption, SMT
  <2> QED
    BY <2>1, FS_Interval, SMT
<1>2. S \subseteq 1..N
  BY DEF Block
<1>3. /\ IsFiniteSet(S) /\ Cardinality(S) <= Cardinality(1..N)
      /\ Cardinality(1..N) = Cardinality(S) => 1..N = S
  BY <1>1, <1>2, FS_Subset
<1> QED
  BY <1>1, <1>3, FS_CardinalityType DEF Block

\* A step of the handler of block b from state p to state q.
Moves(b, p, q) ==
    /\ b \in Block /\ handler[b] = p /\ p \in HandlerState /\ q \in HandlerState
    /\ handler' = [handler EXCEPT ![b] = q]

\* What it does to the handlers.
LEMMA MoveStages ==
  ASSUME VotesOK, NEW b, NEW p, NEW q, Moves(b, p, q)
  PROVE  /\ handler' \in [Block -> HandlerState] /\ handler'[b] = q
         /\ \A c \in Block : c # b => handler'[c] = handler[c]
  BY DEF VotesOK, Moves

\* Once every block's handler has been started, the loop is over.
LEMMA LoopOver ==
  ASSUME CounterOK, VotesOK, \A b \in Block : handler[b] # "none"
  PROVE  sent = N /\ ~counted /\ outstanding_requests = N - Cardinality(Past)
<1>1. N \in Block
  BY CountAssumption, SMT DEF Block
<1>2. N <= sent
  BY <1>1 DEF VotesOK
<1>3. sent = N /\ ~(sent < N)
  BY <1>2, CountAssumption, SMT DEF CounterOK
<1> QED
  BY <1>3 DEF CounterOK

\* The loop's steps change nothing that the handlers have done.
LEMMA LoopStep ==
  ASSUME CountInv, Count \/ Send
  PROVE  CountInv'
<1>1. UNCHANGED <<threads, agree, vote, handler, told, decisions>> /\ Past' = Past /\ Active' = Active
  BY DEF Count, Send, Past, Active
<1>2. Cardinality(Past) \in Nat
  BY BlockCounts DEF Past
<1>3. CounterOK'
  <2>1. CASE Count
    <3>1. /\ sent \in 0..N /\ sent < N /\ ~counted /\ counted' /\ sent' = sent
          /\ outstanding_requests' = outstanding_requests + 1 /\ outstanding_requests = sent - Cardinality(Past)
      BY <2>1 DEF CountInv, CounterOK, Count
    <3>2. outstanding_requests' \in Int /\ outstanding_requests' = sent' + 1 - Cardinality(Past)
      BY <1>2, <3>1, CountAssumption, SMT
    <3> QED
      BY <1>1, <3>1, <3>2 DEF CountInv, CounterOK
  <2>2. CASE Send
    <3>1. /\ sent \in 0..N /\ sent < N /\ counted /\ ~counted' /\ sent' = sent + 1
          /\ outstanding_requests' = outstanding_requests /\ outstanding_requests = sent + 1 - Cardinality(Past)
      BY <2>2 DEF CountInv, CounterOK, Send
    <3>2. sent' \in 0..N /\ outstanding_requests' \in Int /\ outstanding_requests' = sent' - Cardinality(Past)
      BY <1>2, <3>1, CountAssumption, SMT
    <3> QED
      BY <1>1, <3>1, <3>2 DEF CountInv, CounterOK
  <2> QED
    BY <2>1, <2>2
<1>4. sent \in Nat /\ N \in Nat /\ sent < N /\ (sent' = sent \/ sent' = sent + 1)
  BY CountAssumption, SMT DEF Count, Send, CountInv, CounterOK
<1>5. VotesOK'
  <2>1. ASSUME NEW b \in Block, handler[b] # "none" PROVE b <= sent'
    <3>1. b <= sent /\ b \in Nat
      BY <2>1, <1>4, SMT DEF CountInv, VotesOK, Block
    <3> QED
      BY <1>4, <3>1, SMT
  <2> QED
    BY <1>1, <2>1 DEF CountInv, VotesOK
<1>6. DecidedOK'
  BY <1>1 DEF CountInv, DecidedOK
<1>7. ASSUME threads = 1 PROVE OneOK'
  <2>1. sent # N
    BY <1>4, SMT
  <2>2. \A b \in Block : handler[b] = "none"
    BY <1>7, <2>1 DEF CountInv, OneOK
  <2> QED
    BY <1>1, <1>7, <2>2 DEF CountInv, OneOK
<1> QED
  BY <1>1, <1>3, <1>5, <1>6, <1>7 DEF CountInv

\* The response to block b is noted, before it is counted down.
LEMMA ReceiveStep ==
  ASSUME CountInv, NEW b \in Block, Receive(b)
  PROVE  CountInv'
<1>1. PICK v \in {"agree", "abort"} :
        /\ vote' = [vote EXCEPT ![b] = v]
        /\ agree' = (agree /\ v = "agree")
  BY DEF Receive
<1>2. /\ b <= sent /\ handler[b] = "none" /\ Moves(b, "none", "voted")
      /\ UNCHANGED <<threads, sent, counted, outstanding_requests, told, decisions>>
  BY DEF Receive, Moves, HandlerState
<1>3. /\ handler' \in [Block -> HandlerState] /\ handler'[b] = "voted"
      /\ \A c \in Block : c # b => handler'[c] = handler[c]
  BY <1>2, MoveStages DEF CountInv
<1>4. Past' = Past /\ b \notin Past /\ Active' = Active \cup {b}
  BY <1>2, <1>3 DEF Past, Active
<1>5. CounterOK'
  BY <1>2, <1>4 DEF CountInv, CounterOK
<1>6. VotesOK'
  <2>1. /\ vote' \in [Block -> {"none", "agree", "abort"}] /\ vote'[b] = v
        /\ \A c \in Block : c # b => vote'[c] = vote[c]
    BY <1>1 DEF CountInv, VotesOK
  <2>2. vote[b] = "none"
    BY <1>2 DEF CountInv, VotesOK
  <2>3. (agree <=> \A c \in Block : vote[c] # "abort") /\ agree' \in BOOLEAN
    BY <1>1 DEF CountInv, VotesOK
  <2>4. agree' <=> \A c \in Block : vote'[c] # "abort"
    BY <1>1, <2>1, <2>2, <2>3
  <2>5. ASSUME NEW c \in Block
        PROVE  (vote'[c] = "none" <=> handler'[c] = "none") /\ (handler'[c] # "none" => c <= sent')
    <3>1. CASE c = b
      BY <1>2, <1>3, <2>1, <3>1
    <3>2. CASE c # b
      BY <1>2, <1>3, <2>1, <3>2 DEF CountInv, VotesOK
    <3> QED
      BY <3>1, <3>2
  <2> QED
    BY <1>3, <2>1, <2>3, <2>4, <2>5 DEF VotesOK
<1>7. DecidedOK'
  BY <1>2, <1>4 DEF CountInv, DecidedOK
<1>8. ASSUME threads = 1 PROVE OneOK'
  <2>1. Cardinality(Active) + (IF sent < N THEN 1 ELSE 0) < 1
    BY <1>8 DEF Receive, Running, Active
  <2>2. IsFiniteSet(Active) /\ Cardinality(Active) \in Nat /\ sent \in 0..N /\ N \in Nat
    BY BlockCounts, CountAssumption DEF Active, CountInv, CounterOK
  <2>3. Cardinality(Active) = 0 /\ sent = N
    BY <2>1, <2>2, SMT
  <2>4. Active = {}
    BY <2>2, <2>3, FS_EmptySet
  <2>5. /\ told = <<>> /\ decisions = <<>>
        /\ \A c \in Block : handler[c] \notin {"answer", "commit"}
    BY <1>4, <1>8 DEF CountInv, OneOK
  <2>6. \A c \in Block : handler'[c] \notin {"answer", "commit"}
    BY <1>3, <2>5
  <2>7. \A c, d \in Active' : c = d
    BY <1>4, <2>4
  <2> QED
    BY <1>2, <1>3, <2>3, <2>5, <2>6, <2>7 DEF OneOK
<1> QED
  BY <1>2, <1>5, <1>6, <1>7, <1>8 DEF CountInv

\* A handler that goes on from state p to state q leaves the votes alone.
LEMMA MoveVotes ==
  ASSUME CountInv, NEW b, NEW p, NEW q, Moves(b, p, q), p # "none", q # "none",
         UNCHANGED <<sent, agree, vote>>
  PROVE  VotesOK'
<1>1. /\ handler' \in [Block -> HandlerState] /\ handler'[b] = q
      /\ \A c \in Block : c # b => handler'[c] = handler[c]
  BY MoveStages DEF CountInv
<1>2. b \in Block /\ handler[b] # "none"
  BY DEF Moves
<1>3. \A c \in Block : handler'[c] = "none" <=> handler[c] = "none"
  BY <1>1, <1>2
<1> QED
  BY <1>1, <1>3 DEF CountInv, VotesOK

\* The response to block b is counted down.
LEMMA CountDownStep ==
  ASSUME CountInv, NEW b \in Block, CountDown(b)
  PROVE  CountInv'
<1>1. PICK q : /\ q = IF outstanding_requests = 1 THEN "answer" ELSE "done"
               /\ Moves(b, "voted", q)
  BY DEF CountDown, Moves, HandlerState
<1>2. /\ handler[b] = "voted" /\ outstanding_requests' = outstanding_requests - 1
      /\ UNCHANGED <<threads, sent, counted, agree, vote, told, decisions>>
  BY DEF CountDown
<1>3. /\ handler' \in [Block -> HandlerState] /\ handler'[b] = q
      /\ \A c \in Block : c # b => handler'[c] = handler[c]
  BY <1>1, MoveStages DEF CountInv
<1>4. Past' = Past \cup {b} /\ b \notin Past /\ Active' \subseteq Active
  BY <1>1, <1>2, <1>3 DEF Past, Active
<1>5. /\ Cardinality(Past) \in Nat /\ Cardinality(Past') = Cardinality(Past) + 1
      /\ Cardinality(Past') = N <=> Past' = Block
  <2>1. IsFiniteSet(Past) /\ Cardinality(Past) \in Nat
    BY BlockCounts DEF Past
  <2>2. Past' \subseteq Block
    BY DEF Past
  <2> QED
    BY <1>4, <2>1, <2>2, FS_AddElement, BlockCounts
<1>6. CounterOK'
  <2>1. sent \in Int /\ outstanding_requests \in Int /\ outstanding_requests' \in Int
    BY <1>2, CountAssumption, SMT DEF CountInv, CounterOK
  <2>2. ASSUME outstanding_requests = sent - Cardinality(Past)
        PROVE  outstanding_requests' = sent - Cardinality(Past')
    BY <1>2, <1>5, <2>1, <2>2, SMT
  <2>3. ASSUME outstanding_requests = sent + 1 - Cardinality(Past)
        PROVE  outstanding_requests' = sent + 1 - Cardinality(Past')
    BY <1>2, <1>5, <2>1, <2>3, SMT
  <2> QED
    BY <1>2, <2>1, <2>2, <2>3 DEF CountInv, CounterOK
<1>7. VotesOK'
  BY <1>1, <1>2, MoveVotes
<1>8. ASSUME sent = N, ~counted PROVE q = "answer" <=> Past' = Block
  <2>1. outstanding_requests = N - Cardinality(Past) /\ N \in Nat
    BY <1>8, CountAssumption DEF CountInv, CounterOK
  <2>2. outstanding_requests = 1 <=> Cardinality(Past') = N
    BY <1>5, <2>1, SMT
  <2> QED
    BY <1>1, <1>5, <2>2
<1>9. DecidedOK'
  <2>1. ASSUME Past' = Block PROVE handler'[b] = "answer"
    <3>1. \A c \in Block : handler[c] # "none"
      BY <1>2, <1>3, <2>1 DEF Past
    <3>2. sent = N /\ ~counted
      BY <3>1, LoopOver DEF CountInv
    <3> QED
      BY <1>3, <1>8, <2>1, <3>2
  <2> QED
    BY <1>2, <2>1 DEF CountInv, DecidedOK
<1>10. ASSUME threads = 1 PROVE OneOK'
  <2>1. sent = N /\ OneOK
    BY <1>2, <1>10 DEF CountInv, OneOK
  <2>2. ~counted
    BY <2>1, CountAssumption, SMT DEF CountInv, CounterOK
  <2>3. q = "answer" <=> Past' = Block
    BY <1>8, <2>1, <2>2
  <2>4. /\ told = <<>> /\ decisions = <<>>
        /\ \A c \in Block : handler[c] \notin {"answer", "commit"}
    BY <1>4, <2>1 DEF OneOK
  <2>5. \A c, d \in Active' : c = d
    BY <1>4, <2>1 DEF OneOK
  <2>6. \A c \in Block : handler'[c] # "commit"
    BY <1>1, <1>3, <2>4
  <2>7. ASSUME Past' # Block, NEW c \in Block PROVE handler'[c] # "answer"
    BY <1>3, <2>3, <2>4, <2>7
  <2>8. ~(\A c \in Block : handler'[c] = "done")
    <3>1. SUFFICES ASSUME \A c \in Block : handler'[c] = "done" PROVE FALSE
      OBVIOUS
    <3>2. Past' = Block
      BY <3>1 DEF Past
    <3> QED
      BY <1>3, <2>3, <3>1, <3>2
  <2> QED
    BY <1>2, <2>1, <2>4, <2>5, <2>6, <2>7, <2>8 DEF OneOK
<1> QED
  BY <1>2, <1>6, <1>7, <1>9, <1>10 DEF CountInv

\* Answering and deciding count nothing.
LEMMA DecideCounter ==
  ASSUME CountInv, NEW b, NEW p, NEW q, Moves(b, p, q),
         p \in {"answer", "commit"}, q \in {"commit", "done"},
         UNCHANGED <<threads, sent, counted, outstanding_requests, agree, vote>>
  PROVE  /\ CounterOK' /\ VotesOK' /\ Past' = Past /\ Active' \subseteq Active
         /\ b \in Past /\ b \in Active
<1>1. /\ handler'[b] = q /\ \A c \in Block : c # b => handler'[c] = handler[c]
  BY MoveStages DEF CountInv
<1>2. b \in Block /\ handler[b] = p
  BY DEF Moves
<1>3. Past' = Past /\ Active' \subseteq Active /\ b \in Past /\ b \in Active
  BY <1>1, <1>2 DEF Past, Active
<1>4. CounterOK'
  BY <1>3 DEF CountInv, CounterOK
<1>5. VotesOK'
  BY MoveVotes
<1> QED
  BY <1>3, <1>4, <1>5

\* A list after one more entry.
LEMMA AppendOne ==
  ASSUME NEW S, NEW s \in Seq(S), NEW x \in S
  PROVE  /\ Append(s, x) \in Seq(S) /\ Append(s, x) # <<>>
         /\ Append(s, x)[Len(Append(s, x))] = x
         /\ s = <<>> => Append(s, x) = <<x>>
<1>1. /\ Append(s, x) \in Seq(S) /\ Append(s, x) # <<>>
      /\ Append(s, x)[Len(Append(s, x))] = x
  BY SMT
<1>2. Append(<<>>, x) = <<x>>
  BY SMT
<1> QED
  BY <1>1, <1>2

\* A list of one entry.
LEMMA SingleLength == \A x : Len(<<x>>) = 1 /\ Len(<<x>>) <= 1
  BY SMT

\* The client is told.
LEMMA TellStep ==
  ASSUME CountInv, NEW b \in Block, Tell(b)
  PROVE  CountInv'
<1>1. /\ Moves(b, "answer", "commit") /\ handler[b] = "answer" /\ told' = Append(told, agree)
      /\ UNCHANGED <<threads, sent, counted, outstanding_requests, agree, vote, decisions>>
  BY DEF Tell, Moves, HandlerState
<1>2. /\ CounterOK' /\ VotesOK' /\ Past' = Past /\ Active' \subseteq Active
      /\ b \in Past /\ b \in Active
  BY <1>1, DecideCounter
<1>3. /\ handler'[b] = "commit" /\ \A c \in Block : c # b => handler'[c] = handler[c]
  BY <1>1, MoveStages DEF CountInv
<1>4. agree \in BOOLEAN /\ told \in Seq(BOOLEAN) /\ decisions \in Seq(BOOLEAN)
  BY DEF CountInv, VotesOK, DecidedOK
<1>5. told' \in Seq(BOOLEAN) /\ (told = <<>> => told' = <<agree>>)
  BY <1>1, <1>4, AppendOne
<1>6. DecidedOK'
  BY <1>1, <1>3, <1>4, <1>5 DEF DecidedOK
<1>7. ASSUME threads = 1 PROVE OneOK'
  <2>1. OneOK
    BY <1>7 DEF CountInv
  <2>2. Past = Block
    BY <1>1, <2>1 DEF OneOK
  <2>3. told' = <<agree>> /\ decisions = <<>>
    BY <1>1, <1>5, <2>1 DEF OneOK
  <2>4. \A c \in Block : c # b => handler'[c] \notin {"answer", "commit"}
    BY <1>2, <1>3, <2>1 DEF OneOK, Active
  <2>5. \A c \in Block : handler'[c] # "none" => sent' = N
    BY <1>1, <1>3, <2>1 DEF OneOK
  <2>6. \A c, d \in Active' : c = d
    BY <1>2, <2>1 DEF OneOK
  <2> QED
    BY <1>1, <1>2, <1>3, <2>2, <2>3, <2>4, <2>5, <2>6 DEF OneOK
<1> QED
  BY <1>1, <1>2, <1>6, <1>7 DEF CountInv

\* The request is decided.
LEMMA CommitStep ==
  ASSUME CountInv, NEW b \in Block, Commit(b)
  PROVE  CountInv'
<1>1. /\ Moves(b, "commit", "done") /\ handler[b] = "commit"
      /\ decisions' = Append(decisions, agree)
      /\ UNCHANGED <<threads, sent, counted, outstanding_requests, agree, vote, told>>
  BY DEF Commit, Moves, HandlerState
<1>2. /\ CounterOK' /\ VotesOK' /\ Past' = Past /\ Active' \subseteq Active
      /\ b \in Past /\ b \in Active
  BY <1>1, DecideCounter
<1>3. /\ handler'[b] = "done" /\ \A c \in Block : c # b => handler'[c] = handler[c]
  BY <1>1, MoveStages DEF CountInv
<1>4. agree \in BOOLEAN /\ told \in Seq(BOOLEAN) /\ decisions \in Seq(BOOLEAN)
  BY DEF CountInv, VotesOK, DecidedOK
<1>5. /\ decisions' \in Seq(BOOLEAN) /\ decisions' # <<>>
      /\ decisions'[Len(decisions')] = agree
      /\ decisions = <<>> => decisions' = <<agree>>
  BY <1>1, <1>4, AppendOne
<1>6. DecidedOK'
  BY <1>1, <1>4, <1>5 DEF DecidedOK
<1>7. ASSUME threads = 1 PROVE OneOK'
  <2>1. OneOK
    BY <1>7 DEF CountInv
  <2>2. Past = Block
    BY <1>1, <2>1 DEF OneOK
  <2>3. told = <<agree>> /\ decisions' = <<agree>>
    BY <1>1, <1>5, <2>1 DEF OneOK
  <2>4. \A c \in Block : handler'[c] \notin {"answer", "commit"}
    BY <1>2, <1>3, <2>1 DEF OneOK, Active
  <2>5. \A c \in Block : handler'[c] # "none" => sent' = N
    BY <1>1, <1>3, <2>1 DEF OneOK
  <2>6. \A c, d \in Active' : c = d
    BY <1>2, <2>1 DEF OneOK
  <2> QED
    BY <1>1, <1>2, <2>2, <2>3, <2>4, <2>5, <2>6 DEF OneOK
<1> QED
  BY <1>1, <1>2, <1>6, <1>7 DEF CountInv

\* At first nothing is counted.
LEMMA InitCountInv == CountInit => CountInv
<1> SUFFICES ASSUME CountInit PROVE CountInv
  OBVIOUS
<1>1. N \in Block
  BY CountAssumption, SMT DEF Block
<1>2. /\ handler = [b \in Block |-> "none"] /\ vote = [b \in Block |-> "none"]
      /\ agree = TRUE /\ counted = FALSE /\ sent = 0 /\ outstanding_requests = 0
      /\ threads \in ThreadCounts /\ told = <<>> /\ decisions = <<>>
  BY DEF CountInit
<1>3. Past = {} /\ Active = {} /\ Past # Block
  BY <1>1, <1>2 DEF Past, Active
<1>4. CounterOK
  <2>1. sent \in 0..N /\ outstanding_requests \in Int /\ outstanding_requests = sent - Cardinality(Past)
    BY <1>2, <1>3, FS_EmptySet, CountAssumption, SMT
  <2> QED
    BY <1>2, <2>1 DEF CounterOK
<1>5. VotesOK
  BY <1>2 DEF VotesOK, HandlerState
<1>6. DecidedOK
  <2>1. <<>> \in Seq(BOOLEAN)
    BY SMT
  <2> QED
    BY <1>2, <1>3, <2>1 DEF DecidedOK
<1>7. OneOK
  BY <1>1, <1>2, <1>3 DEF OneOK
<1> QED
  BY <1>4, <1>5, <1>6, <1>7 DEF CountInv

\* Every step of the loop and of the handlers keeps the invariant.
LEMMA CountInvariance == CountSpec => []CountInv
<1>1. CountInv /\ [CountNext]_countVars => CountInv'
  <2> SUFFICES ASSUME CountInv, [CountNext]_countVars PROVE CountInv'
    OBVIOUS
  <2>1. CASE Count \/ Send
    BY <2>1, LoopStep
  <2>2. ASSUME NEW b \in Block,
               \/ Receive(b) \/ CountDown(b)
               \/ Tell(b) \/ Commit(b)
        PROVE  CountInv'
    BY <2>2, ReceiveStep, CountDownStep, TellStep, CommitStep
  <2>3. CASE UNCHANGED countVars
    BY <2>3 DEF countVars, CountInv, CounterOK, VotesOK, DecidedOK, OneOK, Past, Active
  <2> QED
    BY <2>1, <2>2, <2>3 DEF CountNext
<1> QED
  BY <1>1, InitCountInv, PTL DEF CountSpec

\* However the handlers of the responses overtake the loop of start_2pc_prepare
\* and each other, for any number of blocks and threads: once all are through,
\* the last call of start_2pc_commit had every vote.
THEOREM LastOneDecides == CountSpec => []LastDecisionRight
<1>1. CountInv => LastDecisionRight
  <2> SUFFICES ASSUME CountInv, \A b \in Block : handler[b] = "done"
               PROVE  decisions # <<>> /\ decisions[Len(decisions)] = AllAgree
    BY DEF LastDecisionRight
  <2>1. Past = Block
    BY DEF Past
  <2>2. decisions # <<>> /\ (decisions[Len(decisions)] <=> agree) /\ decisions \in Seq(BOOLEAN)
    BY <2>1 DEF CountInv, DecidedOK
  <2>3. decisions[Len(decisions)] \in BOOLEAN
    BY <2>2, SMT
  <2>4. agree <=> AllAgree
    <3>1. \A b \in Block : vote[b] \in {"agree", "abort"}
      BY DEF CountInv, VotesOK
    <3> QED
      BY <3>1 DEF CountInv, VotesOK, AllAgree
  <2> QED
    BY <2>2, <2>3, <2>4 DEF AllAgree
<1> QED
  BY <1>1, CountInvariance, PTL

\* On one thread the request is decided once, when all votes are in, and the
\* client is told what is decided.
THEOREM DecidedOnce == CountSpec => []OneDecision
<1>1. CountInv => OneDecision
  <2> SUFFICES ASSUME CountInv, threads = 1
               PROVE  /\ Len(decisions) <= 1
                      /\ decisions # <<>> => /\ \A b \in Block : vote[b] # "none"
                                             /\ decisions = <<AllAgree>>
                                             /\ told = decisions
    BY DEF OneDecision
  <2>1. OneOK
    BY DEF CountInv
  <2>2. ASSUME decisions # <<>> PROVE \A b \in Block : handler[b] = "done"
    <3>1. Past = Block
      BY <2>1, <2>2 DEF OneOK
    <3> QED
      BY <2>1, <2>2, <3>1 DEF OneOK, Past
  <2>3. ASSUME decisions # <<>>
        PROVE  /\ decisions = <<agree>> /\ told = <<agree>>
               /\ \A b \in Block : vote[b] \in {"agree", "abort"}
    BY <2>1, <2>2, <2>3 DEF CountInv, OneOK, VotesOK
  <2>4. ASSUME decisions # <<>> PROVE agree = AllAgree
    <3>1. agree <=> AllAgree
      BY <2>3, <2>4 DEF CountInv, VotesOK, AllAgree
    <3> QED
      BY <3>1 DEF CountInv, VotesOK, AllAgree
  <2>5. Len(decisions) <= 1
    <3>1. CASE decisions = <<>>
      BY <3>1, SMT
    <3>2. CASE decisions # <<>>
      BY <2>3, <3>2, SingleLength
    <3> QED
      BY <3>1, <3>2
  <2> QED
    BY <2>3, <2>4, <2>5
<1> QED
  BY <1>1, CountInvariance, PTL

-----------------------------------------------------------------------------
\* The first byte of the id for a --server-id between 0 and 1 is a byte.
LEMMA FrontIsByte ==
    \A place \in 0..1000 : front(place) \in 0..255
  BY SMT DEF front

\* A --server-id in hundredths comes back from the id: round in
\* start_check_alive undoes the multiplication in main.
THEOREM RelaunchKeepsId ==
    \A k \in 0..100 : remote_server_id(front(10 * k)) = k /\ Relaunched(front(10 * k)) = front(10 * k)
  BY SMT DEF front, remote_server_id, Relaunched

\* What a relaunched proxy has as its id is not changed by another relaunch.
LEMMA RelaunchStable ==
    \A id \in 0..255 : /\ Relaunched(id) \in 0..255
                       /\ Relaunched(Relaunched(id)) = Relaunched(id)
<1> SUFFICES ASSUME NEW id \in 0..255
             PROVE  /\ Relaunched(id) \in 0..255
                    /\ Relaunched(Relaunched(id)) = Relaunched(id)
    OBVIOUS
<1>1. remote_server_id(id) \in 0..100
    BY SMT DEF remote_server_id
<1>2. Relaunched(id) = front(10 * remote_server_id(id))
    BY DEF Relaunched
<1>3. Relaunched(front(10 * remote_server_id(id))) = front(10 * remote_server_id(id))
    BY <1>1, RelaunchKeepsId
<1>4. \A k \in 0..100 : front(10 * k) \in 0..255
    BY SMT DEF front
<1>5. Relaunched(id) \in 0..255
  <2>1. front(10 * remote_server_id(id)) \in 0..255
      BY <1>1, <1>4
  <2>2. QED
      BY <1>2, <2>1
<1>6. Relaunched(Relaunched(id)) = Relaunched(id)
    BY <1>2, <1>3
<1>7. QED
    BY <1>5, <1>6

\* Every set of natural numbers that is not empty has a least element.
LEMMA LeastElement ==
    ASSUME NEW S, S \subseteq Nat, S # {}
    PROVE  \E i \in S : \A k \in S : i <= k
<1>1. PICK x \in S : \A y \in S : ~(<<y, x>> \in OpToRel(<, Nat))
    BY NatLessThanWellFounded, WFMin
<1>2. ASSUME NEW y \in S
      PROVE  x <= y
  <2>1. x \in Nat /\ y \in Nat
      OBVIOUS
  <2>2. y < x => <<y, x>> \in OpToRel(<, Nat)
      BY <2>1 DEF OpToRel
  <2>3. ~(y < x)
      BY <1>1, <2>2
  <2>4. QED
      BY <2>1, <2>3, SMT
<1>3. QED
    BY <1>2

\* The next on the ring is one of the list: the least above the id, or, if
\* there is none, the least of all.
LEMMA FollowingSpec ==
    ASSUME NEW ids, ids \subseteq Nat, ids # {}, NEW id \in Nat
    PROVE  /\ Following(ids, id) \in ids
           /\ (\E i \in ids : i > id) =>
                 /\ Following(ids, id) > id
                 /\ \A k \in ids : k > id => Following(ids, id) <= k
           /\ ~(\E i \in ids : i > id) => \A k \in ids : Following(ids, id) <= k
<1> DEFINE above == {i \in ids : i > id}
           from == IF above = {} THEN ids ELSE above
<1>1. from \subseteq Nat /\ from # {} /\ from \subseteq ids
    OBVIOUS
<1>2. \E i \in from : \A k \in from : i <= k
    BY <1>1, LeastElement
<1>3. Following(ids, id) \in from /\ \A k \in from : Following(ids, id) <= k
    BY <1>2 DEF Following
<1>4. QED
    BY <1>3

\* On one ring two proxies do not have the same next one.
LEMMA FollowingInjective ==
    ASSUME NEW ids, ids \subseteq Nat, NEW a \in ids, NEW b \in ids,
           Following(ids, a) = Following(ids, b)
    PROVE  a = b
<1>1. ASSUME NEW x \in ids, NEW y \in ids, x < y
      PROVE  Following(ids, x) # Following(ids, y)
  <2>1. x \in Nat /\ y \in Nat /\ ids # {} /\ y > x
      BY <1>1
  <2>2. Following(ids, x) > x /\ Following(ids, x) <= y
      BY <2>1, FollowingSpec
  <2>3. Following(ids, y) > y \/ Following(ids, y) <= x
      BY <2>1, FollowingSpec
  <2>4. Following(ids, x) \in Nat /\ Following(ids, y) \in Nat
      BY <2>1, FollowingSpec
  <2>5. QED
      BY <2>1, <2>2, <2>3, <2>4, SMT
<1>2. QED
    BY <1>1, SMT
-----------------------------------------------------------------------------
\* The ids of a host are bytes, a host has the id that HostOf finds it by, and
\* a proxy that is started again gets an id of its host.
LEMMA IdFacts ==
    /\ Id \subseteq Nat
    /\ \A h \in Host : Ids(h) \subseteq Id /\ front(Location[h]) \in Ids(h)
    /\ \A id \in Id : HostOf(id) \in Host /\ Relaunched(id) \in Ids(HostOf(id))
<1>1. \A h \in Host : front(Location[h]) \in 0..255
  <2>1. \A h \in Host : Location[h] \in 0..1000
      BY MembershipAssumption, SMT
  <2>2. ASSUME NEW h \in Host
        PROVE  front(Location[h]) \in 0..255
    <3>1. PICK place \in 0..1000 : place = Location[h]
        BY <2>1, SMT
    <3>2. front(place) \in 0..255
        BY FrontIsByte, ZenonT(30)
    <3>3. QED
        BY <3>1, <3>2, ZenonT(30)
  <2>3. QED
      BY <2>2
<1>2. \A h \in Host : \A id \in Ids(h) : id \in 0..255 /\ Relaunched(id) \in Ids(h)
    BY <1>1, RelaunchStable, ZenonT(30) DEF Ids
<1>3. Id \subseteq Nat
  <2>1. \A id \in Id : id \in 0..255
      BY <1>2, ZenonT(30) DEF Id
  <2>2. QED
      BY <2>1, SMT
<1>4. \A h \in Host : Ids(h) \subseteq Id /\ front(Location[h]) \in Ids(h)
    BY DEF Id, Ids
<1>5. ASSUME NEW id \in Id
      PROVE  HostOf(id) \in Host /\ Relaunched(id) \in Ids(HostOf(id))
  <2>1. \E h \in Host : id \in Ids(h)
      BY DEF Id
  <2>2. HostOf(id) \in Host /\ id \in Ids(HostOf(id))
      BY <2>1 DEF HostOf
  <2>3. QED
      BY <2>2, <1>2
<1>6. QED
    BY <1>3, <1>4, <1>5

\* The first states are typed.
LEMMA InitTyped == Init => TypeOK
<1> SUFFICES ASSUME Init PROVE TypeOK
    OBVIOUS
<1> USE DEF Init
<1>1. sc \in Scenarios /\ faults \in [Fault -> Nat]
    BY MembershipAssumption, SMT DEF Fault
<1>2. DOMAIN znode \subseteq Id /\ znode \in [DOMAIN znode -> [live : {-1, 0, 1}, old : BOOLEAN]]
    OBVIOUS
<1>3. proc \in [Host -> Process] /\ \A h \in Host : proc[h].id \in Ids(h)
    BY IdFacts DEF Process
<1>4. checks \in [Host -> [1..MaxChecks -> {Idle} \cup Check]]
    OBVIOUS
<1>5. QED
    BY <1>1, <1>2, <1>3, <1>4 DEF TypeOK

\* The clients keep their types.
LEMMA ClientsTyped ==
    ASSUME TypeOK, NEW c \in Client, ClientStep(c)
    PROVE  TypeOK'
<1> USE DEF TypeOK, clientVars
<1>1. ASSUME Reconfigured(c)
      PROVE  /\ cache' \in [Client -> SUBSET Id] /\ proxys' \in [Client -> SUBSET Id]
             /\ broken' \in [Client -> SUBSET Id]
  <2>1. Listed(c) \subseteq Id
      BY DEF Listed
  <2>2. cache' \in [Client -> SUBSET Id]
      BY <1>1 DEF Reconfigured
  <2>3. proxys' \in [Client -> SUBSET Id]
      BY <1>1, <2>1 DEF Reconfigured
  <2>4. broken' \in [Client -> SUBSET Id]
      BY <1>1, <2>1, SMT DEF Reconfigured
  <2>5. QED
      BY <2>2, <2>3, <2>4
<1>2. CASE Build(c)
    BY <1>1, <1>2 DEF Build
<1>3. CASE start_watch(c)
    BY <1>3 DEF start_watch
<1>4. CASE OnEvent(c)
    BY <1>4 DEF OnEvent, Rearmed
<1>5. CASE reconfigure(c)
    BY <1>1, <1>5 DEF reconfigure
<1>6. QED
    BY <1>2, <1>3, <1>4, <1>5 DEF ClientStep

\* A fault leaves the counts of faults natural numbers.
LEMMA OccursTyped ==
    ASSUME faults \in [Fault -> Nat], NEW f \in Fault, Occurs(f)
    PROVE  faults' \in [Fault -> Nat]
  BY SMT DEF Occurs, Fault

\* A write to a node changes no other.
LEMMA WrittenTyped ==
    ASSUME TypeOK, NEW id, NEW live \in {-1, 0, 1}
    PROVE  /\ DOMAIN Written(znode, id, live) = DOMAIN znode
           /\ Written(znode, id, live) \in [DOMAIN znode -> [live : {-1, 0, 1}, old : BOOLEAN]]
  BY DEF Written, TypeOK

\* A node that is old stays typed.
LEMMA AgeTyped ==
    ASSUME TypeOK, NEW id \in DOMAIN znode, Age(id)
    PROVE  TypeOK'
<1> USE DEF TypeOK, clientVars
<1>1. faults' \in [Fault -> Nat]
    BY OccursTyped DEF Age, Fault
<1>2. /\ DOMAIN znode' = DOMAIN znode
      /\ znode' \in [DOMAIN znode' -> [live : {-1, 0, 1}, old : BOOLEAN]]
    BY DEF Age
<1>3. QED
    BY <1>1, <1>2 DEF Age

\* So do the variables that Notify changes.
LEMMA NotifyTyped ==
    ASSUME TypeOK, Notify, DOMAIN znode' \subseteq Id
    PROVE  /\ watch' \in [Client -> {"none", "set", "fired"}]
           /\ missed' \in [Client -> SUBSET Id]
  BY DEF TypeOK, Notify

\* Gone leaves no check of a process that is gone.
LEMMA GoneTyped ==
    ASSUME TypeOK, NEW h \in Host, Gone(h)
    PROVE  /\ checks' \in [Host -> [1..MaxChecks -> {Idle} \cup Check]]
           /\ broken' \in [Client -> SUBSET Id]
  BY DEF TypeOK, Gone

\* The next proxy that Beat looks up has a node.
LEMMA NextHasNode ==
    ASSUME TypeOK, NEW h \in Host, DOMAIN znode # {}
    PROVE  Following(DOMAIN znode, proc[h].id) \in DOMAIN znode
<1>1. DOMAIN znode \subseteq Nat /\ proc[h].id \in Nat
    BY IdFacts DEF TypeOK
<1>2. QED
    BY <1>1, FollowingSpec

\* A process that changes its state keeps its id.
LEMMA StateTyped ==
    ASSUME TypeOK, NEW h \in Host,
           NEW state \in {"new", "setup", "on", "closing", "closed", "down"},
           proc' = [proc EXCEPT ![h].state = state]
    PROVE  /\ proc' \in [Host -> Process]
           /\ \A g \in Host : proc'[g].id = proc[g].id /\ proc'[g].id \in Ids(g)
<1>1. proc \in [Host -> Process] /\ \A g \in Host : proc[g].id \in Ids(g)
    BY DEF TypeOK
<1> DEFINE new == [proc[h] EXCEPT !.state = state]
<1>2. new \in Process /\ new.id = proc[h].id
    BY <1>1 DEF Process
<1>3. proc' = [proc EXCEPT ![h] = new]
    OBVIOUS
<1> HIDE DEF new
<1>4. QED
    BY <1>1, <1>2, <1>3

\* A step of a proxy but those of start_check_alive.
LEMMA ProxyTyped ==
    ASSUME TypeOK, NEW h \in Host,
           Start(h) \/ start_setup(h) \/ Beat(h) \/ shutdown(h) \/ Crash(h)
    PROVE  TypeOK'
<1> USE DEF clientVars
<1>1. CASE Start(h)
  <2>1. proc' \in [Host -> Process] /\ \A g \in Host : proc'[g].id \in Ids(g)
      BY <1>1, StateTyped DEF Start
  <2>2. QED
      BY <1>1, <2>1 DEF TypeOK, Start
<1>2. CASE start_setup(h)
  <2>1. /\ DOMAIN znode' \subseteq Id
        /\ znode' \in [DOMAIN znode' -> [live : {-1, 0, 1}, old : BOOLEAN]]
      BY <1>2 DEF TypeOK, start_setup, Process
  <2>2. proc' \in [Host -> Process] /\ \A g \in Host : proc'[g].id \in Ids(g)
      BY <1>2, StateTyped DEF start_setup
  <2>3. /\ watch' \in [Client -> {"none", "set", "fired"}]
        /\ missed' \in [Client -> SUBSET Id]
      BY <1>2, <2>1, NotifyTyped DEF start_setup
  <2>4. QED
      BY <1>2, <2>1, <2>2, <2>3 DEF TypeOK, start_setup, Notify
<1>3. CASE Beat(h)
  <2>1. /\ DOMAIN znode' = DOMAIN znode
        /\ znode' \in [DOMAIN znode -> [live : {-1, 0, 1}, old : BOOLEAN]]
      BY <1>3, WrittenTyped, SMT DEF TypeOK, Beat
  <2>2. proc' \in [Host -> Process] /\ \A g \in Host : proc'[g].id \in Ids(g)
      BY <1>3, StateTyped DEF TypeOK, Beat
  <2>3. checks' \in [Host -> [1..MaxChecks -> {Idle} \cup Check]]
    <3> DEFINE free == {k \in 1..MaxChecks : checks[h][k] = Idle}
               slot == CHOOSE k \in free : \A n \in free : k <= n
               new == [step |-> "details", id |-> Following(DOMAIN znode, proc[h].id),
                       seen |-> DOMAIN znode]
    <3>1. free # {} /\ free \subseteq Nat
        BY <1>3, MembershipAssumption, SMT DEF Beat
    <3>2. slot \in 1..MaxChecks
        BY <3>1, LeastElement
    <3>3. checks' = checks \/ (DOMAIN znode # {} /\ checks' = [checks EXCEPT ![h][slot] = new])
        BY <1>3 DEF Beat
    <3>4. DOMAIN znode # {} => new \in Check
        BY NextHasNode DEF Check, TypeOK
    <3> DEFINE row == [checks[h] EXCEPT ![slot] = new]
    <3> HIDE DEF slot, new
    <3>5. checks \in [Host -> [1..MaxChecks -> {Idle} \cup Check]]
        BY DEF TypeOK
    <3>6. DOMAIN znode # {} => row \in [1..MaxChecks -> {Idle} \cup Check]
        BY <3>2, <3>4, <3>5
    <3>7. checks' = checks \/ (DOMAIN znode # {} /\ checks' = [checks EXCEPT ![h] = row])
        BY <3>3
    <3> HIDE DEF row
    <3>8. QED
        BY <3>5, <3>6, <3>7
  <2>4. QED
      BY <1>3, <2>1, <2>2, <2>3 DEF TypeOK, Beat
<1>4. CASE shutdown(h)
  <2>1. /\ DOMAIN znode' \subseteq Id
        /\ znode' \in [DOMAIN znode' -> [live : {-1, 0, 1}, old : BOOLEAN]]
      BY <1>4 DEF TypeOK, shutdown
  <2>2. proc' \in [Host -> Process] /\ \A g \in Host : proc'[g].id \in Ids(g)
      BY <1>4, StateTyped DEF shutdown
  <2>3. /\ watch' \in [Client -> {"none", "set", "fired"}]
        /\ missed' \in [Client -> SUBSET Id]
      BY <1>4, <2>1, NotifyTyped DEF shutdown
  <2>4. /\ checks' \in [Host -> [1..MaxChecks -> {Idle} \cup Check]]
        /\ broken' \in [Client -> SUBSET Id]
      BY <1>4, GoneTyped DEF TypeOK, shutdown
  <2>5. faults' \in [Fault -> Nat]
      BY <1>4, OccursTyped DEF TypeOK, shutdown, Fault
  <2>6. QED
      BY <1>4, <2>1, <2>2, <2>3, <2>4, <2>5 DEF TypeOK, shutdown, Notify
<1>5. CASE Crash(h)
  <2>1. proc' \in [Host -> Process] /\ \A g \in Host : proc'[g].id \in Ids(g)
      BY <1>5, StateTyped DEF Crash
  <2>2. /\ checks' \in [Host -> [1..MaxChecks -> {Idle} \cup Check]]
        /\ broken' \in [Client -> SUBSET Id]
      BY <1>5, GoneTyped DEF Crash
  <2>3. faults' \in [Fault -> Nat]
      BY <1>5, OccursTyped DEF TypeOK, Crash, Fault
  <2>4. QED
      BY <1>5, <2>1, <2>2, <2>3 DEF TypeOK, Crash
<1>6. QED
    BY <1>1, <1>2, <1>3, <1>4, <1>5

\* What a check is about does not change from one call to a state to another.
SameChecks ==
    \A g \in Host : \A n \in 1..MaxChecks : checks'[g][n] # Idle =>
        /\ checks[g][n] # Idle
        /\ checks'[g][n].id = checks[g][n].id /\ checks'[g][n].seen = checks[g][n].seen

\* A step of start_check_alive leaves the others alone.
LEMMA ToTyped ==
    ASSUME TypeOK, NEW h \in Host, NEW k \in 1..MaxChecks, checks[h][k] # Idle,
           NEW step \in {"details", "mark", "launch", "flag", "end"}, To(h, k, step)
    PROVE  checks' \in [Host -> [1..MaxChecks -> {Idle} \cup Check]] /\ SameChecks
<1> DEFINE new == IF step = "end" THEN Idle ELSE [checks[h][k] EXCEPT !.step = step]
           row == [checks[h] EXCEPT ![k] = new]
<1>1. checks \in [Host -> [1..MaxChecks -> {Idle} \cup Check]]
    BY DEF TypeOK
<1>2. checks[h][k] \in Check
    BY <1>1
<1>3. /\ new \in {Idle} \cup Check
      /\ new # Idle => new.id = checks[h][k].id /\ new.seen = checks[h][k].seen
    BY <1>2 DEF Check
<1>4. checks' = [checks EXCEPT ![h] = row]
    BY DEF To
<1> HIDE DEF new
<1>5. row \in [1..MaxChecks -> {Idle} \cup Check]
    BY <1>1, <1>3
<1>6. \A n \in 1..MaxChecks : row[n] = IF n = k THEN new ELSE checks[h][n]
    BY <1>1
<1> HIDE DEF row
<1>7. checks' \in [Host -> [1..MaxChecks -> {Idle} \cup Check]]
    BY <1>1, <1>4, <1>5
<1>8. \A g \in Host : checks'[g] = IF g = h THEN row ELSE checks[g]
    BY <1>1, <1>4
<1>9. SameChecks
    BY <1>3, <1>6, <1>8 DEF SameChecks
<1>10. QED
    BY <1>7, <1>9

\* A process that gets another id has no checks.
KeptIds ==
    \A g \in Host : proc'[g].id = proc[g].id \/ \A n \in 1..MaxChecks : checks'[g][n] = Idle

\* Launch starts a process with an id of its host, or none.
LEMMA LaunchTyped ==
    ASSUME TypeOK, NEW h \in Host, NEW k \in 1..MaxChecks, Launch(h, k)
    PROVE  TypeOK' /\ SameChecks /\ KeptIds
<1> DEFINE id == checks[h][k].id
           g == HostOf(id)
           rest == [checks EXCEPT ![h][k].step = "flag"]
           idle == [n \in 1..MaxChecks |-> Idle]
           new == [state |-> "setup", id |-> Relaunched(id), box |-> "again", cache |-> {}]
           row == [checks[h] EXCEPT ![k] = [checks[h][k] EXCEPT !.step = "flag"]]
<1>1. checks \in [Host -> [1..MaxChecks -> {Idle} \cup Check]] /\ proc \in [Host -> Process]
    BY DEF TypeOK
<1>2. checks[h][k] \in Check /\ checks[h][k] # Idle
  <2>1. checks[h][k].step = "launch"
      BY DEF Launch
  <2>2. checks[h][k] # Idle
      BY <2>1, SMT DEF Idle
  <2>3. QED
      BY <1>1, <2>2
<1>3. id \in Id /\ g \in Host /\ Relaunched(id) \in Ids(g) /\ Relaunched(id) \in Id
    BY <1>2, IdFacts DEF Check
<1>4. new \in Process /\ new.id \in Ids(g)
    BY <1>3 DEF Process
<1>5. /\ rest \in [Host -> [1..MaxChecks -> {Idle} \cup Check]]
      /\ \A f \in Host : \A n \in 1..MaxChecks : rest[f][n] # Idle =>
            /\ checks[f][n] # Idle
            /\ rest[f][n].id = checks[f][n].id /\ rest[f][n].seen = checks[f][n].seen
  <2> DEFINE next == [checks[h][k] EXCEPT !.step = "flag"]
  <2>1. next \in Check /\ next.id = checks[h][k].id /\ next.seen = checks[h][k].seen
      BY <1>2 DEF Check
  <2>2. rest = [checks EXCEPT ![h] = row] /\ row = [checks[h] EXCEPT ![k] = next]
      OBVIOUS
  <2> HIDE DEF next, rest
  <2>3. row \in [1..MaxChecks -> {Idle} \cup Check]
      BY <1>1, <2>1, <2>2, ZenonT(30)
  <2>4. \A n \in 1..MaxChecks : row[n] = IF n = k THEN next ELSE checks[h][n]
      BY <1>1, <2>2
  <2> HIDE DEF row
  <2>5. \A f \in Host : rest[f] = IF f = h THEN row ELSE checks[f]
      BY <1>1, <2>2
  <2>6. rest \in [Host -> [1..MaxChecks -> {Idle} \cup Check]]
      BY <1>1, <2>2, <2>3
  <2>7. QED
      BY <1>2, <2>1, <2>4, <2>5, <2>6
<1>6. \/ /\ proc' = [proc EXCEPT ![g] = new]
         /\ checks' = [rest EXCEPT ![g] = idle]
         /\ broken' = [c \in Client |-> broken[c] \cup (proxys[c] \cap Ids(g))]
         /\ faults' = faults
      \/ checks' = rest /\ proc' = proc /\ broken' = broken /\ faults' \in [Fault -> Nat]
    BY OccursTyped DEF Launch, TypeOK, Fault
<1>7. UNCHANGED <<sc, znode, phase, watch, pending, cache, proxys, missed>>
    BY DEF Launch
<1> HIDE DEF id, g, rest, new
<1>8. checks' \in [Host -> [1..MaxChecks -> {Idle} \cup Check]]
    BY <1>3, <1>5, <1>6, SMTT(30)
<1>9. proc' \in [Host -> Process] /\ \A f \in Host : proc'[f].id \in Ids(f)
    BY <1>3, <1>4, <1>6, ZenonT(30) DEF TypeOK
<1>10. faults' \in [Fault -> Nat] /\ broken' \in [Client -> SUBSET Id]
    BY <1>6, SMT DEF TypeOK
<1>11. TypeOK'
    BY <1>7, <1>8, <1>9, <1>10 DEF TypeOK
<1>12. \A f \in Host : \/ checks'[f] = rest[f] /\ proc'[f] = proc[f]
                      \/ checks'[f] = idle
    BY <1>1, <1>3, <1>5, <1>6
<1>13. \A n \in 1..MaxChecks : idle[n] = Idle
    OBVIOUS
<1> HIDE DEF idle
<1>14. SameChecks /\ KeptIds
    BY <1>5, <1>12, <1>13, SMT DEF SameChecks, KeptIds
<1>15. QED
    BY <1>11, <1>14

\* The other steps of start_check_alive.
LEMMA CheckTyped ==
    ASSUME TypeOK, NEW h \in Host, NEW k \in 1..MaxChecks, get_details(h, k) \/ Flag(h, k)
    PROVE  TypeOK' /\ SameChecks /\ KeptIds
<1> USE DEF clientVars
<1>1. checks[h][k] # Idle
    BY SMT DEF get_details, Flag, Idle
<1>2. CASE get_details(h, k)
  <2>1. checks[h][k].id \in Id
    <3>1. checks[h][k] \in Check
      <4>1. checks \in [Host -> [1..MaxChecks -> {Idle} \cup Check]]
          BY DEF TypeOK
      <4>2. QED
          BY <1>1, <4>1
    <3>2. QED
        BY <3>1 DEF Check
  <2>2. checks' \in [Host -> [1..MaxChecks -> {Idle} \cup Check]] /\ SameChecks
    <3>1. \E step \in {"mark", "launch", "end"} : To(h, k, step)
        BY <1>2 DEF get_details, TypeOK
    <3>2. QED
        BY <1>1, <3>1, ToTyped
  <2>3. /\ proc' \in [Host -> Process]
        /\ \A g \in Host : proc'[g].id = proc[g].id /\ proc'[g].id \in Ids(g)
    <3> DEFINE new == [proc[h] EXCEPT !.cache = @ \cup {checks[h][k].id}]
    <3>1. proc \in [Host -> Process] /\ \A g \in Host : proc[g].id \in Ids(g)
        BY DEF TypeOK
    <3>2. new \in Process /\ new.id = proc[h].id
        BY <2>1, <3>1 DEF Process
    <3>3. proc' = proc \/ proc' = [proc EXCEPT ![h] = new]
        BY <1>2 DEF get_details
    <3> HIDE DEF new
    <3>4. QED
        BY <3>1, <3>2, <3>3
  <2>4. QED
      BY <1>2, <2>2, <2>3 DEF get_details, TypeOK, KeptIds
<1>3. CASE Flag(h, k)
  <2>1. checks' \in [Host -> [1..MaxChecks -> {Idle} \cup Check]] /\ SameChecks
      BY <1>1, <1>3, ToTyped DEF Flag
  <2>2. /\ DOMAIN znode' = DOMAIN znode
        /\ znode' \in [DOMAIN znode -> [live : {-1, 0, 1}, old : BOOLEAN]]
    <3>1. \E live \in {-1, 0, 1} : znode' = Written(znode, checks[h][k].id, live)
        BY <1>3 DEF Flag
    <3>2. QED
        BY <3>1, WrittenTyped, SMT
  <2>3. QED
      BY <1>3, <2>1, <2>2 DEF Flag, TypeOK, KeptIds
<1>4. QED
    BY <1>2, <1>3

\* Type correctness of the proxies, their nodes and the clients, for any hosts,
\* locations on the ring and numbers of faults.
THEOREM Typed == Spec => []TypeOK
<1>1. TypeOK /\ [Next]_vars => TypeOK'
  <2> SUFFICES ASSUME TypeOK, [Next]_vars
               PROVE  TypeOK'
      OBVIOUS
  <2>1. CASE UNCHANGED vars
      BY <2>1 DEF vars, TypeOK, clientVars
  <2>2. ASSUME NEW h \in Host, NEW k \in 1..MaxChecks, CheckStep(h, k)
        PROVE  TypeOK'
      BY <2>2, CheckTyped, LaunchTyped DEF CheckStep
  <2>3. QED
      BY <2>1, <2>2, ProxyTyped, AgeTyped, ClientsTyped DEF Next
<1>2. QED
    BY <1>1, InitTyped, PTL DEF Spec

-----------------------------------------------------------------------------
\* Every call of start_check_alive checks the proxy that follows its own in the
\* list it has read.
Ring ==
    \A h \in Host : \A k \in 1..MaxChecks : checks[h][k] # Idle =>
        checks[h][k].id = Following(checks[h][k].seen, proc[h].id)

\* A step that makes no check, and changes no id but those of processes
\* without checks, keeps it so.
LEMMA RingKept ==
    ASSUME Ring, SameChecks, KeptIds
    PROVE  Ring'
<1>1. ASSUME NEW g \in Host, NEW n \in 1..MaxChecks, checks'[g][n] # Idle
      PROVE  checks'[g][n].id = Following(checks'[g][n].seen, proc'[g].id)
  <2>1. proc'[g].id = proc[g].id
      BY <1>1 DEF KeptIds
  <2>2. /\ checks[g][n] # Idle
        /\ checks'[g][n].id = checks[g][n].id /\ checks'[g][n].seen = checks[g][n].seen
      BY <1>1 DEF SameChecks
  <2>3. checks[g][n].id = Following(checks[g][n].seen, proc[g].id)
      BY <2>2 DEF Ring
  <2>4. QED
      BY <2>1, <2>2, <2>3
<1>2. QED
    BY <1>1 DEF Ring

\* The checks of Beat are made so.
LEMMA BeatRing ==
    ASSUME TypeOK, Ring, NEW h \in Host, Beat(h)
    PROVE  Ring'
<1> DEFINE free == {k \in 1..MaxChecks : checks[h][k] = Idle}
           slot == CHOOSE k \in free : \A n \in free : k <= n
           new == [step |-> "details", id |-> Following(DOMAIN znode, proc[h].id),
                   seen |-> DOMAIN znode]
           row == [checks[h] EXCEPT ![slot] = new]
<1>1. \A g \in Host : proc'[g].id = proc[g].id
    BY StateTyped DEF Beat
<1>2. checks \in [Host -> [1..MaxChecks -> {Idle} \cup Check]]
    BY DEF TypeOK
<1>3. checks' = checks \/ checks' = [checks EXCEPT ![h] = row]
    BY DEF Beat
<1>4. new.id = Following(new.seen, proc[h].id)
    OBVIOUS
<1> HIDE DEF slot, new
<1>5. \A n \in 1..MaxChecks : row[n] = IF n = slot THEN new ELSE checks[h][n]
    BY <1>2
<1> HIDE DEF row
<1>6. \A g \in Host : checks'[g] = checks[g] \/ (g = h /\ checks'[g] = row)
    BY <1>2, <1>3
<1>7. ASSUME NEW g \in Host, NEW n \in 1..MaxChecks, checks'[g][n] # Idle
      PROVE  checks'[g][n].id = Following(checks'[g][n].seen, proc[g].id)
    BY <1>4, <1>5, <1>6, <1>7, SMT DEF Ring
<1>8. QED
    BY <1>1, <1>7 DEF Ring

\* So does every step.
LEMMA RingStep ==
    ASSUME TypeOK, Ring, [Next]_vars
    PROVE  Ring'
<1> USE DEF clientVars
<1>1. CASE UNCHANGED <<proc, checks>>
    BY <1>1 DEF Ring
<1>2. ASSUME NEW h \in Host, Start(h) \/ start_setup(h) \/ shutdown(h) \/ Crash(h)
      PROVE  Ring'
  <2>1. \A g \in Host : proc'[g].id = proc[g].id
      BY <1>2, StateTyped DEF Start, start_setup, shutdown, Crash
  <2>2. checks \in [Host -> [1..MaxChecks -> {Idle} \cup Check]]
      BY DEF TypeOK
  <2>3. checks' = checks \/ Gone(h)
      BY <1>2 DEF Start, start_setup, shutdown, Crash
  <2>4. \A g \in Host : checks'[g] = checks[g] \/ \A n \in 1..MaxChecks : checks'[g][n] = Idle
    <3> DEFINE idle == [k \in 1..MaxChecks |-> Idle]
    <3>1. \A n \in 1..MaxChecks : idle[n] = Idle
        OBVIOUS
    <3>2. checks' = checks \/ checks' = [checks EXCEPT ![h] = idle]
        BY <2>3 DEF Gone
    <3> HIDE DEF idle
    <3>3. QED
        BY <2>2, <3>1, <3>2
  <2>5. SameChecks /\ KeptIds
      BY <2>1, <2>4 DEF SameChecks, KeptIds
  <2>6. QED
      BY <2>5, RingKept
<1>3. ASSUME NEW h \in Host, NEW k \in 1..MaxChecks, CheckStep(h, k)
      PROVE  Ring'
    BY <1>3, CheckTyped, LaunchTyped, RingKept DEF CheckStep
<1>4. ASSUME NEW id \in DOMAIN znode, Age(id)
      PROVE  UNCHANGED <<proc, checks>>
    BY <1>4 DEF Age
<1>5. ASSUME NEW c \in Client, ClientStep(c)
      PROVE  UNCHANGED <<proc, checks>>
    BY <1>5 DEF ClientStep, Build, start_watch, OnEvent, reconfigure
<1>6. CASE UNCHANGED vars
    BY <1>1, <1>6 DEF vars
<1>7. QED
    BY <1>1, <1>2, <1>3, <1>4, <1>5, <1>6, BeatRing DEF Next

\* Two proxies of the same list never check the same one: upper_bound, with
\* begin after the end, is one-to-one on the list, and the ids of two hosts
\* differ.
THEOREM Watched == Spec => []WatchedByOne
<1>1. Init => Ring
    BY SMT DEF Init, Ring
<1>2. TypeOK /\ Ring => WatchedByOne
  <2> SUFFICES ASSUME TypeOK, Ring, NEW g \in Host, NEW h \in Host,
                      NEW k \in 1..MaxChecks, NEW n \in 1..MaxChecks,
                      g # h, checks[g][k] # Idle, checks[h][n] # Idle,
                      checks[g][k].id = checks[h][n].id,
                      checks[g][k].seen = checks[h][n].seen,
                      {proc[g].id, proc[h].id} \subseteq checks[g][k].seen
               PROVE  FALSE
      BY SMT DEF WatchedByOne
  <2> DEFINE seen == checks[g][k].seen
  <2>1. seen \subseteq Nat
    <3>1. checks \in [Host -> [1..MaxChecks -> {Idle} \cup Check]]
        BY DEF TypeOK
    <3>2. checks[g][k] \in Check
        BY <3>1
    <3>3. QED
        BY <3>2, IdFacts DEF Check
  <2>2. Following(seen, proc[g].id) = Following(seen, proc[h].id)
      BY DEF Ring
  <2> HIDE DEF seen
  <2>3. proc[g].id \in seen /\ proc[h].id \in seen
      BY DEF seen
  <2>4. proc[g].id = proc[h].id
      BY <2>1, <2>2, <2>3, FollowingInjective
  <2>5. proc[g].id \in Ids(g) /\ proc[h].id \in Ids(h)
      BY DEF TypeOK
  <2>6. QED
      BY <2>4, <2>5, MembershipAssumption, ZenonT(30)
<1>3. QED
    BY <1>1, <1>2, RingStep, Typed, PTL DEF Spec

-----------------------------------------------------------------------------
\* What a client that has read the list knows, from its constructor on, unless
\* it has yet to handle an event.
Known ==
    /\ \A c \in Client : watch[c] = "none" => phase[c] # "watching"
    /\ \A c \in Client : phase[c] = "built" \/ (watch[c] = "set" /\ c \notin pending)
            => DOMAIN znode \subseteq cache[c] \cup missed[c]

\* Those who watch the children are told of a change, and what a client misses
\* before its first watch is counted.
LEMMA NotifyKnown ==
    ASSUME TypeOK, Known, Notify
    PROVE  Known'
  BY DEF TypeOK, Known, Notify

\* A step of a client keeps it so.
LEMMA ClientKnown ==
    ASSUME TypeOK, Known, NEW c \in Client, ClientStep(c)
    PROVE  Known'
<1> USE DEF TypeOK, Known
<1>1. CASE Build(c)
    BY <1>1 DEF Build, Reconfigured
<1>2. CASE start_watch(c)
    BY <1>2 DEF start_watch
<1>3. CASE OnEvent(c)
    BY <1>3 DEF OnEvent, Rearmed
<1>4. CASE reconfigure(c)
    BY <1>4 DEF reconfigure, Reconfigured
<1>5. QED
    BY <1>1, <1>2, <1>3, <1>4 DEF ClientStep

\* No proxy that joins is missed by a client that has handled its events: the
\* watch is set again before the list is read again.
THEOREM NoneMissed == Spec => []NoJoinMissed
<1>1. Init => Known
    BY DEF Init, Known
<1>2. TypeOK /\ Known /\ [Next]_vars => Known'
  <2> SUFFICES ASSUME TypeOK, Known, [Next]_vars
               PROVE  Known'
      OBVIOUS
  <2> USE DEF clientVars
  <2>1. CASE DOMAIN znode' = DOMAIN znode /\ UNCHANGED <<phase, watch, pending, cache, missed>>
      BY <2>1 DEF Known
  <2>2. ASSUME NEW h \in Host, Start(h) \/ start_setup(h) \/ Beat(h) \/ shutdown(h) \/ Crash(h)
        PROVE  Known'
      BY <2>1, <2>2, NotifyKnown DEF Start, start_setup, Beat, shutdown, Crash, Written
  <2>3. ASSUME NEW h \in Host, NEW k \in 1..MaxChecks, CheckStep(h, k)
        PROVE  Known'
      BY <2>1, <2>3 DEF CheckStep, get_details, Flag, Launch, Written
  <2>4. ASSUME NEW id \in DOMAIN znode, Age(id)
        PROVE  Known'
      BY <2>1, <2>4 DEF Age, TypeOK
  <2>5. CASE UNCHANGED vars
      BY <2>1, <2>5 DEF vars
  <2>6. QED
      BY <2>2, <2>3, <2>4, <2>5, ClientKnown DEF Next
<1>3. Known => NoJoinMissed
    BY DEF Known, NoJoinMissed
<1>4. QED
    BY <1>1, <1>2, <1>3, Typed, PTL DEF Spec
=============================================================================
