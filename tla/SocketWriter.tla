---------------------------- MODULE SocketWriter ----------------------------
(***************************************************************************)
(* socket_writer (v1, the one in use): the queue through which every       *)
(* packet of a TCP connection is written, in the proxy, the datafunction   *)
(* and the SSBD server alike.  start_write_socket may be called on any     *)
(* thread of the io_context; the completion handler of async_write runs on *)
(* a strand.  Each access to write_queue_ and to is_writing_ is a step.    *)
(***************************************************************************)
EXTENDS Naturals, Sequences, FiniteSets

CONSTANTS Packet,       \* the packets written, one start_write_socket each
          Strand,       \* the strand the completion handlers run on
          Threads,      \* threads that may be inside the writer at once
          MayBreak      \* the connection may break

ASSUME WriterAssumption ==
    /\ IsFiniteSet(Packet)
    /\ Strand \notin Packet
    /\ Threads \in Nat \ {0}
    /\ MayBreak \in BOOLEAN

VARIABLES
    write_queue,  \* write_queue_
    is_writing,   \* is_writing_
    pc,           \* where a caller, or the completion handler, is
    called,       \* packets start_write_socket was called for
    outstanding,  \* packets whose async_write has not completed
    disconnected, \* the connection is broken
    result        \* what the packet's next was invoked with

writerVars == <<write_queue, is_writing, pc, called, outstanding, disconnected, result>>

\* A caller of start_write_socket is named after its packet.
Agent == Packet \cup {Strand}

WriterTypeOK ==
    /\ write_queue \in Seq(Packet)
    /\ is_writing \in BOOLEAN
    /\ pc \in [Agent -> {"out", "check", "raise", "pop", "lower"}]
    /\ called \subseteq Packet
    /\ outstanding \subseteq Packet
    /\ disconnected \in BOOLEAN
    /\ result \in [Packet -> {"none", "written", "error"}]

WriterInit ==
    /\ write_queue = <<>>
    /\ is_writing = FALSE
    /\ pc = [a \in Agent |-> "out"]
    /\ called = {}
    /\ outstanding = {}
    /\ disconnected = FALSE
    /\ result = [p \in Packet |-> "none"]

Inside == {a \in Agent : pc[a] # "out"}

\* A thread is free to enter the writer.
Enter == Cardinality(Inside) < Threads

-----------------------------------------------------------------------------
\* start_write_socket: push, ...
Push(p) ==
    /\ p \notin called
    /\ Enter
    /\ called' = called \cup {p}
    /\ write_queue' = Append(write_queue, p)
    /\ pc' = [pc EXCEPT ![p] = "check"]
    /\ UNCHANGED <<is_writing, outstanding, disconnected, result>>

\* Slip: is_writing_ is not looked at.
CheckWriting_never(p) ==
    /\ pc[p] = "check"
    /\ pc' = [pc EXCEPT ![p] = "raise"]
    /\ UNCHANGED <<write_queue, is_writing, called, outstanding, disconnected, result>>

\* ... look whether someone is writing, ...
CheckWriting(p) ==
    /\ pc[p] = "check"
    /\ pc' = [pc EXCEPT ![p] = IF is_writing THEN "out" ELSE "raise"]
    /\ UNCHANGED <<write_queue, is_writing, called, outstanding, disconnected, result>>

\* ... and if not, say that we are.
Raise(p) ==
    /\ pc[p] = "raise"
    /\ is_writing' = TRUE
    /\ pc' = [pc EXCEPT ![p] = "pop"]
    /\ UNCHANGED <<write_queue, called, outstanding, disconnected, result>>

\* Slip: the packet is read from the queue but not taken out of it.
Pop_front(a) ==
    /\ pc[a] = "pop"
    /\ write_queue # <<>>
    /\ outstanding' = outstanding \cup {Head(write_queue)}
    /\ pc' = [pc EXCEPT ![a] = "out"]
    /\ UNCHANGED <<write_queue, is_writing, called, disconnected, result>>

\* start_write_one_packet: write the oldest packet, ...
Pop(a) ==
    /\ pc[a] = "pop"
    /\ write_queue # <<>>
    /\ write_queue' = Tail(write_queue)
    /\ outstanding' = outstanding \cup {Head(write_queue)}
    /\ pc' = [pc EXCEPT ![a] = "out"]
    /\ UNCHANGED <<is_writing, called, disconnected, result>>

\* ... or, when try_pop finds none, ...
PopNone(a) ==
    /\ pc[a] = "pop"
    /\ write_queue = <<>>
    /\ pc' = [pc EXCEPT ![a] = "lower"]
    /\ UNCHANGED <<write_queue, is_writing, called, outstanding, disconnected, result>>

\* ... stop.  The completion handler stops in the same way after an error.
Lower(a) ==
    /\ pc[a] = "lower"
    /\ is_writing' = FALSE
    /\ pc' = [pc EXCEPT ![a] = "out"]
    /\ UNCHANGED <<write_queue, called, outstanding, disconnected, result>>

\* Slip: the handler of a written packet does not look for the next one.
PacketWritten_last(p) ==
    /\ p \in outstanding
    /\ ~disconnected
    /\ Enter
    /\ pc[Strand] = "out"
    /\ outstanding' = outstanding \ {p}
    /\ result' = [result EXCEPT ![p] = "written"]
    /\ pc' = [pc EXCEPT ![Strand] = "lower"]
    /\ UNCHANGED <<write_queue, is_writing, called, disconnected>>

\* The completion handler of a packet that was written invokes its next and
\* writes the next one.
PacketWritten(p) ==
    /\ p \in outstanding
    /\ ~disconnected
    /\ Enter
    /\ pc[Strand] = "out"
    /\ outstanding' = outstanding \ {p}
    /\ result' = [result EXCEPT ![p] = "written"]
    /\ pc' = [pc EXCEPT ![Strand] = "pop"]
    /\ UNCHANGED <<write_queue, is_writing, called, disconnected>>

\* Slip: the handler returns without resetting is_writing_.
WriteError_returns(p) ==
    /\ p \in outstanding
    /\ disconnected
    /\ Enter
    /\ pc[Strand] = "out"
    /\ outstanding' = outstanding \ {p}
    /\ result' = [result EXCEPT ![p] = "error"]
    /\ UNCHANGED <<write_queue, is_writing, pc, called, disconnected>>

\* That of a packet that was not invokes its next, and stops.
WriteError(p) ==
    /\ p \in outstanding
    /\ disconnected
    /\ Enter
    /\ pc[Strand] = "out"
    /\ outstanding' = outstanding \ {p}
    /\ result' = [result EXCEPT ![p] = "error"]
    /\ pc' = [pc EXCEPT ![Strand] = "lower"]
    /\ UNCHANGED <<write_queue, is_writing, called, disconnected>>

Break ==
    /\ MayBreak
    /\ ~disconnected
    /\ disconnected' = TRUE
    /\ UNCHANGED <<write_queue, is_writing, pc, called, outstanding, result>>

-----------------------------------------------------------------------------
Call(p) == Push(p) \/ CheckWriting(p) \/ Raise(p)
WriteOne(a) == Pop(a) \/ PopNone(a) \/ Lower(a)
Complete(p) == PacketWritten(p) \/ WriteError(p)

WriterNext ==
    \/ \E p \in Packet : Call(p) \/ Complete(p)
    \/ \E a \in Agent : WriteOne(a)
    \/ Break

WriterSpec == WriterInit /\ [][WriterNext]_writerVars

\* Threads run on, and a write on the socket completes, in success or error.
WriterFairness ==
    /\ \A p \in Packet : WF_writerVars(CheckWriting(p)) /\ WF_writerVars(Raise(p)) /\ WF_writerVars(Complete(p))
    /\ \A a \in Agent : WF_writerVars(WriteOne(a))

WriterFairSpec == WriterSpec /\ WriterFairness

-----------------------------------------------------------------------------
\* is_writing_ never stays up when nobody is writing: as long as it is, an
\* async_write is under way or some thread is about to start one or to lower
\* it.  So however callers, completions and errors interleave, the connection
\* is never wedged: a packet left in the queue goes out with the next one.
NeverWedged ==
    is_writing => \/ outstanding # {}
                  \/ \E a \in Agent : pc[a] \in {"pop", "lower"}

\* No packet is lost or written twice, even when callers and the completion
\* handler pop the queue at the same time: one that was handed over waits in
\* the queue (once), is being written, or had its next invoked.
EachPacketOnce ==
    LET queued == {write_queue[i] : i \in DOMAIN write_queue}
        handled == {p \in Packet : result[p] # "none"}
    IN  /\ \A i, j \in DOMAIN write_queue : write_queue[i] = write_queue[j] => i = j
        /\ queued \cap outstanding = {}
        /\ (queued \cup outstanding) \cap handled = {}
        /\ queued \cup outstanding \cup handled = called

\* With one thread, at most one async_write is under way on the socket, as
\* Asio requires: packets never mix on the wire.
OneWriteAtATime == Cardinality(outstanding) <= 1

\* With one thread, every packet is written in turn and its next invoked, as
\* long as the connection holds.
EveryPacketHandled ==
    \A p \in Packet : p \in called ~> (result[p] # "none" \/ disconnected)
=============================================================================
