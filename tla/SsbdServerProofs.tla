-------------------------- MODULE SsbdServerProofs --------------------------
(***************************************************************************)
(* Proofs about SsbdServer, the handlers of an SSBD server one leveldb     *)
(* call at a time, for any requests and parts of a block: whatever the     *)
(* threads and the crashes, a block shows only bytes of requests that      *)
(* agreed, and a server that runs its handlers one after another           *)
(* implements AtomicBlock.                                                 *)
(***************************************************************************)
EXTENDS SsbdServer, FiniteSetTheorems, TLAPS

USE Zenon

-----------------------------------------------------------------------------
\* The handlers of an SSBD server.

\* The leveldb calls.
CallName ==
    {"bind", "bind_again", "pending_version", "committed_version",
     "pending_version_again", "get_data", "get_version", "put_empty",
     "put_committed_0", "clear_version", "clear_data", "put_version", "put_data",
     "put_committed", "put_block"}

\* What a prepare has still to call: put_pending_prepare, ...
LogData == <<"put_data">>
\* ... after have_pending_log, ...
Again == <<"pending_version_again">> \o Log
Compare == <<"committed_version">> \o Again
Checks == <<"pending_version">> \o Compare
\* ... after rb.bind, ...
Rebind(t) == <<"bind_again">> \o (IF t \in Quick THEN Log ELSE Checks)
\* ... after the creation of the block, when it is not there.
Create4(t) == <<"clear_data">> \o Rebind(t)
Create3(t) == <<"clear_version">> \o Create4(t)
Create2(t) == <<"put_committed_0">> \o Create3(t)
Create1(t) == <<"put_empty">> \o Create2(t)
First(t) == <<"bind">> \o Rebind(t)

\* What an execute and a rollback have still to call.
Execute4 == <<"put_block">>
Execute3 == <<"put_committed">> \o Execute4
Execute2 == <<"get_version">> \o Execute3
Rollback2 == <<"clear_data">>

Prepares(t) ==
    {First(t), Create1(t), Create2(t), Create3(t), Create4(t), Rebind(t),
     Checks, Compare, Again, Log, LogData}
Commits == {ExecuteCalls, Execute2, Execute3, Execute4, RollbackCalls, Rollback2}

\* A request is answered by its prepare, when that has made its last call.
Where(t) ==
    \/ phase[t] = "new" /\ todo[t] = <<>> /\ vote[t] = "none"
    \/ phase[t] = "prepare" /\ todo[t] \in Prepares(t) /\ vote[t] = "none"
    \/ phase[t] = "prepare" /\ todo[t] = <<>> /\ vote[t] # "none"
    \/ phase[t] = "commit" /\ todo[t] \in Commits \cup {<<>>} /\ vote[t] # "none"
    \/ phase[t] = "lost" /\ todo[t] = <<>>

HandlerTypes ==
    /\ machine \in Machines /\ blk \in Blocks /\ before \in Blocks
    /\ phase \in [Txn -> {"new", "prepare", "commit", "lost"}]
    /\ todo \in [Txn -> Seq(CallName)]
    /\ buf \in [Txn -> Content] /\ version \in [Txn -> Nat]
    /\ vote \in [Txn -> {"none", "agree", "abort"}]

\* Bytes of requests that agreed only.
Agreed(c) == \A p \in Part : c[p] # None => vote[c[p]] = "agree"

ServerInv ==
    /\ HandlerTypes
    /\ \A t \in Txn : Where(t) /\ Agreed(buf[t])
    /\ Agreed(blk.data) /\ Agreed(blk.pdata)

\* How far the handler of t has come from the block k it started with: it has
\* carried out the calls that are not in todo[t].
Preparing(t, k) ==
    \/ todo[t] = First(t) /\ blk = k
    \/ /\ ~k.present
       /\ \/ todo[t] = Create1(t) /\ blk = k
          \/ todo[t] = Create2(t) /\ blk = [k EXCEPT !.present = TRUE, !.data = Empty]
          \/ todo[t] = Create3(t) /\ blk = [k EXCEPT !.present = TRUE, !.data = Empty,
                                                     !.committed = 0]
          \/ todo[t] = Create4(t) /\ blk = [k EXCEPT !.present = TRUE, !.data = Empty,
                                                     !.committed = 0, !.pver = 0]
    \/ todo[t] = Rebind(t) /\ blk = Created(k)
    \/ /\ t \notin Quick /\ blk = Created(k) /\ buf[t] = blk.data
       /\ \/ todo[t] = Checks
          \/ todo[t] = Compare /\ version[t] = blk.pver
          \/ todo[t] = Again /\ blk.pver # blk.committed
    \/ /\ t \in Quick \/ ~HavePendingLog(Created(k))
       /\ buf[t] = Created(k).data
       /\ \/ todo[t] = Log /\ blk = Created(k)
          \/ todo[t] = LogData /\ blk = [Created(k) EXCEPT !.pver = Ver[t]]

Committing(t, k) ==
    \/ /\ vote[t] = "agree"
       /\ \/ todo[t] = ExecuteCalls /\ blk = k
          \/ todo[t] = Execute2 /\ blk = k /\ buf[t] = k.pdata
          \/ todo[t] = Execute3 /\ blk = k /\ buf[t] = k.pdata /\ version[t] = k.pver
          \/ todo[t] = Execute4 /\ blk = [k EXCEPT !.committed = k.pver] /\ buf[t] = k.pdata
    \/ todo[t] = RollbackCalls /\ blk = k
    \/ todo[t] = Rollback2 /\ blk = [k EXCEPT !.pver = 0]

Progress(t, k) ==
    \/ phase[t] = "prepare" /\ Preparing(t, k)
    \/ phase[t] = "commit" /\ Committing(t, k)

\* Where handlers follow one another, one is under way at most.
SerialInv ==
    Serial => /\ \A t, u \in Busy : t = u
              /\ \A t \in Busy : Progress(t, before)

-----------------------------------------------------------------------------
\* Calls.

\* The calls c, then the calls s.
Calls(u, c, s) == u \in Seq(CallName) /\ u # <<>> /\ Head(u) = c /\ Tail(u) = s

\* A handler makes its first call and has the rest still to make.
LEMMA CallsOf ==
  ASSUME NEW c \in CallName, NEW s \in Seq(CallName)
  PROVE  Calls(<<c>> \o s, c, s)
<1>1. PICK e : e = <<c>> /\ e \in Seq(CallName) /\ Len(e) = 1 /\ e[1] = c
  <2>1. <<c>> \in Seq(CallName) /\ Len(<<c>>) = 1 /\ <<c>>[1] = c
    BY SMT
  <2> QED
    BY <2>1
<1>2. PICK u : u = e \o s
  OBVIOUS
<1>3. /\ u \in Seq(CallName) /\ Len(s) \in Nat /\ Len(u) = Len(s) + 1 /\ u[1] = c
      /\ \A i \in 1..Len(s) : u[i + 1] = s[i]
  BY <1>1, <1>2, SMT
<1>4. u # <<>> /\ Head(u) = c
  BY <1>3, SMT
<1>5. Tail(u) = s
  BY <1>3, <1>4, SMT
<1> QED
  BY <1>1, <1>2, <1>3, <1>4, <1>5 DEF Calls

\* The last call of a handler.
LEMMA LastCall == ASSUME NEW c \in CallName PROVE Calls(<<c>>, c, <<>>)
<1>1. <<c>> \in Seq(CallName) /\ <<c>> # <<>> /\ Head(<<c>>) = c /\ Tail(<<c>>) = <<>>
  BY SMT
<1> QED
  BY <1>1 DEF Calls

\* A prepare's calls, one by one.
LEMMA PrepareOrder ==
  ASSUME NEW t \in Txn
  PROVE  /\ Calls(First(t), "bind", Rebind(t))
         /\ Calls(Create1(t), "put_empty", Create2(t))
         /\ Calls(Create2(t), "put_committed_0", Create3(t))
         /\ Calls(Create3(t), "clear_version", Create4(t))
         /\ Calls(Create4(t), "clear_data", Rebind(t))
         /\ t \in Quick => Calls(Rebind(t), "bind_again", Log)
         /\ t \notin Quick => Calls(Rebind(t), "bind_again", Checks)
         /\ Calls(Checks, "pending_version", Compare)
         /\ Calls(Compare, "committed_version", Again)
         /\ Calls(Again, "pending_version_again", Log)
         /\ Calls(Log, "put_version", LogData)
         /\ Calls(LogData, "put_data", <<>>)
<1>1. Calls(LogData, "put_data", <<>>)
  BY LastCall DEF LogData, CallName
<1>2. Calls(Log, "put_version", LogData)
  <2>1. Log = <<"put_version">> \o LogData
    BY SMT DEF Log, LogData
  <2> QED
    BY <1>1, <2>1, CallsOf DEF Calls, CallName
<1>3. Calls(Again, "pending_version_again", Log)
  BY <1>2, CallsOf DEF CallName, Calls, Again
<1>4. Calls(Compare, "committed_version", Again)
  BY <1>3, CallsOf DEF CallName, Calls, Compare
<1>5. Calls(Checks, "pending_version", Compare)
  BY <1>4, CallsOf DEF CallName, Calls, Checks
<1>6. t \in Quick => Calls(Rebind(t), "bind_again", Log)
  BY <1>2, CallsOf DEF CallName, Calls, Rebind
<1>7. t \notin Quick => Calls(Rebind(t), "bind_again", Checks)
  <2>1. Checks \in Seq(CallName)
    BY <1>5 DEF Calls
  <2>2. "bind_again" \in CallName
    BY DEF CallName
  <2>3. Calls(<<"bind_again">> \o Checks, "bind_again", Checks)
    BY <2>1, <2>2, CallsOf
  <2> QED
    BY <2>3 DEF Rebind
<1>8. Rebind(t) \in Seq(CallName)
  BY <1>6, <1>7 DEF Calls
<1>9. Calls(First(t), "bind", Rebind(t)) /\ Calls(Create4(t), "clear_data", Rebind(t))
  BY <1>8, CallsOf DEF CallName, First, Create4
<1>10. Calls(Create3(t), "clear_version", Create4(t))
  BY <1>9, CallsOf DEF CallName, Calls, Create3
<1>11. Calls(Create2(t), "put_committed_0", Create3(t))
  BY <1>10, CallsOf DEF CallName, Calls, Create2
<1>12. Calls(Create1(t), "put_empty", Create2(t))
  BY <1>11, CallsOf DEF CallName, Calls, Create1
<1> QED
  BY <1>1, <1>2, <1>3, <1>4, <1>5, <1>6, <1>7, <1>9, <1>10, <1>11, <1>12

\* A commit's calls, one by one.
LEMMA CommitOrder ==
  /\ Calls(ExecuteCalls, "get_data", Execute2)
  /\ Calls(Execute2, "get_version", Execute3)
  /\ Calls(Execute3, "put_committed", Execute4)
  /\ Calls(Execute4, "put_block", <<>>)
  /\ Calls(RollbackCalls, "clear_version", Rollback2)
  /\ Calls(Rollback2, "clear_data", <<>>)
<1>1. Calls(Execute4, "put_block", <<>>) /\ Calls(Rollback2, "clear_data", <<>>)
  BY LastCall DEF Execute4, Rollback2, CallName
<1>2. Calls(Execute3, "put_committed", Execute4)
  BY <1>1, CallsOf DEF CallName, Calls, Execute3
<1>3. Calls(Execute2, "get_version", Execute3)
  BY <1>2, CallsOf DEF CallName, Calls, Execute2
<1>4. ExecuteCalls = <<"get_data">> \o Execute2
  BY SMT DEF ExecuteCalls, Execute2, Execute3, Execute4
<1>5. Calls(ExecuteCalls, "get_data", Execute2)
  BY <1>3, <1>4, CallsOf DEF CallName, Calls
<1>6. Calls(RollbackCalls, "clear_version", Rollback2)
  <2>1. RollbackCalls = <<"clear_version">> \o Rollback2
    BY SMT DEF RollbackCalls, Rollback2
  <2> QED
    BY <1>1, <2>1, CallsOf DEF Calls, CallName
<1> QED
  BY <1>1, <1>2, <1>3, <1>5, <1>6

\* A prepare starts with rb.bind, which creates the block when it is not there.
LEMMA PrepareStarts ==
  ASSUME NEW t \in Txn
  PROVE  PrepareCalls(t) = First(t) /\ Creation \o Rebind(t) = Create1(t)
<1>1. CASE t \in Quick
  BY <1>1, SMT DEF PrepareCalls, First, Rebind, Log, Creation, Create1, Create2, Create3, Create4
<1>2. CASE t \notin Quick
  BY <1>2, SMT DEF PrepareCalls, Check, First, Rebind, Log, Checks, Compare, Again,
    Creation, Create1, Create2, Create3, Create4
<1> QED
  BY <1>1, <1>2

\* t's handler makes a call, which leaves it the calls s to make.
Goes(t, s, k, b, v, a) ==
    /\ todo' = [todo EXCEPT ![t] = s]
    /\ blk' = k /\ buf' = b /\ version' = v /\ vote' = a
    /\ UNCHANGED <<machine, phase, before, crashed>>

PutName ==
    {"put_empty", "put_committed_0", "clear_version", "clear_data",
     "put_version", "put_data", "put_committed", "put_block"}

\* What the Gets do.
LEMMA GetGoes ==
  ASSUME NEW t \in Txn, NEW c, NEW s, Calls(todo[t], c, s), Call(t)
  PROVE  /\ c = "bind" =>
              Goes(t, IF blk.present THEN s ELSE Creation \o s, blk, buf, version, vote)
         /\ c = "bind_again" =>
              Goes(t, s, blk, [buf EXCEPT ![t] = blk.data], version, vote)
         /\ c = "get_data" =>
              Goes(t, s, blk, [buf EXCEPT ![t] = blk.pdata], version, vote)
         /\ c \in {"pending_version", "get_version"} =>
              Goes(t, s, blk, buf, [version EXCEPT ![t] = blk.pver], vote)
         /\ c = "committed_version" =>
              Goes(t, IF version[t] = blk.committed THEN Tail(s) ELSE s,
                   blk, buf, version, vote)
         /\ c = "pending_version_again" =>
              \/ blk.pver = 0 /\ Goes(t, s, blk, buf, version, vote)
              \/ blk.pver # 0 /\ Goes(t, <<>>, blk, buf, version,
                                      [vote EXCEPT ![t] = "abort"])
<1>1. todo[t] # <<>> /\ Head(todo[t]) = c /\ Tail(todo[t]) = s
  BY DEF Calls
<1>2. ASSUME c = "bind" PROVE Bind(t)
  BY <1>1, <1>2 DEF Call, At, GetData, GetVersion, CompareCommitted, CompareEmpty, Put
<1>3. ASSUME c \in {"bind_again", "get_data"} PROVE GetData(t)
  BY <1>1, <1>3 DEF Call, At, Bind, GetVersion, CompareCommitted, CompareEmpty, Put
<1>4. ASSUME c \in {"pending_version", "get_version"} PROVE GetVersion(t)
  BY <1>1, <1>4 DEF Call, At, Bind, GetData, CompareCommitted, CompareEmpty, Put
<1>5. ASSUME c = "committed_version" PROVE CompareCommitted(t)
  BY <1>1, <1>5 DEF Call, At, Bind, GetData, GetVersion, CompareEmpty, Put
<1>6. ASSUME c = "pending_version_again" PROVE CompareEmpty(t)
  BY <1>1, <1>6 DEF Call, At, Bind, GetData, GetVersion, CompareCommitted, Put
<1>7. c = "bind" => Goes(t, IF blk.present THEN s ELSE Creation \o s, blk, buf, version, vote)
  BY <1>1, <1>2 DEF Bind, Continue, Goes
<1>8. c = "bind_again" => Goes(t, s, blk, [buf EXCEPT ![t] = blk.data], version, vote)
  BY <1>1, <1>3 DEF GetData, At, Continue, Goes
<1>9. c = "get_data" => Goes(t, s, blk, [buf EXCEPT ![t] = blk.pdata], version, vote)
  BY <1>1, <1>3 DEF GetData, At, Continue, Goes
<1>10. c \in {"pending_version", "get_version"} =>
         Goes(t, s, blk, buf, [version EXCEPT ![t] = blk.pver], vote)
  BY <1>1, <1>4 DEF GetVersion, Continue, Goes
<1>11. c = "committed_version" =>
         Goes(t, IF version[t] = blk.committed THEN Tail(s) ELSE s, blk, buf, version, vote)
  BY <1>1, <1>5 DEF CompareCommitted, Continue, Goes
<1>12. c = "pending_version_again" =>
         \/ blk.pver = 0 /\ Goes(t, s, blk, buf, version, vote)
         \/ blk.pver # 0 /\ Goes(t, <<>>, blk, buf, version, [vote EXCEPT ![t] = "abort"])
  BY <1>1, <1>6 DEF CompareEmpty, Continue, Goes
<1> QED
  BY <1>7, <1>8, <1>9, <1>10, <1>11, <1>12

\* What the Puts do: the last one of a prepare is answered with agree.
LEMMA PutGoes ==
  ASSUME NEW t \in Txn, NEW c \in PutName, NEW s, Calls(todo[t], c, s), Call(t)
  PROVE  /\ phase[t] = "prepare" /\ s = <<>> =>
              Goes(t, s, AfterPut(t, c), buf, version, [vote EXCEPT ![t] = "agree"])
         /\ phase[t] # "prepare" \/ s # <<>> =>
              Goes(t, s, AfterPut(t, c), buf, version, vote)
<1>1. todo[t] # <<>> /\ Head(todo[t]) = c /\ Tail(todo[t]) = s
  BY DEF Calls
<1>2. Put(t)
  BY <1>1 DEF PutName, Call, At, Bind, GetData, GetVersion, CompareCommitted, CompareEmpty
<1>3. /\ blk' = AfterPut(t, c) /\ todo' = [todo EXCEPT ![t] = s] /\ Voted(t)
      /\ UNCHANGED <<machine, phase, buf, version, before, crashed>>
  BY <1>1, <1>2 DEF Put, At, Continue
<1> QED
  BY <1>1, <1>3 DEF Voted, Goes

\* What each call of a prepare does.
LEMMA PrepareEffects ==
  ASSUME NEW t \in Txn, phase[t] = "prepare", Call(t)
  PROVE  /\ todo[t] = First(t) =>
              Goes(t, IF blk.present THEN Rebind(t) ELSE Create1(t), blk, buf, version, vote)
         /\ todo[t] = Create1(t) =>
              Goes(t, Create2(t), [blk EXCEPT !.present = TRUE, !.data = Empty],
                   buf, version, vote)
         /\ todo[t] = Create2(t) =>
              Goes(t, Create3(t), [blk EXCEPT !.committed = 0], buf, version, vote)
         /\ todo[t] = Create3(t) =>
              Goes(t, Create4(t), [blk EXCEPT !.pver = 0], buf, version, vote)
         /\ todo[t] = Create4(t) =>
              Goes(t, Rebind(t), [blk EXCEPT !.pdata = Empty], buf, version, vote)
         /\ todo[t] = Rebind(t) =>
              Goes(t, IF t \in Quick THEN Log ELSE Checks,
                   blk, [buf EXCEPT ![t] = blk.data], version, vote)
         /\ todo[t] = Checks =>
              Goes(t, Compare, blk, buf, [version EXCEPT ![t] = blk.pver], vote)
         /\ todo[t] = Compare =>
              Goes(t, IF version[t] = blk.committed THEN Log ELSE Again,
                   blk, buf, version, vote)
         /\ todo[t] = Again =>
              \/ blk.pver = 0 /\ Goes(t, Log, blk, buf, version, vote)
              \/ blk.pver # 0 /\ Goes(t, <<>>, blk, buf, version,
                                      [vote EXCEPT ![t] = "abort"])
         /\ todo[t] = Log =>
              Goes(t, LogData, [blk EXCEPT !.pver = Ver[t]], buf, version, vote)
         /\ todo[t] = LogData =>
              Goes(t, <<>>, [blk EXCEPT !.pdata = Merge(buf[t], t, Writes[t])],
                   buf, version, [vote EXCEPT ![t] = "agree"])
<1>1. ASSUME todo[t] = First(t)
      PROVE  Goes(t, IF blk.present THEN Rebind(t) ELSE Create1(t), blk, buf, version, vote)
  BY <1>1, PrepareOrder, PrepareStarts, GetGoes
<1>2. ASSUME NEW c \in PutName, NEW s, Calls(todo[t], c, s), s # <<>>
      PROVE  Goes(t, s, AfterPut(t, c), buf, version, vote)
  BY <1>2, PutGoes
<1>3. /\ Create2(t) # <<>> /\ Create3(t) # <<>> /\ Create4(t) # <<>> /\ Rebind(t) # <<>>
      /\ LogData # <<>>
  BY PrepareOrder DEF Calls
<1>4. ASSUME todo[t] = Create1(t)
      PROVE  Goes(t, Create2(t), [blk EXCEPT !.present = TRUE, !.data = Empty],
                  buf, version, vote)
  <2>1. Goes(t, Create2(t), AfterPut(t, "put_empty"), buf, version, vote)
    BY <1>2, <1>3, <1>4, PrepareOrder DEF PutName
  <2> QED
    BY <2>1 DEF AfterPut
<1>5. ASSUME todo[t] = Create2(t)
      PROVE  Goes(t, Create3(t), [blk EXCEPT !.committed = 0], buf, version, vote)
  <2>1. Goes(t, Create3(t), AfterPut(t, "put_committed_0"), buf, version, vote)
    BY <1>2, <1>3, <1>5, PrepareOrder DEF PutName
  <2> QED
    BY <2>1 DEF AfterPut
<1>6. ASSUME todo[t] = Create3(t)
      PROVE  Goes(t, Create4(t), [blk EXCEPT !.pver = 0], buf, version, vote)
  <2>1. Goes(t, Create4(t), AfterPut(t, "clear_version"), buf, version, vote)
    BY <1>2, <1>3, <1>6, PrepareOrder DEF PutName
  <2> QED
    BY <2>1 DEF AfterPut
<1>7. ASSUME todo[t] = Create4(t)
      PROVE  Goes(t, Rebind(t), [blk EXCEPT !.pdata = Empty], buf, version, vote)
  <2>1. Goes(t, Rebind(t), AfterPut(t, "clear_data"), buf, version, vote)
    BY <1>2, <1>3, <1>7, PrepareOrder DEF PutName
  <2> QED
    BY <2>1 DEF AfterPut
<1>8. ASSUME todo[t] = Rebind(t)
      PROVE  Goes(t, IF t \in Quick THEN Log ELSE Checks,
                  blk, [buf EXCEPT ![t] = blk.data], version, vote)
  BY <1>8, PrepareOrder, GetGoes
<1>9. ASSUME todo[t] = Checks
      PROVE  Goes(t, Compare, blk, buf, [version EXCEPT ![t] = blk.pver], vote)
  BY <1>9, PrepareOrder, GetGoes
<1>10. ASSUME todo[t] = Compare
       PROVE  Goes(t, IF version[t] = blk.committed THEN Log ELSE Again,
                   blk, buf, version, vote)
  <2>1. Tail(Again) = Log
    BY PrepareOrder DEF Calls
  <2> QED
    BY <1>10, <2>1, PrepareOrder, GetGoes
<1>11. ASSUME todo[t] = Again
       PROVE  \/ blk.pver = 0 /\ Goes(t, Log, blk, buf, version, vote)
              \/ blk.pver # 0 /\ Goes(t, <<>>, blk, buf, version,
                                      [vote EXCEPT ![t] = "abort"])
  BY <1>11, PrepareOrder, GetGoes
<1>12. ASSUME todo[t] = Log
       PROVE  Goes(t, LogData, [blk EXCEPT !.pver = Ver[t]], buf, version, vote)
  <2>1. Goes(t, LogData, AfterPut(t, "put_version"), buf, version, vote)
    BY <1>2, <1>3, <1>12, PrepareOrder DEF PutName
  <2> QED
    BY <2>1 DEF AfterPut
<1>13. ASSUME todo[t] = LogData
       PROVE  Goes(t, <<>>, [blk EXCEPT !.pdata = Merge(buf[t], t, Writes[t])],
                   buf, version, [vote EXCEPT ![t] = "agree"])
  <2>1. Goes(t, <<>>, AfterPut(t, "put_data"), buf, version, [vote EXCEPT ![t] = "agree"])
    BY <1>13, PrepareOrder, PutGoes DEF PutName
  <2> QED
    BY <2>1 DEF AfterPut
<1> QED
  BY <1>1, <1>4, <1>5, <1>6, <1>7, <1>8, <1>9, <1>10, <1>11, <1>12, <1>13

\* What each call of a commit does.
LEMMA CommitEffects ==
  ASSUME NEW t \in Txn, phase[t] = "commit", Call(t)
  PROVE  /\ todo[t] = ExecuteCalls =>
              Goes(t, Execute2, blk, [buf EXCEPT ![t] = blk.pdata], version, vote)
         /\ todo[t] = Execute2 =>
              Goes(t, Execute3, blk, buf, [version EXCEPT ![t] = blk.pver], vote)
         /\ todo[t] = Execute3 =>
              Goes(t, Execute4, [blk EXCEPT !.committed = version[t]], buf, version, vote)
         /\ todo[t] = Execute4 =>
              Goes(t, <<>>, [blk EXCEPT !.present = TRUE, !.data = buf[t]],
                   buf, version, vote)
         /\ todo[t] = RollbackCalls =>
              Goes(t, Rollback2, [blk EXCEPT !.pver = 0], buf, version, vote)
         /\ todo[t] = Rollback2 =>
              Goes(t, <<>>, [blk EXCEPT !.pdata = Empty], buf, version, vote)
<1>1. ASSUME NEW c \in PutName, NEW s, Calls(todo[t], c, s)
      PROVE  Goes(t, s, AfterPut(t, c), buf, version, vote)
  BY <1>1, PutGoes
<1>2. ASSUME todo[t] = ExecuteCalls
      PROVE  Goes(t, Execute2, blk, [buf EXCEPT ![t] = blk.pdata], version, vote)
  BY <1>2, CommitOrder, GetGoes
<1>3. ASSUME todo[t] = Execute2
      PROVE  Goes(t, Execute3, blk, buf, [version EXCEPT ![t] = blk.pver], vote)
  BY <1>3, CommitOrder, GetGoes
<1>4. ASSUME todo[t] = Execute3
      PROVE  Goes(t, Execute4, [blk EXCEPT !.committed = version[t]], buf, version, vote)
  <2>1. Goes(t, Execute4, AfterPut(t, "put_committed"), buf, version, vote)
    BY <1>1, <1>4, CommitOrder DEF PutName
  <2> QED
    BY <2>1 DEF AfterPut
<1>5. ASSUME todo[t] = Execute4
      PROVE  Goes(t, <<>>, [blk EXCEPT !.present = TRUE, !.data = buf[t]], buf, version, vote)
  <2>1. Goes(t, <<>>, AfterPut(t, "put_block"), buf, version, vote)
    BY <1>1, <1>5, CommitOrder DEF PutName
  <2> QED
    BY <2>1 DEF AfterPut
<1>6. ASSUME todo[t] = RollbackCalls
      PROVE  Goes(t, Rollback2, [blk EXCEPT !.pver = 0], buf, version, vote)
  <2>1. Goes(t, Rollback2, AfterPut(t, "clear_version"), buf, version, vote)
    BY <1>1, <1>6, CommitOrder DEF PutName
  <2> QED
    BY <2>1 DEF AfterPut
<1>7. ASSUME todo[t] = Rollback2
      PROVE  Goes(t, <<>>, [blk EXCEPT !.pdata = Empty], buf, version, vote)
  <2>1. Goes(t, <<>>, AfterPut(t, "clear_data"), buf, version, vote)
    BY <1>1, <1>7, CommitOrder DEF PutName
  <2> QED
    BY <2>1 DEF AfterPut
<1> QED
  BY <1>2, <1>3, <1>4, <1>5, <1>6, <1>7

-----------------------------------------------------------------------------
\* Only agreed bytes.

\* Whatever is left of a handler is a sequence of calls, and not empty.
LEMMA CallsLeft ==
  ASSUME NEW t \in Txn
  PROVE  /\ \A s \in Prepares(t) : s \in Seq(CallName) /\ s # <<>>
         /\ \A s \in Commits : s \in Seq(CallName) /\ s # <<>>
         /\ <<>> \in Seq(CallName)
<1>1. \A s \in Prepares(t) : s \in Seq(CallName) /\ s # <<>>
  BY PrepareOrder DEF Prepares, Calls
<1>2. \A s \in Commits : s \in Seq(CallName) /\ s # <<>>
  BY CommitOrder DEF Commits, Calls
<1>3. <<>> \in Seq(CallName)
  BY SMT
<1> QED
  BY <1>1, <1>2, <1>3

\* A place where a call may leave the handler of t.
Place(t, s, a) ==
    \/ phase[t] = "prepare" /\ s \in Prepares(t) /\ a[t] = "none"
    \/ phase[t] = "prepare" /\ s = <<>> /\ a[t] # "none"
    \/ phase[t] = "commit" /\ s \in Commits \cup {<<>>} /\ a[t] # "none"

\* What a call may do: it copies bytes of the block or of the log, it puts bytes it
\* has copied, or it logs its own and agrees; and it answers once.
Sound(t, s, k, b, v, a) ==
    /\ k \in Blocks /\ b \in [Txn -> Content] /\ v \in [Txn -> Nat]
    /\ a \in [Txn -> {"none", "agree", "abort"}]
    /\ \A u \in Txn : u # t \/ vote[u] # "none" => a[u] = vote[u]
    /\ \A u \in Txn : b[u] \in {buf[u], blk.data, blk.pdata}
    /\ k.data \in {blk.data, buf[t], Empty}
    /\ \/ k.pdata \in {blk.pdata, Empty}
       \/ k.pdata = Merge(buf[t], t, Writes[t]) /\ a[t] = "agree"
    /\ Place(t, s, a)

\* Bytes a block may show.
LEMMA Bytes ==
  ASSUME NEW t \in Txn, HandlerTypes
  PROVE  /\ Empty \in Content /\ Agreed(Empty)
         /\ blk.data \in Content /\ blk.pdata \in Content /\ buf[t] \in Content
         /\ Merge(buf[t], t, Writes[t]) \in Content
<1>1. Empty \in Content /\ Agreed(Empty)
  BY DEF Empty, Content, Agreed
<1>2. blk.data \in Content /\ blk.pdata \in Content /\ buf[t] \in Content
  BY DEF HandlerTypes, Blocks
<1>3. Merge(buf[t], t, Writes[t]) \in Content
  BY <1>2 DEF Merge, Content
<1> QED
  BY <1>1, <1>2, <1>3

\* Such a call keeps the invariant.
LEMMA SoundKeeps ==
  ASSUME ServerInv, NEW t \in Txn, NEW s, NEW k, NEW b, NEW v, NEW a,
         Goes(t, s, k, b, v, a), Sound(t, s, k, b, v, a)
  PROVE  ServerInv'
<1>1. /\ todo' = [todo EXCEPT ![t] = s] /\ blk' = k /\ buf' = b /\ version' = v /\ vote' = a
      /\ machine' = machine /\ phase' = phase /\ before' = before
  BY DEF Goes
<1>2. HandlerTypes'
  <2>1. s \in Seq(CallName)
    BY CallsLeft DEF Sound, Place
  <2> QED
    BY <1>1, <2>1 DEF Sound, ServerInv, HandlerTypes
<1>3. \A u \in Txn : u # t => todo'[u] = todo[u] /\ vote'[u] = vote[u]
  BY <1>1 DEF Sound, ServerInv, HandlerTypes
<1>4. todo'[t] = s
  BY <1>1 DEF ServerInv, HandlerTypes
<1>5. Where(t)'
  BY <1>1, <1>4 DEF Sound, Place, Where, Prepares
<1>6. ASSUME NEW u \in Txn PROVE Where(u)'
  <2>1. CASE u = t
    BY <1>5, <2>1
  <2>2. CASE u # t
    BY <1>1, <1>3, <2>2 DEF ServerInv, Where, Prepares
  <2> QED
    BY <2>1, <2>2
<1>7. ASSUME NEW c \in Content, Agreed(c) PROVE Agreed(c)'
  <2>1. SUFFICES ASSUME NEW p \in Part, c[p] # None PROVE vote'[c[p]] = "agree"
    BY DEF Agreed
  <2>2. c[p] \in Txn /\ vote[c[p]] = "agree"
    BY <1>7, <2>1 DEF Content, Agreed
  <2> QED
    BY <1>1, <2>2 DEF Sound
<1>8. /\ Empty \in Content /\ Agreed(Empty)
      /\ blk.data \in Content /\ blk.pdata \in Content
      /\ \A u \in Txn : buf[u] \in Content
  BY Bytes DEF ServerInv
<1>9. ASSUME NEW u \in Txn PROVE Agreed(buf[u])'
  <2>1. PICK c : c = b[u]
    OBVIOUS
  <2>2. c \in {buf[u], blk.data, blk.pdata}
    BY <2>1 DEF Sound
  <2>3. c \in Content /\ Agreed(c)
    BY <1>8, <2>2 DEF ServerInv
  <2> QED
    BY <1>1, <1>7, <2>1, <2>3 DEF Agreed
<1>10. Agreed(blk.data)'
  <2>1. PICK c : c = k.data
    OBVIOUS
  <2>2. c \in {blk.data, buf[t], Empty}
    BY <2>1 DEF Sound
  <2>3. c \in Content /\ Agreed(c)
    BY <1>8, <2>2 DEF ServerInv
  <2> QED
    BY <1>1, <1>7, <2>1, <2>3 DEF Agreed
<1>11. Agreed(blk.pdata)'
  <2>1. PICK c : c = k.pdata
    OBVIOUS
  <2>2. CASE c \in {blk.pdata, Empty}
    <3>1. c \in Content /\ Agreed(c)
      BY <1>8, <2>2 DEF ServerInv
    <3> QED
      BY <1>1, <1>7, <2>1, <3>1 DEF Agreed
  <2>3. CASE c = Merge(buf[t], t, Writes[t]) /\ a[t] = "agree"
    <3>1. SUFFICES ASSUME NEW p \in Part, c[p] # None PROVE a[c[p]] = "agree"
      BY <1>1, <2>1 DEF Agreed
    <3>2. c[p] = t \/ c[p] = buf[t][p]
      BY <2>3 DEF Merge
    <3>3. CASE c[p] = t
      BY <2>3, <3>3
    <3>4. CASE c[p] = buf[t][p]
      <4>1. buf[t][p] \in Txn /\ vote[buf[t][p]] = "agree"
        BY <1>8, <3>1, <3>4 DEF ServerInv, Agreed, Content
      <4> QED
        BY <3>4, <4>1 DEF Sound
    <3> QED
      BY <3>2, <3>3, <3>4
  <2> QED
    BY <2>1, <2>2, <2>3 DEF Sound
<1> QED
  BY <1>2, <1>6, <1>9, <1>10, <1>11 DEF ServerInv

\* A Get is such a call.
LEMMA GetSound ==
  ASSUME ServerInv, NEW t \in Txn, NEW s, Place(t, s, vote),
         NEW b \in {buf, [buf EXCEPT ![t] = blk.data], [buf EXCEPT ![t] = blk.pdata]},
         NEW v \in {version, [version EXCEPT ![t] = blk.pver]},
         Goes(t, s, blk, b, v, vote)
  PROVE  ServerInv'
<1>1. /\ blk \in Blocks /\ buf \in [Txn -> Content] /\ version \in [Txn -> Nat]
      /\ vote \in [Txn -> {"none", "agree", "abort"}] /\ HandlerTypes
  BY DEF ServerInv, HandlerTypes
<1>2. b \in [Txn -> Content]
  BY <1>1, Bytes
<1>3. \A u \in Txn : b[u] \in {buf[u], blk.data, blk.pdata}
  BY <1>1
<1>4. v \in [Txn -> Nat]
  BY <1>1 DEF Blocks
<1>5. Sound(t, s, blk, b, v, vote)
  BY <1>1, <1>2, <1>3, <1>4 DEF Sound
<1> QED
  BY <1>5, SoundKeeps

\* So is a Put of what the handler has copied, or of an empty entry.
LEMMA PutSound ==
  ASSUME ServerInv, NEW t \in Txn, NEW s, Place(t, s, vote), NEW k \in Blocks,
         k.data \in {blk.data, buf[t], Empty}, k.pdata \in {blk.pdata, Empty},
         Goes(t, s, k, buf, version, vote)
  PROVE  ServerInv'
<1>1. /\ buf \in [Txn -> Content] /\ version \in [Txn -> Nat]
      /\ vote \in [Txn -> {"none", "agree", "abort"}]
  BY DEF ServerInv, HandlerTypes
<1>2. Sound(t, s, k, buf, version, vote)
  BY <1>1 DEF Sound
<1> QED
  BY <1>2, SoundKeeps

\* The entries a Put changes.
LEMMA Updates ==
  ASSUME NEW k \in Blocks, NEW c \in Content, NEW n \in Nat
  PROVE  /\ [k EXCEPT !.present = TRUE, !.data = c] \in Blocks
         /\ [k EXCEPT !.present = TRUE, !.data = c].data = c
         /\ [k EXCEPT !.present = TRUE, !.data = c].pdata = k.pdata
         /\ [k EXCEPT !.committed = n] \in Blocks
         /\ [k EXCEPT !.committed = n].data = k.data
         /\ [k EXCEPT !.committed = n].pdata = k.pdata
         /\ [k EXCEPT !.pver = n] \in Blocks
         /\ [k EXCEPT !.pver = n].data = k.data
         /\ [k EXCEPT !.pver = n].pdata = k.pdata
         /\ [k EXCEPT !.pdata = c] \in Blocks
         /\ [k EXCEPT !.pdata = c].data = k.data
         /\ [k EXCEPT !.pdata = c].pdata = c
<1>1. /\ [k EXCEPT !.present = TRUE, !.data = c] \in Blocks
      /\ [k EXCEPT !.present = TRUE, !.data = c].data = c
      /\ [k EXCEPT !.present = TRUE, !.data = c].pdata = k.pdata
  BY DEF Blocks
<1>2. /\ [k EXCEPT !.committed = n] \in Blocks
      /\ [k EXCEPT !.committed = n].data = k.data
      /\ [k EXCEPT !.committed = n].pdata = k.pdata
  BY DEF Blocks
<1>3. /\ [k EXCEPT !.pver = n] \in Blocks
      /\ [k EXCEPT !.pver = n].data = k.data
      /\ [k EXCEPT !.pver = n].pdata = k.pdata
  BY DEF Blocks
<1>4. /\ [k EXCEPT !.pdata = c] \in Blocks
      /\ [k EXCEPT !.pdata = c].data = k.data
      /\ [k EXCEPT !.pdata = c].pdata = c
  BY DEF Blocks
<1> QED
  BY <1>1, <1>2, <1>3, <1>4

\* A call of a prepare.
LEMMA PrepareCallKeeps ==
  ASSUME ServerInv, NEW t \in Txn, phase[t] = "prepare", todo[t] # <<>>, Call(t)
  PROVE  ServerInv'
<1>1. todo[t] \in Prepares(t) /\ vote[t] = "none"
  BY DEF ServerInv, Where
<1>2. /\ HandlerTypes /\ blk \in Blocks
      /\ Ver[t] \in Nat /\ 0 \in Nat /\ version[t] \in Nat
  BY ServerAssumption DEF ServerInv, HandlerTypes
<1>3. \A s \in Prepares(t) : Place(t, s, vote)
  BY <1>1 DEF Place
<1>4. /\ Rebind(t) \in Prepares(t) /\ Create1(t) \in Prepares(t) /\ Create2(t) \in Prepares(t)
      /\ Create3(t) \in Prepares(t) /\ Create4(t) \in Prepares(t) /\ Log \in Prepares(t)
      /\ LogData \in Prepares(t) /\ Checks \in Prepares(t) /\ Compare \in Prepares(t)
      /\ Again \in Prepares(t)
  BY DEF Prepares
<1>5. /\ Empty \in Content /\ buf[t] \in Content /\ Merge(buf[t], t, Writes[t]) \in Content
      /\ blk.data \in Content /\ blk.pdata \in Content
  BY <1>2, Bytes
<1>6. CASE todo[t] = First(t)
  <2>1. CASE blk.present
    <3>1. Goes(t, Rebind(t), blk, buf, version, vote)
      BY <1>6, <2>1, PrepareEffects
    <3> QED
      BY <1>3, <1>4, <3>1, GetSound
  <2>2. CASE ~blk.present
    <3>1. Goes(t, Create1(t), blk, buf, version, vote)
      BY <1>6, <2>2, PrepareEffects
    <3> QED
      BY <1>3, <1>4, <3>1, GetSound
  <2> QED
    BY <2>1, <2>2
<1>7. CASE todo[t] = Create1(t)
  <2>1. Goes(t, Create2(t), [blk EXCEPT !.present = TRUE, !.data = Empty], buf, version, vote)
    BY <1>7, PrepareEffects
  <2>2. PICK k : k = [blk EXCEPT !.present = TRUE, !.data = Empty]
    OBVIOUS
  <2>3. k \in Blocks /\ k.data = Empty /\ k.pdata = blk.pdata
    BY <1>2, <1>5, <2>2, Updates
  <2> QED
    BY <1>3, <1>4, <2>1, <2>2, <2>3, PutSound
<1>8. CASE todo[t] = Create2(t)
  <2>1. Goes(t, Create3(t), [blk EXCEPT !.committed = 0], buf, version, vote)
    BY <1>8, PrepareEffects
  <2>2. PICK k : k = [blk EXCEPT !.committed = 0]
    OBVIOUS
  <2>3. k \in Blocks /\ k.data = blk.data /\ k.pdata = blk.pdata
    BY <1>2, <1>5, <2>2, Updates
  <2> QED
    BY <1>3, <1>4, <2>1, <2>2, <2>3, PutSound
<1>9. CASE todo[t] = Create3(t)
  <2>1. Goes(t, Create4(t), [blk EXCEPT !.pver = 0], buf, version, vote)
    BY <1>9, PrepareEffects
  <2>2. PICK k : k = [blk EXCEPT !.pver = 0]
    OBVIOUS
  <2>3. k \in Blocks /\ k.data = blk.data /\ k.pdata = blk.pdata
    BY <1>2, <1>5, <2>2, Updates
  <2> QED
    BY <1>3, <1>4, <2>1, <2>2, <2>3, PutSound
<1>10. CASE todo[t] = Create4(t)
  <2>1. Goes(t, Rebind(t), [blk EXCEPT !.pdata = Empty], buf, version, vote)
    BY <1>10, PrepareEffects
  <2>2. PICK k : k = [blk EXCEPT !.pdata = Empty]
    OBVIOUS
  <2>3. k \in Blocks /\ k.data = blk.data /\ k.pdata = Empty
    BY <1>2, <1>5, <2>2, Updates
  <2> QED
    BY <1>3, <1>4, <2>1, <2>2, <2>3, PutSound
<1>11. CASE todo[t] = Rebind(t)
  <2>1. PICK s \in {Log, Checks} : Goes(t, s, blk, [buf EXCEPT ![t] = blk.data], version, vote)
    BY <1>11, PrepareEffects
  <2> QED
    BY <1>3, <1>4, <2>1, GetSound
<1>12. CASE todo[t] = Checks
  <2>1. Goes(t, Compare, blk, buf, [version EXCEPT ![t] = blk.pver], vote)
    BY <1>12, PrepareEffects
  <2> QED
    BY <1>3, <1>4, <2>1, GetSound
<1>13. CASE todo[t] = Compare
  <2>1. PICK s \in {Log, Again} : Goes(t, s, blk, buf, version, vote)
    BY <1>13, PrepareEffects
  <2> QED
    BY <1>3, <1>4, <2>1, GetSound
<1>14. CASE todo[t] = Again
  <2>1. CASE Goes(t, Log, blk, buf, version, vote)
    BY <1>3, <1>4, <2>1, GetSound
  <2>2. CASE Goes(t, <<>>, blk, buf, version, [vote EXCEPT ![t] = "abort"])
    <3>1. PICK a : a = [vote EXCEPT ![t] = "abort"]
      OBVIOUS
    <3>2. /\ a \in [Txn -> {"none", "agree", "abort"}] /\ a[t] = "abort"
          /\ \A u \in Txn : u # t => a[u] = vote[u]
      BY <1>2, <3>1 DEF HandlerTypes
    <3>3. Sound(t, <<>>, blk, buf, version, a)
      BY <1>1, <1>2, <3>2 DEF Sound, Place, HandlerTypes
    <3> QED
      BY <2>2, <3>1, <3>3, SoundKeeps
  <2> QED
    BY <1>14, <2>1, <2>2, PrepareEffects
<1>15. CASE todo[t] = Log
  <2>1. Goes(t, LogData, [blk EXCEPT !.pver = Ver[t]], buf, version, vote)
    BY <1>15, PrepareEffects
  <2>2. PICK k : k = [blk EXCEPT !.pver = Ver[t]]
    OBVIOUS
  <2>3. k \in Blocks /\ k.data = blk.data /\ k.pdata = blk.pdata
    BY <1>2, <1>5, <2>2, Updates
  <2> QED
    BY <1>3, <1>4, <2>1, <2>2, <2>3, PutSound
<1>16. CASE todo[t] = LogData
  <2>1. PICK a : a = [vote EXCEPT ![t] = "agree"]
    OBVIOUS
  <2>2. PICK k : k = [blk EXCEPT !.pdata = Merge(buf[t], t, Writes[t])]
    OBVIOUS
  <2>3. Goes(t, <<>>, k, buf, version, a)
    BY <1>16, <2>1, <2>2, PrepareEffects
  <2>4. /\ a \in [Txn -> {"none", "agree", "abort"}] /\ a[t] = "agree"
        /\ \A u \in Txn : u # t => a[u] = vote[u]
    BY <1>2, <2>1 DEF HandlerTypes
  <2>5. k \in Blocks /\ k.data = blk.data /\ k.pdata = Merge(buf[t], t, Writes[t])
    BY <1>2, <1>5, <2>2, Updates
  <2>6. Sound(t, <<>>, k, buf, version, a)
    BY <1>1, <1>2, <2>4, <2>5 DEF Sound, Place, HandlerTypes
  <2> QED
    BY <2>3, <2>6, SoundKeeps
<1> QED
  BY <1>1, <1>6, <1>7, <1>8, <1>9, <1>10, <1>11, <1>12, <1>13, <1>14, <1>15, <1>16
     DEF Prepares

\* A call of a commit.
LEMMA CommitCallKeeps ==
  ASSUME ServerInv, NEW t \in Txn, phase[t] = "commit", todo[t] # <<>>, Call(t)
  PROVE  ServerInv'
<1>1. todo[t] \in Commits /\ vote[t] # "none"
  BY DEF ServerInv, Where
<1>2. HandlerTypes /\ blk \in Blocks /\ 0 \in Nat /\ version[t] \in Nat
  BY DEF ServerInv, HandlerTypes
<1>3. /\ Place(t, Execute2, vote) /\ Place(t, Execute3, vote) /\ Place(t, Execute4, vote)
      /\ Place(t, Rollback2, vote) /\ Place(t, <<>>, vote)
  BY <1>1 DEF Place, Commits
<1>4. /\ Empty \in Content /\ buf[t] \in Content
      /\ blk.data \in Content /\ blk.pdata \in Content
  BY <1>2, Bytes
<1>5. CASE todo[t] = ExecuteCalls
  <2>1. Goes(t, Execute2, blk, [buf EXCEPT ![t] = blk.pdata], version, vote)
    BY <1>5, CommitEffects
  <2> QED
    BY <1>3, <2>1, GetSound
<1>6. CASE todo[t] = Execute2
  <2>1. Goes(t, Execute3, blk, buf, [version EXCEPT ![t] = blk.pver], vote)
    BY <1>6, CommitEffects
  <2> QED
    BY <1>3, <2>1, GetSound
<1>7. CASE todo[t] = Execute3
  <2>1. Goes(t, Execute4, [blk EXCEPT !.committed = version[t]], buf, version, vote)
    BY <1>7, CommitEffects
  <2>2. PICK k : k = [blk EXCEPT !.committed = version[t]]
    OBVIOUS
  <2>3. k \in Blocks /\ k.data = blk.data /\ k.pdata = blk.pdata
    BY <1>2, <1>4, <2>2, Updates
  <2> QED
    BY <1>3, <2>1, <2>2, <2>3, PutSound
<1>8. CASE todo[t] = Execute4
  <2>1. Goes(t, <<>>, [blk EXCEPT !.present = TRUE, !.data = buf[t]], buf, version, vote)
    BY <1>8, CommitEffects
  <2>2. PICK k : k = [blk EXCEPT !.present = TRUE, !.data = buf[t]]
    OBVIOUS
  <2>3. k \in Blocks /\ k.data = buf[t] /\ k.pdata = blk.pdata
    BY <1>2, <1>4, <2>2, Updates
  <2> QED
    BY <1>3, <2>1, <2>2, <2>3, PutSound
<1>9. CASE todo[t] = RollbackCalls
  <2>1. Goes(t, Rollback2, [blk EXCEPT !.pver = 0], buf, version, vote)
    BY <1>9, CommitEffects
  <2>2. PICK k : k = [blk EXCEPT !.pver = 0]
    OBVIOUS
  <2>3. k \in Blocks /\ k.data = blk.data /\ k.pdata = blk.pdata
    BY <1>2, <1>4, <2>2, Updates
  <2> QED
    BY <1>3, <2>1, <2>2, <2>3, PutSound
<1>10. CASE todo[t] = Rollback2
  <2>1. Goes(t, <<>>, [blk EXCEPT !.pdata = Empty], buf, version, vote)
    BY <1>10, CommitEffects
  <2>2. PICK k : k = [blk EXCEPT !.pdata = Empty]
    OBVIOUS
  <2>3. k \in Blocks /\ k.data = blk.data /\ k.pdata = Empty
    BY <1>2, <1>4, <2>2, Updates
  <2> QED
    BY <1>3, <2>1, <2>2, <2>3, PutSound
<1> QED
  BY <1>1, <1>5, <1>6, <1>7, <1>8, <1>9, <1>10 DEF Commits

\* A thread takes up a request at the first call of its handler.
LEMMA BeginKeeps ==
  ASSUME ServerInv, NEW t \in Txn, BeginPrepare(t) \/ BeginCommit(t)
  PROVE  ServerInv'
<1>1. PICK p, s :
         /\ Begin(t, p, s)
         /\ \/ p = "prepare" /\ s \in Prepares(t) /\ vote[t] = "none"
            \/ p = "commit" /\ s \in Commits /\ vote[t] # "none"
  <2>1. CASE BeginPrepare(t)
    <3>1. Begin(t, "prepare", First(t)) /\ First(t) \in Prepares(t)
      BY <2>1, PrepareStarts DEF BeginPrepare, Prepares
    <3>2. vote[t] = "none"
      BY <2>1 DEF BeginPrepare, ServerInv, Where
    <3> QED
      BY <3>1, <3>2
  <2>2. CASE BeginCommit(t)
    <3>1. vote[t] # "none"
      BY <2>2, CallsLeft DEF BeginCommit, ServerInv, Where
    <3>2. Begin(t, "commit", ExecuteCalls) \/ Begin(t, "commit", RollbackCalls)
      BY <2>2 DEF BeginCommit
    <3> QED
      BY <3>1, <3>2 DEF Commits
  <2> QED
    BY <2>1, <2>2
<1>2. /\ phase' = [phase EXCEPT ![t] = p] /\ todo' = [todo EXCEPT ![t] = s] /\ before' = blk
      /\ machine' = machine /\ blk' = blk /\ buf' = buf /\ version' = version /\ vote' = vote
  BY <1>1 DEF Begin
<1>3. s \in Seq(CallName) /\ p \in {"new", "prepare", "commit", "lost"}
  BY <1>1, CallsLeft
<1>4. HandlerTypes'
  BY <1>2, <1>3 DEF ServerInv, HandlerTypes
<1>5. /\ phase'[t] = p /\ todo'[t] = s
      /\ \A u \in Txn : u # t => phase'[u] = phase[u] /\ todo'[u] = todo[u]
  BY <1>2 DEF ServerInv, HandlerTypes
<1>6. ASSUME NEW u \in Txn PROVE Where(u)'
  <2>1. CASE u = t
    BY <1>1, <1>2, <1>5, <2>1 DEF Where, Prepares
  <2>2. CASE u # t
    BY <1>2, <1>5, <2>2 DEF ServerInv, Where, Prepares
  <2> QED
    BY <2>1, <2>2
<1>7. (\A u \in Txn : Agreed(buf[u])') /\ Agreed(blk.data)' /\ Agreed(blk.pdata)'
  BY <1>2 DEF ServerInv, Agreed
<1> QED
  BY <1>4, <1>6, <1>7 DEF ServerInv

\* A crash leaves what was put, and what was answered.
LEMMA CrashKeeps ==
  ASSUME ServerInv, Crash
  PROVE  ServerInv'
<1>1. /\ phase' = [t \in Txn |-> IF phase[t] = "new" THEN "new" ELSE "lost"]
      /\ todo' = [t \in Txn |-> <<>>]
      /\ machine' = machine /\ blk' = blk /\ buf' = buf /\ version' = version
      /\ vote' = vote /\ before' = before
  BY DEF Crash
<1>2. HandlerTypes'
  <2>1. <<>> \in Seq(CallName)
    BY SMT
  <2> QED
    BY <1>1, <2>1 DEF ServerInv, HandlerTypes
<1>3. \A u \in Txn : Where(u)'
  BY <1>1 DEF ServerInv, Where
<1>4. (\A u \in Txn : Agreed(buf[u])') /\ Agreed(blk.data)' /\ Agreed(blk.pdata)'
  BY <1>1 DEF ServerInv, Agreed
<1> QED
  BY <1>2, <1>3, <1>4 DEF ServerInv

\* A call of a handler that is under way.
LEMMA CallKeeps ==
  ASSUME ServerInv, NEW t \in Txn, Call(t)
  PROVE  ServerInv'
<1>1. todo[t] # <<>>
  BY DEF Call, At, Bind, GetData, GetVersion, CompareCommitted, CompareEmpty, Put
<1>2. phase[t] = "prepare" \/ phase[t] = "commit"
  BY <1>1 DEF ServerInv, Where
<1> QED
  BY <1>1, <1>2, PrepareCallKeeps, CommitCallKeeps

\* Every step of the server keeps the invariant.
LEMMA NextServerInv ==
  ASSUME ServerInv, [Next]_vars
  PROVE  ServerInv'
<1>1. CASE \E t \in Txn : BeginPrepare(t) \/ BeginCommit(t)
  BY <1>1, BeginKeeps
<1>2. CASE \E t \in Txn : Call(t)
  BY <1>2, CallKeeps
<1>3. CASE Crash
  BY <1>3, CrashKeeps
<1>4. CASE UNCHANGED vars
  BY <1>4 DEF vars, ServerInv, HandlerTypes, Where, Prepares, Agreed
<1> QED
  BY <1>1, <1>2, <1>3, <1>4 DEF Next

\* An untouched block shows no bytes.
LEMMA InitServerInv == Init => ServerInv
<1>1. SUFFICES ASSUME Init PROVE ServerInv
  OBVIOUS
<1>2. Empty \in Content /\ FreshBlock \in Blocks
  <2>1. Empty \in Content
    BY DEF Empty, Content
  <2>2. 0 \in Nat
    BY SMT
  <2> QED
    BY <2>1, <2>2 DEF FreshBlock, Blocks
<1>3. HandlerTypes
  <2>1. <<>> \in Seq(CallName) /\ 0 \in Nat
    BY SMT
  <2> QED
    BY <1>1, <1>2, <2>1 DEF Init, HandlerTypes
<1>4. /\ blk.data = Empty /\ blk.pdata = Empty /\ \A t \in Txn : buf[t] = Empty
      /\ \A t \in Txn : Where(t)
  BY <1>1 DEF Init, FreshBlock, Where
<1> QED
  BY <1>3, <1>4 DEF ServerInv, Agreed, Empty

\* The two facts together: an invariant of the server.
LEMMA ServerInvariance == Spec => []ServerInv
  BY InitServerInv, NextServerInv, PTL DEF Spec

\* However many threads run an SSBD server's handlers, and wherever the process
\* crashes, a block in db_ shows only bytes of requests whose prepare answered
\* agree: a handler copies bytes of the block or of the log, and a prepare answers
\* in the call that puts its bytes in the log.
THEOREM AgreedBytesOnly == Spec => []OnlyAgreedVisible
<1>1. ServerInv => OnlyAgreedVisible
  BY DEF ServerInv, Agreed, OnlyAgreedVisible
<1> QED
  BY <1>1, ServerInvariance, PTL

-----------------------------------------------------------------------------
\* Handlers that follow one another.

\* A block is its entries.
LEMMA SameBlock ==
  ASSUME NEW j \in Blocks, NEW k \in Blocks, j.present = k.present, j.data = k.data,
         j.committed = k.committed, j.pver = k.pver, j.pdata = k.pdata
  PROVE  j = k
  BY SMT DEF Blocks

\* The creation of a block, entry by entry.
LEMMA CreatedEntries ==
  ASSUME NEW k \in Blocks, ~k.present
  PROVE  /\ [[k EXCEPT !.present = TRUE, !.data = Empty] EXCEPT !.committed = 0]
            = [k EXCEPT !.present = TRUE, !.data = Empty, !.committed = 0]
         /\ [[k EXCEPT !.present = TRUE, !.data = Empty, !.committed = 0] EXCEPT !.pver = 0]
            = [k EXCEPT !.present = TRUE, !.data = Empty, !.committed = 0, !.pver = 0]
         /\ [[k EXCEPT !.present = TRUE, !.data = Empty, !.committed = 0, !.pver = 0]
               EXCEPT !.pdata = Empty] = Created(k)
<1>1. [[k EXCEPT !.present = TRUE, !.data = Empty] EXCEPT !.committed = 0]
      = [k EXCEPT !.present = TRUE, !.data = Empty, !.committed = 0]
  BY SMT DEF Blocks
<1>2. [[k EXCEPT !.present = TRUE, !.data = Empty, !.committed = 0] EXCEPT !.pver = 0]
      = [k EXCEPT !.present = TRUE, !.data = Empty, !.committed = 0, !.pver = 0]
  BY SMT DEF Blocks
<1>3. [[k EXCEPT !.present = TRUE, !.data = Empty, !.committed = 0, !.pver = 0]
         EXCEPT !.pdata = Empty] = Created(k)
  <2>1. PICK r : r = [[k EXCEPT !.present = TRUE, !.data = Empty, !.committed = 0, !.pver = 0]
                        EXCEPT !.pdata = Empty]
    OBVIOUS
  <2>2. Empty \in Content /\ 0 \in Nat
    BY DEF Empty, Content
  <2>3. /\ r \in Blocks /\ r.present = TRUE /\ r.data = Empty /\ r.committed = 0
        /\ r.pver = 0 /\ r.pdata = Empty
    BY <2>1, <2>2 DEF Blocks
  <2>4. PICK f : f = [FreshBlock EXCEPT !.present = TRUE]
    OBVIOUS
  <2>5. /\ f \in Blocks /\ f.present = TRUE /\ f.data = Empty /\ f.committed = 0
        /\ f.pver = 0 /\ f.pdata = Empty
    BY <2>2, <2>4 DEF Blocks, FreshBlock
  <2>6. r = f
    BY <2>3, <2>5, SameBlock
  <2> QED
    BY <2>1, <2>4, <2>6 DEF Created
<1> QED
  BY <1>1, <1>2, <1>3

\* What a prepare puts into the log, in one step or two.
LEMMA LogEntries ==
  ASSUME NEW k \in Blocks, NEW t \in Txn
  PROVE  [[k EXCEPT !.pver = Ver[t]] EXCEPT !.pdata = Merge(k.data, t, Writes[t])]
         = PutPending(k, t, Writes[t], Ver[t])
  BY SMT DEF Blocks, PutPending

\* What an execute and a rollback put, in one step or two.
LEMMA CommitEntries ==
  ASSUME NEW k \in Blocks
  PROVE  /\ [[k EXCEPT !.committed = k.pver] EXCEPT !.present = TRUE, !.data = k.pdata]
            = AfterExecute(k)
         /\ [[k EXCEPT !.pver = 0] EXCEPT !.pdata = Empty] = AfterRollback(k)
<1>1. [[k EXCEPT !.committed = k.pver] EXCEPT !.present = TRUE, !.data = k.pdata]
      = AfterExecute(k)
  BY DEF Blocks, AfterExecute
<1>2. [[k EXCEPT !.pver = 0] EXCEPT !.pdata = Empty] = AfterRollback(k)
  BY SMT DEF Blocks, AfterRollback
<1> QED
  BY <1>1, <1>2

\* The block a prepare works on is a block, and is there.
LEMMA CreatedBlock ==
  ASSUME NEW k \in Blocks
  PROVE  /\ Created(k) \in Blocks
         /\ k.present => Created(k) = k
<1>1. FreshBlock \in Blocks
  <2>1. Empty \in Content
    BY DEF Empty, Content
  <2>2. 0 \in Nat
    BY SMT
  <2> QED
    BY <2>1, <2>2 DEF FreshBlock, Blocks
<1>2. [FreshBlock EXCEPT !.present = TRUE] \in Blocks
  BY <1>1 DEF Blocks
<1> QED
  BY <1>2 DEF Created

\* The handler of t has had on block k the effect of the operators of SsbdBlock.
Finished(t, k) ==
    \/ /\ vote[t] = "none" /\ t \in Quick
       /\ blk' = AfterPrepareQuick(k, t, Writes[t], Ver[t])
       /\ vote' = [vote EXCEPT ![t] = "agree"]
    \/ /\ vote[t] = "none" /\ t \notin Quick
       /\ blk' = AfterPrepare(k, t, Writes[t], Ver[t])
       /\ vote' = [vote EXCEPT ![t] = PrepareVote(k)]
    \/ vote[t] = "agree" /\ blk' = AfterExecute(k) /\ vote' = vote
    \/ vote[t] # "none" /\ blk' = AfterRollback(k) /\ vote' = vote

\* A call leaves its handler under way, or is its last one.
Goal(t, k) ==
    /\ phase' = phase
    /\ \/ todo'[t] # <<>> /\ Progress(t, k)' /\ vote' = vote
       \/ todo'[t] = <<>> /\ Finished(t, k)

\* A call that leaves its handler under way.
LEMMA Further ==
  ASSUME ServerInv, NEW t \in Txn, NEW k, NEW s, NEW c, NEW b, NEW v,
         Goes(t, s, c, b, v, vote), s # <<>>
  PROVE  /\ todo'[t] = s /\ blk' = c /\ buf' = b /\ version' = v
         /\ Progress(t, k)' => Goal(t, k)
<1>1. /\ todo' = [todo EXCEPT ![t] = s] /\ blk' = c /\ buf' = b /\ version' = v
      /\ vote' = vote /\ phase' = phase
  BY DEF Goes
<1>2. todo'[t] = s
  BY <1>1 DEF ServerInv, HandlerTypes
<1> QED
  BY <1>1, <1>2 DEF Goal

\* A prepare goes on from the block it started with.
LEMMA PrepareProgress ==
  ASSUME ServerInv, NEW t \in Txn, NEW k \in Blocks, phase[t] = "prepare",
         todo[t] # <<>>, Preparing(t, k), Call(t)
  PROVE  Goal(t, k)
<1>1. /\ todo[t] \in Prepares(t) /\ vote[t] = "none" /\ phase[t] = "prepare"
      /\ todo \in [Txn -> Seq(CallName)] /\ blk \in Blocks
      /\ buf \in [Txn -> Content] /\ version \in [Txn -> Nat]
  BY DEF ServerInv, Where, HandlerTypes
<1>2. /\ Rebind(t) # <<>> /\ Create1(t) # <<>> /\ Create2(t) # <<>>
      /\ Create3(t) # <<>> /\ Create4(t) # <<>> /\ Log # <<>>
      /\ LogData # <<>> /\ Checks # <<>> /\ Compare # <<>> /\ Again # <<>>
  BY PrepareOrder DEF Calls
<1>3. Created(k) \in Blocks /\ (k.present => Created(k) = k)
  BY CreatedBlock
<1>4. ASSUME phase' = phase, Preparing(t, k)'
      PROVE  Progress(t, k)'
  BY <1>1, <1>4 DEF Progress
<1>5. ASSUME NEW s, NEW c, NEW b, NEW v, Goes(t, s, c, b, v, vote), s # <<>>
      PROVE  /\ phase' = phase
             /\ todo'[t] = s /\ blk' = c /\ buf' = b /\ version' = v
             /\ Preparing(t, k)' => Goal(t, k)
  BY <1>4, <1>5, Further DEF Goes
<1>6. CASE todo[t] = First(t) /\ blk = k
  <2>1. CASE blk.present
    <3>1. Goes(t, Rebind(t), blk, buf, version, vote)
      BY <1>6, <2>1, PrepareEffects
    <3>2. todo'[t] = Rebind(t) /\ blk' = Created(k)
      BY <1>2, <1>3, <1>5, <1>6, <2>1, <3>1
    <3> QED
      BY <1>2, <1>5, <3>1, <3>2 DEF Preparing
  <2>2. CASE ~blk.present
    <3>1. Goes(t, Create1(t), blk, buf, version, vote)
      BY <1>6, <2>2, PrepareEffects
    <3>2. todo'[t] = Create1(t) /\ blk' = k /\ ~k.present
      BY <1>2, <1>5, <1>6, <2>2, <3>1
    <3> QED
      BY <1>2, <1>5, <3>1, <3>2 DEF Preparing
  <2> QED
    BY <2>1, <2>2
<1>7. CASE ~k.present /\ todo[t] = Create1(t) /\ blk = k
  <2>1. Goes(t, Create2(t), [blk EXCEPT !.present = TRUE, !.data = Empty], buf, version, vote)
    BY <1>7, PrepareEffects
  <2>2. todo'[t] = Create2(t) /\ blk' = [k EXCEPT !.present = TRUE, !.data = Empty]
    BY <1>2, <1>5, <1>7, <2>1
  <2> QED
    BY <1>2, <1>5, <1>7, <2>1, <2>2 DEF Preparing
<1>8. CASE /\ ~k.present /\ todo[t] = Create2(t)
           /\ blk = [k EXCEPT !.present = TRUE, !.data = Empty]
  <2>1. Goes(t, Create3(t), [blk EXCEPT !.committed = 0], buf, version, vote)
    BY <1>8, PrepareEffects
  <2>2. todo'[t] = Create3(t) /\ blk' = [blk EXCEPT !.committed = 0]
    BY <1>2, <1>5, <2>1
  <2>3. blk' = [k EXCEPT !.present = TRUE, !.data = Empty, !.committed = 0]
    BY <1>8, <2>2, CreatedEntries
  <2> QED
    BY <1>2, <1>5, <1>8, <2>1, <2>2, <2>3 DEF Preparing
<1>9. CASE /\ ~k.present /\ todo[t] = Create3(t)
           /\ blk = [k EXCEPT !.present = TRUE, !.data = Empty, !.committed = 0]
  <2>1. Goes(t, Create4(t), [blk EXCEPT !.pver = 0], buf, version, vote)
    BY <1>9, PrepareEffects
  <2>2. todo'[t] = Create4(t) /\ blk' = [blk EXCEPT !.pver = 0]
    BY <1>2, <1>5, <2>1
  <2>3. blk' = [k EXCEPT !.present = TRUE, !.data = Empty, !.committed = 0, !.pver = 0]
    BY <1>9, <2>2, CreatedEntries
  <2> QED
    BY <1>2, <1>5, <1>9, <2>1, <2>2, <2>3 DEF Preparing
<1>10. CASE /\ ~k.present /\ todo[t] = Create4(t)
            /\ blk = [k EXCEPT !.present = TRUE, !.data = Empty, !.committed = 0, !.pver = 0]
  <2>1. Goes(t, Rebind(t), [blk EXCEPT !.pdata = Empty], buf, version, vote)
    BY <1>10, PrepareEffects
  <2>2. todo'[t] = Rebind(t) /\ blk' = [blk EXCEPT !.pdata = Empty]
    BY <1>2, <1>5, <2>1
  <2>3. blk' = Created(k)
    BY <1>10, <2>2, CreatedEntries
  <2> QED
    BY <1>2, <1>5, <2>1, <2>2, <2>3 DEF Preparing
<1>11. CASE todo[t] = Rebind(t) /\ blk = Created(k)
  <2>1. PICK b : b = [buf EXCEPT ![t] = blk.data]
    OBVIOUS
  <2>2. b[t] = blk.data
    BY <1>1, <2>1
  <2>3. CASE t \in Quick
    <3>1. Goes(t, Log, blk, b, version, vote)
      BY <1>11, <2>1, <2>3, PrepareEffects
    <3>2. todo'[t] = Log /\ blk' = Created(k) /\ buf'[t] = Created(k).data
      BY <1>2, <1>5, <1>11, <2>2, <3>1
    <3> QED
      BY <1>2, <1>5, <2>3, <3>1, <3>2 DEF Preparing
  <2>4. CASE t \notin Quick
    <3>1. Goes(t, Checks, blk, b, version, vote)
      BY <1>11, <2>1, <2>4, PrepareEffects
    <3>2. todo'[t] = Checks /\ blk' = blk /\ buf' = b
      BY <1>2, <1>5, <3>1
    <3>3. blk' = Created(k) /\ buf'[t] = blk'.data
      BY <1>11, <2>2, <3>2
    <3> QED
      BY <1>2, <1>5, <2>4, <3>1, <3>2, <3>3 DEF Preparing
  <2> QED
    BY <2>3, <2>4
<1>12. CASE t \notin Quick /\ blk = Created(k) /\ buf[t] = blk.data /\ todo[t] = Checks
  <2>1. PICK v : v = [version EXCEPT ![t] = blk.pver]
    OBVIOUS
  <2>2. v[t] = blk.pver
    BY <1>1, <2>1
  <2>3. Goes(t, Compare, blk, buf, v, vote)
    BY <1>12, <2>1, PrepareEffects
  <2>4. todo'[t] = Compare /\ blk' = blk /\ buf' = buf /\ version' = v
    BY <1>2, <1>5, <2>3
  <2>5. blk' = Created(k) /\ buf'[t] = blk'.data /\ version'[t] = blk'.pver
    BY <1>12, <2>2, <2>4
  <2> QED
    BY <1>2, <1>5, <1>12, <2>3, <2>4, <2>5 DEF Preparing
<1>13. CASE /\ t \notin Quick /\ blk = Created(k) /\ buf[t] = blk.data
            /\ todo[t] = Compare /\ version[t] = blk.pver
  <2>1. CASE version[t] = blk.committed
    <3>1. Goes(t, Log, blk, buf, version, vote)
      BY <1>13, <2>1, PrepareEffects
    <3>2. todo'[t] = Log /\ blk' = Created(k) /\ buf'[t] = Created(k).data
      BY <1>2, <1>5, <1>13, <3>1
    <3>3. ~HavePendingLog(Created(k))
      BY <1>13, <2>1 DEF HavePendingLog
    <3> QED
      BY <1>2, <1>5, <3>1, <3>2, <3>3 DEF Preparing
  <2>2. CASE version[t] # blk.committed
    <3>1. Goes(t, Again, blk, buf, version, vote)
      BY <1>13, <2>2, PrepareEffects
    <3>2. todo'[t] = Again /\ blk' = blk /\ buf' = buf
      BY <1>2, <1>5, <3>1
    <3>3. blk' = Created(k) /\ buf'[t] = blk'.data /\ blk'.pver # blk'.committed
      BY <1>13, <2>2, <3>2
    <3> QED
      BY <1>2, <1>5, <1>13, <3>1, <3>2, <3>3 DEF Preparing
  <2> QED
    BY <2>1, <2>2
<1>14. CASE /\ t \notin Quick /\ blk = Created(k) /\ buf[t] = blk.data
            /\ todo[t] = Again /\ blk.pver # blk.committed
  <2>1. CASE blk.pver = 0 /\ Goes(t, Log, blk, buf, version, vote)
    <3>1. todo'[t] = Log /\ blk' = Created(k) /\ buf'[t] = Created(k).data
      BY <1>2, <1>5, <1>14, <2>1
    <3>2. ~HavePendingLog(Created(k))
      BY <1>14, <2>1 DEF HavePendingLog
    <3> QED
      BY <1>2, <1>5, <2>1, <3>1, <3>2 DEF Preparing
  <2>2. CASE blk.pver # 0 /\ Goes(t, <<>>, blk, buf, version, [vote EXCEPT ![t] = "abort"])
    <3>1. /\ todo'[t] = <<>> /\ blk' = Created(k) /\ phase' = phase
          /\ vote' = [vote EXCEPT ![t] = "abort"]
      BY <1>1, <1>14, <2>2 DEF Goes
    <3>2. HavePendingLog(Created(k))
      BY <1>14, <2>2 DEF HavePendingLog
    <3>3. /\ blk' = AfterPrepare(k, t, Writes[t], Ver[t])
          /\ vote' = [vote EXCEPT ![t] = PrepareVote(k)]
      BY <3>1, <3>2 DEF AfterPrepare, PrepareVote
    <3> QED
      BY <1>1, <1>14, <3>1, <3>3 DEF Finished, Goal
  <2> QED
    BY <1>14, <2>1, <2>2, PrepareEffects
<1>15. CASE /\ t \in Quick \/ ~HavePendingLog(Created(k))
            /\ buf[t] = Created(k).data /\ todo[t] = Log /\ blk = Created(k)
  <2>1. Goes(t, LogData, [blk EXCEPT !.pver = Ver[t]], buf, version, vote)
    BY <1>15, PrepareEffects
  <2>2. /\ todo'[t] = LogData /\ blk' = [Created(k) EXCEPT !.pver = Ver[t]]
        /\ buf'[t] = Created(k).data
    BY <1>2, <1>5, <1>15, <2>1
  <2> QED
    BY <1>2, <1>5, <1>15, <2>1, <2>2 DEF Preparing
<1>16. CASE /\ t \in Quick \/ ~HavePendingLog(Created(k))
            /\ buf[t] = Created(k).data /\ todo[t] = LogData
            /\ blk = [Created(k) EXCEPT !.pver = Ver[t]]
  <2>1. Goes(t, <<>>, [blk EXCEPT !.pdata = Merge(buf[t], t, Writes[t])], buf, version,
             [vote EXCEPT ![t] = "agree"])
    BY <1>16, PrepareEffects
  <2>2. /\ todo'[t] = <<>> /\ phase' = phase /\ vote' = [vote EXCEPT ![t] = "agree"]
        /\ blk' = [blk EXCEPT !.pdata = Merge(buf[t], t, Writes[t])]
    BY <1>1, <2>1 DEF Goes
  <2>3. blk' = PutPending(Created(k), t, Writes[t], Ver[t])
    BY <1>3, <1>16, <2>2, LogEntries
  <2>4. CASE t \in Quick
    BY <1>1, <2>2, <2>3, <2>4 DEF AfterPrepareQuick, Finished, Goal
  <2>5. CASE t \notin Quick
    <3>1. /\ blk' = AfterPrepare(k, t, Writes[t], Ver[t])
          /\ vote' = [vote EXCEPT ![t] = PrepareVote(k)]
      BY <1>16, <2>2, <2>3, <2>5 DEF AfterPrepare, PrepareVote
    <3> QED
      BY <1>1, <2>2, <2>5, <3>1 DEF Finished, Goal
  <2> QED
    BY <2>4, <2>5
<1> QED
  BY <1>6, <1>7, <1>8, <1>9, <1>10, <1>11, <1>12, <1>13, <1>14, <1>15, <1>16 DEF Preparing

\* A commit goes on from the block it started with.
LEMMA CommitProgress ==
  ASSUME ServerInv, NEW t \in Txn, NEW k \in Blocks, phase[t] = "commit",
         todo[t] # <<>>, Committing(t, k), Call(t)
  PROVE  Goal(t, k)
<1>1. /\ vote[t] # "none" /\ todo \in [Txn -> Seq(CallName)] /\ blk \in Blocks
      /\ buf \in [Txn -> Content] /\ version \in [Txn -> Nat]
  BY DEF ServerInv, Where, HandlerTypes
<1>2. Execute2 # <<>> /\ Execute3 # <<>> /\ Execute4 # <<>> /\ Rollback2 # <<>>
  BY CommitOrder DEF Calls
<1>3. ASSUME NEW s, NEW c, NEW b, NEW v, Goes(t, s, c, b, v, vote), s # <<>>
      PROVE  /\ todo'[t] = s /\ blk' = c /\ buf' = b /\ version' = v /\ vote' = vote
             /\ Committing(t, k)' => Goal(t, k)
  <2>1. phase'[t] = "commit"
    BY <1>3 DEF Goes
  <2> QED
    BY <1>3, <2>1, Further DEF Goes, Progress
<1>4. CASE vote[t] = "agree" /\ todo[t] = ExecuteCalls /\ blk = k
  <2>1. PICK b : b = [buf EXCEPT ![t] = blk.pdata]
    OBVIOUS
  <2>2. b[t] = k.pdata
    BY <1>1, <1>4, <2>1
  <2>3. Goes(t, Execute2, blk, b, version, vote)
    BY <1>4, <2>1, CommitEffects
  <2>4. todo'[t] = Execute2 /\ blk' = k /\ buf'[t] = k.pdata /\ vote'[t] = "agree"
    BY <1>2, <1>3, <1>4, <2>2, <2>3
  <2> QED
    BY <1>2, <1>3, <2>3, <2>4 DEF Committing
<1>5. CASE vote[t] = "agree" /\ todo[t] = Execute2 /\ blk = k /\ buf[t] = k.pdata
  <2>1. PICK v : v = [version EXCEPT ![t] = blk.pver]
    OBVIOUS
  <2>2. v[t] = k.pver
    BY <1>1, <1>5, <2>1
  <2>3. Goes(t, Execute3, blk, buf, v, vote)
    BY <1>5, <2>1, CommitEffects
  <2>4. /\ todo'[t] = Execute3 /\ blk' = k /\ buf'[t] = k.pdata
        /\ version'[t] = k.pver /\ vote'[t] = "agree"
    BY <1>2, <1>3, <1>5, <2>2, <2>3
  <2> QED
    BY <1>2, <1>3, <2>3, <2>4 DEF Committing
<1>6. CASE /\ vote[t] = "agree" /\ todo[t] = Execute3 /\ blk = k /\ buf[t] = k.pdata
           /\ version[t] = k.pver
  <2>1. Goes(t, Execute4, [blk EXCEPT !.committed = version[t]], buf, version, vote)
    BY <1>6, CommitEffects
  <2>2. /\ todo'[t] = Execute4 /\ blk' = [k EXCEPT !.committed = k.pver]
        /\ buf'[t] = k.pdata /\ vote'[t] = "agree"
    BY <1>2, <1>3, <1>6, <2>1
  <2> QED
    BY <1>2, <1>3, <2>1, <2>2 DEF Committing
<1>7. CASE /\ vote[t] = "agree" /\ todo[t] = Execute4
           /\ blk = [k EXCEPT !.committed = k.pver] /\ buf[t] = k.pdata
  <2>1. Goes(t, <<>>, [blk EXCEPT !.present = TRUE, !.data = buf[t]], buf, version, vote)
    BY <1>7, CommitEffects
  <2>2. /\ todo'[t] = <<>> /\ phase' = phase /\ vote' = vote
        /\ blk' = [blk EXCEPT !.present = TRUE, !.data = k.pdata]
    BY <1>1, <1>7, <2>1 DEF Goes
  <2>3. blk' = AfterExecute(k)
    BY <1>7, <2>2, CommitEntries
  <2> QED
    BY <1>7, <2>2, <2>3 DEF Finished, Goal
<1>8. CASE todo[t] = RollbackCalls /\ blk = k
  <2>1. Goes(t, Rollback2, [blk EXCEPT !.pver = 0], buf, version, vote)
    BY <1>8, CommitEffects
  <2>2. todo'[t] = Rollback2 /\ blk' = [k EXCEPT !.pver = 0]
    BY <1>2, <1>3, <1>8, <2>1
  <2> QED
    BY <1>2, <1>3, <2>1, <2>2 DEF Committing
<1>9. CASE todo[t] = Rollback2 /\ blk = [k EXCEPT !.pver = 0]
  <2>1. Goes(t, <<>>, [blk EXCEPT !.pdata = Empty], buf, version, vote)
    BY <1>9, CommitEffects
  <2>2. /\ todo'[t] = <<>> /\ phase' = phase /\ vote' = vote
        /\ blk' = [blk EXCEPT !.pdata = Empty]
    BY <1>1, <2>1 DEF Goes
  <2>3. blk' = AfterRollback(k)
    BY <1>9, <2>2, CommitEntries
  <2> QED
    BY <1>1, <2>2, <2>3 DEF Finished, Goal
<1> QED
  BY <1>4, <1>5, <1>6, <1>7, <1>8, <1>9 DEF Committing

\* Where handlers follow one another, a thread takes up a request only when none
\* is under way.
LEMMA BeginAlone ==
  ASSUME Serial, \A t, u \in Busy : t = u, Cardinality(Busy) < machine.threads
  PROVE  Busy = {}
<1>1. SUFFICES ASSUME NEW t \in Busy PROVE FALSE
  OBVIOUS
<1>2. Busy = {t}
  BY <1>1
<1>3. Cardinality(Busy) = 1
  BY <1>2, FS_Singleton
<1>4. machine.threads = 1
  BY DEF Serial
<1> QED
  BY <1>3, <1>4, SMT

\* A step of SsbdServer, as the atomic operators see it.
AtomicStep ==
    \/ Settled' = Settled /\ vote' = vote
    \/ \E t \in Txn, k \in Blocks : Settled = k /\ Settled' = blk' /\ Finished(t, k)

\* A thread takes up a request: the block stays as it is.
LEMMA BeginSerial ==
  ASSUME ServerInv, SerialInv, Serial, NEW t \in Txn, BeginPrepare(t) \/ BeginCommit(t)
  PROVE  SerialInv' /\ AtomicStep
<1>1. PICK p, s :
         /\ Begin(t, p, s)
         /\ \/ p = "prepare" /\ s = First(t)
            \/ p = "commit" /\ s = ExecuteCalls /\ vote[t] = "agree"
            \/ p = "commit" /\ s = RollbackCalls
  <2>1. CASE BeginPrepare(t)
    BY <2>1, PrepareStarts DEF BeginPrepare
  <2>2. CASE BeginCommit(t)
    BY <2>2 DEF BeginCommit
  <2> QED
    BY <2>1, <2>2
<1>2. /\ phase' = [phase EXCEPT ![t] = p] /\ todo' = [todo EXCEPT ![t] = s] /\ before' = blk
      /\ machine' = machine /\ blk' = blk /\ buf' = buf /\ version' = version /\ vote' = vote
      /\ Cardinality(Busy) < machine.threads
  BY <1>1 DEF Begin
<1>3. Busy = {}
  BY <1>2, BeginAlone DEF SerialInv
<1>4. s # <<>>
  BY <1>1, PrepareOrder, CommitOrder DEF Calls
<1>5. /\ phase'[t] = p /\ todo'[t] = s
      /\ \A u \in Txn : u # t => todo'[u] = todo[u]
  BY <1>2 DEF ServerInv, HandlerTypes
<1>6. Busy' = {t}
  BY <1>3, <1>4, <1>5 DEF Busy
<1>7. Progress(t, before)'
  <2>1. CASE p = "prepare" /\ s = First(t)
    BY <1>2, <1>5, <2>1 DEF Progress, Preparing
  <2>2. CASE p = "commit" /\ s = ExecuteCalls /\ vote[t] = "agree"
    BY <1>2, <1>5, <2>2 DEF Progress, Committing
  <2>3. CASE p = "commit" /\ s = RollbackCalls
    BY <1>2, <1>5, <2>3 DEF Progress, Committing
  <2> QED
    BY <1>1, <2>1, <2>2, <2>3
<1>8. SerialInv'
  BY <1>6, <1>7 DEF SerialInv
<1>9. Settled = blk /\ Settled' = before'
  BY <1>3, <1>6 DEF Settled
<1> QED
  BY <1>2, <1>8, <1>9 DEF AtomicStep

\* A call leaves the settled block as it is, or is the last one of its handler.
LEMMA CallSerial ==
  ASSUME ServerInv, SerialInv, Serial, NEW t \in Txn, Call(t)
  PROVE  SerialInv' /\ AtomicStep
<1>1. todo[t] # <<>>
  BY DEF Call, At, Bind, GetData, GetVersion, CompareCommitted, CompareEmpty, Put
<1>2. t \in Busy
  BY <1>1 DEF Busy
<1>3. Busy = {t} /\ Progress(t, before)
  BY <1>2 DEF SerialInv
<1>4. PICK k \in Blocks : k = before
  BY DEF ServerInv, HandlerTypes
<1>5. Goal(t, k)
  BY <1>1, <1>3, <1>4, PrepareProgress, CommitProgress DEF Progress
<1>6. before' = before
  BY DEF Call, Bind, GetData, GetVersion, CompareCommitted, CompareEmpty, Put
<1>7. \A u \in Txn : u # t => todo'[u] = todo[u]
  BY DEF ServerInv, HandlerTypes, Call, Bind, GetData, GetVersion, CompareCommitted,
         CompareEmpty, Put, Continue
<1>8. \A u \in Txn : u # t => todo'[u] = <<>>
  BY <1>3, <1>7 DEF Busy
<1>9. Settled = k
  BY <1>2, <1>4 DEF Settled
<1>10. CASE todo'[t] # <<>> /\ Progress(t, k)' /\ vote' = vote
  <2>1. Busy' = {t}
    BY <1>8, <1>10 DEF Busy
  <2>2. Settled' = k
    BY <1>4, <1>6, <2>1 DEF Settled
  <2>3. Progress(t, before)'
    BY <1>4, <1>6, <1>10 DEF Progress, Preparing, Committing
  <2>4. SerialInv'
    BY <2>1, <2>3 DEF SerialInv
  <2> QED
    BY <1>9, <1>10, <2>2, <2>4 DEF AtomicStep
<1>11. CASE todo'[t] = <<>> /\ Finished(t, k)
  <2>1. Busy' = {}
    BY <1>8, <1>11 DEF Busy
  <2>2. Settled' = blk'
    BY <2>1 DEF Settled
  <2>3. SerialInv'
    BY <2>1 DEF SerialInv
  <2> QED
    BY <1>9, <1>11, <2>2, <2>3 DEF AtomicStep
<1> QED
  BY <1>5, <1>10, <1>11 DEF Goal

\* No step changes what the server runs on.
LEMMA SameMachine ==
  ASSUME [Next]_vars
  PROVE  machine' = machine /\ (Serial' <=> Serial)
<1>1. machine' = machine
  BY DEF Next, BeginPrepare, BeginCommit, Begin, Call, Bind, GetData, GetVersion,
         CompareCommitted, CompareEmpty, Put, Crash, vars
<1> QED
  BY <1>1 DEF Serial

\* Every step keeps handlers one after another, and is an atomic one or none.
LEMMA NextSerial ==
  ASSUME ServerInv, SerialInv, [Next]_vars
  PROVE  SerialInv' /\ (Serial => AtomicStep)
<1>1. CASE ~Serial
  BY <1>1, SameMachine DEF SerialInv
<1>2. CASE Serial
  <2>1. CASE \E t \in Txn : BeginPrepare(t) \/ BeginCommit(t)
    BY <1>2, <2>1, BeginSerial
  <2>2. CASE \E t \in Txn : Call(t)
    BY <1>2, <2>2, CallSerial
  <2>3. CASE Crash
    BY <1>2, <2>3 DEF Crash, Serial
  <2>4. CASE UNCHANGED vars
    <3>1. /\ todo' = todo /\ blk' = blk /\ before' = before /\ phase' = phase /\ buf' = buf
          /\ version' = version /\ vote' = vote
      BY <2>4 DEF vars
    <3>2. Busy' = Busy
      BY <3>1 DEF Busy
    <3>3. \A t \in Txn : Preparing(t, before)' <=> Preparing(t, before)
      BY <3>1, SMT DEF Preparing
    <3>4. \A t \in Txn : Committing(t, before)' <=> Committing(t, before)
      BY <3>1 DEF Committing
    <3>5. \A t \in Busy : Progress(t, before)'
      BY <1>2, <3>1, <3>3, <3>4 DEF SerialInv, Progress, Busy
    <3>6. SerialInv'
      BY <1>2, <3>2, <3>5 DEF SerialInv
    <3> QED
      BY <3>1, <3>2, <3>6 DEF AtomicStep, Settled
  <2> QED
    BY <2>1, <2>2, <2>3, <2>4 DEF Next
<1> QED
  BY <1>1, <1>2

\* No handler is under way at first.
LEMMA InitSerial == Init => SerialInv
  BY DEF Init, SerialInv, Busy

\* The operators of AtomicBlock are those of SsbdBlock.
LEMMA SameOperators ==
  /\ Atomic!FreshBlock = FreshBlock
  /\ \A k, t, ps, v :
        /\ Atomic!AfterPrepareQuick(k, t, ps, v) = AfterPrepareQuick(k, t, ps, v)
        /\ Atomic!AfterPrepare(k, t, ps, v) = AfterPrepare(k, t, ps, v)
        /\ Atomic!PrepareVote(k) = PrepareVote(k)
        /\ Atomic!AfterExecute(k) = AfterExecute(k)
        /\ Atomic!AfterRollback(k) = AfterRollback(k)
<1>1. Atomic!Empty = Empty /\ Atomic!FreshBlock = FreshBlock
  BY DEF Atomic!FreshBlock, FreshBlock, Atomic!Empty, Empty
<1>2. \A k : /\ Atomic!Created(k) = Created(k)
             /\ Atomic!AfterExecute(k) = AfterExecute(k)
             /\ Atomic!AfterRollback(k) = AfterRollback(k)
  BY <1>1 DEF Atomic!Created, Created, Atomic!AfterExecute, AfterExecute,
              Atomic!AfterRollback, AfterRollback
<1>3. \A k : Atomic!HavePendingLog(k) <=> HavePendingLog(k)
  BY DEF Atomic!HavePendingLog, HavePendingLog
<1>4. \A k, t, ps, v : Atomic!PutPending(k, t, ps, v) = PutPending(k, t, ps, v)
  BY DEF Atomic!PutPending, PutPending, Atomic!Merge, Merge
<1>5. \A k : Atomic!PrepareVote(k) = PrepareVote(k)
  BY <1>2, <1>3 DEF Atomic!PrepareVote, PrepareVote
<1>6. \A k, t, ps, v :
        /\ Atomic!AfterPrepareQuick(k, t, ps, v) = AfterPrepareQuick(k, t, ps, v)
        /\ Atomic!AfterPrepare(k, t, ps, v) = AfterPrepare(k, t, ps, v)
  BY <1>2, <1>3, <1>4 DEF Atomic!AfterPrepareQuick, AfterPrepareQuick,
                          Atomic!AfterPrepare, AfterPrepare
<1> QED
  BY <1>1, <1>2, <1>5, <1>6

\* The last call of a handler is the atomic step of its request.
LEMMA FinishedIsAtomic ==
  ASSUME Serial, Serial', NEW t \in Txn, NEW k, Settled = k, Settled' = blk', Finished(t, k)
  PROVE  Atomic!Next
<1>1. /\ (IF Serial THEN Settled ELSE FreshBlock) = k
      /\ (IF Serial THEN Settled ELSE FreshBlock)' = blk'
      /\ (IF Serial THEN vote ELSE [u \in Txn |-> "none"]) = vote
      /\ (IF Serial THEN vote ELSE [u \in Txn |-> "none"])' = vote'
  OBVIOUS
<1>2. CASE /\ vote[t] = "none" /\ t \in Quick
           /\ blk' = AfterPrepareQuick(k, t, Writes[t], Ver[t])
           /\ vote' = [vote EXCEPT ![t] = "agree"]
  <2>1. Atomic!Prepare(t)
    BY <1>1, <1>2, SameOperators DEF Atomic!Prepare
  <2> QED
    BY <2>1 DEF Atomic!Next
<1>3. CASE /\ vote[t] = "none" /\ t \notin Quick
           /\ blk' = AfterPrepare(k, t, Writes[t], Ver[t])
           /\ vote' = [vote EXCEPT ![t] = PrepareVote(k)]
  <2>1. Atomic!Prepare(t)
    BY <1>1, <1>3, SameOperators DEF Atomic!Prepare
  <2> QED
    BY <2>1 DEF Atomic!Next
<1>4. CASE vote[t] = "agree" /\ blk' = AfterExecute(k) /\ vote' = vote
  <2>1. Atomic!Execute(t)
    BY <1>1, <1>4, SameOperators DEF Atomic!Execute
  <2> QED
    BY <2>1 DEF Atomic!Next
<1>5. CASE vote[t] # "none" /\ blk' = AfterRollback(k) /\ vote' = vote
  <2>1. Atomic!Rollback(t)
    BY <1>1, <1>5, SameOperators DEF Atomic!Rollback
  <2> QED
    BY <2>1 DEF Atomic!Next
<1> QED
  BY <1>2, <1>3, <1>4, <1>5 DEF Finished

\* A server that runs its handlers one after another, and does not crash, prepares,
\* executes and rolls back a block as the operators of SsbdBlock say, which are the
\* server's steps in TwoPhaseCommit: initial states are initial ones, and every
\* leveldb call is the atomic step of its request or leaves the settled block as it
\* is.
THEOREM HandlersAreAtomic == Spec => ImplementsAtomicBlock
<1>1. Init => Atomic!Init
  <2>1. SUFFICES ASSUME Init PROVE Atomic!Init
    OBVIOUS
  <2>2. Settled = FreshBlock /\ vote = [t \in Txn |-> "none"]
    BY <2>1 DEF Init, Settled, Busy
  <2> QED
    BY <2>2, SameOperators DEF Atomic!Init
<1>2. ASSUME ServerInv, SerialInv, [Next]_vars
      PROVE  [Atomic!Next]_<<IF Serial THEN Settled ELSE FreshBlock,
                             IF Serial THEN vote ELSE [t \in Txn |-> "none"]>>
  <2>1. CASE ~Serial
    BY <1>2, <2>1, SameMachine
  <2>2. CASE Serial /\ Settled' = Settled /\ vote' = vote
    BY <1>2, <2>2, SameMachine
  <2>3. CASE /\ Serial
             /\ \E t \in Txn, k \in Blocks : Settled = k /\ Settled' = blk' /\ Finished(t, k)
    BY <1>2, <2>3, SameMachine, FinishedIsAtomic
  <2> QED
    BY <1>2, <2>1, <2>2, <2>3, NextSerial DEF AtomicStep
<1>3. Spec => [](ServerInv /\ SerialInv)
  <2>1. ServerInv /\ SerialInv /\ [Next]_vars => (ServerInv /\ SerialInv)'
    BY NextServerInv, NextSerial
  <2> QED
    BY <2>1, InitServerInv, InitSerial, PTL DEF Spec
<1> QED
  BY <1>1, <1>2, <1>3, PTL DEF Spec, ImplementsAtomicBlock, Atomic!Spec
=============================================================================
