------------------------ MODULE BlockCacheInvariant -------------------------
(***************************************************************************)
(* What every step of BlockCache keeps, for any requests, files, sizes of  *)
(* blocks and of the cache, and numbers of threads: CacheInv (the list and *)
(* where requests are), OneThread (the map and the list, on one thread)    *)
(* and BytesOK (the bytes that are cached, stored and answered).  What the *)
(* library has to say of finite sets is a hypothesis of the lemmas here;   *)
(* BlockCacheProofs supplies it and concludes.                             *)
(***************************************************************************)
EXTENDS BlockCache, TLAPS

USE Zenon

-----------------------------------------------------------------------------
\* What the cache and the requests are made of.

Byte == [file : File, pos : Nat, by : Job \cup {Nobody, Noise}]

Entry == [key : Dir, block : Nat, size : Nat]

\* A block has BlockSize bytes at most.
Content == {s \in Seq(Byte) : Len(s) <= BlockSize}

\* A map from block ids to blocks, and caching_map_ with such maps.
IsBlockMap(m) == DOMAIN m \subseteq Nat /\ \A b \in DOMAIN m : m[b] \in Content

IsCache(m) == DOMAIN m \subseteq Dir /\ \A d \in DOMAIN m : IsBlockMap(m[d])

Label == {"new", "lookup", "set", "evict", "disk", "fill", "emplace", "publish", "done"}

Loop == {"read", "update", "first"}

Types ==
    /\ req \in Loads /\ threads \in Threads
    /\ disk \in [File -> [0..(FileSize - 1) -> Byte]]
    /\ committed \in [File -> [0..(FileSize - 1) -> SUBSET (Job \cup {Nobody})]]
    /\ IsCache(caching_map)
    /\ lru \in Seq(Entry) /\ cur_size \in Nat
    /\ pc \in [Job -> Label]
    /\ via \in [Job -> Loop]
    /\ todo \in [Job -> Seq(Nat)]
    /\ data \in [Job -> Seq(Byte)]
    /\ reply \in [Job -> Seq(Byte)]
    /\ DOMAIN blocks = Job /\ \A j \in Job : IsBlockMap(blocks[j])

\* The block ids that a loop has behind it.
Passed(j) == Len(BlockIds(j)) - Len(todo[j])

\* Those it has before it are the last ones of the request.
Going(j) ==
    /\ Passed(j) \in Nat
    /\ \A i \in 1..Len(todo[j]) : todo[j][i] = BlockIds(j)[Passed(j) + i]

\* What a request has when it is somewhere: read_from_cache the map it holds an
\* accessor of, and in set the block it found; write_to_cache all bytes.
Placed(j) ==
    /\ pc[j] \in {"new", "disk", "lookup"} => via[j] = "read"
    /\ Reading(j) => req[j].op = "read"
    /\ pc[j] \in {"new", "disk"} => data[j] = <<>>
    /\ pc[j] \in {"lookup", "set", "evict", "emplace"} => Going(j)
    /\ pc[j] \in {"set", "evict", "emplace"} => todo[j] # <<>>
    /\ Reading(j) => Key(j) \in DOMAIN caching_map
    /\ Reading(j) /\ pc[j] # "lookup" => Head(todo[j]) \in DOMAIN caching_map[Key(j)]
    /\ pc[j] = "emplace" => via[j] = "update"
    /\ pc[j] = "publish" => via[j] = "first"
    /\ pc[j] = "fill" \/ (pc[j] \in {"set", "evict", "emplace"} /\ via[j] # "read") => Len(data[j]) = req[j].size

\* A block has a node in the list.
HasNode(d, b) == \E i \in DOMAIN lru : lru[i].key = d /\ lru[i].block = b

\* mtx_ has one holder, and the block it sets has no node meanwhile.
MutexOK ==
    /\ \A j, k \in Job : pc[j] = "evict" /\ pc[k] = "evict" => j = k
    /\ \A j \in Job : pc[j] = "evict" => ~HasNode(Key(j), Head(todo[j]))

\* Facts about sums and finite sets that the lemmas below take as hypotheses:
\* BlockCacheProofs proves them.  Taking out the k-th entry of a list takes off its
\* size, and entries of one size make a multiple of it.
OneOut(q, t, k) ==
    Len(t) = Len(q) - 1 /\ \A i \in 1..Len(t) : t[i] = IF i < k THEN q[i] ELSE q[i + 1]

ListSums ==
    /\ SizeOf(<<>>) = 0
    /\ \A q, t \in Seq(Entry) : \A k \in 1..Len(q) : OneOut(q, t, k) =>
          SizeOf(q) \in Nat /\ SizeOf(t) \in Nat /\ q[k].size \in Nat /\ SizeOf(q) = q[k].size + SizeOf(t)

EvenSums ==
    \A q \in Seq(Entry), n \in Nat : (\A i \in DOMAIN q : q[i].size = n) => SizeOf(q) = Len(q) * n

FiniteSetFacts ==
    /\ IsFiniteSet({})
    /\ \A s : IsFiniteSet(s) => Cardinality(s) \in Nat /\ (Cardinality(s) = 0 => s = {})
    /\ \A s, t, x : IsFiniteSet(s) /\ t \subseteq s \cup {x} => IsFiniteSet(t)

\* Together: the inductive invariant of the list.
CacheInv == Types /\ (\A j \in Job : Placed(j)) /\ MutexOK /\ ListAccounted

\* What two sequences make together.
LEMMA ConcatIs ==
  ASSUME NEW S, NEW s \in Seq(S), NEW t \in Seq(S)
  PROVE  /\ s \o t \in Seq(S) /\ Len(s \o t) = Len(s) + Len(t)
         /\ \A i \in 1..(Len(s) + Len(t)) : (s \o t)[i] = IF i <= Len(s) THEN s[i] ELSE t[i - Len(s)]
  BY SMT

\* A part of a sequence.
LEMMA SubSeqIs ==
  ASSUME NEW S, NEW s \in Seq(S), NEW c \in 1..(Len(s) + 1), NEW e \in (c - 1)..Len(s)
  PROVE  /\ SubSeq(s, c, e) \in Seq(S) /\ Len(SubSeq(s, c, e)) = e - c + 1
         /\ \A i \in 1..(e - c + 1) : SubSeq(s, c, e)[i] = s[c + i - 1]
  BY SMT

\* A list with a node deleted.
LEMMA DeletedList ==
  ASSUME ListSums, NEW q \in Seq(Entry), NEW k \in DOMAIN q
  PROVE  /\ deletenode(q, k) \in Seq(Entry) /\ Len(deletenode(q, k)) = Len(q) - 1
         /\ \A i \in 1..(Len(q) - 1) : deletenode(q, k)[i] = IF i < k THEN q[i] ELSE q[i + 1]
         /\ q[k].size \in Nat /\ SizeOf(deletenode(q, k)) \in Nat
         /\ SizeOf(q) = q[k].size + SizeOf(deletenode(q, k))
<1>1. k \in 1..Len(q) /\ Len(q) \in Nat /\ k \in Nat
  BY SMT
<1>2. /\ SubSeq(q, 1, k - 1) \in Seq(Entry) /\ Len(SubSeq(q, 1, k - 1)) = k - 1
      /\ SubSeq(q, k + 1, Len(q)) \in Seq(Entry) /\ Len(SubSeq(q, k + 1, Len(q))) = Len(q) - k
      /\ \A i \in 1..(k - 1) : SubSeq(q, 1, k - 1)[i] = q[i]
      /\ \A i \in 1..(Len(q) - k) : SubSeq(q, k + 1, Len(q))[i] = q[k + i]
  BY <1>1, SMT
<1>3. PICK a, b : a = SubSeq(q, 1, k - 1) /\ b = SubSeq(q, k + 1, Len(q))
  OBVIOUS
<1>4. /\ a \o b \in Seq(Entry) /\ Len(a \o b) = Len(q) - 1
      /\ \A i \in 1..(Len(q) - 1) : (a \o b)[i] = IF i < k THEN q[i] ELSE q[i + 1]
  <2>1. /\ a \o b \in Seq(Entry) /\ Len(a \o b) = Len(a) + Len(b)
        /\ \A i \in 1..(Len(a) + Len(b)) : (a \o b)[i] = IF i <= Len(a) THEN a[i] ELSE b[i - Len(a)]
    <3>1. a \in Seq(Entry) /\ b \in Seq(Entry)
      BY <1>2, <1>3
    <3> QED
      BY <3>1, ConcatIs
  <2>2. Len(a) = k - 1 /\ Len(b) = Len(q) - k
    BY <1>2, <1>3
  <2>3. ASSUME NEW i \in 1..(Len(q) - 1) PROVE (a \o b)[i] = IF i < k THEN q[i] ELSE q[i + 1]
    <3>1. i \in 1..(Len(a) + Len(b)) /\ (i <= Len(a) <=> i < k)
      BY <1>1, <2>2, SMT
    <3>2. CASE i < k
      <4>1. i \in 1..(k - 1)
        BY <1>1, <3>2, SMT
      <4> QED
        BY <1>2, <1>3, <2>1, <3>1, <3>2, <4>1
    <3>3. CASE ~(i < k)
      <4>1. i - Len(a) \in 1..(Len(q) - k) /\ k + (i - Len(a)) = i + 1
        BY <1>1, <2>2, <3>3, SMT
      <4>2. b[i - Len(a)] = q[k + (i - Len(a))]
        BY <1>2, <1>3, <4>1
      <4> QED
        BY <2>1, <3>1, <3>3, <4>1, <4>2
    <3> QED
      BY <3>2, <3>3
  <2>4. Len(a) + Len(b) = Len(q) - 1
    BY <1>1, <2>2, SMT
  <2> QED
    BY <2>1, <2>3, <2>4
<1>5. deletenode(q, k) = a \o b
  BY <1>3 DEF deletenode
<1>6. PICK t : t = a \o b
  OBVIOUS
<1>7. \A i \in 1..Len(t) : t[i] = IF i < k THEN q[i] ELSE q[i + 1]
  BY <1>4, <1>6
<1>8. SizeOf(q) \in Nat /\ SizeOf(t) \in Nat /\ q[k].size \in Nat /\ SizeOf(q) = q[k].size + SizeOf(t)
  BY <1>1, <1>4, <1>6, <1>7 DEF ListSums, OneOut
<1> QED
  BY <1>4, <1>5, <1>6, <1>8

\* A list without its tail.
LEMMA TailDeleted ==
  ASSUME ListSums, NEW q \in Seq(Entry), q # <<>>
  PROVE  /\ deletenode(q, Len(q)) \in Seq(Entry) /\ Len(deletenode(q, Len(q))) = Len(q) - 1 /\ Len(q) \in DOMAIN q
         /\ \A i \in 1..(Len(q) - 1) : deletenode(q, Len(q))[i] = q[i]
         /\ q[Len(q)] \in Entry /\ SizeOf(deletenode(q, Len(q))) \in Nat
         /\ SizeOf(q) = q[Len(q)].size + SizeOf(deletenode(q, Len(q)))
<1>1. Len(q) \in Nat /\ Len(q) \in DOMAIN q /\ q[Len(q)] \in Entry
  BY SMT
<1>2. PICK k, t : k = Len(q) /\ t = deletenode(q, Len(q))
  OBVIOUS
<1>3. /\ t \in Seq(Entry) /\ Len(t) = Len(q) - 1 /\ SizeOf(t) \in Nat /\ SizeOf(q) = q[k].size + SizeOf(t)
      /\ \A i \in 1..(Len(q) - 1) : t[i] = IF i < k THEN q[i] ELSE q[i + 1]
  BY <1>1, <1>2, DeletedList
<1>4. \A i \in 1..(Len(q) - 1) : i < k
  BY <1>1, <1>2, SMT
<1> QED
  BY <1>1, <1>2, <1>3, <1>4

\* A list with a new head.
LEMMA HeadList ==
  ASSUME ListSums, NEW q \in Seq(Entry), NEW e \in Entry
  PROVE  /\ <<e>> \o q \in Seq(Entry) /\ Len(<<e>> \o q) = Len(q) + 1
         /\ (<<e>> \o q)[1] = e /\ \A i \in 1..Len(q) : (<<e>> \o q)[i + 1] = q[i]
         /\ SizeOf(q) \in Nat /\ SizeOf(<<e>> \o q) = e.size + SizeOf(q)
<1>1. PICK t : t = <<e>> \o q
  OBVIOUS
<1>2. /\ t \in Seq(Entry) /\ Len(t) = Len(q) + 1 /\ Len(q) \in Nat /\ t[1] = e
      /\ \A i \in 1..Len(q) : t[i + 1] = q[i]
  BY <1>1, SMT
<1>3. 1 \in 1..Len(t) /\ Len(q) = Len(t) - 1 /\ \A i \in 1..Len(q) : q[i] = IF i < 1 THEN t[i] ELSE t[i + 1]
  BY <1>2, SMT
<1>4. SizeOf(q) \in Nat /\ SizeOf(t) = t[1].size + SizeOf(q)
  BY <1>2, <1>3 DEF ListSums, OneOut
<1> QED
  BY <1>1, <1>2, <1>4

\* A request, by the assumption on the loads.
LEMMA RequestIs ==
  ASSUME NEW r \in Loads, NEW j \in Job
  PROVE  /\ r[j].op \in {"read", "write"} /\ r[j].file \in File
         /\ r[j].pos \in Nat /\ r[j].size \in Nat /\ r[j].size >= 1 /\ r[j].pos + r[j].size <= FileSize
         /\ DirOf[r[j].file] \in Dir
<1>1. r[j] \in Request /\ r[j].pos + r[j].size <= FileSize
  BY BlockCacheAssumption
<1>2. /\ r[j].op \in {"read", "write"} /\ r[j].file \in File
      /\ r[j].pos \in 0..(FileSize - 1) /\ r[j].size \in 1..FileSize
  BY <1>1 DEF Request
<1>3. r[j].pos \in Nat /\ r[j].size \in Nat /\ r[j].size >= 1
  BY <1>2, BlockCacheAssumption, SMT
<1> QED
  BY <1>1, <1>2, <1>3, BlockCacheAssumption

\* Division: b goes into z bytes, rounded up, n times.
LEMMA RoundedUp ==
  ASSUME NEW z \in Nat \ {0}, NEW b \in Nat \ {0}, NEW n, n = (z + b - 1) \div b
  PROVE  n \in Nat /\ n >= 1 /\ (n - 1) * b < z /\ z <= n * b
  BY SMT

\* get_block_ids gives the numbers of blocks one after another, as many as it
\* takes to hold the bytes.
LEMMA IdsAre ==
  ASSUME req \in Loads, NEW j \in Job
  PROVE  /\ BlockIds(j) \in Seq(Nat) /\ Len(BlockIds(j)) \in Nat /\ Len(BlockIds(j)) >= 1
         /\ \A i \in 1..Len(BlockIds(j)) : BlockIds(j)[i] = (req[j].pos \div BlockSize) + i - 1
         /\ (Len(BlockIds(j)) - 1) * BlockSize < req[j].size
         /\ req[j].size <= Len(BlockIds(j)) * BlockSize
         /\ req[j].pos \div BlockSize \in Nat
<1>1. PICK n : n = (req[j].size + BlockSize - 1) \div BlockSize
  OBVIOUS
<1>2. req[j].size \in Nat \ {0} /\ req[j].pos \in Nat /\ BlockSize \in Nat \ {0}
  BY RequestIs, BlockCacheAssumption, SMT
<1>3. n \in Nat /\ n >= 1 /\ (n - 1) * BlockSize < req[j].size /\ req[j].size <= n * BlockSize
  BY <1>1, <1>2, RoundedUp
<1>4. BlockIds(j) = [i \in 1..n |-> (req[j].pos + (i - 1) * BlockSize) \div BlockSize]
  BY <1>1 DEF BlockIds
<1>5. PICK p, b : p = req[j].pos /\ b = BlockSize
  OBVIOUS
<1>6. p \in Nat /\ b \in Nat \ {0} /\ p \div b \in Nat
  BY <1>2, <1>5, SMT
<1>7. ASSUME NEW i \in 1..n PROVE (p + (i - 1) * b) \div b = (p \div b) + i - 1 /\ (p \div b) + i - 1 \in Nat
  <2>1. i - 1 \in Nat
    BY <1>3, SMT
  <2>2. PICK m : m = i - 1
    OBVIOUS
  <2>3. m \in Nat /\ i = m + 1
    BY <2>1, <2>2, <1>3, SMT
  <2>4. (p + m * b) \div b = (p \div b) + m
    BY <1>6, <2>3, SMT
  <2> QED
    BY <1>6, <2>2, <2>3, <2>4, SMT
<1>8. BlockIds(j) = [i \in 1..n |-> (p \div b) + i - 1]
  BY <1>4, <1>5, <1>7
<1>9. /\ BlockIds(j) \in Seq(Nat) /\ Len(BlockIds(j)) = n
      /\ \A i \in 1..n : BlockIds(j)[i] = (p \div b) + i - 1
  BY <1>3, <1>7, <1>8, SMT
<1> QED
  BY <1>3, <1>5, <1>6, <1>9

\* Min of two numbers.
LEMMA MinOfTwo ==
  ASSUME NEW a \in Int, NEW b \in Int
  PROVE  Min({a, b}) = IF a <= b THEN a ELSE b
<1>1. \E x \in {a, b} : \A y \in {a, b} : x <= y
  BY SMT
<1>2. Min({a, b}) \in {a, b} /\ \A y \in {a, b} : Min({a, b}) <= y
  BY <1>1 DEF Min
<1> QED
  BY <1>2, SMT

\* The bytes that write_to_cache puts into the n-th block of a request: all blocks
\* but the last are full.
LEMMA ChunkIs ==
  ASSUME req \in Loads, NEW j \in Job, data[j] \in Seq(Byte), Len(data[j]) = req[j].size,
         NEW n \in 1..Len(BlockIds(j)), NEW b, b = BlockIds(j)[n]
  PROVE  /\ Chunk(j, b) \in Seq(Byte) /\ Len(Chunk(j, b)) <= BlockSize
         /\ (n - 1) * BlockSize + Len(Chunk(j, b)) <= req[j].size
         /\ Len(Chunk(j, b)) = IF n < Len(BlockIds(j)) THEN BlockSize ELSE req[j].size - (n - 1) * BlockSize
         /\ \A i \in 1..Len(Chunk(j, b)) : /\ (n - 1) * BlockSize + i \in 1..req[j].size
                                           /\ Chunk(j, b)[i] = data[j][(n - 1) * BlockSize + i]
<1>1. PICK p, z, B, k : p = req[j].pos \div BlockSize /\ z = req[j].size /\ B = BlockSize /\ k = Len(BlockIds(j))
  OBVIOUS
<1>2. /\ p \in Nat /\ z \in Nat /\ z >= 1 /\ B \in Nat /\ B >= 1 /\ k \in Nat /\ n \in 1..k
      /\ (k - 1) * B < z /\ z <= k * B /\ b = p + n - 1
  <2>1. B \in Nat /\ B >= 1
    BY <1>1, BlockCacheAssumption, SMT
  <2> QED
    BY <1>1, <2>1, IdsAre, RequestIs
<1>3. PICK st : st = (n - 1) * B
  OBVIOUS
<1>4. st \in Nat /\ st < z /\ (n < k => st + B <= z) /\ (n = k => z - st <= B) /\ (n < k \/ n = k)
  <2>1. n \in Nat /\ n >= 1 /\ n <= k
    BY <1>2, SMT
  <2>2. st \in Nat
    BY <1>2, <1>3, <2>1, SMT
  <2>3. st <= (k - 1) * B
    BY <1>2, <1>3, <2>1, SMT
  <2>4. n * B = st + B
    BY <1>2, <1>3, <2>1, SMT
  <2>5. ASSUME n < k PROVE n * B <= (k - 1) * B
    BY <1>2, <2>1, <2>5, SMT
  <2>6. st \in Int /\ z \in Int /\ (k - 1) * B \in Int /\ n * B \in Int /\ B \in Int
    BY <1>2, <2>1, <2>2, SMT
  <2>7. PICK u, v : u = (k - 1) * B /\ v = n * B
    OBVIOUS
  <2>8. st < z
    BY <1>2, <2>3, <2>6, <2>7, SMT
  <2>9. n < k => st + B <= z
    BY <1>2, <2>4, <2>5, <2>6, <2>7, SMT
  <2>10. n = k => z - st <= B
    BY <1>2, <2>4, <2>6, <2>7, SMT
  <2>11. n < k \/ n = k
    BY <1>2, <2>1, SMT
  <2> QED
    BY <2>2, <2>8, <2>9, <2>10, <2>11
<1>5. (b - p) * B = st
  <2>1. b - p = n - 1
    BY <1>2, SMT
  <2> QED
    BY <1>3, <2>1
<1>6. PICK l : l = Min({B, z - st})
  OBVIOUS
<1>7. l \in Nat /\ l <= B /\ st + l <= z /\ l = IF n < k THEN B ELSE z - st
  <2>1. B \in Int /\ z - st \in Int
    BY <1>2, <1>4, SMT
  <2>2. l = IF B <= z - st THEN B ELSE z - st
    BY <1>6, <2>1, MinOfTwo
  <2> QED
    BY <1>2, <1>4, <2>2, SMT
<1>8. Chunk(j, b) = SubSeq(data[j], st + 1, st + l)
  BY <1>1, <1>5, <1>6 DEF Chunk
<1>9. PICK s : s = data[j]
  OBVIOUS
<1>10. s \in Seq(Byte) /\ Len(s) = z
  BY <1>1, <1>9
<1>11. /\ SubSeq(s, st + 1, st + l) \in Seq(Byte) /\ Len(SubSeq(s, st + 1, st + l)) = l
       /\ \A i \in 1..l : st + i \in 1..z /\ SubSeq(s, st + 1, st + l)[i] = s[st + i]
  <2>1. PICK c, e : c = st + 1 /\ e = st + l
    OBVIOUS
  <2>2. c \in 1..(Len(s) + 1) /\ e \in (c - 1)..Len(s) /\ e - c + 1 = l /\ c <= e + 1
    BY <1>2, <1>4, <1>7, <1>10, <2>1, SMT
  <2>3. PICK t : t = SubSeq(s, c, e)
    OBVIOUS
  <2>4. t \in Seq(Byte) /\ Len(t) = e - c + 1 /\ \A i \in 1..(e - c + 1) : t[i] = s[c + i - 1]
    BY <1>10, <2>2, <2>3, SubSeqIs
  <2>5. Len(t) = l
    BY <1>4, <1>7, <2>1, <2>2, <2>4, SMT
  <2>6. ASSUME NEW i \in 1..l PROVE st + i \in 1..z /\ t[i] = s[st + i]
    <3>1. c + i - 1 = st + i /\ i \in 1..(e - c + 1) /\ st + i \in 1..z
      BY <1>2, <1>4, <1>7, <2>1, <2>2, <2>6, SMT
    <3> QED
      BY <2>4, <3>1
  <2> QED
    BY <2>1, <2>3, <2>4, <2>5, <2>6
<1>12. PICK w : w = SubSeq(s, st + 1, st + l)
  OBVIOUS
<1>13. Chunk(j, b) = w
  BY <1>8, <1>9, <1>12
<1>14. w \in Seq(Byte) /\ Len(w) = l /\ \A i \in 1..Len(w) : st + i \in 1..z /\ w[i] = data[j][st + i]
  BY <1>9, <1>11, <1>12
<1>15. /\ st = (n - 1) * BlockSize /\ z = req[j].size /\ Len(w) <= BlockSize /\ st + Len(w) <= z
       /\ Len(w) = IF n < Len(BlockIds(j)) THEN BlockSize ELSE req[j].size - st
  BY <1>1, <1>3, <1>7, <1>14
<1> QED
  BY <1>13, <1>14, <1>15

\* The loops take the blocks from the head of the list of ids.
LEMMA TailIs ==
  ASSUME NEW s \in Seq(Nat), s # <<>>
  PROVE  /\ Head(s) \in Nat /\ Head(s) = s[1] /\ Len(s) \in Nat /\ Len(s) >= 1 /\ Tail(s) \in Seq(Nat)
         /\ Len(Tail(s)) = Len(s) - 1 /\ (Tail(s) = <<>> <=> Len(s) = 1)
         /\ \A i \in 1..(Len(s) - 1) : Tail(s)[i] = s[i + 1]
<1>1. Len(s) \in Nat /\ Len(s) >= 1 /\ Head(s) = s[1] /\ s[1] \in Nat
  BY SMT
<1>2. Tail(s) \in Seq(Nat) /\ Len(Tail(s)) = Len(s) - 1
  BY SMT
<1>3. \A i \in 1..(Len(s) - 1) : Tail(s)[i] = s[i + 1]
  BY SMT
<1>4. PICK t : t = Tail(s)
  OBVIOUS
<1>5. t \in Seq(Nat) /\ (t = <<>> <=> Len(t) = 0)
  <2>1. t \in Seq(Nat) /\ Len(<<>>) = 0 /\ (t # <<>> => Len(t) \in Nat \ {0})
    BY <1>2, <1>4, SMT
  <2> QED
    BY <2>1
<1>6. Len(t) = 0 <=> Len(s) = 1
  BY <1>1, <1>2, <1>4, SMT
<1> QED
  BY <1>1, <1>2, <1>3, <1>4, <1>5, <1>6

\* The block that a loop is at.
LEMMA AtBlock ==
  ASSUME Types, NEW j \in Job, Going(j), todo[j] # <<>>
  PROVE  /\ Passed(j) \in Nat /\ Passed(j) + 1 \in 1..Len(BlockIds(j))
         /\ Head(todo[j]) = BlockIds(j)[Passed(j) + 1] /\ Head(todo[j]) \in Nat
         /\ (Passed(j) + 1 = Len(BlockIds(j)) <=> Tail(todo[j]) = <<>>)
         /\ (Len(todo[j]) = 1 <=> Tail(todo[j]) = <<>>)
<1>1. todo[j] \in Seq(Nat) /\ req \in Loads
  BY DEF Types
<1>2. /\ Head(todo[j]) \in Nat /\ Head(todo[j]) = todo[j][1] /\ Len(todo[j]) \in Nat /\ Len(todo[j]) >= 1
      /\ (Tail(todo[j]) = <<>> <=> Len(todo[j]) = 1)
  BY <1>1, TailIs
<1>3. PICK p, k, l : p = Passed(j) /\ k = Len(BlockIds(j)) /\ l = Len(todo[j])
  OBVIOUS
<1>4. p = k - l /\ k \in Nat /\ p \in Nat /\ l \in Nat /\ l >= 1
  BY <1>1, <1>2, <1>3, IdsAre DEF Passed, Going
<1>5. p + 1 \in 1..k /\ 1 \in 1..l /\ (p + 1 = k <=> l = 1)
  BY <1>4, SMT
<1>6. Head(todo[j]) = BlockIds(j)[p + 1]
  BY <1>2, <1>3, <1>5 DEF Going
<1> QED
  BY <1>2, <1>3, <1>4, <1>5, <1>6

\* A loop begins with all ids, ...
LEMMA Begins ==
  ASSUME Types, NEW j \in Job, req' = req, todo'[j] = BlockIds(j)
  PROVE  Going(j)' /\ Passed(j)' = 0 /\ todo'[j] # <<>> /\ todo'[j] \in Seq(Nat)
<1>1. PICK t : t = BlockIds(j)
  OBVIOUS
<1>2. t \in Seq(Nat) /\ Len(t) \in Nat /\ Len(t) >= 1
  BY <1>1, IdsAre DEF Types
<1>3. BlockIds(j)' = t
  BY <1>1 DEF BlockIds
<1>4. Len(t) - Len(t) = 0 /\ t # <<>> /\ 0 \in Nat /\ \A i \in 1..Len(t) : t[i] = t[0 + i]
  BY <1>2, SMT
<1>5. Passed(j)' = 0
  BY <1>1, <1>3, <1>4 DEF Passed
<1> QED
  BY <1>1, <1>2, <1>3, <1>4, <1>5 DEF Going

\* ... and goes on with the others.
LEMMA GoesOn ==
  ASSUME Types, NEW j \in Job, Going(j), todo[j] # <<>>, req' = req, todo'[j] = Tail(todo[j])
  PROVE  Going(j)' /\ Passed(j)' = Passed(j) + 1 /\ todo'[j] \in Seq(Nat)
<1>1. PICK t, ids : t = todo[j] /\ ids = BlockIds(j)
  OBVIOUS
<1>2. /\ t \in Seq(Nat) /\ Len(t) \in Nat /\ Len(t) >= 1 /\ Tail(t) \in Seq(Nat) /\ Len(Tail(t)) = Len(t) - 1
      /\ \A i \in 1..(Len(t) - 1) : Tail(t)[i] = t[i + 1]
  BY <1>1, TailIs DEF Types
<1>3. BlockIds(j)' = ids
  BY <1>1 DEF BlockIds
<1>4. /\ Len(ids) \in Nat /\ Len(ids) - Len(t) \in Nat
      /\ \A i \in 1..Len(t) : t[i] = ids[(Len(ids) - Len(t)) + i]
  BY <1>1, IdsAre DEF Types, Going, Passed
<1>5. Passed(j)' = Len(ids) - Len(Tail(t)) /\ Passed(j) = Len(ids) - Len(t)
  BY <1>1, <1>3 DEF Passed
<1>6. Len(ids) - Len(Tail(t)) = (Len(ids) - Len(t)) + 1 /\ (Len(ids) - Len(t)) + 1 \in Nat
  BY <1>2, <1>4, SMT
<1>7. ASSUME NEW i \in 1..Len(Tail(t)) PROVE Tail(t)[i] = ids[((Len(ids) - Len(t)) + 1) + i]
  <2>1. PICK a, l : a = Len(ids) - Len(t) /\ l = Len(t)
    OBVIOUS
  <2>2. i \in 1..(l - 1) /\ l \in Nat /\ a \in Nat
    BY <1>2, <1>4, <1>7, <2>1
  <2>3. i + 1 \in 1..l /\ a + (i + 1) = (a + 1) + i
    BY <2>2, SMT
  <2>4. Tail(t)[i] = t[i + 1] /\ t[i + 1] = ids[a + (i + 1)]
    BY <1>2, <1>4, <2>1, <2>2, <2>3
  <2> QED
    BY <2>1, <2>3, <2>4
<1>8. PICK n, r : n = Passed(j)' /\ r = Tail(t)
  OBVIOUS
<1>9. n \in Nat /\ todo'[j] = r /\ \A i \in 1..Len(r) : r[i] = ids[n + i]
  <2>1. n = (Len(ids) - Len(t)) + 1
    BY <1>5, <1>6, <1>8
  <2>2. ASSUME NEW i \in 1..Len(r) PROVE r[i] = ids[n + i]
    BY <1>7, <1>8, <2>1
  <2> QED
    BY <1>1, <1>6, <1>8, <2>1, <2>2
<1>10. Going(j)'
  BY <1>3, <1>8, <1>9 DEF Going
<1> QED
  BY <1>1, <1>2, <1>5, <1>6, <1>10

\* The entry of a block is one of the list, of a block's size at most, which the
\* capacity has room for.
LEMMA NewEntryIs ==
  ASSUME Types, NEW j \in Job, Placed(j), pc[j] \in {"set", "evict"}
  PROVE  /\ NewEntry(j) \in Entry /\ NewEntry(j).size <= BlockSize
         /\ NewEntry(j).key = Key(j) /\ NewEntry(j).block = Head(todo[j])
<1>1. Going(j) /\ todo[j] # <<>> /\ req \in Loads /\ data[j] \in Seq(Byte)
  BY DEF Types, Placed
<1>2. PICK b : b = Head(todo[j])
  OBVIOUS
<1>3. b \in Nat /\ Passed(j) + 1 \in 1..Len(BlockIds(j)) /\ b = BlockIds(j)[Passed(j) + 1] /\ Key(j) \in Dir
  BY <1>1, <1>2, AtBlock, RequestIs DEF Key
<1>4. PICK z : z = IF via[j] = "read" THEN Len(caching_map[Key(j)][b]) ELSE Len(Chunk(j, b))
  OBVIOUS
<1>5. NewEntry(j) = [key |-> Key(j), block |-> b, size |-> z]
  BY <1>2, <1>4 DEF NewEntry
<1>6. \E s \in Seq(Byte) : z = Len(s) /\ Len(s) <= BlockSize
  <2>1. CASE via[j] = "read"
    <3>1. Key(j) \in DOMAIN caching_map /\ b \in DOMAIN caching_map[Key(j)]
      BY <1>2, <2>1 DEF Placed, Reading
    <3>2. caching_map[Key(j)][b] \in Content
      BY <3>1 DEF Types, IsCache, IsBlockMap
    <3> QED
      BY <1>4, <2>1, <3>2 DEF Content
  <2>2. CASE via[j] # "read"
    <3>1. Len(data[j]) = req[j].size
      BY <2>2 DEF Placed
    <3> QED
      BY <1>1, <1>3, <1>4, <2>2, <3>1, ChunkIs
  <2> QED
    BY <2>1, <2>2
<1>7. z \in Nat /\ z <= BlockSize
  BY <1>6, SMT
<1>8. NewEntry(j) \in Entry
  BY <1>3, <1>5, <1>7, SMT DEF Entry
<1>9. NewEntry(j).key = Key(j) /\ NewEntry(j).block = b /\ NewEntry(j).size = z
  BY <1>5, SMT
<1> QED
  BY <1>2, <1>7, <1>8, <1>9

\* The bytes that write_to_cache puts into a block.
LEMMA ChunkTyped ==
  ASSUME Types, NEW j \in Job, Placed(j), pc[j] \in {"set", "evict", "emplace"}, via[j] # "read"
  PROVE  Chunk(j, Head(todo[j])) \in Content
<1>1. Going(j) /\ todo[j] # <<>> /\ req \in Loads /\ data[j] \in Seq(Byte) /\ Len(data[j]) = req[j].size
  BY DEF Types, Placed
<1>2. PICK b : b = Head(todo[j])
  OBVIOUS
<1>3. Passed(j) + 1 \in 1..Len(BlockIds(j)) /\ b = BlockIds(j)[Passed(j) + 1]
  BY <1>1, <1>2, AtBlock
<1>4. Chunk(j, b) \in Seq(Byte) /\ Len(Chunk(j, b)) <= BlockSize
  BY <1>1, <1>3, ChunkIs
<1> QED
  BY <1>2, <1>4 DEF Content

\* delete_entry_from_cache takes one block out and leaves the others as they are.
Drops(m, w, d, b) ==
    /\ DOMAIN w \subseteq DOMAIN m
    /\ \A x \in DOMAIN m : x # d => x \in DOMAIN w /\ w[x] = m[x]
    /\ \A x \in DOMAIN w : /\ DOMAIN w[x] \subseteq DOMAIN m[x]
                           /\ \A y \in DOMAIN w[x] : w[x][y] = m[x][y]
    /\ d \in DOMAIN w => b \notin DOMAIN w[d]

\* A cache stays one when a block goes.
LEMMA WithoutIs ==
  ASSUME NEW m, IsCache(m), NEW d, NEW b
  PROVE  IsCache(Without(m, d, b)) /\ Drops(m, Without(m, d, b), d, b)
<1> SUFFICES ASSUME NEW w, w = Without(m, d, b) PROVE IsCache(w) /\ Drops(m, w, d, b)
  OBVIOUS
<1>1. CASE d \notin DOMAIN m
  BY <1>1 DEF Without, Drops
<1>2. CASE d \in DOMAIN m
  <2>1. PICK rest : rest = [x \in DOMAIN m[d] \ {b} |-> m[d][x]]
    OBVIOUS
  <2>2. w = IF rest = Empty THEN [x \in DOMAIN m \ {d} |-> m[x]] ELSE [m EXCEPT ![d] = rest]
    BY <1>2, <2>1 DEF Without
  <2>3. /\ DOMAIN rest = DOMAIN m[d] \ {b} /\ \A y \in DOMAIN rest : rest[y] = m[d][y]
        /\ IsBlockMap(rest)
    BY <1>2, <2>1 DEF IsCache, IsBlockMap
  <2>4. CASE rest = Empty
    <3>1. w = [x \in DOMAIN m \ {d} |-> m[x]]
      BY <2>2, <2>4
    <3>2. DOMAIN w = DOMAIN m \ {d} /\ \A x \in DOMAIN w : w[x] = m[x]
      BY <3>1
    <3> QED
      BY <3>2 DEF IsCache, Drops
  <2>5. CASE rest # Empty
    <3>1. w = [m EXCEPT ![d] = rest]
      BY <2>2, <2>5
    <3>2. DOMAIN w = DOMAIN m /\ w[d] = rest /\ \A x \in DOMAIN m : x # d => w[x] = m[x]
      BY <1>2, <3>1
    <3>3. IsCache(w)
      BY <2>3, <3>2 DEF IsCache
    <3>4. ASSUME NEW x \in DOMAIN w
          PROVE  DOMAIN w[x] \subseteq DOMAIN m[x] /\ \A y \in DOMAIN w[x] : w[x][y] = m[x][y]
      BY <2>3, <3>2
    <3> QED
      BY <2>3, <3>2, <3>3, <3>4 DEF Drops
  <2> QED
    BY <2>4, <2>5
<1> QED
  BY <1>1, <1>2

\* A block that is added to a map.
Plus(m, b, s) == [x \in DOMAIN m \cup {b} |-> IF x = b THEN s ELSE m[x]]

Gains(m, w, b, s) == DOMAIN w = DOMAIN m \cup {b} /\ w[b] = s /\ \A x \in DOMAIN m : x # b => w[x] = m[x]

\* A map of blocks stays one when a block comes to it.
LEMMA PlusIs ==
  ASSUME NEW m, IsBlockMap(m), NEW b \in Nat, NEW s \in Content
  PROVE  IsBlockMap(Plus(m, b, s)) /\ Gains(m, Plus(m, b, s), b, s)
<1> SUFFICES ASSUME NEW w, w = Plus(m, b, s) PROVE IsBlockMap(w) /\ Gains(m, w, b, s)
  OBVIOUS
<1>1. DOMAIN w = DOMAIN m \cup {b} /\ \A x \in DOMAIN w : w[x] = IF x = b THEN s ELSE m[x]
  BY DEF Plus
<1>2. w[b] = s /\ \A x \in DOMAIN m : x # b => w[x] = m[x]
  BY <1>1
<1>3. \A x \in DOMAIN w : x \in Nat /\ w[x] \in Content
  BY <1>1, <1>2 DEF IsBlockMap
<1> QED
  BY <1>1, <1>2, <1>3 DEF IsBlockMap, Gains

\* A handler writes its own request's part of the state.
LEMMA PutAt ==
  ASSUME NEW S, NEW f \in [Job -> S], NEW j \in Job, NEW v \in S, NEW g, g = [f EXCEPT ![j] = v]
  PROVE  g \in [Job -> S] /\ g[j] = v /\ \A k \in Job : k # j => g[k] = f[k]
  OBVIOUS

\* Where a request goes.
LEMMA GotoIs ==
  ASSUME Types, NEW j \in Job, NEW l \in Label, Goto(j, l)
  PROVE  pc' \in [Job -> Label] /\ pc'[j] = l /\ \A k \in Job : k # j => pc'[k] = pc[k]
  BY DEF Types, Goto

\* What a step leaves to the other requests: their own state, and the blocks of
\* a directory that they hold an accessor of.
Stays(k) == pc'[k] = pc[k] /\ via'[k] = via[k] /\ todo'[k] = todo[k] /\ data'[k] = data[k]

KeepsBlocks(d) ==
    d \in DOMAIN caching_map =>
        d \in DOMAIN caching_map' /\ DOMAIN caching_map[d] \subseteq DOMAIN caching_map'[d]

\* Such a step leaves them where they were.
LEMMA StaysPlaced ==
  ASSUME NEW k \in Job, Placed(k), Stays(k), req' = req, Reading(k) => KeepsBlocks(Key(k))
  PROVE  Placed(k)'
<1>1. /\ Key(k)' = Key(k) /\ BlockIds(k)' = BlockIds(k) /\ Passed(k)' = Passed(k)
      /\ Going(k) = Going(k)' /\ Reading(k)' = Reading(k)
  BY DEF Stays, Key, BlockIds, Passed, Going, Reading
<1>2. \A d \in DOMAIN caching_map : \A b \in DOMAIN caching_map[d] :
          KeepsBlocks(d) => d \in DOMAIN caching_map' /\ b \in DOMAIN caching_map'[d]
  BY DEF KeepsBlocks
<1>3. Reading(k)' => Key(k)' \in DOMAIN caching_map'
  BY <1>1 DEF Placed, KeepsBlocks
<1>4. Reading(k)' /\ pc'[k] # "lookup" => Head(todo'[k]) \in DOMAIN caching_map'[Key(k)']
  BY <1>1, <1>2 DEF Placed, Stays
<1> QED
  BY <1>1, <1>3, <1>4 DEF Placed, Stays

\* A step that does not change the list leaves it accounted for.
LEMMA ListStays ==
  ASSUME MutexOK, ListAccounted, NEW j \in Job, UNCHANGED <<lru, cur_size, req>>,
         \A k \in Job : k # j => Stays(k), pc'[j] # "evict"
  PROVE  MutexOK' /\ ListAccounted'
<1>1. \A k \in Job : pc'[k] = "evict" => k # j /\ pc[k] = "evict" /\ todo'[k] = todo[k] /\ Key(k)' = Key(k)
  BY DEF Stays, Key
<1>2. \A d, b : HasNode(d, b) <=> HasNode(d, b)'
  BY DEF HasNode
<1>3. MutexOK'
  BY <1>1, <1>2 DEF MutexOK
<1>4. ListAccounted'
  BY DEF ListAccounted, SameBlock
<1> QED
  BY <1>3, <1>4

\* start_job.
LEMMA StartKeeps ==
  ASSUME CacheInv, NEW j \in Job, Start(j)
  PROVE  CacheInv'
<1>1. /\ Types /\ Placed(j) /\ MutexOK /\ ListAccounted /\ pc[j] = "new"
      /\ UNCHANGED <<req, threads, disk, caching_map, lru, cur_size, via, data, blocks, reply, committed>>
  BY DEF CacheInv, Start, cacheVars
<1>2. CASE /\ req[j].op = "read" /\ Key(j) \in DOMAIN caching_map
           /\ todo' = [todo EXCEPT ![j] = BlockIds(j)] /\ Goto(j, "lookup")
  <2>1. /\ pc' \in [Job -> Label] /\ pc'[j] = "lookup" /\ \A k \in Job : k # j => pc'[k] = pc[k]
    BY <1>1, <1>2, GotoIs DEF Label
  <2>2. BlockIds(j) \in Seq(Nat) /\ todo \in [Job -> Seq(Nat)]
    BY <1>1, IdsAre DEF Types
  <2>3. todo' \in [Job -> Seq(Nat)] /\ todo'[j] = BlockIds(j) /\ \A k \in Job : k # j => todo'[k] = todo[k]
    BY <1>2, <2>2, PutAt
  <2>4. Types'
    BY <1>1, <2>1, <2>3 DEF Types
  <2>5. Going(j)'
    BY <1>1, <2>3, Begins
  <2>6. Placed(j)'
    BY <1>1, <1>2, <2>1, <2>5 DEF Placed, Reading, Key
  <2>7. \A k \in Job : k # j => Stays(k)
    BY <1>1, <2>1, <2>3 DEF Stays
  <2>8. \A k \in Job : Placed(k)'
    BY <1>1, <2>6, <2>7, StaysPlaced DEF KeepsBlocks, CacheInv
  <2> QED
    BY <1>1, <2>1, <2>4, <2>7, <2>8, ListStays DEF CacheInv
<1>3. CASE Goto(j, "disk") /\ todo' = todo
  <2>1. /\ pc' \in [Job -> Label] /\ pc'[j] = "disk" /\ \A k \in Job : k # j => pc'[k] = pc[k]
    BY <1>1, <1>3, GotoIs DEF Label
  <2>2. Types'
    BY <1>1, <1>3, <2>1 DEF Types
  <2>3. Placed(j)'
    BY <1>1, <1>3, <2>1 DEF Placed, Reading
  <2>4. \A k \in Job : k # j => Stays(k)
    BY <1>1, <1>3, <2>1 DEF Stays
  <2>5. \A k \in Job : Placed(k)'
    BY <1>1, <2>3, <2>4, StaysPlaced DEF KeepsBlocks, CacheInv
  <2> QED
    BY <1>1, <2>1, <2>2, <2>4, <2>5, ListStays DEF CacheInv
<1> QED
  BY <1>2, <1>3 DEF Start

\* A hit.
LEMMA HitKeeps ==
  ASSUME CacheInv, NEW j \in Job, Hit(j)
  PROVE  CacheInv'
<1>1. /\ Types /\ Placed(j) /\ MutexOK /\ ListAccounted /\ pc[j] = "lookup"
      /\ UNCHANGED <<req, threads, disk, caching_map, lru, cur_size, via, todo, data, blocks, committed>>
      /\ reply' = [reply EXCEPT ![j] = data[j]] /\ Goto(j, "done")
  BY DEF CacheInv, Hit, cacheVars
<1>2. /\ pc' \in [Job -> Label] /\ pc'[j] = "done" /\ \A k \in Job : k # j => pc'[k] = pc[k]
  BY <1>1, GotoIs DEF Label
<1>3. Types'
  BY <1>1, <1>2 DEF Types
<1>4. Placed(j)'
  BY <1>1, <1>2 DEF Placed, Reading
<1>5. \A k \in Job : k # j => Stays(k)
  BY <1>1, <1>2 DEF Stays
<1>6. \A k \in Job : Placed(k)'
  BY <1>1, <1>4, <1>5, StaysPlaced DEF KeepsBlocks, CacheInv
<1> QED
  BY <1>1, <1>2, <1>3, <1>5, <1>6, ListStays DEF CacheInv

\* A block found.
LEMMA FoundKeeps ==
  ASSUME CacheInv, NEW j \in Job, Found(j)
  PROVE  CacheInv'
<1>1. /\ Types /\ Placed(j) /\ MutexOK /\ ListAccounted /\ pc[j] = "lookup" /\ todo[j] # <<>>
      /\ UNCHANGED <<req, threads, disk, caching_map, lru, cur_size, via, todo, data, blocks, reply, committed>>
      /\ Head(todo[j]) \in DOMAIN caching_map[Key(j)] /\ Goto(j, "set")
  BY DEF CacheInv, Found, cacheVars
<1>2. /\ pc' \in [Job -> Label] /\ pc'[j] = "set" /\ \A k \in Job : k # j => pc'[k] = pc[k]
  BY <1>1, GotoIs DEF Label
<1>3. Types'
  BY <1>1, <1>2 DEF Types
<1>4. Going(j)' = Going(j) /\ Key(j)' = Key(j)
  BY <1>1 DEF Going, Passed, BlockIds, Key
<1>5. Placed(j)'
  BY <1>1, <1>2, <1>4 DEF Placed, Reading
<1>6. \A k \in Job : k # j => Stays(k)
  BY <1>1, <1>2 DEF Stays
<1>7. \A k \in Job : Placed(k)'
  BY <1>1, <1>5, <1>6, StaysPlaced DEF KeepsBlocks, CacheInv
<1> QED
  BY <1>1, <1>2, <1>3, <1>6, <1>7, ListStays DEF CacheInv

\* A block missing.
LEMMA MissKeeps ==
  ASSUME CacheInv, NEW j \in Job, Miss(j)
  PROVE  CacheInv'
<1>1. /\ Types /\ Placed(j) /\ MutexOK /\ ListAccounted /\ pc[j] = "lookup"
      /\ UNCHANGED <<req, threads, disk, caching_map, lru, cur_size, via, todo, blocks, reply, committed>>
      /\ data' = [data EXCEPT ![j] = <<>>] /\ Goto(j, "disk")
  BY DEF CacheInv, Miss, cacheVars
<1>2. /\ pc' \in [Job -> Label] /\ pc'[j] = "disk" /\ \A k \in Job : k # j => pc'[k] = pc[k]
  BY <1>1, GotoIs DEF Label
<1>3. data' \in [Job -> Seq(Byte)] /\ data'[j] = <<>> /\ \A k \in Job : k # j => data'[k] = data[k]
  <2>1. <<>> \in Seq(Byte)
    BY SMT
  <2>2. data \in [Job -> Seq(Byte)]
    BY <1>1 DEF Types
  <2> QED
    BY <1>1, <2>1, <2>2, PutAt
<1>4. Types'
  BY <1>1, <1>2, <1>3 DEF Types
<1>5. Placed(j)'
  BY <1>1, <1>2, <1>3 DEF Placed, Reading
<1>6. \A k \in Job : k # j => Stays(k)
  BY <1>1, <1>2, <1>3 DEF Stays
<1>7. \A k \in Job : Placed(k)'
  BY <1>1, <1>5, <1>6, StaysPlaced DEF KeepsBlocks, CacheInv
<1> QED
  BY <1>1, <1>2, <1>4, <1>6, <1>7, ListStays DEF CacheInv

\* LRUCache::set begins: the node of the block, if there is one, leaves the list.
LEMMA SetBeginKeeps ==
  ASSUME ListSums, CacheInv, NEW j \in Job, SetBegin(j)
  PROVE  CacheInv'
<1>1. /\ Types /\ Placed(j) /\ MutexOK /\ ListAccounted /\ pc[j] = "set" /\ ~Locked /\ Goto(j, "evict")
      /\ UNCHANGED <<req, threads, disk, caching_map, via, todo, data, blocks, reply, committed>>
  BY DEF CacheInv, SetBegin
<1>2. /\ pc' \in [Job -> Label] /\ pc'[j] = "evict" /\ \A k \in Job : k # j => pc'[k] = pc[k]
  BY <1>1, GotoIs DEF Label
<1>3. \A k \in Job : k # j => Stays(k)
  BY <1>1, <1>2 DEF Stays
<1>4. Going(j)' = Going(j) /\ Key(j)' = Key(j)
  BY <1>1 DEF Going, Passed, BlockIds, Key
<1>5. Placed(j)'
  BY <1>1, <1>2, <1>4 DEF Placed, Reading
<1>6. \A k \in Job : Placed(k)'
  BY <1>1, <1>3, <1>5, StaysPlaced DEF KeepsBlocks, CacheInv
<1>7. PICK e : e = NewEntry(j)
  OBVIOUS
<1>8. e.key = Key(j) /\ e.block = Head(todo[j])
  BY <1>1, <1>7, NewEntryIs
<1>9. \A i \in DOMAIN lru : i \in Nodes(e) <=> lru[i].key = Key(j) /\ lru[i].block = Head(todo[j])
  BY <1>8 DEF Nodes, SameBlock
<1>10. /\ lru \in Seq(Entry) /\ cur_size \in Nat /\ cur_size = SizeOf(lru) /\ cur_size <= Cap
       /\ \A i, k \in DOMAIN lru : SameBlock(lru[i], lru[k]) => i = k
  BY <1>1 DEF Types, ListAccounted
<1>11. /\ lru' \in Seq(Entry) /\ cur_size' \in Nat /\ ListAccounted'
       /\ ~HasNode(Key(j), Head(todo[j]))'
  <2>1. CASE Nodes(e) = {} /\ UNCHANGED <<lru, cur_size>>
    <3>1. ListAccounted'
      BY <1>1, <2>1 DEF ListAccounted, SameBlock
    <3>2. ~HasNode(Key(j), Head(todo[j]))
      BY <1>9, <2>1 DEF HasNode
    <3> QED
      BY <1>1, <1>4, <1>10, <2>1, <3>1, <3>2 DEF HasNode
  <2>2. ASSUME NEW i \in Nodes(e), lru' = deletenode(lru, i), cur_size' = cur_size - lru[i].size
        PROVE  lru' \in Seq(Entry) /\ cur_size' \in Nat /\ ListAccounted' /\ ~HasNode(Key(j), Head(todo[j]))'
    <3>1. i \in DOMAIN lru /\ lru[i].key = Key(j) /\ lru[i].block = Head(todo[j])
      BY <1>9 DEF Nodes
    <3>2. PICK q, t : q = lru /\ t = deletenode(lru, i)
      OBVIOUS
    <3>3. /\ t \in Seq(Entry) /\ Len(t) = Len(q) - 1 /\ q \in Seq(Entry)
          /\ \A n \in 1..(Len(q) - 1) : t[n] = IF n < i THEN q[n] ELSE q[n + 1]
          /\ q[i].size \in Nat /\ SizeOf(t) \in Nat /\ SizeOf(q) = q[i].size + SizeOf(t)
      BY <1>10, <3>1, <3>2, DeletedList
    <3>4. cur_size' = SizeOf(t) /\ cur_size' <= Cap
      <4>1. PICK a, b : a = q[i].size /\ b = SizeOf(t)
        OBVIOUS
      <4>2. a \in Nat /\ b \in Nat /\ cur_size = a + b /\ cur_size' = cur_size - a
        BY <1>10, <2>2, <3>2, <3>3, <4>1
      <4>3. Cap \in Nat /\ cur_size <= Cap
        BY <1>10, BlockCacheAssumption
      <4>4. cur_size' = b /\ cur_size' <= Cap
        BY <4>2, <4>3, SMT
      <4> QED
        BY <4>1, <4>4
    <3>5. \A n \in DOMAIN t : \E m \in DOMAIN q : t[n] = q[m] /\ m # i /\ m = (IF n < i THEN n ELSE n + 1)
      <4>1. i \in DOMAIN q
        BY <3>1, <3>2
      <4> QED
        BY <3>3, <4>1, SMT
    <3>6. \A n, m \in DOMAIN t : SameBlock(t[n], t[m]) => n = m
      <4> SUFFICES ASSUME NEW n \in DOMAIN t, NEW m \in DOMAIN t, SameBlock(t[n], t[m]) PROVE n = m
        OBVIOUS
      <4>1. PICK nn \in DOMAIN q : t[n] = q[nn] /\ nn = (IF n < i THEN n ELSE n + 1)
        BY <3>5
      <4>2. PICK mm \in DOMAIN q : t[m] = q[mm] /\ mm = (IF m < i THEN m ELSE m + 1)
        BY <3>5
      <4>3. nn = mm
        BY <1>10, <3>2, <4>1, <4>2
      <4>4. n \in Int /\ m \in Int /\ i \in Int
        BY <3>1, <3>2, <3>3, SMT
      <4> QED
        BY <4>1, <4>2, <4>3, <4>4, SMT
    <3>7. \A n \in DOMAIN t : ~(t[n].key = Key(j) /\ t[n].block = Head(todo[j]))
      BY <1>10, <3>1, <3>2, <3>5 DEF SameBlock
    <3>8. lru' = t
      BY <2>2, <3>2
    <3>9. ListAccounted'
      BY <3>4, <3>6, <3>8 DEF ListAccounted, SameBlock
    <3>10. ~HasNode(Key(j), Head(todo[j]))'
      BY <1>1, <1>4, <3>7, <3>8 DEF HasNode
    <3> QED
      BY <3>3, <3>4, <3>8, <3>9, <3>10
  <2>3. \/ Nodes(e) = {} /\ UNCHANGED <<lru, cur_size>>
        \/ \E i \in Nodes(e) : lru' = deletenode(lru, i) /\ cur_size' = cur_size - lru[i].size
    BY <1>7 DEF SetBegin
  <2> QED
    BY <2>1, <2>2, <2>3
<1>12. Types'
  BY <1>1, <1>2, <1>11 DEF Types
<1>13. \A k \in Job : pc'[k] = "evict" => k = j
  BY <1>1, <1>2 DEF Locked
<1>14. MutexOK'
  BY <1>11, <1>13 DEF MutexOK
<1> QED
  BY <1>6, <1>11, <1>12, <1>14 DEF CacheInv

\* Evict takes from the tail of a list that is not empty: a block has room in
\* the empty cache.
LEMMA SomeVictim ==
  ASSUME ListSums, CacheInv, NEW j \in Job, pc[j] = "evict", cur_size + NewEntry(j).size > Cap
  PROVE  lru # <<>>
<1>1. Types /\ Placed(j) /\ cur_size = SizeOf(lru) /\ cur_size \in Nat
  BY DEF CacheInv, ListAccounted, Types
<1>2. NewEntry(j) \in Entry /\ NewEntry(j).size <= BlockSize
  BY <1>1, NewEntryIs
<1>3. PICK z : z = NewEntry(j).size
  OBVIOUS
<1>4. z \in Nat
  BY <1>2, <1>3 DEF Entry
<1>5. cur_size # 0
  BY <1>1, <1>2, <1>3, <1>4, BlockCacheAssumption, SMT
<1> QED
  BY <1>1, <1>5 DEF ListSums

\* A block is evicted.
LEMMA EvictKeeps ==
  ASSUME ListSums, CacheInv, NEW j \in Job, Evict(j)
  PROVE  CacheInv'
<1>1. PICK v : v = lru[Len(lru)]
  OBVIOUS
<1>2. /\ Types /\ Placed(j) /\ MutexOK /\ ListAccounted /\ pc[j] = "evict" /\ ~Shared(v.key)
      /\ caching_map' = Without(caching_map, v.key, v.block) /\ lru' = deletenode(lru, Len(lru))
      /\ cur_size' = cur_size - v.size /\ cur_size + NewEntry(j).size > Cap
      /\ UNCHANGED <<req, threads, disk, pc, via, todo, data, blocks, reply, committed>>
  BY <1>1 DEF CacheInv, Evict
<1>3. lru # <<>> /\ lru \in Seq(Entry) /\ IsCache(caching_map) /\ cur_size \in Nat
  BY <1>2, SomeVictim DEF Types
<1>4. PICK q : q = lru
  OBVIOUS
<1>5. /\ lru' \in Seq(Entry) /\ Len(lru') = Len(q) - 1 /\ \A i \in 1..(Len(q) - 1) : lru'[i] = q[i]
      /\ v \in Entry /\ SizeOf(lru') \in Nat /\ SizeOf(q) = v.size + SizeOf(lru')
  BY <1>1, <1>2, <1>3, <1>4, TailDeleted
<1>6. v.size \in Nat
  BY <1>5 DEF Entry
<1>7. cur_size' = SizeOf(lru') /\ cur_size' <= Cap /\ cur_size' \in Nat
  <2>1. cur_size = SizeOf(q) /\ cur_size <= Cap
    BY <1>2, <1>4 DEF ListAccounted
  <2> QED
    BY <1>2, <1>3, <1>5, <1>6, <2>1, BlockCacheAssumption, SMT
<1>8. \A i \in DOMAIN lru' : i \in DOMAIN lru /\ lru'[i] = lru[i]
  <2>1. \A i \in DOMAIN lru' : i \in 1..(Len(q) - 1) /\ i \in DOMAIN q
    BY <1>3, <1>4, <1>5, SMT
  <2> QED
    BY <1>4, <1>5, <2>1
<1>9. ListAccounted'
  <2>1. ASSUME NEW i \in DOMAIN lru', NEW k \in DOMAIN lru', SameBlock(lru'[i], lru'[k]) PROVE i = k
    <3>1. i \in DOMAIN lru /\ k \in DOMAIN lru /\ SameBlock(lru[i], lru[k])
      BY <1>8, <2>1
    <3> QED
      BY <1>2, <3>1 DEF ListAccounted
  <2> QED
    BY <1>7, <2>1 DEF ListAccounted, SameBlock
<1>10. MutexOK'
  <2>1. \A d, b : HasNode(d, b)' => HasNode(d, b)
    BY <1>8 DEF HasNode
  <2>2. \A k \in Job : Key(k)' = Key(k) /\ pc'[k] = pc[k] /\ todo'[k] = todo[k]
    BY <1>2 DEF Key
  <2>3. \A k \in Job : pc'[k] = "evict" => ~HasNode(Key(k), Head(todo[k]))'
    BY <1>2, <2>1, <2>2 DEF MutexOK
  <2> QED
    BY <1>2, <2>2, <2>3 DEF MutexOK
<1>11. IsCache(caching_map') /\ \A x \in DOMAIN caching_map : x # v.key => x \in DOMAIN caching_map' /\ caching_map'[x] = caching_map[x]
  <2>1. IsCache(caching_map') /\ Drops(caching_map, caching_map', v.key, v.block)
    BY <1>2, <1>3, WithoutIs
  <2> QED
    BY <2>1 DEF Drops
<1>12. Types'
  BY <1>2, <1>5, <1>7, <1>11 DEF Types
<1>13. ASSUME NEW k \in Job PROVE Placed(k)'
  <2>1. Reading(k) => Key(k) # v.key
    BY <1>2 DEF Shared
  <2>2. Reading(k) => KeepsBlocks(Key(k))
    BY <1>11, <2>1 DEF KeepsBlocks
  <2>3. Stays(k)
    BY <1>2 DEF Stays
  <2> QED
    BY <1>2, <2>2, <2>3, StaysPlaced DEF CacheInv
<1> QED
  BY <1>9, <1>10, <1>12, <1>13 DEF CacheInv

\* LRUCache::set ends: the new node has room.
LEMMA SetEndList ==
  ASSUME ListSums, CacheInv, NEW j \in Job, pc[j] = "evict", cur_size + NewEntry(j).size <= Cap,
         lru' = <<NewEntry(j)>> \o lru, cur_size' = Grown(NewEntry(j))
  PROVE  lru' \in Seq(Entry) /\ cur_size' \in Nat /\ ListAccounted'
<1>1. PICK e, q : e = NewEntry(j) /\ q = lru
  OBVIOUS
<1>2. Types /\ Placed(j) /\ MutexOK /\ ListAccounted
  BY DEF CacheInv
<1>3. e \in Entry /\ e.key = Key(j) /\ e.block = Head(todo[j])
  BY <1>1, <1>2, NewEntryIs
<1>4. /\ q \in Seq(Entry) /\ cur_size \in Nat /\ cur_size = SizeOf(q)
      /\ \A i, k \in DOMAIN q : SameBlock(q[i], q[k]) => i = k
  BY <1>1, <1>2 DEF Types, ListAccounted
<1>5. \A i \in DOMAIN q : ~SameBlock(e, q[i]) /\ ~SameBlock(q[i], e)
  BY <1>1, <1>2, <1>3 DEF MutexOK, HasNode, SameBlock
<1>6. /\ lru' \in Seq(Entry) /\ Len(lru') = Len(q) + 1 /\ lru'[1] = e
      /\ \A i \in 1..Len(q) : lru'[i + 1] = q[i]
      /\ SizeOf(q) \in Nat /\ SizeOf(lru') = e.size + SizeOf(q)
  <2>1. lru' = <<e>> \o q
    BY <1>1
  <2>2. e \in Entry /\ q \in Seq(Entry)
    BY <1>3, <1>4
  <2>3. /\ <<e>> \o q \in Seq(Entry) /\ Len(<<e>> \o q) = Len(q) + 1 /\ (<<e>> \o q)[1] = e
        /\ \A i \in 1..Len(q) : (<<e>> \o q)[i + 1] = q[i]
        /\ SizeOf(q) \in Nat /\ SizeOf(<<e>> \o q) = e.size + SizeOf(q)
    BY <2>2, HeadList
  <2> QED
    BY <2>1, <2>3
<1>7. e.size \in Nat
  BY <1>3 DEF Entry
<1>8. cur_size' \in Nat /\ cur_size' = SizeOf(lru') /\ cur_size' <= Cap
  <2>1. cur_size' = cur_size + e.size /\ cur_size + e.size <= Cap
    BY <1>1 DEF Grown
  <2> QED
    BY <1>4, <1>6, <1>7, <2>1, SMT
<1>9. \A i \in DOMAIN lru' : i = 1 \/ (i - 1 \in DOMAIN q /\ lru'[i] = q[i - 1] /\ i \in Int)
  <2>1. ASSUME NEW i \in DOMAIN lru', i # 1 PROVE i - 1 \in DOMAIN q /\ i - 1 \in 1..Len(q) /\ (i - 1) + 1 = i /\ i \in Int
    BY <1>4, <1>6, <2>1, SMT
  <2> QED
    BY <1>6, <2>1
<1>10. ASSUME NEW i \in DOMAIN lru', NEW k \in DOMAIN lru', SameBlock(lru'[i], lru'[k]) PROVE i = k
  <2>1. CASE i = 1 \/ k = 1
    BY <1>5, <1>6, <1>9, <1>10, <2>1
  <2>2. CASE i # 1 /\ k # 1
    <3>1. i - 1 = k - 1 /\ i \in Int /\ k \in Int
      BY <1>4, <1>9, <1>10, <2>2
    <3> QED
      BY <3>1, SMT
  <2> QED
    BY <2>1, <2>2
<1>11. ListAccounted'
  BY <1>8, <1>10 DEF ListAccounted, SameBlock
<1> QED
  BY <1>6, <1>8, <1>11

\* ... and the request goes on.
LEMMA SetEndKeeps ==
  ASSUME ListSums, CacheInv, NEW j \in Job, SetEnd(j)
  PROVE  CacheInv'
<1>1. PICK b : b = Head(todo[j])
  OBVIOUS
<1>2. /\ Types /\ Placed(j) /\ MutexOK /\ pc[j] = "evict"
      /\ UNCHANGED <<req, threads, disk, caching_map, via, reply, committed>>
  BY DEF CacheInv, SetEnd
<1>3. lru' \in Seq(Entry) /\ cur_size' \in Nat /\ ListAccounted'
  BY SetEndList DEF SetEnd
<1>4. /\ Going(j) /\ todo[j] # <<>> /\ todo \in [Job -> Seq(Nat)] /\ data \in [Job -> Seq(Byte)]
      /\ NewEntry(j).block = b /\ b \in Nat
  <2>1. Going(j) /\ todo[j] # <<>>
    BY <1>2 DEF Placed
  <2> QED
    BY <1>1, <1>2, <2>1, NewEntryIs, AtBlock DEF Types
<1>5. Tail(todo[j]) \in Seq(Nat)
  BY <1>4, TailIs
<1>6. ASSUME NEW l \in Label, l # "evict", Goto(j, l),
             todo' \in [Job -> Seq(Nat)], \A k \in Job : k # j => todo'[k] = todo[k],
             data' \in [Job -> Seq(Byte)], \A k \in Job : k # j => data'[k] = data[k],
             DOMAIN blocks' = Job, \A k \in Job : IsBlockMap(blocks'[k]),
             pc'[j] = l => Placed(j)'
      PROVE  CacheInv'
  <2>1. pc' \in [Job -> Label] /\ pc'[j] = l /\ \A k \in Job : k # j => pc'[k] = pc[k]
    BY <1>2, <1>6, GotoIs
  <2>2. Types'
    BY <1>2, <1>3, <1>6, <2>1 DEF Types
  <2>3. \A k \in Job : k # j => Stays(k)
    BY <1>2, <1>6, <2>1 DEF Stays
  <2>4. \A k \in Job : Placed(k)'
    BY <1>2, <1>6, <2>1, <2>3, StaysPlaced DEF KeepsBlocks, CacheInv
  <2>5. \A k \in Job : pc'[k] # "evict"
    BY <1>2, <1>6, <2>1 DEF MutexOK
  <2>6. MutexOK'
    BY <2>5 DEF MutexOK
  <2> QED
    BY <1>3, <2>2, <2>4, <2>6 DEF CacheInv
<1>7. CASE /\ via[j] = "read" /\ data' = [data EXCEPT ![j] = @ \o caching_map[Key(j)][b]]
           /\ todo' = [todo EXCEPT ![j] = Tail(todo[j])] /\ Goto(j, "lookup") /\ UNCHANGED blocks
  <2>1. PICK s : s = data[j] \o caching_map[Key(j)][b]
    OBVIOUS
  <2>2. s \in Seq(Byte)
    <3>1. Key(j) \in DOMAIN caching_map /\ b \in DOMAIN caching_map[Key(j)]
      BY <1>1, <1>2, <1>7 DEF Placed, Reading
    <3>2. caching_map[Key(j)][b] \in Seq(Byte) /\ data[j] \in Seq(Byte)
      BY <1>2, <3>1 DEF Types, IsCache, IsBlockMap, Content
    <3> QED
      BY <2>1, <3>2, ConcatIs
  <2>3. data' = [data EXCEPT ![j] = s]
    BY <1>7, <2>1
  <2>4. data' \in [Job -> Seq(Byte)] /\ \A k \in Job : k # j => data'[k] = data[k]
    BY <1>4, <2>2, <2>3, PutAt
  <2>5. /\ todo' \in [Job -> Seq(Nat)] /\ todo'[j] = Tail(todo[j])
        /\ \A k \in Job : k # j => todo'[k] = todo[k]
    BY <1>4, <1>5, <1>7, PutAt
  <2>6. Going(j)'
    BY <1>2, <1>4, <2>5, GoesOn
  <2>7. pc'[j] = "lookup" => Placed(j)'
    BY <1>2, <1>7, <2>6 DEF Placed, Reading, Key
  <2>8. "lookup" \in Label /\ "lookup" # "evict"
    BY DEF Label
  <2>9. DOMAIN blocks' = Job /\ \A k \in Job : IsBlockMap(blocks'[k])
    BY <1>2, <1>7 DEF Types
  <2> QED
    BY <1>6, <1>7, <2>4, <2>5, <2>7, <2>8, <2>9
<1>8. CASE via[j] = "update" /\ Goto(j, "emplace") /\ UNCHANGED <<data, todo, blocks>>
  <2>1. Going(j)' = Going(j)
    BY <1>2, <1>8 DEF Going, Passed, BlockIds
  <2>2. pc'[j] = "emplace" => Placed(j)'
    BY <1>2, <1>4, <1>8, <2>1 DEF Placed, Reading
  <2>3. "emplace" \in Label /\ "emplace" # "evict"
    BY DEF Label
  <2>4. DOMAIN blocks' = Job /\ \A k \in Job : IsBlockMap(blocks'[k])
    BY <1>2, <1>8 DEF Types
  <2> QED
    BY <1>4, <1>6, <1>8, <2>2, <2>3, <2>4
<1>9. CASE /\ via[j] = "first"
           /\ blocks' = [blocks EXCEPT ![j] = [x \in DOMAIN @ \cup {b} |-> IF x = b THEN Chunk(j, b) ELSE @[x]]]
           /\ todo' = [todo EXCEPT ![j] = Tail(todo[j])]
           /\ Goto(j, IF Tail(todo[j]) = <<>> THEN "publish" ELSE "set") /\ UNCHANGED data
  <2>1. /\ todo' \in [Job -> Seq(Nat)] /\ todo'[j] = Tail(todo[j])
        /\ \A k \in Job : k # j => todo'[k] = todo[k]
    BY <1>4, <1>5, <1>9, PutAt
  <2>2. Going(j)'
    BY <1>2, <1>4, <2>1, GoesOn
  <2>3. PICK w : w = Plus(blocks[j], b, Chunk(j, b))
    OBVIOUS
  <2>4. IsBlockMap(blocks[j]) /\ Chunk(j, b) \in Content /\ DOMAIN blocks = Job
    BY <1>1, <1>2, <1>9, ChunkTyped DEF Types
  <2>5. IsBlockMap(w)
    BY <1>4, <2>3, <2>4, PlusIs
  <2>6. blocks' = [blocks EXCEPT ![j] = w]
    BY <1>9, <2>3 DEF Plus
  <2>7. DOMAIN blocks' = Job /\ \A k \in Job : IsBlockMap(blocks'[k])
    BY <1>2, <2>4, <2>5, <2>6 DEF Types
  <2>8. PICK l : l = IF Tail(todo[j]) = <<>> THEN "publish" ELSE "set"
    OBVIOUS
  <2>9. l \in Label /\ l # "evict"
    BY <2>8 DEF Label
  <2>10. Len(data[j]) = req[j].size
    BY <1>2, <1>9 DEF Placed
  <2>11. pc'[j] = l => Placed(j)'
    BY <1>2, <1>9, <2>1, <2>2, <2>8, <2>10 DEF Placed, Reading
  <2> QED
    BY <1>4, <1>6, <1>9, <2>1, <2>7, <2>8, <2>9, <2>11
<1> QED
  BY <1>4, <1>7, <1>8, <1>9 DEF SetEnd

\* The bytes of the storage, and those of a write.
LEMMA StoredIs ==
  ASSUME Types, NEW j \in Job
  PROVE  /\ Stored(j) \in Seq(Byte) /\ Len(Stored(j)) = req[j].size
         /\ \A i \in 1..req[j].size : /\ req[j].pos + i - 1 \in 0..(FileSize - 1)
                                      /\ Stored(j)[i] = disk[req[j].file][req[j].pos + i - 1]
<1>1. PICK z, p, f : z = req[j].size /\ p = req[j].pos /\ f = disk[req[j].file]
  OBVIOUS
<1>2. z \in Nat /\ p \in Nat /\ p + z <= FileSize /\ FileSize \in Nat
  BY <1>1, RequestIs, BlockCacheAssumption DEF Types
<1>3. f \in [0..(FileSize - 1) -> Byte]
  BY <1>1, RequestIs DEF Types
<1>4. \A i \in 1..z : p + i - 1 \in 0..(FileSize - 1)
  BY <1>2, SMT
<1>5. Stored(j) = [i \in 1..z |-> f[p + i - 1]]
  BY <1>1 DEF Stored
<1>6. \A i \in 1..z : f[p + i - 1] \in Byte
  BY <1>3, <1>4
<1>7. Stored(j) \in Seq(Byte) /\ Len(Stored(j)) = z /\ \A i \in 1..z : Stored(j)[i] = f[p + i - 1]
  BY <1>2, <1>5, <1>6, SMT
<1> QED
  BY <1>1, <1>4, <1>7

\* A function on the first n numbers is a sequence.
LEMMA FunSeq ==
  ASSUME NEW S, NEW n \in Nat, NEW m \in [1..n -> S]
  PROVE  m \in Seq(S) /\ Len(m) = n
  BY SMT

\* The bytes that a request writes.
LEMMA MineIs ==
  ASSUME Types, NEW j \in Job
  PROVE  /\ Mine(j) \in Seq(Byte) /\ Len(Mine(j)) = req[j].size
         /\ \A i \in 1..req[j].size : /\ Mine(j)[i] = [file |-> req[j].file, pos |-> req[j].pos + i - 1, by |-> j]
                                      /\ Mine(j)[i] \in Byte
<1>1. PICK z, p, f : z = req[j].size /\ p = req[j].pos /\ f = req[j].file
  OBVIOUS
<1>2. z \in Nat /\ p \in Nat /\ f \in File
  BY <1>1, RequestIs DEF Types
<1>3. \A i \in 1..z : p + i - 1 \in Nat
  BY <1>2, SMT
<1>4. Mine(j) = [i \in 1..z |-> [file |-> f, pos |-> p + i - 1, by |-> j]]
  BY <1>1 DEF Mine
<1>5. \A i \in 1..z : [file |-> f, pos |-> p + i - 1, by |-> j] \in Byte
  BY <1>2, <1>3, SMT DEF Byte
<1>6. /\ Mine(j) \in Seq(Byte) /\ Len(Mine(j)) = z
      /\ \A i \in 1..z : Mine(j)[i] = [file |-> f, pos |-> p + i - 1, by |-> j]
  <2>1. Mine(j) \in [1..z -> Byte]
    BY <1>4, <1>5
  <2>2. \A i \in 1..z : Mine(j)[i] = [file |-> f, pos |-> p + i - 1, by |-> j]
    BY <1>4
  <2> QED
    BY <1>2, <2>1, <2>2, FunSeq
<1> QED
  BY <1>1, <1>5, <1>6

\* Those that a read gets in place of its bytes.
LEMMA GarbledIs ==
  ASSUME Types, NEW j \in Job
  PROVE  /\ Garbled(j) \in Seq(Byte) /\ Len(Garbled(j)) = req[j].size /\ <<Garbled(j)[1]>> \in Seq(Byte)
         /\ \A i \in 1..req[j].size : Garbled(j)[i] = [file |-> req[j].file, pos |-> req[j].pos + i - 1, by |-> Noise]
<1>1. PICK z, p, f : z = req[j].size /\ p = req[j].pos /\ f = req[j].file
  OBVIOUS
<1>2. z \in Nat /\ p \in Nat /\ f \in File /\ z >= 1
  BY <1>1, RequestIs DEF Types
<1>3. (\A i \in 1..z : p + i - 1 \in Nat) /\ 1 \in 1..z
  BY <1>2, SMT
<1>4. Garbled(j) = [i \in 1..z |-> [file |-> f, pos |-> p + i - 1, by |-> Noise]]
  BY <1>1 DEF Garbled
<1>5. \A i \in 1..z : [file |-> f, pos |-> p + i - 1, by |-> Noise] \in Byte
  BY <1>2, <1>3, SMT DEF Byte
<1>6. Garbled(j) \in [1..z -> Byte]
  BY <1>4, <1>5
<1>7. \A i \in 1..z : Garbled(j)[i] = [file |-> f, pos |-> p + i - 1, by |-> Noise]
  BY <1>4
<1>8. Garbled(j) \in Seq(Byte) /\ Len(Garbled(j)) = z
  BY <1>2, <1>6, FunSeq
<1>9. PICK x : x = Garbled(j)[1]
  OBVIOUS
<1>10. x \in Byte
  BY <1>3, <1>6, <1>9
<1>11. <<x>> \in Seq(Byte)
  BY <1>10, SMT
<1> QED
  BY <1>1, <1>7, <1>8, <1>9, <1>11

\* What a read has to cache and is told when the storage answers.
ToCache(j, ok) == IF ok THEN Stored(j) ELSE Garbled(j)

Told(j, ok) == IF reply[j] # <<>> THEN reply[j] ELSE IF ok THEN Stored(j) ELSE <<Garbled(j)[1]>>

\* The storage answers a read.
LEMMA DiskReadKeeps ==
  ASSUME CacheInv, NEW j \in Job, NEW who, NEW ok \in BOOLEAN, DiskRead(j, who, ok)
  PROVE  CacheInv'
<1>1. /\ Types /\ Placed(j) /\ MutexOK /\ ListAccounted
      /\ UNCHANGED <<req, threads, disk, caching_map, lru, cur_size, via, todo, blocks, committed>>
      /\ data' = [data EXCEPT ![j] = ToCache(j, ok)] /\ Goto(j, "fill")
  BY DEF CacheInv, DiskRead, Answered, cacheVars, ToCache
<1>2. /\ pc' \in [Job -> Label] /\ pc'[j] = "fill" /\ \A k \in Job : k # j => pc'[k] = pc[k]
  BY <1>1, GotoIs DEF Label
<1>3. reply' = [reply EXCEPT ![j] = Told(j, ok)]
  BY DEF DiskRead, Told
<1>4. /\ data \in [Job -> Seq(Byte)] /\ reply \in [Job -> Seq(Byte)]
      /\ ToCache(j, ok) \in Seq(Byte) /\ Len(ToCache(j, ok)) = req[j].size /\ Told(j, ok) \in Seq(Byte)
  BY <1>1, StoredIs, GarbledIs DEF Types, ToCache, Told
<1>5. data' \in [Job -> Seq(Byte)] /\ data'[j] = ToCache(j, ok) /\ \A k \in Job : k # j => data'[k] = data[k]
  BY <1>1, <1>4, PutAt
<1>6. reply' \in [Job -> Seq(Byte)]
  BY <1>3, <1>4, PutAt
<1>7. Types'
  BY <1>1, <1>2, <1>5, <1>6 DEF Types
<1>8. Placed(j)'
  BY <1>1, <1>2, <1>4, <1>5 DEF Placed, Reading
<1>9. \A k \in Job : k # j => Stays(k)
  BY <1>1, <1>2, <1>5 DEF Stays
<1>10. \A k \in Job : Placed(k)'
  BY <1>1, <1>8, <1>9, StaysPlaced DEF KeepsBlocks, CacheInv
<1> QED
  BY <1>1, <1>2, <1>7, <1>9, <1>10, ListStays DEF CacheInv

\* The storage answers a write.
LEMMA DiskWriteKeeps ==
  ASSUME CacheInv, NEW j \in Job, NEW who, NEW ok \in BOOLEAN, DiskWrite(j, who, ok)
  PROVE  CacheInv'
<1> DEFINE at == {p \in 0..(req[j].size - 1) : ok}
           f == req[j].file
<1>1. /\ Types /\ Placed(j) /\ MutexOK /\ ListAccounted
      /\ UNCHANGED <<req, threads, caching_map, lru, cur_size, via, todo, blocks, reply>>
      /\ data' = [data EXCEPT ![j] = Mine(j)] /\ Goto(j, "fill")
      /\ disk' = [disk EXCEPT ![f] = [p \in DOMAIN @ |-> IF p \in at THEN Mine(j)[p + 1] ELSE @[p]]]
      /\ committed' = [committed EXCEPT ![f] = [p \in DOMAIN @ |-> IF p \in at THEN @[p] \cup {j} ELSE @[p]]]
  BY DEF CacheInv, DiskWrite, Answered, cacheVars
<1>2. /\ pc' \in [Job -> Label] /\ pc'[j] = "fill" /\ \A k \in Job : k # j => pc'[k] = pc[k]
  BY <1>1, GotoIs DEF Label
<1>3. /\ data \in [Job -> Seq(Byte)] /\ f \in File /\ req[j].size \in Nat
      /\ Mine(j) \in Seq(Byte) /\ Len(Mine(j)) = req[j].size
      /\ \A i \in 1..req[j].size : Mine(j)[i] \in Byte
  BY <1>1, MineIs, RequestIs DEF Types
<1>4. /\ data' \in [Job -> Seq(Byte)] /\ data'[j] = Mine(j) /\ \A k \in Job : k # j => data'[k] = data[k]
  BY <1>1, <1>3, PutAt
<1>5. \A p \in at : Mine(j)[p + 1] \in Byte
  <2>1. \A p \in 0..(req[j].size - 1) : p + 1 \in 1..req[j].size
    BY <1>3, SMT
  <2> QED
    BY <1>3, <2>1
<1> HIDE DEF at, f
<1>6. disk' \in [File -> [0..(FileSize - 1) -> Byte]]
  <2>1. disk \in [File -> [0..(FileSize - 1) -> Byte]]
    BY <1>1 DEF Types
  <2>2. PICK g : g = [p \in DOMAIN disk[f] |-> IF p \in at THEN Mine(j)[p + 1] ELSE disk[f][p]]
    OBVIOUS
  <2>3. g \in [0..(FileSize - 1) -> Byte]
    BY <1>3, <1>5, <2>1, <2>2
  <2>4. disk' = [disk EXCEPT ![f] = g]
    BY <1>1, <2>2
  <2> QED
    BY <1>3, <2>1, <2>3, <2>4
<1>7. committed' \in [File -> [0..(FileSize - 1) -> SUBSET (Job \cup {Nobody})]]
  <2>1. committed \in [File -> [0..(FileSize - 1) -> SUBSET (Job \cup {Nobody})]]
    BY <1>1 DEF Types
  <2>2. PICK g : g = [p \in DOMAIN committed[f] |-> IF p \in at THEN committed[f][p] \cup {j} ELSE committed[f][p]]
    OBVIOUS
  <2>3. g \in [0..(FileSize - 1) -> SUBSET (Job \cup {Nobody})]
    <3>1. PICK h, S : h = committed[f] /\ S = Job \cup {Nobody}
      OBVIOUS
    <3>2. h \in [0..(FileSize - 1) -> SUBSET S] /\ j \in S
      BY <1>3, <2>1, <3>1
    <3>3. \A p \in 0..(FileSize - 1) : h[p] \cup {j} \in SUBSET S
      BY <3>2
    <3> QED
      BY <2>2, <3>1, <3>2, <3>3
  <2>4. committed' = [committed EXCEPT ![f] = g]
    BY <1>1, <2>2
  <2> QED
    BY <1>3, <2>1, <2>3, <2>4
<1>8. Types'
  BY <1>1, <1>2, <1>4, <1>6, <1>7 DEF Types
<1>9. Placed(j)'
  BY <1>1, <1>2, <1>3, <1>4 DEF Placed, Reading
<1>10. \A k \in Job : k # j => Stays(k)
  BY <1>1, <1>2, <1>4 DEF Stays
<1>11. \A k \in Job : Placed(k)'
  BY <1>1, <1>9, <1>10, StaysPlaced DEF KeepsBlocks, CacheInv
<1> QED
  BY <1>1, <1>2, <1>8, <1>10, <1>11, ListStays DEF CacheInv

\* write_to_cache begins.
LEMMA FillKeeps ==
  ASSUME CacheInv, NEW j \in Job, Fill(j)
  PROVE  CacheInv'
<1>1. PICK v : v = IF Key(j) \in DOMAIN caching_map THEN "update" ELSE "first"
  OBVIOUS
<1>2. /\ Types /\ Placed(j) /\ MutexOK /\ ListAccounted /\ pc[j] = "fill"
      /\ UNCHANGED <<req, threads, disk, caching_map, lru, cur_size, data, reply, committed>> /\ blocks' = [blocks EXCEPT ![j] = Empty]
      /\ via' = [via EXCEPT ![j] = v] /\ todo' = [todo EXCEPT ![j] = BlockIds(j)] /\ Goto(j, "set")
  BY <1>1 DEF CacheInv, Fill, cacheVars
<1>3. /\ pc' \in [Job -> Label] /\ pc'[j] = "set" /\ \A k \in Job : k # j => pc'[k] = pc[k]
  BY <1>2, GotoIs DEF Label
<1>4. /\ via \in [Job -> Loop] /\ todo \in [Job -> Seq(Nat)] /\ BlockIds(j) \in Seq(Nat)
      /\ v \in Loop /\ v # "read"
  BY <1>1, <1>2, IdsAre DEF Types, Loop
<1>5. /\ via' \in [Job -> Loop] /\ via'[j] = v /\ \A k \in Job : k # j => via'[k] = via[k]
  BY <1>2, <1>4, PutAt
<1>6. /\ todo' \in [Job -> Seq(Nat)] /\ todo'[j] = BlockIds(j) /\ \A k \in Job : k # j => todo'[k] = todo[k]
  BY <1>2, <1>4, PutAt
<1>7. Types'
  <2>1. IsBlockMap(Empty)
    BY DEF IsBlockMap, Empty
  <2>2. DOMAIN blocks' = Job /\ \A k \in Job : IsBlockMap(blocks'[k])
    BY <1>2, <2>1 DEF Types
  <2> QED
    BY <1>2, <1>3, <1>5, <1>6, <2>2 DEF Types
<1>8. Going(j)' /\ todo'[j] # <<>>
  BY <1>2, <1>6, Begins
<1>9. Placed(j)'
  BY <1>2, <1>3, <1>4, <1>5, <1>8 DEF Placed, Reading
<1>10. \A k \in Job : k # j => Stays(k)
  BY <1>2, <1>3, <1>5, <1>6 DEF Stays
<1>11. \A k \in Job : Placed(k)'
  BY <1>2, <1>9, <1>10, StaysPlaced DEF KeepsBlocks, CacheInv
<1> QED
  BY <1>2, <1>3, <1>7, <1>10, <1>11, ListStays DEF CacheInv

\* A block is emplaced.
LEMMA EmplaceMap ==
  ASSUME Types, NEW j \in Job, Placed(j), Emplace(j)
  PROVE  /\ IsCache(caching_map') /\ DOMAIN caching_map' = DOMAIN caching_map
         /\ \A d \in DOMAIN caching_map : d # Key(j) => caching_map'[d] = caching_map[d]
         /\ Key(j) \in DOMAIN caching_map =>
               \/ caching_map'[Key(j)] = caching_map[Key(j)]
               \/ Gains(caching_map[Key(j)], caching_map'[Key(j)], Head(todo[j]), Chunk(j, Head(todo[j])))
<1>1. PICK d, b, s : d = Key(j) /\ b = Head(todo[j]) /\ s = Chunk(j, Head(todo[j]))
  OBVIOUS
<1>2. Going(j) /\ todo[j] # <<>> /\ pc[j] = "emplace" /\ via[j] # "read"
  BY DEF Placed, Emplace
<1>3. b \in Nat /\ s \in Content /\ IsCache(caching_map)
  BY <1>1, <1>2, AtBlock, ChunkTyped DEF Types
<1>4. CASE d \in DOMAIN caching_map /\ b \notin DOMAIN caching_map[d]
  <2>1. PICK w : w = Plus(caching_map[d], b, s)
    OBVIOUS
  <2>2. IsBlockMap(caching_map[d])
    BY <1>3, <1>4 DEF IsCache
  <2>3. IsBlockMap(w) /\ Gains(caching_map[d], w, b, s)
    BY <1>3, <2>1, <2>2, PlusIs
  <2>4. caching_map' = [caching_map EXCEPT ![d] = w]
    BY <1>1, <1>4, <2>1 DEF Emplace, Plus
  <2>5. /\ DOMAIN caching_map' = DOMAIN caching_map /\ caching_map'[d] = w
        /\ \A x \in DOMAIN caching_map : x # d => caching_map'[x] = caching_map[x]
    BY <1>4, <2>4
  <2>6. IsCache(caching_map')
    BY <1>3, <2>3, <2>5 DEF IsCache
  <2> QED
    BY <1>1, <2>3, <2>5, <2>6
<1>5. CASE ~(d \in DOMAIN caching_map /\ b \notin DOMAIN caching_map[d])
  <2>1. caching_map' = caching_map
    BY <1>1, <1>5 DEF Emplace
  <2> QED
    BY <1>3, <2>1
<1> QED
  BY <1>4, <1>5

\* write_to_cache emplaces a block, or finds it there, and goes on.
LEMMA EmplaceKeeps ==
  ASSUME CacheInv, NEW j \in Job, Emplace(j)
  PROVE  CacheInv'
<1>1. PICK l : l = IF Len(todo[j]) = 1 THEN "done" ELSE "set"
  OBVIOUS
<1>2. /\ Types /\ Placed(j) /\ MutexOK /\ ListAccounted /\ pc[j] = "emplace" /\ ~Shared(Key(j))
      /\ UNCHANGED <<req, threads, disk, lru, cur_size, via, data, blocks, reply, committed>>
      /\ todo' = [todo EXCEPT ![j] = Tail(todo[j])] /\ Goto(j, l)
  BY <1>1 DEF CacheInv, Emplace
<1>3. /\ IsCache(caching_map') /\ DOMAIN caching_map' = DOMAIN caching_map
      /\ \A d \in DOMAIN caching_map : d # Key(j) => caching_map'[d] = caching_map[d]
  BY <1>2, EmplaceMap
<1>4. l \in Label /\ l # "evict" /\ l \in {"done", "set"}
  BY <1>1 DEF Label
<1>5. pc' \in [Job -> Label] /\ pc'[j] = l /\ \A k \in Job : k # j => pc'[k] = pc[k]
  BY <1>2, <1>4, GotoIs
<1>6. Going(j) /\ todo[j] # <<>> /\ todo \in [Job -> Seq(Nat)] /\ via[j] = "update" /\ Len(data[j]) = req[j].size
  BY <1>2 DEF Placed, Types
<1>7. Tail(todo[j]) \in Seq(Nat) /\ (Len(todo[j]) = 1 <=> Tail(todo[j]) = <<>>)
  BY <1>6, TailIs
<1>8. todo' \in [Job -> Seq(Nat)] /\ todo'[j] = Tail(todo[j]) /\ \A k \in Job : k # j => todo'[k] = todo[k]
  BY <1>2, <1>6, <1>7, PutAt
<1>9. Types'
  BY <1>2, <1>3, <1>5, <1>8 DEF Types
<1>10. Going(j)'
  BY <1>2, <1>6, <1>8, GoesOn
<1>11. Placed(j)'
  BY <1>1, <1>2, <1>4, <1>5, <1>6, <1>7, <1>8, <1>10 DEF Placed, Reading
<1>12. \A k \in Job : k # j => Stays(k)
  BY <1>2, <1>5, <1>8 DEF Stays
<1>13. ASSUME NEW k \in Job, k # j PROVE Placed(k)'
  <2>1. Reading(k) => Key(k) # Key(j)
    BY <1>2 DEF Shared
  <2>2. Reading(k) => KeepsBlocks(Key(k))
    BY <1>3, <2>1 DEF KeepsBlocks
  <2> QED
    BY <1>2, <1>12, <1>13, <2>2, StaysPlaced DEF CacheInv
<1>14. MutexOK' /\ ListAccounted'
  BY <1>2, <1>4, <1>5, <1>12, ListStays
<1> QED
  BY <1>9, <1>11, <1>13, <1>14 DEF CacheInv

\* The new map of a directory is emplaced.
LEMMA PublishMap ==
  ASSUME Types, NEW j \in Job, Publish(j)
  PROVE  /\ IsCache(caching_map') /\ DOMAIN caching_map' = DOMAIN caching_map \cup {Key(j)}
         /\ \A d \in DOMAIN caching_map : caching_map'[d] = caching_map[d]
         /\ Key(j) \notin DOMAIN caching_map => caching_map'[Key(j)] = blocks[j]
<1>1. Key(j) \in Dir /\ IsBlockMap(blocks[j]) /\ IsCache(caching_map)
  BY RequestIs DEF Types, Key
<1>2. CASE Key(j) \in DOMAIN caching_map
  BY <1>1, <1>2 DEF Publish
<1>3. CASE Key(j) \notin DOMAIN caching_map
  <2>1. PICK d : d = Key(j)
    OBVIOUS
  <2>2. caching_map' = [x \in DOMAIN caching_map \cup {d} |-> IF x = d THEN blocks[j] ELSE caching_map[x]]
    BY <1>3, <2>1 DEF Publish
  <2>3. DOMAIN caching_map' = DOMAIN caching_map \cup {d} /\ caching_map'[d] = blocks[j]
    BY <2>2
  <2>4. \A x \in DOMAIN caching_map : caching_map'[x] = caching_map[x]
    BY <1>3, <2>1, <2>2
  <2>5. IsCache(caching_map')
    BY <1>1, <2>1, <2>3, <2>4 DEF IsCache
  <2> QED
    BY <2>1, <2>3, <2>4, <2>5
<1> QED
  BY <1>2, <1>3

\* write_to_cache emplaces its map of blocks.
LEMMA PublishKeeps ==
  ASSUME CacheInv, NEW j \in Job, Publish(j)
  PROVE  CacheInv'
<1>1. /\ Types /\ Placed(j) /\ MutexOK /\ ListAccounted /\ pc[j] = "publish" /\ Goto(j, "done")
      /\ UNCHANGED <<req, threads, disk, lru, cur_size, via, todo, data, blocks, reply, committed>>
  BY DEF CacheInv, Publish
<1>2. IsCache(caching_map') /\ \A d : KeepsBlocks(d)
  BY <1>1, PublishMap DEF KeepsBlocks
<1>3. pc' \in [Job -> Label] /\ pc'[j] = "done" /\ \A k \in Job : k # j => pc'[k] = pc[k]
  BY <1>1, GotoIs DEF Label
<1>4. Types'
  BY <1>1, <1>2, <1>3 DEF Types
<1>5. Placed(j)'
  BY <1>1, <1>3 DEF Placed, Reading
<1>6. \A k \in Job : k # j => Stays(k)
  BY <1>1, <1>3 DEF Stays
<1>7. \A k \in Job : Placed(k)'
  BY <1>1, <1>2, <1>5, <1>6, StaysPlaced DEF CacheInv
<1> QED
  BY <1>1, <1>3, <1>4, <1>6, <1>7, ListStays DEF CacheInv

\* At the start the list is empty and nobody reads.
LEMMA InitCache ==
  ASSUME ListSums, Init
  PROVE  CacheInv
<1>1. <<>> \in Seq(Byte) /\ <<>> \in Seq(Nat) /\ <<>> \in Seq(Entry) /\ DOMAIN <<>> = {}
  BY SMT
<1>2. DOMAIN Empty = {} /\ IsBlockMap(Empty) /\ IsCache(Empty)
  BY DEF Empty, IsBlockMap, IsCache
<1>3. disk \in [File -> [0..(FileSize - 1) -> Byte]]
  <2>1. \A f \in File, p \in 0..(FileSize - 1) : [file |-> f, pos |-> p, by |-> Nobody] \in Byte
    BY BlockCacheAssumption, SMT DEF Byte
  <2> QED
    BY <2>1 DEF Init
<1>4. committed \in [File -> [0..(FileSize - 1) -> SUBSET (Job \cup {Nobody})]]
  BY DEF Init
<1>5. 0 \in Nat /\ 0 <= Cap
  BY BlockCacheAssumption, SMT
<1>6. Types
  BY <1>1, <1>2, <1>3, <1>4, <1>5 DEF Types, Init, Label, Loop
<1>7. \A j \in Job : Placed(j)
  BY DEF Placed, Init, Reading
<1>8. MutexOK
  BY DEF MutexOK, Init
<1>9. ListAccounted
  BY <1>1, <1>5 DEF ListSums, ListAccounted, Init
<1> QED
  BY <1>6, <1>7, <1>8, <1>9 DEF CacheInv

\* Every step keeps the invariant.
LEMMA StepCache ==
  ASSUME ListSums, CacheInv, [Next]_vars
  PROVE  CacheInv'
<1>1. ASSUME NEW j \in Job, Step(j) PROVE CacheInv'
  BY <1>1, StartKeeps, HitKeeps, FoundKeeps, MissKeeps, SetBeginKeeps, EvictKeeps, SetEndKeeps,
     DiskReadKeeps, DiskWriteKeeps, FillKeeps, EmplaceKeeps, PublishKeeps DEF Step
<1>2. CASE UNCHANGED vars
  <2>1. UNCHANGED <<req, threads, disk, caching_map, lru, cur_size, pc, via, todo, data, blocks, reply, committed>>
    BY <1>2 DEF vars, cacheVars
  <2>2. Types' /\ MutexOK' /\ ListAccounted'
    BY <2>1 DEF CacheInv, Types, MutexOK, ListAccounted, HasNode, Key, SameBlock
  <2>3. \A k \in Job : Placed(k)'
    BY <2>1, StaysPlaced DEF CacheInv, Stays, KeepsBlocks
  <2> QED
    BY <2>2, <2>3 DEF CacheInv
<1> QED
  BY <1>1, <1>2 DEF Next

-----------------------------------------------------------------------------
\* A request that makes a new map: its blocks so far are at the head of the list,
\* each full but, later, the last.
Heading(j) ==
    /\ Passed(j) <= Len(lru)
    /\ \A i \in 1..Passed(j) :
          lru[i] = [key |-> Key(j), block |-> BlockIds(j)[Passed(j) + 1 - i], size |-> BlockSize]
    /\ DOMAIN blocks[j] \subseteq {BlockIds(j)[i] : i \in 1..Passed(j)}

\* A block that is emplaced or published has its node.
Laid(j) ==
    /\ via[j] # "first" => DOMAIN blocks[j] = {}
    /\ pc[j] = "emplace" => HasNode(Key(j), Head(todo[j]))
    /\ pc[j] \in {"set", "evict"} /\ via[j] = "first" => Heading(j)
    /\ pc[j] = "publish" => \A b \in DOMAIN blocks[j] : HasNode(Key(j), b)

\* The mutex holder's block is in the map and has no node.
BeingSet(d, b) == \E j \in Job : pc[j] = "evict" /\ Key(j) = d /\ Head(todo[j]) = b

\* One thread, and no request larger than the cache.
Single == threads = 1 /\ \A j \in Job : req[j].size <= Cap

OneRuns == \A j, k \in Job : Running(j) /\ Running(k) => j = k

\* Every cached block has a node, but the one that is being set.
Listed ==
    \A d \in DOMAIN caching_map : \A b \in DOMAIN caching_map[d] : HasNode(d, b) \/ BeingSet(d, b)

\* Together: the inductive invariant of one thread.
OneThread ==
    /\ IsFiniteSet({j \in Job : Running(j)})
    /\ Single => OneRuns /\ (\A j \in Job : Laid(j)) /\ Listed

\* The storage answers.
DiskStep(j) ==
    \E who \in {"servers", "timer"}, ok \in BOOLEAN : DiskRead(j, who, ok) \/ DiskWrite(j, who, ok)

\* The part of a step that concerns which requests run.
LEMMA OthersRest ==
  ASSUME CacheInv, NEW j \in Job, Step(j)
  PROVE  /\ req' = req /\ threads' = threads
         /\ \A k \in Job : k # j => pc'[k] = pc[k] /\ via'[k] = via[k] /\ blocks'[k] = blocks[k]
<1>1. Types
  BY DEF CacheInv
<1>2. DOMAIN pc = Job /\ DOMAIN via = Job /\ DOMAIN blocks = Job
  BY <1>1 DEF Types
<1>3. ASSUME Start(j) \/ Hit(j) \/ Found(j) \/ Miss(j) \/ SetBegin(j) \/ Evict(j)
             \/ Emplace(j) \/ Publish(j) \/ DiskStep(j)
      PROVE  req' = req /\ threads' = threads /\ via' = via /\ blocks' = blocks
  BY <1>3 DEF Start, Hit, Found, Miss, SetBegin, Evict, DiskStep, DiskRead, DiskWrite, Emplace, Publish
<1>4. ASSUME Fill(j)
      PROVE  /\ req' = req /\ threads' = threads
             /\ \A k \in Job : k # j => via'[k] = via[k] /\ blocks'[k] = blocks[k]
  BY <1>2, <1>4 DEF Fill
<1>5. ASSUME SetEnd(j)
      PROVE  req' = req /\ threads' = threads /\ via' = via /\ \A k \in Job : k # j => blocks'[k] = blocks[k]
  BY <1>2, <1>5 DEF SetEnd
<1>6. \A k \in Job : k # j => pc'[k] = pc[k]
  BY <1>2 DEF Step, Start, Hit, Found, Miss, SetBegin, Evict, DiskRead, DiskWrite, Answered, Emplace, Publish, Fill, SetEnd, Goto
<1> QED
  BY <1>3, <1>4, <1>5, <1>6 DEF Step, DiskStep

\* On one thread, a request takes a step when no other runs.
LEMMA OthersIdle ==
  ASSUME FiniteSetFacts, CacheInv, OneThread, Single, NEW j \in Job, Step(j)
  PROVE  \A k \in Job : k # j => ~Running(k)
<1>1. OneRuns /\ IsFiniteSet({k \in Job : Running(k)}) /\ threads = 1
  BY DEF OneThread, Single
<1>2. CASE Running(j)
  BY <1>1, <1>2 DEF OneRuns
<1>3. CASE ~Running(j)
  <2>1. Free
    BY <1>3 DEF Step, Start, Hit, Found, Miss, SetBegin, Evict, DiskRead, DiskWrite, Answered, Emplace, Publish, Fill, SetEnd, Running
  <2>2. PICK R : R = {k \in Job : Running(k)}
    OBVIOUS
  <2>3. IsFiniteSet(R) /\ Cardinality(R) < 1
    BY <1>1, <2>1, <2>2 DEF Free
  <2>4. Cardinality(R) \in Nat /\ (Cardinality(R) = 0 => R = {})
    BY <2>3 DEF FiniteSetFacts
  <2>5. R = {}
    BY <2>3, <2>4, SMT
  <2> QED
    BY <2>2, <2>5
<1> QED
  BY <1>2, <1>3

\* The requests that run stay finitely many.
LEMMA FiniteRunning ==
  ASSUME FiniteSetFacts, CacheInv, IsFiniteSet({k \in Job : Running(k)}), NEW j \in Job, Step(j)
  PROVE  IsFiniteSet({k \in Job : Running(k)})'
<1>1. PICK R, Q : R = {k \in Job : Running(k)} /\ Q = {k \in Job : Running(k)'}
  OBVIOUS
<1>2. Q \subseteq R \cup {j}
  BY <1>1, OthersRest DEF Running
<1>3. IsFiniteSet(Q)
  BY <1>1, <1>2 DEF FiniteSetFacts
<1> QED
  BY <1>1, <1>3

\* So only the one request matters.
LEMMA OnlyMine ==
  ASSUME FiniteSetFacts, CacheInv, OneThread, NEW j \in Job, Step(j), Single => Laid(j)' /\ Listed'
  PROVE  OneThread'
<1>1. IsFiniteSet({k \in Job : Running(k)})'
  BY FiniteRunning DEF OneThread
<1>2. ASSUME Single' PROVE OneRuns' /\ (\A k \in Job : Laid(k)') /\ Listed'
  <2>1. Single
    BY <1>2, OthersRest DEF Single
  <2>2. \A k \in Job : k # j => ~Running(k) /\ ~Running(k)'
    BY <2>1, OthersIdle, OthersRest DEF Running
  <2>3. OneRuns'
    BY <2>2 DEF OneRuns
  <2>4. ASSUME NEW k \in Job, k # j PROVE Laid(k)'
    <3>1. Laid(k)
      BY <2>1 DEF OneThread
    <3>2. pc'[k] \notin {"emplace", "set", "evict", "publish"}
      BY <2>2, <2>4 DEF Running
    <3> QED
      BY <2>4, <3>1, <3>2, OthersRest DEF Laid
  <2> QED
    BY <2>1, <2>3, <2>4
<1> QED
  BY <1>1, <1>2 DEF OneThread

\* A step that changes neither the list nor the map keeps all cached blocks listed.
LEMMA SameListed ==
  ASSUME Listed, NEW j \in Job, UNCHANGED <<lru, caching_map>>, ~\E k \in Job : pc[k] = "evict"
  PROVE  Listed'
<1>1. \A d, b : ~BeingSet(d, b) /\ (HasNode(d, b) => HasNode(d, b)')
  BY DEF BeingSet, HasNode
<1> QED
  BY <1>1 DEF Listed

\* Only the request that takes a step may hold the mutex.
LEMMA NoHolder ==
  ASSUME FiniteSetFacts, CacheInv, OneThread, Single, NEW j \in Job, Step(j), pc[j] # "evict"
  PROVE  ~\E k \in Job : pc[k] = "evict"
  BY OthersIdle DEF Running

\* The steps of a request that set no block.
LEMMA QuietThread ==
  ASSUME FiniteSetFacts, CacheInv, OneThread, NEW j \in Job,
         Start(j) \/ Hit(j) \/ Found(j) \/ Miss(j) \/ DiskStep(j)
  PROVE  OneThread'
<1>1. Types /\ Placed(j) /\ Step(j) /\ DOMAIN pc = Job
  BY DEF CacheInv, Types, Step, DiskStep
<1>2. UNCHANGED <<lru, caching_map, via, blocks, req>> /\ pc[j] # "evict"
  BY DEF Start, Hit, Found, Miss, DiskStep, DiskRead, DiskWrite, Answered, cacheVars
<1>3. pc'[j] \in {"lookup", "disk", "done", "set", "fill"}
  BY <1>1 DEF Start, Hit, Found, Miss, DiskStep, DiskRead, DiskWrite, Answered, Goto
<1>4. pc'[j] = "set" => via[j] = "read"
  BY <1>1 DEF Start, Hit, Found, Miss, DiskStep, DiskRead, DiskWrite, Answered, Goto, Placed
<1>5. ASSUME Single PROVE Laid(j)' /\ Listed'
  <2>1. Laid(j) /\ Listed
    BY <1>5 DEF OneThread
  <2>2. Laid(j)'
    BY <1>2, <1>3, <1>4, <2>1 DEF Laid
  <2> QED
    BY <1>1, <1>2, <1>5, <2>1, <2>2, NoHolder, SameListed
<1> QED
  BY <1>1, <1>5, OnlyMine

\* write_to_cache begins with no block.
LEMMA FillThread ==
  ASSUME FiniteSetFacts, CacheInv, OneThread, NEW j \in Job, Fill(j)
  PROVE  OneThread'
<1>1. /\ Types /\ Placed(j) /\ Step(j) /\ pc[j] = "fill" /\ blocks' = [blocks EXCEPT ![j] = Empty]
      /\ UNCHANGED <<lru, caching_map, req>> /\ todo' = [todo EXCEPT ![j] = BlockIds(j)]
  BY DEF CacheInv, Step, Fill, Placed, cacheVars
<1>2. pc'[j] = "set" /\ todo'[j] = BlockIds(j)
  BY <1>1 DEF Types, Fill, Goto
<1>3. ASSUME Single PROVE Laid(j)' /\ Listed'
  <2>1. Laid(j) /\ Listed
    BY <1>3 DEF OneThread
  <2>2. DOMAIN blocks'[j] = {} /\ Passed(j)' = 0
    BY <1>1, <1>2, Begins DEF Types, Empty
  <2>3. Heading(j)'
    <3>1. lru' \in Seq(Entry)
      BY <1>1 DEF Types
    <3>2. 0 <= Len(lru') /\ 1..0 = {}
      BY <3>1, SMT
    <3> QED
      BY <2>2, <3>2 DEF Heading
  <2>4. Laid(j)'
    BY <1>2, <2>2, <2>3 DEF Laid
  <2> QED
    BY <1>1, <1>3, <2>1, <2>4, NoHolder, SameListed
<1> QED
  BY <1>1, <1>3, OnlyMine

\* A place of a list.
LEMMA PlaceIs ==
  ASSUME NEW q \in Seq(Entry), NEW i \in DOMAIN q
  PROVE  Len(q) \in Nat /\ i \in 1..Len(q) /\ i \in Nat /\ i >= 1
  BY SMT

\* Numbers counted back from p + 1.
LEMMA Backwards ==
  ASSUME NEW p \in Nat, NEW i \in Nat, i >= 1, ~(i > p), NEW n \in Nat, p + 1 \in 1..n
  PROVE  i \in 1..p /\ p + 1 - i \in 1..n /\ p + 1 - i # p + 1
  BY SMT

\* set begins: only the node of its own block goes.
LEMMA SetBeginThread ==
  ASSUME ListSums, FiniteSetFacts, CacheInv, OneThread, NEW j \in Job, SetBegin(j)
  PROVE  OneThread'
<1>1. /\ Types /\ Placed(j) /\ Step(j) /\ pc[j] = "set"
      /\ UNCHANGED <<req, caching_map, via, todo, blocks>>
  BY DEF CacheInv, Step, SetBegin
<1>2. pc'[j] = "evict" /\ lru \in Seq(Entry)
  BY <1>1 DEF Types, SetBegin, Goto
<1>3. Passed(j)' = Passed(j) /\ BlockIds(j)' = BlockIds(j) /\ Key(j)' = Key(j)
  BY <1>1 DEF Passed, BlockIds, Key
<1>4. PICK e : e = NewEntry(j)
  OBVIOUS
<1>5. e.key = Key(j) /\ e.block = Head(todo[j])
  BY <1>1, <1>4, NewEntryIs
<1>6. \/ lru' = lru
      \/ \E i \in DOMAIN lru : lru' = deletenode(lru, i) /\ lru[i].key = Key(j) /\ lru[i].block = Head(todo[j])
  BY <1>4, <1>5 DEF SetBegin, Nodes, SameBlock
<1>7. ASSUME NEW i \in DOMAIN lru, lru' = deletenode(lru, i)
      PROVE  \A n \in DOMAIN lru : n # i => \E m \in DOMAIN lru' : lru'[m] = lru[n] /\ (n < i => m = n)
  <2>1. PICK q, t : q = lru /\ t = lru'
    OBVIOUS
  <2>2. /\ t \in Seq(Entry) /\ Len(t) = Len(q) - 1 /\ q \in Seq(Entry) /\ i \in DOMAIN q
        /\ \A m \in 1..(Len(q) - 1) : t[m] = IF m < i THEN q[m] ELSE q[m + 1]
    BY <1>2, <1>7, <2>1, DeletedList
  <2>3. ASSUME NEW n \in DOMAIN q, n # i PROVE \E m \in DOMAIN t : t[m] = q[n] /\ (n < i => m = n)
    <3>1. Len(q) \in Nat /\ n \in 1..Len(q) /\ i \in 1..Len(q) /\ DOMAIN t = 1..(Len(q) - 1)
      BY <2>2, <2>3, SMT
    <3>2. CASE n < i
      <4>1. n \in 1..(Len(q) - 1)
        BY <3>1, <3>2, SMT
      <4> QED
        BY <2>2, <3>1, <3>2, <4>1
    <3>3. CASE ~(n < i)
      <4>1. n - 1 \in 1..(Len(q) - 1) /\ ~(n - 1 < i) /\ (n - 1) + 1 = n
        BY <2>3, <3>1, <3>3, SMT
      <4> QED
        BY <2>2, <3>1, <3>3, <4>1
    <3> QED
      BY <3>2, <3>3
  <2> QED
    BY <2>1, <2>3
<1>8. \A d, b : HasNode(d, b) => HasNode(d, b)' \/ (d = Key(j) /\ b = Head(todo[j]))
  <2> SUFFICES ASSUME NEW d, NEW b, NEW n \in DOMAIN lru, lru[n].key = d, lru[n].block = b,
                      ~(d = Key(j) /\ b = Head(todo[j]))
               PROVE  \E m \in DOMAIN lru' : lru'[m].key = d /\ lru'[m].block = b
    BY DEF HasNode
  <2>1. CASE lru' = lru
    BY <2>1
  <2>2. ASSUME NEW i \in DOMAIN lru, lru' = deletenode(lru, i), lru[i].key = Key(j), lru[i].block = Head(todo[j])
        PROVE  \E m \in DOMAIN lru' : lru'[m].key = d /\ lru'[m].block = b
    <3>1. n # i
      BY <2>2
    <3>2. PICK m \in DOMAIN lru' : lru'[m] = lru[n]
      BY <1>7, <2>2, <3>1
    <3> QED
      BY <3>2
  <2> QED
    BY <1>6, <2>1, <2>2
<1>9. ASSUME Single PROVE Laid(j)' /\ Listed'
  <2>1. Laid(j) /\ Listed /\ ~\E k \in Job : pc[k] = "evict"
    BY <1>1, <1>9, NoHolder DEF OneThread
  <2>2. Listed'
    <3>1. \A d \in DOMAIN caching_map : \A b \in DOMAIN caching_map[d] : HasNode(d, b)
      BY <2>1 DEF Listed, BeingSet
    <3>2. BeingSet(Key(j), Head(todo[j]))'
      BY <1>1, <1>2, <1>3 DEF BeingSet
    <3>3. \A d \in DOMAIN caching_map : \A b \in DOMAIN caching_map[d] : HasNode(d, b)' \/ BeingSet(d, b)'
      BY <1>1, <1>3, <1>8, <3>1, <3>2
    <3> QED
      BY <1>1, <3>3 DEF Listed
  <2>3. ASSUME via[j] = "first" PROVE Heading(j)'
    <3>1. Heading(j)
      BY <1>1, <2>1, <2>3 DEF Laid
    <3>2. /\ Going(j) /\ todo[j] # <<>>
      BY <1>1 DEF Placed
    <3>3. CASE lru' = lru
      BY <1>1, <1>3, <3>1, <3>3 DEF Heading
    <3>4. ASSUME NEW i \in DOMAIN lru, lru' = deletenode(lru, i), lru[i].key = Key(j), lru[i].block = Head(todo[j])
          PROVE  Heading(j)'
      <4>1. PICK p, q, t : p = Passed(j) /\ q = lru /\ t = lru'
        OBVIOUS
      <4>2. /\ t \in Seq(Entry) /\ Len(t) = Len(q) - 1 /\ q \in Seq(Entry) /\ i \in DOMAIN q
            /\ \A m \in 1..(Len(q) - 1) : t[m] = IF m < i THEN q[m] ELSE q[m + 1]
        BY <1>2, <3>4, <4>1, DeletedList
      <4>3. /\ p \in Nat /\ p + 1 \in 1..Len(BlockIds(j)) /\ Head(todo[j]) = BlockIds(j)[p + 1]
            /\ \A m \in 1..Len(BlockIds(j)) : BlockIds(j)[m] = (req[j].pos \div BlockSize) + m - 1
            /\ req[j].pos \div BlockSize \in Nat /\ Len(BlockIds(j)) \in Nat
        BY <1>1, <3>2, <4>1, AtBlock, IdsAre DEF Types
      <4>4. /\ p <= Len(q)
            /\ \A m \in 1..p : q[m] = [key |-> Key(j), block |-> BlockIds(j)[p + 1 - m], size |-> BlockSize]
        BY <3>1, <4>1 DEF Heading
      <4>5. i > p
        <5> SUFFICES ASSUME ~(i > p) PROVE FALSE
          OBVIOUS
        <5>1. i \in 1..p /\ p + 1 - i \in 1..Len(BlockIds(j)) /\ p + 1 - i # p + 1
          <6>1. PICK n : n = Len(BlockIds(j))
            OBVIOUS
          <6>2. p + 1 \in 1..n /\ p \in Nat /\ n \in Nat
            BY <4>3, <6>1
          <6>3. i \in Nat /\ i >= 1
            BY <4>2, PlaceIs
          <6>4. i \in 1..p /\ p + 1 - i \in 1..n /\ p + 1 - i # p + 1
            BY <6>2, <6>3, Backwards
          <6> QED
            BY <6>1, <6>4
        <5>2. q[i] = [key |-> Key(j), block |-> BlockIds(j)[p + 1 - i], size |-> BlockSize]
          BY <4>4, <5>1
        <5>3. q[i].block = BlockIds(j)[p + 1 - i]
          BY <5>2, SMT
        <5>4. BlockIds(j)[p + 1] = BlockIds(j)[p + 1 - i]
          BY <3>4, <4>1, <4>3, <5>3
        <5>5. (req[j].pos \div BlockSize) + (p + 1) - 1 = (req[j].pos \div BlockSize) + (p + 1 - i) - 1
          BY <4>3, <5>1, <5>4
        <5>6. PICK a : a = req[j].pos \div BlockSize
          OBVIOUS
        <5>7. a \in Nat /\ a + (p + 1) - 1 = a + (p + 1 - i) - 1 /\ i \in Nat
          <6>1. i \in Nat
            BY <5>1, SMT
          <6> QED
            BY <4>3, <5>5, <5>6, <6>1
        <5>8. p \in Nat /\ i >= 1
          BY <4>3, <5>1, SMT
        <5> QED
          BY <5>7, <5>8, SMT
      <4>6. p <= Len(t) /\ \A m \in 1..p : m \in 1..(Len(q) - 1) /\ m < i
        <5>1. Len(q) \in Nat /\ i \in 1..Len(q)
          BY <4>2, PlaceIs
        <5>2. PICK l : l = Len(q)
          OBVIOUS
        <5>3. p \in Nat /\ l \in Nat /\ i \in 1..l
          BY <4>3, <5>1, <5>2
        <5>4. p <= l - 1 /\ \A m \in 1..p : m \in 1..(l - 1) /\ m < i
          BY <4>5, <5>3, SMT
        <5> QED
          BY <4>2, <5>2, <5>4
      <4>7. \A m \in 1..p : t[m] = q[m]
        BY <4>2, <4>6
      <4> QED
        <5>1. Passed(j)' = p /\ lru' = t /\ blocks' = blocks
          BY <1>1, <1>3, <4>1
        <5>2. \A m \in 1..p : t[m] = [key |-> Key(j)', block |-> BlockIds(j)'[p + 1 - m], size |-> BlockSize]
          BY <1>3, <4>4, <4>7
        <5>3. DOMAIN blocks[j] \subseteq {BlockIds(j)'[m] : m \in 1..p}
          BY <1>3, <3>1, <4>1 DEF Heading
        <5> QED
          BY <4>6, <5>1, <5>2, <5>3 DEF Heading
    <3> QED
      BY <1>6, <3>3, <3>4
  <2>4. Laid(j)'
    BY <1>1, <1>2, <2>1, <2>3 DEF Laid
  <2> QED
    BY <2>2, <2>4
<1> QED
  BY <1>1, <1>9, OnlyMine

\* What set is given for a block of a request that makes a new map.
LEMMA FirstEntry ==
  ASSUME Types, NEW j \in Job, Placed(j), pc[j] = "evict", via[j] = "first"
  PROVE  /\ NewEntry(j) = [key |-> Key(j), block |-> BlockIds(j)[Passed(j) + 1], size |-> NewEntry(j).size]
         /\ NewEntry(j).size \in Nat
         /\ Passed(j) * BlockSize + NewEntry(j).size <= req[j].size
         /\ Tail(todo[j]) # <<>> => NewEntry(j).size = BlockSize
<1>1. PICK b, p, z : b = Head(todo[j]) /\ p = Passed(j) /\ z = Len(Chunk(j, b))
  OBVIOUS
<1>2. Going(j) /\ todo[j] # <<>> /\ req \in Loads /\ data[j] \in Seq(Byte) /\ Len(data[j]) = req[j].size
  BY DEF Types, Placed
<1>3. /\ p \in Nat /\ p + 1 \in 1..Len(BlockIds(j)) /\ b = BlockIds(j)[p + 1]
      /\ (p + 1 = Len(BlockIds(j)) <=> Tail(todo[j]) = <<>>)
  BY <1>1, <1>2, AtBlock
<1>4. NewEntry(j) = [key |-> Key(j), block |-> b, size |-> z]
  BY <1>1 DEF NewEntry
<1>5. NewEntry(j).size = z
  BY <1>4, SMT
<1>6. PICK n : n = p + 1
  OBVIOUS
<1>7. n \in 1..Len(BlockIds(j)) /\ b = BlockIds(j)[n]
  BY <1>3, <1>6
<1>8. /\ Chunk(j, b) \in Seq(Byte) /\ (n - 1) * BlockSize + Len(Chunk(j, b)) <= req[j].size
      /\ Len(Chunk(j, b)) = IF n < Len(BlockIds(j)) THEN BlockSize ELSE req[j].size - (n - 1) * BlockSize
  BY <1>2, <1>7, ChunkIs
<1>9. n - 1 = p /\ (n < Len(BlockIds(j)) \/ n = Len(BlockIds(j)))
  <2>1. Len(BlockIds(j)) \in Nat
    BY <1>2, IdsAre
  <2> QED
    BY <1>3, <1>6, <1>7, <2>1, SMT
<1>10. z \in Nat
  BY <1>1, <1>8, SMT
<1>11. p * BlockSize + z <= req[j].size
  BY <1>1, <1>8, <1>9
<1>12. Tail(todo[j]) # <<>> => z = BlockSize
  BY <1>1, <1>3, <1>6, <1>8, <1>9
<1> QED
  BY <1>1, <1>3, <1>4, <1>5, <1>10, <1>11, <1>12

\* A request that is not larger than the cache does not evict its own new blocks.
LEMMA OwnStay ==
  ASSUME ListSums, EvenSums, CacheInv, NEW j \in Job, pc[j] = "evict", via[j] = "first", Heading(j), req[j].size <= Cap,
         cur_size + NewEntry(j).size > Cap
  PROVE  Passed(j) < Len(lru)
<1>1. PICK p, q, z : p = Passed(j) /\ q = lru /\ z = NewEntry(j).size
  OBVIOUS
<1>2. Types /\ Placed(j) /\ q \in Seq(Entry) /\ cur_size = SizeOf(q) /\ cur_size \in Nat
  BY <1>1 DEF CacheInv, Types, ListAccounted
<1>3. z \in Nat /\ p * BlockSize + z <= req[j].size
  BY <1>1, <1>2, FirstEntry
<1>4. p <= Len(q) /\ p \in Nat /\ Len(q) \in Nat /\ DOMAIN q = 1..Len(q)
  <2>1. Going(j)
    BY <1>2 DEF Placed
  <2>2. Len(q) \in Nat /\ DOMAIN q = 1..Len(q)
    BY <1>2, SMT
  <2> QED
    BY <1>1, <2>1, <2>2 DEF Going, Heading
<1>5. SUFFICES ASSUME p = Len(q) PROVE FALSE
  BY <1>1, <1>4, SMT
<1>6. \A i \in DOMAIN q : q[i].size = BlockSize
  <2>1. ASSUME NEW i \in DOMAIN q PROVE q[i].size = BlockSize
    <3>1. q[i] = [key |-> Key(j), block |-> BlockIds(j)[Passed(j) + 1 - i], size |-> BlockSize]
      BY <1>1, <1>4, <1>5 DEF Heading
    <3> QED
      BY <3>1, SMT
  <2> QED
    BY <2>1
<1>7. BlockSize \in Nat
  BY BlockCacheAssumption
<1>8. cur_size = p * BlockSize
  BY <1>2, <1>5, <1>6, <1>7 DEF EvenSums
<1>9. PICK u : u = p * BlockSize
  OBVIOUS
<1>10. u \in Nat /\ req[j].size \in Nat /\ Cap \in Nat
  BY <1>2, <1>8, <1>9, RequestIs, BlockCacheAssumption DEF Types
<1>11. u + z > Cap /\ u + z <= req[j].size
  BY <1>1, <1>3, <1>8, <1>9
<1> QED
  BY <1>3, <1>10, <1>11, SMT

\* A block is evicted: it leaves the list and the map.
LEMMA EvictThread ==
  ASSUME ListSums, EvenSums, FiniteSetFacts, CacheInv, OneThread, NEW j \in Job, Evict(j)
  PROVE  OneThread'
<1>1. PICK v, q : v = lru[Len(lru)] /\ q = lru
  OBVIOUS
<1>2. /\ Types /\ Placed(j) /\ Step(j) /\ pc[j] = "evict" /\ cur_size + NewEntry(j).size > Cap
      /\ caching_map' = Without(caching_map, v.key, v.block) /\ lru' = deletenode(lru, Len(lru))
      /\ UNCHANGED <<req, pc, via, todo, blocks>>
  BY <1>1 DEF CacheInv, Step, Evict
<1>3. q # <<>> /\ q \in Seq(Entry) /\ IsCache(caching_map)
  BY <1>1, <1>2, SomeVictim DEF Types
<1>4. /\ lru' \in Seq(Entry) /\ Len(lru') = Len(q) - 1 /\ Len(q) \in DOMAIN q
      /\ \A i \in 1..(Len(q) - 1) : lru'[i] = q[i]
      /\ v = q[Len(q)]
  BY <1>1, <1>2, <1>3, TailDeleted
<1>5. Len(q) \in Nat /\ \A i \in DOMAIN q : i = Len(q) \/ (i \in 1..(Len(q) - 1) /\ i \in DOMAIN lru')
  BY <1>3, <1>4, SMT
<1>6. Drops(caching_map, caching_map', v.key, v.block)
  BY <1>2, <1>3, WithoutIs
<1>7. \A d, b : HasNode(d, b) /\ ~(d = v.key /\ b = v.block) => HasNode(d, b)'
  <2> SUFFICES ASSUME NEW d, NEW b, NEW n \in DOMAIN q, q[n].key = d, q[n].block = b, ~(d = v.key /\ b = v.block)
               PROVE  \E m \in DOMAIN lru' : lru'[m].key = d /\ lru'[m].block = b
    BY <1>1 DEF HasNode
  <2> QED
    BY <1>4, <1>5
<1>8. Passed(j)' = Passed(j) /\ BlockIds(j)' = BlockIds(j) /\ Key(j)' = Key(j)
  BY <1>2 DEF Passed, BlockIds, Key
<1>9. ASSUME Single PROVE Laid(j)' /\ Listed'
  <2>1. Laid(j) /\ Listed
    BY <1>9 DEF OneThread
  <2>2. ASSUME NEW d \in DOMAIN caching_map', NEW b \in DOMAIN caching_map'[d] PROVE HasNode(d, b)' \/ BeingSet(d, b)'
    <3>1. d \in DOMAIN caching_map /\ b \in DOMAIN caching_map[d] /\ ~(d = v.key /\ b = v.block)
      BY <1>6, <2>2 DEF Drops
    <3>2. HasNode(d, b) \/ BeingSet(d, b)
      BY <2>1, <3>1 DEF Listed
    <3>3. BeingSet(d, b) => BeingSet(d, b)'
      BY <1>2 DEF BeingSet, Key
    <3> QED
      BY <1>7, <3>1, <3>2, <3>3
  <2>3. ASSUME via[j] = "first" PROVE Heading(j)'
    <3>1. Heading(j)
      BY <1>2, <2>1, <2>3 DEF Laid
    <3>2. PICK p : p = Passed(j)
      OBVIOUS
    <3>3. p < Len(q) /\ p \in Nat
      <4>1. Going(j) /\ req[j].size <= Cap
        BY <1>2, <1>9 DEF Placed, Single
      <4> QED
        BY <1>1, <1>2, <2>3, <3>1, <3>2, <4>1, OwnStay DEF Going
    <3>4. p <= Len(lru') /\ \A i \in 1..p : i \in 1..(Len(q) - 1)
      BY <1>4, <1>5, <3>3, SMT
    <3>5. \A i \in 1..p : lru'[i] = [key |-> Key(j)', block |-> BlockIds(j)'[p + 1 - i], size |-> BlockSize]
      BY <1>1, <1>4, <1>8, <3>1, <3>2, <3>4 DEF Heading
    <3>6. DOMAIN blocks'[j] \subseteq {BlockIds(j)'[i] : i \in 1..p}
      BY <1>2, <1>8, <3>1, <3>2 DEF Heading
    <3> QED
      BY <1>8, <3>2, <3>4, <3>5, <3>6 DEF Heading
  <2>4. Laid(j)'
    BY <1>2, <2>1, <2>3 DEF Laid
  <2> QED
    BY <2>2, <2>4 DEF Listed
<1> QED
  BY <1>2, <1>9, OnlyMine

\* set ends: the block has its node, at the head.
LEMMA SetEndListed ==
  ASSUME ListSums, CacheInv, NEW j \in Job, SetEnd(j)
  PROVE  \A d, b : HasNode(d, b) \/ (d = Key(j) /\ b = Head(todo[j])) => HasNode(d, b)'
<1>1. PICK e, q : e = NewEntry(j) /\ q = lru
  OBVIOUS
<1>2. Types /\ Placed(j) /\ pc[j] = "evict" /\ lru' = <<e>> \o q
  BY <1>1 DEF CacheInv, SetEnd
<1>3. e \in Entry /\ e.key = Key(j) /\ e.block = Head(todo[j]) /\ q \in Seq(Entry)
  BY <1>1, <1>2, NewEntryIs DEF Types
<1>4. /\ lru' \in Seq(Entry) /\ Len(lru') = Len(q) + 1 /\ lru'[1] = e
      /\ \A i \in 1..Len(q) : lru'[i + 1] = q[i]
  BY <1>2, <1>3, HeadList
<1>5. 1 \in DOMAIN lru' /\ \A i \in DOMAIN q : i \in 1..Len(q) /\ i + 1 \in DOMAIN lru'
  BY <1>3, <1>4, SMT
<1>6. \A d, b : d = Key(j) /\ b = Head(todo[j]) => HasNode(d, b)'
  BY <1>3, <1>4, <1>5 DEF HasNode
<1>7. \A d, b : HasNode(d, b) => HasNode(d, b)'
  BY <1>1, <1>4, <1>5 DEF HasNode
<1> QED
  BY <1>6, <1>7

\* The place before one that is not the first.
LEMMA PlaceBefore ==
  ASSUME NEW p \in Nat, NEW l \in Nat, p <= l, NEW i \in 1..(p + 1), i # 1
  PROVE  i - 1 \in 1..p /\ i - 1 \in 1..l /\ (i - 1) + 1 = i /\ p + 1 - (i - 1) = (p + 1) + 1 - i
  BY SMT

\* A new map has one block more, and its node is at the head of the list, ...
LEMMA HeadingOn ==
  ASSUME ListSums, CacheInv, NEW j \in Job, SetEnd(j), via[j] = "first", Heading(j), Tail(todo[j]) # <<>>
  PROVE  Heading(j)'
<1>1. PICK e, q, p, ids : e = NewEntry(j) /\ q = lru /\ p = Passed(j) /\ ids = BlockIds(j)
  OBVIOUS
<1>2. /\ Types /\ Placed(j) /\ pc[j] = "evict" /\ lru' = <<e>> \o q /\ req' = req
      /\ todo' = [todo EXCEPT ![j] = Tail(todo[j])]
      /\ blocks' = [blocks EXCEPT ![j] = Plus(blocks[j], e.block, Chunk(j, e.block))]
  BY <1>1 DEF CacheInv, SetEnd, Plus
<1>3. Going(j) /\ todo[j] # <<>> /\ todo'[j] = Tail(todo[j]) /\ DOMAIN blocks = Job /\ IsBlockMap(blocks[j])
  BY <1>2 DEF Placed, Types
<1>4. /\ e = [key |-> Key(j), block |-> ids[p + 1], size |-> BlockSize]
      /\ e \in Entry /\ q \in Seq(Entry) /\ e.block = Head(todo[j])
  BY <1>1, <1>2, FirstEntry, NewEntryIs DEF Types
<1>5. /\ lru' \in Seq(Entry) /\ Len(lru') = Len(q) + 1 /\ lru'[1] = e
      /\ \A i \in 1..Len(q) : lru'[i + 1] = q[i]
  BY <1>2, <1>4, HeadList
<1>6. Passed(j)' = p + 1 /\ BlockIds(j)' = ids /\ Key(j)' = Key(j)
  BY <1>1, <1>2, <1>3, GoesOn DEF BlockIds, Key
<1>7. p \in Nat /\ e.block = ids[p + 1] /\ e.block \in Nat
  BY <1>1, <1>2, <1>3, <1>4, AtBlock
<1>8. /\ p <= Len(q) /\ \A i \in 1..p : q[i] = [key |-> Key(j), block |-> ids[p + 1 - i], size |-> BlockSize]
      /\ DOMAIN blocks[j] \subseteq {ids[i] : i \in 1..p}
  BY <1>1 DEF Heading
<1>9. Len(q) \in Nat
  BY <1>4, SMT
<1>10. p + 1 <= Len(lru')
  BY <1>5, <1>7, <1>8, <1>9, SMT
<1>11. ASSUME NEW i \in 1..(p + 1)
       PROVE  lru'[i] = [key |-> Key(j), block |-> ids[(p + 1) + 1 - i], size |-> BlockSize]
  <2>1. CASE i = 1
    <3>1. (p + 1) + 1 - i = p + 1
      BY <1>7, <2>1, SMT
    <3> QED
      BY <1>4, <1>5, <2>1, <3>1
  <2>2. CASE i # 1
    <3>1. i - 1 \in 1..p /\ i - 1 \in 1..Len(q) /\ (i - 1) + 1 = i /\ p + 1 - (i - 1) = (p + 1) + 1 - i
      BY <1>7, <1>8, <1>9, <1>11, <2>2, PlaceBefore
    <3>2. lru'[(i - 1) + 1] = q[i - 1]
      BY <1>5, <3>1
    <3> QED
      BY <1>8, <3>1, <3>2
  <2> QED
    BY <2>1, <2>2
<1>12. DOMAIN blocks'[j] \subseteq {ids[i] : i \in 1..(p + 1)}
  <2>1. DOMAIN blocks'[j] = DOMAIN blocks[j] \cup {e.block}
    BY <1>2, <1>3 DEF Plus
  <2>2. p + 1 \in 1..(p + 1) /\ \A i \in 1..p : i \in 1..(p + 1)
    BY <1>7, SMT
  <2> QED
    BY <1>7, <1>8, <2>1, <2>2
<1> QED
  BY <1>6, <1>10, <1>11, <1>12 DEF Heading

\* ... until all have their nodes.
LEMMA AllHeaded ==
  ASSUME ListSums, CacheInv, NEW j \in Job, SetEnd(j), via[j] = "first", Heading(j)
  PROVE  \A b \in DOMAIN blocks'[j] : HasNode(Key(j), b)'
<1>1. PICK e, p, d : e = NewEntry(j) /\ p = Passed(j) /\ d = Key(j)
  OBVIOUS
<1>2. /\ Types /\ Placed(j) /\ pc[j] = "evict" /\ req' = req
      /\ blocks' = [blocks EXCEPT ![j] = Plus(blocks[j], e.block, Chunk(j, e.block))]
  BY <1>1 DEF CacheInv, SetEnd, Plus
<1>3. Key(j)' = d /\ DOMAIN blocks'[j] = DOMAIN blocks[j] \cup {e.block} /\ e.block = Head(todo[j])
  BY <1>1, <1>2, NewEntryIs DEF Types, Plus, Key
<1>4. ASSUME NEW b \in DOMAIN blocks[j] PROVE HasNode(d, b)
  <2>1. PICK i \in 1..p : b = BlockIds(j)[i]
    BY <1>1, <1>4 DEF Heading
  <2>2. p \in Nat /\ p <= Len(lru) /\ lru \in Seq(Entry)
    BY <1>1, <1>2 DEF Placed, Going, Heading, Types
  <2>3. p + 1 - i \in 1..p /\ p + 1 - (p + 1 - i) = i /\ p + 1 - i \in DOMAIN lru
    BY <2>1, <2>2, SMT
  <2>4. lru[p + 1 - i] = [key |-> d, block |-> BlockIds(j)[p + 1 - (p + 1 - i)], size |-> BlockSize]
    BY <1>1, <2>3 DEF Heading
  <2>5. lru[p + 1 - i].key = d /\ lru[p + 1 - i].block = b
    BY <2>1, <2>3, <2>4, SMT
  <2> QED
    BY <2>3, <2>5 DEF HasNode
<1>5. \A b \in DOMAIN blocks'[j] : HasNode(d, b)'
  BY <1>1, <1>3, <1>4, SetEndListed
<1> QED
  BY <1>3, <1>5

\* LRUCache::set ends: the block it set has its node.
LEMMA SetEndThread ==
  ASSUME ListSums, FiniteSetFacts, CacheInv, OneThread, NEW j \in Job, SetEnd(j)
  PROVE  OneThread'
<1>1. /\ Types /\ Placed(j) /\ Step(j) /\ pc[j] = "evict" /\ UNCHANGED <<req, caching_map, via>>
  BY DEF CacheInv, Step, SetEnd
<1>2. ASSUME Single PROVE Laid(j)' /\ Listed'
  <2>1. Laid(j) /\ Listed /\ OneRuns
    BY <1>2 DEF OneThread
  <2>2. \A k \in Job : pc[k] = "evict" => k = j
    BY <1>1, <2>1 DEF OneRuns, Running
  <2>3. \A d \in DOMAIN caching_map : \A b \in DOMAIN caching_map[d] : HasNode(d, b)'
    BY <2>1, <2>2, SetEndListed DEF Listed, BeingSet
  <2>4. Listed'
    BY <1>1, <2>3 DEF Listed
  <2>5. CASE via[j] = "read" /\ UNCHANGED blocks /\ Goto(j, "lookup")
    <3>1. pc'[j] = "lookup" /\ via'[j] = "read"
      BY <1>1, <2>5 DEF Goto, Types
    <3>2. DOMAIN blocks'[j] = {}
      BY <2>1, <2>5 DEF Laid
    <3> QED
      BY <2>4, <3>1, <3>2 DEF Laid
  <2>6. CASE via[j] = "update" /\ UNCHANGED <<todo, blocks>> /\ Goto(j, "emplace")
    <3>1. pc'[j] = "emplace" /\ via'[j] = "update"
      BY <1>1, <2>6 DEF Goto, Types
    <3>2. HasNode(Key(j), Head(todo[j]))'
      <4>1. Key(j)' = Key(j) /\ todo'[j] = todo[j]
        BY <1>1, <2>6 DEF Key
      <4> QED
        BY <4>1, SetEndListed
    <3>3. DOMAIN blocks'[j] = {}
      BY <2>1, <2>6 DEF Laid
    <3> QED
      BY <2>4, <3>1, <3>2, <3>3 DEF Laid
  <2>7. CASE via[j] = "first" /\ Goto(j, IF Tail(todo[j]) = <<>> THEN "publish" ELSE "set")
    <3>1. Heading(j) /\ via'[j] = "first"
      BY <1>1, <2>1, <2>7 DEF Laid
    <3>2. pc'[j] = IF Tail(todo[j]) = <<>> THEN "publish" ELSE "set"
      BY <1>1, <2>7 DEF Goto, Types
    <3>3. CASE Tail(todo[j]) = <<>>
      <4>1. pc'[j] = "publish"
        BY <3>2, <3>3
      <4>2. \A b \in DOMAIN blocks'[j] : HasNode(Key(j), b)'
        BY <2>7, <3>1, AllHeaded
      <4> QED
        BY <2>4, <3>1, <4>1, <4>2 DEF Laid
    <3>4. CASE Tail(todo[j]) # <<>>
      <4>1. pc'[j] = "set"
        BY <3>2, <3>4
      <4>2. Heading(j)'
        BY <2>7, <3>1, <3>4, HeadingOn
      <4> QED
        BY <2>4, <3>1, <4>1, <4>2 DEF Laid
    <3> QED
      BY <3>3, <3>4
  <2> QED
    BY <2>5, <2>6, <2>7 DEF SetEnd
<1> QED
  BY <1>1, <1>2, OnlyMine

\* A block is emplaced after its node was made, ...
LEMMA EmplaceThread ==
  ASSUME FiniteSetFacts, CacheInv, OneThread, NEW j \in Job, Emplace(j)
  PROVE  OneThread'
<1>1. /\ Types /\ Placed(j) /\ Step(j) /\ pc[j] = "emplace" /\ via[j] = "update"
      /\ UNCHANGED <<req, lru, via, blocks>>
  BY DEF CacheInv, Step, Emplace, Placed
<1>2. pc'[j] \in {"set", "done"}
  BY <1>1 DEF Types, Emplace, Goto
<1>3. ASSUME Single PROVE Laid(j)' /\ Listed'
  <2>1. Laid(j) /\ Listed /\ ~\E k \in Job : pc[k] = "evict"
    BY <1>1, <1>3, NoHolder DEF OneThread
  <2>2. Laid(j)'
    BY <1>1, <1>2, <2>1 DEF Laid
  <2>3. HasNode(Key(j), Head(todo[j])) /\ \A d \in DOMAIN caching_map : \A b \in DOMAIN caching_map[d] : HasNode(d, b)
    BY <1>1, <2>1 DEF Laid, Listed, BeingSet
  <2>4. ASSUME NEW d \in DOMAIN caching_map', NEW b \in DOMAIN caching_map'[d] PROVE HasNode(d, b)
    <3>1. /\ DOMAIN caching_map' = DOMAIN caching_map
          /\ d # Key(j) => caching_map'[d] = caching_map[d]
          /\ d = Key(j) => \/ caching_map'[d] = caching_map[d]
                           \/ DOMAIN caching_map'[d] = DOMAIN caching_map[d] \cup {Head(todo[j])}
      BY <1>1, <2>4, EmplaceMap DEF Gains
    <3> QED
      BY <2>3, <2>4, <3>1
  <2>5. \A d, b : HasNode(d, b) => HasNode(d, b)'
    BY <1>1 DEF HasNode
  <2> QED
    BY <2>2, <2>4, <2>5 DEF Listed
<1> QED
  BY <1>1, <1>3, OnlyMine

\* ... and so is a new map.
LEMMA PublishThread ==
  ASSUME FiniteSetFacts, CacheInv, OneThread, NEW j \in Job, Publish(j)
  PROVE  OneThread'
<1>1. /\ Types /\ Placed(j) /\ Step(j) /\ pc[j] = "publish" /\ via[j] = "first"
      /\ UNCHANGED <<req, lru, via, blocks>>
  BY DEF CacheInv, Step, Publish, Placed
<1>2. pc'[j] = "done"
  BY <1>1 DEF Types, Publish, Goto
<1>3. ASSUME Single PROVE Laid(j)' /\ Listed'
  <2>1. Laid(j) /\ Listed /\ ~\E k \in Job : pc[k] = "evict"
    BY <1>1, <1>3, NoHolder DEF OneThread
  <2>2. Laid(j)'
    BY <1>1, <1>2 DEF Laid
  <2>3. /\ \A b \in DOMAIN blocks[j] : HasNode(Key(j), b)
        /\ \A d \in DOMAIN caching_map : \A b \in DOMAIN caching_map[d] : HasNode(d, b)
    BY <1>1, <2>1 DEF Laid, Listed, BeingSet
  <2>4. ASSUME NEW d \in DOMAIN caching_map', NEW b \in DOMAIN caching_map'[d] PROVE HasNode(d, b)
    <3>1. d \in DOMAIN caching_map \/ d = Key(j)
      BY <1>1, <2>4, PublishMap
    <3>2. CASE d \in DOMAIN caching_map
      BY <1>1, <2>3, <2>4, <3>2, PublishMap
    <3>3. CASE d = Key(j) /\ d \notin DOMAIN caching_map
      <4>1. caching_map'[d] = blocks[j]
        BY <1>1, <3>3, PublishMap
      <4> QED
        BY <2>3, <2>4, <3>3, <4>1
    <3> QED
      BY <3>1, <3>2, <3>3
  <2>5. \A d, b : HasNode(d, b) => HasNode(d, b)'
    BY <1>1 DEF HasNode
  <2> QED
    BY <2>2, <2>4, <2>5 DEF Listed
<1> QED
  BY <1>1, <1>3, OnlyMine

\* At the start nobody runs and nothing is cached.
LEMMA InitThread ==
  ASSUME FiniteSetFacts, Init
  PROVE  OneThread
<1>1. {j \in Job : Running(j)} = {}
  BY DEF Running, Init
<1>2. IsFiniteSet({j \in Job : Running(j)})
  BY <1>1 DEF FiniteSetFacts
<1>3. DOMAIN Empty = {}
  BY DEF Empty
<1>4. (\A j \in Job : Laid(j)) /\ Listed
  BY <1>3 DEF Laid, Listed, Init
<1> QED
  BY <1>1, <1>2, <1>4 DEF OneThread, OneRuns

\* So every step keeps the map and the list of one thread together.
LEMMA StepThread ==
  ASSUME ListSums, EvenSums, FiniteSetFacts, CacheInv, OneThread, [Next]_vars
  PROVE  OneThread'
<1>1. ASSUME NEW j \in Job, Step(j) PROVE OneThread'
  BY <1>1, QuietThread, SetBeginThread, EvictThread, SetEndThread, FillThread, EmplaceThread, PublishThread
     DEF Step, DiskStep
<1>2. CASE UNCHANGED vars
  <2>1. UNCHANGED <<req, threads, caching_map, lru, pc, via, todo, blocks>>
    BY <1>2 DEF vars, cacheVars
  <2>2. \A d, b : HasNode(d, b)' = HasNode(d, b) /\ BeingSet(d, b)' = BeingSet(d, b)
    BY <2>1 DEF HasNode, BeingSet, Key
  <2>3. Listed => Listed'
    BY <2>1, <2>2 DEF Listed
  <2>4. \A j \in Job : Running(j)' = Running(j) /\ (Heading(j) => Heading(j)') /\ Key(j)' = Key(j)
    <3>1. \A j \in Job : Running(j)' = Running(j)
      BY <2>1 DEF Running
    <3>2. \A j \in Job : Key(j)' = Key(j) /\ BlockIds(j)' = BlockIds(j)
      BY <2>1 DEF BlockIds, Key
    <3>3. \A j \in Job : Passed(j)' = Passed(j)
      BY <2>1, <3>2 DEF Passed
    <3>4. ASSUME NEW j \in Job, Heading(j) PROVE Heading(j)'
      BY <2>1, <3>2, <3>3, <3>4 DEF Heading
    <3> QED
      BY <3>1, <3>2, <3>4
  <2>5. \A j \in Job : Laid(j) => Laid(j)'
    BY <2>1, <2>2, <2>4 DEF Laid
  <2>6. {j \in Job : Running(j)}' = {j \in Job : Running(j)} /\ (OneRuns => OneRuns') /\ (Single' => Single)
    BY <2>1, <2>4 DEF OneRuns, Single
  <2>7. IsFiniteSet({j \in Job : Running(j)})'
    BY <2>6 DEF OneThread
  <2>8. Single' => OneRuns' /\ (\A j \in Job : Laid(j)') /\ Listed'
    BY <2>3, <2>5, <2>6 DEF OneThread
  <2> QED
    BY <2>7, <2>8 DEF OneThread
<1> QED
  BY <1>1, <1>2 DEF Next

-----------------------------------------------------------------------------
\* Whose byte may be read at a place of a file: one that the storage once had, or
\* what a request that failed left.
Known(f, p) == committed[f][p] \cup Left(f, p)

\* A byte that may.
Right(x, f, p) ==
    p \in 0..(FileSize - 1) /\ x.file = f /\ x.pos = p /\ x.by \in Known(f, p)

\* Bytes of a file from a place on.
From(s, f, p) == \A i \in 1..Len(s) : Right(s[i], f, p + i - 1)

\* All bytes of block b of a file.
FullBlock(s, f, b) == Len(s) = BlockSize /\ From(s, f, b * BlockSize)

\* The requests that ReadsAreOfTheFile is about.
Alone ==
    /\ \A j, k \in Job : Key(j) = Key(k) => req[j].file = req[k].file
    /\ \A j \in Job : Whole(j) /\ (req[j].op = "write" => req[j].pos = 0)

\* What is cached for a request's directory is blocks of its file.
Mapped(j) ==
    Key(j) \in DOMAIN caching_map =>
        \A b \in DOMAIN caching_map[Key(j)] : FullBlock(caching_map[Key(j)][b], req[j].file, b)

\* What a request has collected, is to cache, and has answered.
Collected(j) ==
    /\ From(data[j], req[j].file, req[j].pos)
    /\ Reading(j) => Len(data[j]) = Passed(j) * BlockSize
    /\ \A b \in DOMAIN blocks[j] : FullBlock(blocks[j][b], req[j].file, b)
    /\ reply[j] # <<>> => /\ Len(reply[j]) = req[j].size \/ j \in failed
                          /\ From(reply[j], req[j].file, req[j].pos)

\* What the storage has.
DiskRight == \A f \in File, p \in 0..(FileSize - 1) : Right(disk[f][p], f, p)

\* Together: the inductive invariant of the bytes.
BytesOK == Alone => DiskRight /\ \A j \in Job : Mapped(j) /\ Collected(j)

\* Blocks and bytes of requests for whole blocks.
LEMMA WholeIds ==
  ASSUME req \in Loads, NEW j \in Job, Whole(j)
  PROVE  /\ Len(BlockIds(j)) * BlockSize = req[j].size
         /\ \A n \in 1..Len(BlockIds(j)) : BlockIds(j)[n] * BlockSize = req[j].pos + (n - 1) * BlockSize
<1>1. PICK p, z, B, k : p = req[j].pos /\ z = req[j].size /\ B = BlockSize /\ k = Len(BlockIds(j))
  OBVIOUS
<1>2. p \in Nat /\ z \in Nat /\ z >= 1 /\ B \in Nat /\ B >= 1
  BY <1>1, RequestIs, BlockCacheAssumption, SMT
<1>3. /\ k \in Nat /\ k >= 1 /\ (k - 1) * B < z /\ z <= k * B /\ p \div B \in Nat
      /\ \A n \in 1..k : BlockIds(j)[n] = (p \div B) + n - 1
  BY <1>1, IdsAre
<1>4. p % B = 0 /\ z % B = 0
  BY <1>1 DEF Whole
<1>5. p = (p \div B) * B /\ z = (z \div B) * B /\ z \div B \in Nat
  <2>1. B \in Nat \ {0}
    BY <1>2, SMT
  <2>2. p = (p \div B) * B
    BY <1>2, <1>4, <2>1, SMT
  <2>3. z = (z \div B) * B /\ z \div B \in Nat
    BY <1>2, <1>4, <2>1, SMT
  <2> QED
    BY <2>2, <2>3
<1>6. PICK a, m : a = p \div B /\ m = z \div B
  OBVIOUS
<1>7. a \in Nat /\ m \in Nat /\ p = a * B /\ z = m * B
  BY <1>3, <1>5, <1>6
<1>8. m = k
  <2>1. (k - 1) * B < m * B /\ m * B <= k * B
    BY <1>3, <1>7
  <2>2. ~(m <= k - 1)
    <3> SUFFICES ASSUME m <= k - 1 PROVE FALSE
      OBVIOUS
    <3>1. m * B <= (k - 1) * B
      BY <1>2, <1>3, <1>7, SMT
    <3>2. PICK u, w : u = m * B /\ w = (k - 1) * B
      OBVIOUS
    <3>3. u \in Nat /\ w \in Int
      BY <1>2, <1>3, <1>7, <3>2, SMT
    <3> QED
      BY <2>1, <3>1, <3>2, <3>3, SMT
  <2>3. ~(k + 1 <= m)
    <3> SUFFICES ASSUME k + 1 <= m PROVE FALSE
      OBVIOUS
    <3>1. (k + 1) * B <= m * B
      BY <1>2, <1>3, <1>7, SMT
    <3>2. (k + 1) * B = k * B + B
      BY <1>2, <1>3, SMT
    <3>3. PICK u, w : u = m * B /\ w = k * B
      OBVIOUS
    <3>4. u \in Nat /\ w \in Nat
      BY <1>2, <1>3, <1>7, <3>3, SMT
    <3> QED
      BY <1>2, <2>1, <3>1, <3>2, <3>3, <3>4, SMT
  <2> QED
    BY <1>3, <1>7, <2>2, <2>3, SMT
<1>9. ASSUME NEW n \in 1..k PROVE ((p \div B) + n - 1) * B = p + (n - 1) * B
  <2>1. n - 1 \in Nat /\ a + n - 1 = a + (n - 1)
    BY <1>3, <1>7, <1>9, SMT
  <2>2. PICK i : i = n - 1
    OBVIOUS
  <2>3. (a + i) * B = a * B + i * B
    BY <1>2, <1>7, <2>1, <2>2, SMT
  <2> QED
    BY <1>6, <1>7, <2>1, <2>2, <2>3
<1> QED
  BY <1>1, <1>3, <1>7, <1>8, <1>9

\* What may be read only grows.
Grows ==
    /\ failed \subseteq failed'
    /\ \A f \in File, p \in 0..(FileSize - 1) : Known(f, p) \subseteq Known(f, p)'

\* Bytes that were right stay right, ...
LEMMA FromGrows ==
  ASSUME Grows, NEW s, NEW f \in File, NEW p, From(s, f, p)
  PROVE  From(s, f, p)'
  BY DEF Grows, From, Right

\* ... and so do blocks.
LEMMA FullGrows ==
  ASSUME Grows, NEW s, NEW f \in File, NEW b, FullBlock(s, f, b)
  PROVE  FullBlock(s, f, b)'
  BY FromGrows DEF FullBlock

\* A part of a request's bytes that is a block of its file.
LEMMA ChunkFull ==
  ASSUME Types, NEW j \in Job, Whole(j), Going(j), todo[j] # <<>>, Len(data[j]) = req[j].size,
         From(data[j], req[j].file, req[j].pos)
  PROVE  FullBlock(Chunk(j, Head(todo[j])), req[j].file, Head(todo[j]))
<1>1. PICK b, n, f, p : b = Head(todo[j]) /\ n = Passed(j) + 1 /\ f = req[j].file /\ p = req[j].pos
  OBVIOUS
<1>2. req \in Loads /\ data[j] \in Seq(Byte) /\ n \in 1..Len(BlockIds(j)) /\ b = BlockIds(j)[n]
  BY <1>1, AtBlock DEF Types
<1>3. PICK s, st, k : s = Chunk(j, b) /\ st = (n - 1) * BlockSize /\ k = Len(BlockIds(j))
  OBVIOUS
<1>4. /\ s \in Seq(Byte) /\ Len(s) = IF n < k THEN BlockSize ELSE req[j].size - st
      /\ \A i \in 1..Len(s) : st + i \in 1..req[j].size /\ s[i] = data[j][st + i]
  <2>1. PICK c : c = Chunk(j, b)
    OBVIOUS
  <2>2. c \in Seq(Byte) /\ Len(c) = IF n < Len(BlockIds(j)) THEN BlockSize ELSE req[j].size - (n - 1) * BlockSize
    BY <1>2, <2>1, ChunkIs
  <2>3. ASSUME NEW i \in 1..Len(c)
        PROVE  (n - 1) * BlockSize + i \in 1..req[j].size /\ c[i] = data[j][(n - 1) * BlockSize + i]
    BY <1>2, <2>1, <2>3, ChunkIs
  <2> QED
    BY <1>3, <2>1, <2>2, <2>3
<1>5. b * BlockSize = p + st /\ k * BlockSize = req[j].size /\ k \in Nat
  BY <1>1, <1>2, <1>3, WholeIds, IdsAre
<1>6. BlockSize \in Nat /\ p \in Nat /\ n \in Nat /\ n >= 1 /\ st \in Nat
  <2>1. BlockSize \in Nat /\ p \in Nat /\ n \in Nat /\ n >= 1
    BY <1>1, <1>2, <1>5, RequestIs, BlockCacheAssumption, SMT
  <2> QED
    BY <1>3, <2>1, SMT
<1>7. Len(s) = BlockSize
  <2>1. CASE n < k
    BY <1>4, <2>1
  <2>2. CASE ~(n < k)
    <3>1. n = k
      BY <1>2, <1>3, <1>5, <1>6, <2>2, SMT
    <3>2. k * BlockSize = st + BlockSize
      BY <1>3, <1>5, <1>6, <3>1, SMT
    <3>3. req[j].size - st = BlockSize
      BY <1>5, <1>6, <3>2, SMT
    <3> QED
      BY <1>4, <2>2, <3>3
  <2> QED
    BY <2>1, <2>2
<1>8. ASSUME NEW i \in 1..Len(s) PROVE Right(s[i], f, b * BlockSize + i - 1)
  <2>1. st + i \in 1..Len(data[j]) /\ s[i] = data[j][st + i]
    BY <1>4, <1>8
  <2>2. Right(data[j][st + i], f, p + (st + i) - 1)
    BY <1>1, <2>1 DEF From
  <2>3. p + (st + i) - 1 = (p + st) + i - 1
    <3>1. i \in Int
      BY <1>8, SMT
    <3> QED
      BY <1>6, <3>1, SMT
  <2> QED
    BY <1>5, <2>1, <2>2, <2>3
<1> QED
  BY <1>1, <1>3, <1>7, <1>8 DEF FullBlock, From

\* A failed request stays failed, and what it left may still be read.
LEMMA LeftGrows ==
  ASSUME req' = req, failed \subseteq failed', NEW f, NEW p
  PROVE  Left(f, p) \subseteq Left(f, p)'
<1>1. \A k : Author(k)' = Author(k)
  BY DEF Author
<1> QED
  BY <1>1 DEF Left

\* Only the storage's answer to a write commits bytes.
LEMMA CommitsGrow ==
  ASSUME CacheInv, NEW j \in Job, Step(j), NEW g \in File, NEW p \in 0..(FileSize - 1)
  PROVE  committed[g][p] \subseteq committed'[g][p]
<1>1. CASE \E who \in {"servers", "timer"}, ok \in BOOLEAN : DiskWrite(j, who, ok)
  <2>1. PICK who \in {"servers", "timer"}, ok \in BOOLEAN : DiskWrite(j, who, ok)
    BY <1>1
  <2>2. committed \in [File -> [0..(FileSize - 1) -> SUBSET (Job \cup {Nobody})]] /\ req[j].file \in File
    BY RequestIs DEF CacheInv, Types
  <2>3. PICK at, f : at = {x \in 0..(req[j].size - 1) : ok} /\ f = req[j].file
    OBVIOUS
  <2>4. committed' = [committed EXCEPT ![f] = [x \in DOMAIN committed[f] |->
                          IF x \in at THEN committed[f][x] \cup {j} ELSE committed[f][x]]]
    BY <2>1, <2>3 DEF DiskWrite
  <2>5. CASE g = f
    <3>1. committed'[f] = [x \in DOMAIN committed[f] |-> IF x \in at THEN committed[f][x] \cup {j} ELSE committed[f][x]]
      BY <2>2, <2>3, <2>4
    <3>2. p \in DOMAIN committed[f]
      BY <2>2, <2>3
    <3> QED
      BY <2>5, <3>1, <3>2
  <2>6. CASE g # f
    BY <2>2, <2>4, <2>6
  <2> QED
    BY <2>5, <2>6
<1>2. CASE ~\E who \in {"servers", "timer"}, ok \in BOOLEAN : DiskWrite(j, who, ok)
  <2>1. committed' = committed
    BY <1>2 DEF Step, Start, Hit, Found, Miss, SetBegin, Evict, DiskRead, Emplace, Publish, Fill, SetEnd
  <2> QED
    BY <2>1
<1> QED
  BY <1>1, <1>2

\* So a step only adds to what may be read.
LEMMA StepCommits ==
  ASSUME CacheInv, NEW j \in Job, Step(j)
  PROVE  Grows /\ req' = req
<1>1. req' = req
  BY OthersRest
<1>2. failed \subseteq failed'
  BY DEF Step, Start, Hit, Found, Miss, SetBegin, Evict, DiskRead, DiskWrite, Emplace, Publish, Fill, SetEnd
<1>3. \A f \in File, p \in 0..(FileSize - 1) : Known(f, p) \subseteq Known(f, p)'
  BY <1>1, <1>2, LeftGrows, CommitsGrow DEF Known
<1> QED
  BY <1>1, <1>2, <1>3 DEF Grows

\* The places of a request's bytes are in its file.
LEMMA PlacesIn ==
  ASSUME req \in Loads, NEW j \in Job
  PROVE  /\ 0 \in 0..(FileSize - 1) /\ req[j].file \in File
         /\ \A p \in 0..(req[j].size - 1) : p \in 0..(FileSize - 1) /\ p + 1 \in 1..req[j].size
<1>1. PICK z, s : z = req[j].size /\ s = req[j].pos
  OBVIOUS
<1>2. z \in Nat /\ s \in Nat /\ z >= 1 /\ s + z <= FileSize /\ FileSize \in Nat /\ req[j].file \in File
  BY <1>1, RequestIs, BlockCacheAssumption
<1>3. 0 \in 0..(FileSize - 1) /\ \A p \in 0..(z - 1) : p \in 0..(FileSize - 1) /\ p + 1 \in 1..z
  BY <1>2, SMT
<1> QED
  BY <1>1, <1>2, <1>3

\* The requests stay what they are.
LEMMA AloneBack ==
  ASSUME req' = req, Alone'
  PROVE  Alone
<1>1. \A k \in Job : Key(k)' = Key(k) /\ (Whole(k)' => Whole(k))
  BY DEF Key, Whole
<1>2. \A k \in Job : Whole(k) /\ (req[k].op = "write" => req[k].pos = 0)
  BY <1>1 DEF Alone
<1>3. ASSUME NEW i \in Job, NEW k \in Job, Key(i) = Key(k) PROVE req[i].file = req[k].file
  <2>1. Key(i)' = Key(k)'
    BY <1>1, <1>3
  <2>2. req'[i].file = req'[k].file
    BY <2>1 DEF Alone
  <2> QED
    BY <2>2
<1> QED
  BY <1>2, <1>3 DEF Alone

\* What a step leaves as it is.
LEMMA MappedKept ==
  ASSUME req \in Loads, Grows, req' = req, NEW k \in Job, Mapped(k),
         Key(k) \in DOMAIN caching_map' =>
            /\ Key(k) \in DOMAIN caching_map
            /\ \A b \in DOMAIN caching_map'[Key(k)] : /\ b \in DOMAIN caching_map[Key(k)]
                                                      /\ caching_map'[Key(k)][b] = caching_map[Key(k)][b]
  PROVE  Mapped(k)'
<1>1. Key(k)' = Key(k) /\ req[k].file \in File
  BY RequestIs DEF Key
<1>2. PICK d, f : d = Key(k) /\ f = req[k].file
  OBVIOUS
<1>3. ASSUME d \in DOMAIN caching_map', NEW b \in DOMAIN caching_map'[d]
      PROVE  FullBlock(caching_map[d][b], f, b)'
  <2>1. PICK s : s = caching_map[d][b]
    OBVIOUS
  <2>2. FullBlock(s, f, b) /\ caching_map'[d][b] = s
    BY <1>2, <1>3, <2>1 DEF Mapped
  <2>3. FullBlock(s, f, b)'
    BY <1>1, <1>2, <2>2, FullGrows
  <2> QED
    BY <2>2, <2>3
<1> QED
  BY <1>1, <1>2, <1>3 DEF Mapped

\* What a request has stays right while others go on.
LEMMA CollectedKept ==
  ASSUME req \in Loads, Grows, req' = req, NEW k \in Job, Collected(k), data'[k] = data[k],
         blocks'[k] = blocks[k], reply'[k] = reply[k], Reading(k)' => Reading(k) /\ todo'[k] = todo[k]
  PROVE  Collected(k)'
<1>1. PICK f, p, s, r, m : f = req[k].file /\ p = req[k].pos /\ s = data[k] /\ r = reply[k] /\ m = blocks[k]
  OBVIOUS
<1>2. f \in File /\ req'[k].file = f /\ req'[k].pos = p /\ data'[k] = s /\ reply'[k] = r /\ blocks'[k] = m
  BY <1>1, RequestIs
<1>3. /\ From(s, f, p) /\ \A b \in DOMAIN m : FullBlock(m[b], f, b)
      /\ r # <<>> => (Len(r) = req[k].size \/ k \in failed) /\ From(r, f, p)
  BY <1>1 DEF Collected
<1>4. From(s, f, p)' /\ (From(r, f, p) => From(r, f, p)')
  BY <1>2, <1>3, FromGrows
<1>5. ASSUME NEW b \in DOMAIN m PROVE FullBlock(m[b], f, b)'
  BY <1>2, <1>3, <1>5, FullGrows
<1>6. Reading(k)' => Len(data'[k]) = Passed(k)' * BlockSize
  <2>1. Reading(k)' => Passed(k)' = Passed(k)
    BY DEF Passed, BlockIds
  <2> QED
    BY <2>1 DEF Collected
<1> QED
  BY <1>2, <1>3, <1>4, <1>5, <1>6 DEF Collected, Grows

\* So does the storage.
LEMMA DiskKept ==
  ASSUME Grows, DiskRight, disk' = disk
  PROVE  DiskRight'
  BY DEF Grows, DiskRight, Right

\* A step works on one request.
LEMMA OthersSame ==
  ASSUME CacheInv, NEW j \in Job, Step(j), NEW k \in Job, k # j
  PROVE  /\ pc'[k] = pc[k] /\ via'[k] = via[k] /\ todo'[k] = todo[k] /\ data'[k] = data[k]
         /\ blocks'[k] = blocks[k] /\ reply'[k] = reply[k]
<1>1. /\ DOMAIN pc = Job /\ DOMAIN via = Job /\ DOMAIN todo = Job /\ DOMAIN data = Job
      /\ DOMAIN blocks = Job /\ DOMAIN reply = Job
  BY DEF CacheInv, Types
<1>2. pc'[k] = pc[k]
  BY <1>1 DEF Step, Start, Hit, Found, Miss, SetBegin, Evict, DiskRead, DiskWrite, Answered, Emplace, Publish, Fill, SetEnd, Goto
<1>3. via'[k] = via[k]
  BY <1>1 DEF Step, Start, Hit, Found, Miss, SetBegin, Evict, DiskRead, DiskWrite, Answered, Emplace, Publish, Fill, SetEnd
<1>4. todo'[k] = todo[k]
  BY <1>1 DEF Step, Start, Hit, Found, Miss, SetBegin, Evict, DiskRead, DiskWrite, Answered, Emplace, Publish, Fill, SetEnd
<1>5. data'[k] = data[k]
  BY <1>1 DEF Step, Start, Hit, Found, Miss, SetBegin, Evict, DiskRead, DiskWrite, Answered, Emplace, Publish, Fill, SetEnd
<1>6. blocks'[k] = blocks[k]
  BY <1>1 DEF Step, Start, Hit, Found, Miss, SetBegin, Evict, DiskRead, DiskWrite, Answered, Emplace, Publish, Fill, SetEnd
<1>7. reply'[k] = reply[k]
  BY <1>1 DEF Step, Start, Hit, Found, Miss, SetBegin, Evict, DiskRead, DiskWrite, Answered, Emplace, Publish, Fill, SetEnd
<1> QED
  BY <1>2, <1>3, <1>4, <1>5, <1>6, <1>7

\* So it is the request's own bytes, the map and the storage that matter.
LEMMA BytesOwn ==
  ASSUME CacheInv, BytesOK, NEW j \in Job, Step(j),
         Alone /\ Alone' => DiskRight' /\ Collected(j)' /\ \A k \in Job : Mapped(k)'
  PROVE  BytesOK'
<1>1. Grows /\ req' = req
  BY StepCommits
<1>2. ASSUME Alone' PROVE DiskRight' /\ \A k \in Job : Mapped(k)' /\ Collected(k)'
  <2>1. Alone
    BY <1>1, <1>2, AloneBack
  <2>2. ASSUME NEW k \in Job, k # j PROVE Collected(k)'
    <3>1. Collected(k) /\ req \in Loads /\ Grows /\ req' = req
      BY <1>1, <2>1 DEF BytesOK, CacheInv, Types
    <3>2. /\ pc'[k] = pc[k] /\ via'[k] = via[k] /\ todo'[k] = todo[k] /\ data'[k] = data[k]
          /\ blocks'[k] = blocks[k] /\ reply'[k] = reply[k]
      BY <2>2, OthersSame
    <3>3. Reading(k)' => Reading(k)
      BY <3>2 DEF Reading
    <3> QED
      BY <3>1, <3>2, <3>3, CollectedKept
  <2> QED
    BY <1>2, <2>1, <2>2
<1> QED
  BY <1>2 DEF BytesOK

\* No bytes at all are right.
LEMMA NoBytes ==
  ASSUME NEW s, s = <<>>, NEW f, NEW p
  PROVE  From(s, f, p) /\ From(s, f, p)'
<1>1. 1..Len(s) = {}
  BY SMT
<1> QED
  BY <1>1 DEF From

\* Blocks are added to the cache only by write_to_cache.
LEMMA MapShrinks ==
  ASSUME CacheInv, BytesOK, NEW j \in Job, Step(j), Alone, ~Emplace(j), ~Publish(j)
  PROVE  \A k \in Job : Mapped(k)'
<1>1. ASSUME NEW d \in DOMAIN caching_map'
      PROVE  /\ d \in DOMAIN caching_map
             /\ \A b \in DOMAIN caching_map'[d] : b \in DOMAIN caching_map[d] /\ caching_map'[d][b] = caching_map[d][b]
  <2>1. CASE Evict(j)
    <3>1. PICK v : v = lru[Len(lru)]
      OBVIOUS
    <3>2. caching_map' = Without(caching_map, v.key, v.block) /\ IsCache(caching_map)
      BY <2>1, <3>1 DEF Evict, CacheInv, Types
    <3>3. Drops(caching_map, caching_map', v.key, v.block)
      BY <3>2, WithoutIs
    <3> QED
      BY <1>1, <3>3 DEF Drops
  <2>2. CASE ~Evict(j)
    <3>1. caching_map' = caching_map
      BY <2>2 DEF Step, Start, Hit, Found, Miss, SetBegin, DiskRead, DiskWrite, Fill, SetEnd, cacheVars
    <3> QED
      BY <1>1, <3>1
  <2> QED
    BY <2>1, <2>2
<1>2. req \in Loads /\ Grows /\ req' = req /\ \A k \in Job : Mapped(k)
  BY StepCommits DEF BytesOK, CacheInv, Types
<1> QED
  BY <1>1, <1>2, MappedKept

\* What holds before a step, for one file to a directory and whole blocks.
LEMMA Before ==
  ASSUME CacheInv, BytesOK, Alone, NEW j \in Job, Step(j)
  PROVE  /\ Types /\ Placed(j) /\ req \in Loads /\ Grows /\ req' = req /\ req[j].file \in File
         /\ DiskRight /\ Collected(j) /\ Mapped(j) /\ Whole(j)
  BY StepCommits, RequestIs DEF CacheInv, Types, BytesOK, Alone

\* A lookup begins with no bytes and goes on with the same.
LEMMA StartBytes ==
  ASSUME CacheInv, BytesOK, NEW j \in Job, Start(j)
  PROVE  BytesOK'
<1>1. Step(j) /\ ~Emplace(j) /\ ~Publish(j) /\ disk' = disk
  BY DEF Step, Start, Emplace, Publish
<1>2. ASSUME Alone PROVE Collected(j)' /\ DiskRight'
  <2>1. /\ Types /\ Placed(j) /\ req \in Loads /\ Grows /\ req' = req /\ req[j].file \in File /\ DiskRight /\ Collected(j)
    BY <1>1, <1>2, Before
  <2>2. /\ data'[j] = data[j] /\ blocks'[j] = blocks[j] /\ reply'[j] = reply[j] /\ data[j] = <<>>
    BY <2>1 DEF Start, Placed
  <2>3. Reading(j)' => todo'[j] = BlockIds(j)
    BY <2>1 DEF Start, Types, Goto, Reading
  <2>4. Reading(j)' => Len(data'[j]) = Passed(j)' * BlockSize
    <3>1. Reading(j)' => Passed(j)' = 0
      BY <2>1, <2>3, Begins
    <3>2. Len(data'[j]) = 0 /\ 0 * BlockSize = 0
      BY <2>2, BlockCacheAssumption, SMT
    <3> QED
      BY <3>1, <3>2
  <2>5. PICK f, p, s, r, m : f = req[j].file /\ p = req[j].pos /\ s = data[j] /\ r = reply[j] /\ m = blocks[j]
    OBVIOUS
  <2>6. /\ From(s, f, p) /\ \A b \in DOMAIN m : FullBlock(m[b], f, b)
        /\ r # <<>> => (Len(r) = req[j].size \/ j \in failed) /\ From(r, f, p)
    BY <2>1, <2>5 DEF Collected
  <2>7. From(s, f, p)' /\ (From(r, f, p) => From(r, f, p)') /\ \A b \in DOMAIN m : FullBlock(m[b], f, b)'
    BY <2>1, <2>5, <2>6, FromGrows, FullGrows
  <2>8. Collected(j)'
    BY <2>1, <2>2, <2>4, <2>5, <2>6, <2>7 DEF Collected, Grows
  <2> QED
    BY <1>1, <2>1, <2>8, DiskKept
<1> QED
  BY <1>1, <1>2, MapShrinks, BytesOwn

\* Steps that leave the bytes alone.
LEMMA QuietBytes ==
  ASSUME CacheInv, BytesOK, NEW j \in Job, Found(j) \/ SetBegin(j) \/ Evict(j)
  PROVE  BytesOK'
<1>1. Step(j) /\ ~Emplace(j) /\ ~Publish(j) /\ UNCHANGED <<disk, data, blocks, reply>>
  BY DEF Step, Found, SetBegin, Evict, Emplace, Publish
<1>2. ASSUME Alone PROVE Collected(j)' /\ DiskRight'
  <2>1. /\ Types /\ Placed(j) /\ req \in Loads /\ Grows /\ req' = req /\ DiskRight /\ Collected(j)
    BY <1>1, <1>2, Before
  <2>2. Reading(j)' => Reading(j) /\ todo'[j] = todo[j]
    <3>1. pc[j] \in {"lookup", "set", "evict"} /\ via' = via /\ todo' = todo
      BY DEF Found, SetBegin, Evict
    <3> QED
      BY <3>1 DEF Reading
  <2> QED
    BY <1>1, <2>1, <2>2, CollectedKept, DiskKept
<1> QED
  BY <1>1, <1>2, MapShrinks, BytesOwn

\* write_to_cache begins with no block.
LEMMA FillBytes ==
  ASSUME CacheInv, BytesOK, NEW j \in Job, Fill(j)
  PROVE  BytesOK'
<1>1. /\ Step(j) /\ ~Emplace(j) /\ ~Publish(j) /\ UNCHANGED <<disk, data, reply>>
      /\ blocks' = [blocks EXCEPT ![j] = Empty]
  BY DEF Step, Fill, Emplace, Publish
<1>2. ASSUME Alone PROVE Collected(j)' /\ DiskRight'
  <2>1. /\ Types /\ req \in Loads /\ Grows /\ req' = req /\ req[j].file \in File /\ DiskRight /\ Collected(j)
    BY <1>1, <1>2, Before
  <2>2. DOMAIN blocks'[j] = {} /\ ~Reading(j)'
    BY <1>1, <2>1 DEF Types, Empty, Fill, Reading
  <2>3. PICK f, p, s, r : f = req[j].file /\ p = req[j].pos /\ s = data[j] /\ r = reply[j]
    OBVIOUS
  <2>4. /\ From(s, f, p)
        /\ r # <<>> => (Len(r) = req[j].size \/ j \in failed) /\ From(r, f, p)
    BY <2>1, <2>3 DEF Collected
  <2>5. From(s, f, p)' /\ (From(r, f, p) => From(r, f, p)')
    BY <2>1, <2>3, <2>4, FromGrows
  <2>6. Collected(j)'
    BY <1>1, <2>1, <2>2, <2>3, <2>4, <2>5 DEF Collected, Grows
  <2> QED
    BY <1>1, <2>1, <2>6, DiskKept
<1> QED
  BY <1>1, <1>2, MapShrinks, BytesOwn

\* A hit has all blocks.
LEMMA HitBytes ==
  ASSUME CacheInv, BytesOK, NEW j \in Job, Hit(j)
  PROVE  BytesOK'
<1>1. /\ Step(j) /\ ~Emplace(j) /\ ~Publish(j) /\ UNCHANGED <<disk, data, blocks, via>>
      /\ pc[j] = "lookup" /\ todo[j] = <<>> /\ reply' = [reply EXCEPT ![j] = data[j]]
  BY DEF Step, Hit, Emplace, Publish
<1>2. ASSUME Alone PROVE Collected(j)' /\ DiskRight'
  <2>1. /\ Types /\ Placed(j) /\ req \in Loads /\ Grows /\ req' = req /\ req[j].file \in File
        /\ DiskRight /\ Collected(j) /\ Whole(j)
    BY <1>1, <1>2, Before
  <2>2. reply'[j] = data[j] /\ pc'[j] = "done" /\ Reading(j)
    BY <1>1, <2>1 DEF Types, Hit, Goto, Placed, Reading
  <2>3. Len(data[j]) = req[j].size
    <3>1. Len(data[j]) = Passed(j) * BlockSize
      BY <2>1, <2>2 DEF Collected
    <3>2. Len(BlockIds(j)) \in Nat /\ Len(BlockIds(j)) * BlockSize = req[j].size
      BY <2>1, IdsAre, WholeIds
    <3>3. Len(todo[j]) = 0
      BY <1>1, SMT
    <3>4. Passed(j) = Len(BlockIds(j))
      BY <3>2, <3>3, SMT DEF Passed
    <3> QED
      BY <3>1, <3>2, <3>4
  <2>4. PICK f, p, s, m : f = req[j].file /\ p = req[j].pos /\ s = data[j] /\ m = blocks[j]
    OBVIOUS
  <2>5. From(s, f, p) /\ \A b \in DOMAIN m : FullBlock(m[b], f, b)
    BY <2>1, <2>4 DEF Collected
  <2>6. From(s, f, p)' /\ \A b \in DOMAIN m : FullBlock(m[b], f, b)'
    BY <2>1, <2>4, <2>5, FromGrows, FullGrows
  <2>7. ~Reading(j)'
    BY <2>2 DEF Reading
  <2>8. Collected(j)'
    BY <1>1, <2>1, <2>2, <2>3, <2>4, <2>6, <2>7 DEF Collected
  <2> QED
    BY <1>1, <2>1, <2>8, DiskKept
<1> QED
  BY <1>1, <1>2, MapShrinks, BytesOwn

\* A miss forgets what was collected.
LEMMA MissBytes ==
  ASSUME CacheInv, BytesOK, NEW j \in Job, Miss(j)
  PROVE  BytesOK'
<1>1. /\ Step(j) /\ ~Emplace(j) /\ ~Publish(j) /\ UNCHANGED <<disk, reply, blocks, via>>
      /\ data' = [data EXCEPT ![j] = <<>>]
  BY DEF Step, Miss, Emplace, Publish
<1>2. ASSUME Alone PROVE Collected(j)' /\ DiskRight'
  <2>1. /\ Types /\ Placed(j) /\ req \in Loads /\ Grows /\ req' = req /\ req[j].file \in File
        /\ DiskRight /\ Collected(j)
    BY <1>1, <1>2, Before
  <2>2. data'[j] = <<>> /\ pc'[j] = "disk"
    BY <1>1, <2>1 DEF Types, Miss, Goto
  <2>3. PICK f, p, s, r, m : f = req[j].file /\ p = req[j].pos /\ s = data'[j] /\ r = reply[j] /\ m = blocks[j]
    OBVIOUS
  <2>4. /\ \A b \in DOMAIN m : FullBlock(m[b], f, b)
        /\ r # <<>> => (Len(r) = req[j].size \/ j \in failed) /\ From(r, f, p)
    BY <2>1, <2>3 DEF Collected
  <2>5. From(s, f, p)' /\ (From(r, f, p) => From(r, f, p)') /\ \A b \in DOMAIN m : FullBlock(m[b], f, b)'
    BY <2>1, <2>2, <2>3, <2>4, FromGrows, FullGrows, NoBytes
  <2>6. ~Reading(j)'
    BY <2>2 DEF Reading
  <2>7. Collected(j)'
    BY <1>1, <2>1, <2>3, <2>4, <2>5, <2>6 DEF Collected, Grows
  <2> QED
    BY <1>1, <2>1, <2>7, DiskKept
<1> QED
  BY <1>1, <1>2, MapShrinks, BytesOwn

\* Bytes of a file followed by those of its next block.
LEMMA FromOn ==
  ASSUME NEW s \in Seq(Byte), NEW t \in Seq(Byte), NEW f, NEW p \in Nat, From(s, f, p), From(t, f, p + Len(s))
  PROVE  From(s \o t, f, p)
<1>1. PICK u : u = s \o t
  OBVIOUS
<1>2. /\ u \in Seq(Byte) /\ Len(u) = Len(s) + Len(t)
      /\ \A i \in 1..(Len(s) + Len(t)) : u[i] = IF i <= Len(s) THEN s[i] ELSE t[i - Len(s)]
  BY <1>1, ConcatIs
<1>3. Len(s) \in Nat /\ Len(t) \in Nat
  BY SMT
<1>4. ASSUME NEW i \in 1..Len(u) PROVE Right(u[i], f, p + i - 1)
  <2>1. i \in 1..(Len(s) + Len(t)) /\ i \in Int
    BY <1>2, <1>3, <1>4, SMT
  <2>2. CASE i <= Len(s)
    <3>1. i \in 1..Len(s) /\ u[i] = s[i]
      BY <1>2, <1>3, <2>1, <2>2, SMT
    <3> QED
      BY <3>1 DEF From
  <2>3. CASE ~(i <= Len(s))
    <3>1. i - Len(s) \in 1..Len(t) /\ (p + Len(s)) + (i - Len(s)) - 1 = p + i - 1
      BY <1>3, <2>1, <2>3, SMT
    <3>2. u[i] = t[i - Len(s)]
      BY <1>2, <2>1, <2>3
    <3>3. Right(t[i - Len(s)], f, (p + Len(s)) + (i - Len(s)) - 1)
      BY <3>1 DEF From
    <3> QED
      BY <3>1, <3>2, <3>3
  <2> QED
    BY <2>2, <2>3
<1> QED
  BY <1>1, <1>4 DEF From

\* read_from_cache appends a block, write_to_cache takes one into the new map.
LEMMA SetEndBytes ==
  ASSUME CacheInv, BytesOK, NEW j \in Job, SetEnd(j)
  PROVE  BytesOK'
<1>1. /\ Step(j) /\ ~Emplace(j) /\ ~Publish(j) /\ UNCHANGED <<disk, reply, via, caching_map, committed>> /\ pc[j] = "evict"
  BY DEF Step, SetEnd, Emplace, Publish
<1>2. ASSUME Alone PROVE Collected(j)' /\ DiskRight'
  <2>1. /\ Types /\ Placed(j) /\ req \in Loads /\ Grows /\ req' = req /\ req[j].file \in File
        /\ DiskRight /\ Collected(j) /\ Mapped(j) /\ Whole(j)
    BY <1>1, <1>2, Before
  <2>2. Going(j) /\ todo[j] # <<>> /\ data[j] \in Seq(Byte) /\ DOMAIN blocks = Job /\ IsBlockMap(blocks[j])
    BY <1>1, <2>1 DEF Placed, Types
  <2>3. PICK b, f, p, n, s, r, m : /\ b = Head(todo[j]) /\ f = req[j].file /\ p = req[j].pos /\ n = Passed(j)
                                   /\ s = data[j] /\ r = reply[j] /\ m = blocks[j]
    OBVIOUS
  <2>4. n \in Nat /\ n + 1 \in 1..Len(BlockIds(j)) /\ b = BlockIds(j)[n + 1] /\ b \in Nat /\ NewEntry(j).block = b
    BY <1>1, <2>1, <2>2, <2>3, AtBlock, NewEntryIs
  <2>5. p \in Nat /\ b * BlockSize = p + n * BlockSize
    <3>1. (n + 1) - 1 = n /\ p \in Nat
      BY <2>1, <2>3, <2>4, RequestIs, SMT
    <3>2. b * BlockSize = p + ((n + 1) - 1) * BlockSize
      BY <2>1, <2>3, <2>4, WholeIds
    <3> QED
      BY <3>1, <3>2
  <2>6. /\ From(s, f, p) /\ \A x \in DOMAIN m : FullBlock(m[x], f, x)
        /\ r # <<>> => (Len(r) = req[j].size \/ j \in failed) /\ From(r, f, p)
    BY <2>1, <2>3 DEF Collected
  <2>7. /\ From(s, f, p)' /\ (From(r, f, p) => From(r, f, p)') /\ \A x \in DOMAIN m : FullBlock(m[x], f, x)'
    BY <2>1, <2>3, <2>6, FromGrows, FullGrows
  <2>8. CASE /\ via[j] = "read" /\ data' = [data EXCEPT ![j] = @ \o caching_map[Key(j)][b]]
             /\ todo' = [todo EXCEPT ![j] = Tail(todo[j])] /\ UNCHANGED blocks
    <3>1. PICK t : t = caching_map[Key(j)][b]
      OBVIOUS
    <3>2. Reading(j) /\ Key(j) \in DOMAIN caching_map /\ b \in DOMAIN caching_map[Key(j)]
      BY <1>1, <2>1, <2>3, <2>8 DEF Placed, Reading
    <3>3. t \in Seq(Byte) /\ FullBlock(t, f, b) /\ Len(s) = n * BlockSize
      BY <2>1, <2>3, <3>1, <3>2 DEF Types, IsCache, IsBlockMap, Content, Mapped, Collected
    <3>4. From(t, f, p + Len(s)) /\ Len(t) = BlockSize
      BY <2>5, <3>3 DEF FullBlock
    <3>5. From(s \o t, f, p)
      BY <2>2, <2>3, <2>5, <2>6, <3>3, <3>4, FromOn
    <3>6. PICK u : u = s \o t
      OBVIOUS
    <3>7. From(u, f, p)'
      BY <2>1, <2>3, <3>5, <3>6, FromGrows
    <3>8. data'[j] = u /\ todo'[j] = Tail(todo[j])
      BY <2>1, <2>3, <2>8, <3>1, <3>6 DEF Types
    <3>9. Passed(j)' = n + 1
      BY <2>1, <2>2, <2>3, <3>8, GoesOn
    <3>10. Len(u) = (n + 1) * BlockSize
      <4>1. Len(u) = Len(s) + Len(t)
        BY <2>2, <2>3, <3>3, <3>6, ConcatIs
      <4>2. BlockSize \in Nat
        BY BlockCacheAssumption
      <4>3. n * BlockSize + BlockSize = (n + 1) * BlockSize
        BY <2>4, <4>2, SMT
      <4> QED
        BY <3>3, <3>4, <4>1, <4>3
    <3>11. Collected(j)'
      BY <1>1, <2>1, <2>3, <2>6, <2>7, <2>8, <3>7, <3>8, <3>9, <3>10 DEF Collected, Grows
    <3> QED
      BY <1>1, <2>1, <3>11, DiskKept
  <2>9. CASE via[j] # "read" /\ UNCHANGED <<data, blocks>>
    <3>1. ~Reading(j)'
      BY <1>1, <2>9 DEF Reading
    <3>2. Collected(j)'
      BY <1>1, <2>1, <2>9, <3>1, CollectedKept
    <3> QED
      BY <1>1, <2>1, <3>2, DiskKept
  <2>10. CASE /\ via[j] = "first" /\ UNCHANGED data
              /\ blocks' = [blocks EXCEPT ![j] = Plus(m, b, Chunk(j, b))]
    <3>1. ~Reading(j)'
      BY <1>1, <2>10 DEF Reading
    <3>2. PICK w, c : w = Plus(m, b, c) /\ c = Chunk(j, b)
      OBVIOUS
    <3>3. Len(data[j]) = req[j].size
      BY <1>1, <2>1, <2>10 DEF Placed
    <3>4. FullBlock(c, f, b)
      BY <2>1, <2>2, <2>3, <2>6, <3>2, <3>3, ChunkFull
    <3>5. FullBlock(c, f, b)'
      BY <2>1, <2>3, <3>4, FullGrows
    <3>6. DOMAIN w = DOMAIN m \cup {b} /\ w[b] = c /\ \A x \in DOMAIN m : x # b => w[x] = m[x]
      BY <3>2 DEF Plus
    <3>7. \A x \in DOMAIN w : FullBlock(w[x], f, x)'
      BY <2>7, <3>5, <3>6
    <3>8. blocks'[j] = w
      BY <2>2, <2>10, <3>2
    <3>9. Collected(j)'
      BY <1>1, <2>1, <2>3, <2>6, <2>7, <2>10, <3>1, <3>7, <3>8 DEF Collected, Grows
    <3> QED
      BY <1>1, <2>1, <3>9, DiskKept
  <2>11. \/ /\ via[j] = "read" /\ data' = [data EXCEPT ![j] = @ \o caching_map[Key(j)][NewEntry(j).block]]
            /\ todo' = [todo EXCEPT ![j] = Tail(todo[j])] /\ UNCHANGED blocks
         \/ via[j] = "update" /\ UNCHANGED <<data, blocks>>
         \/ /\ via[j] = "first" /\ UNCHANGED data
            /\ blocks' = [blocks EXCEPT ![j] = Plus(@, NewEntry(j).block, Chunk(j, NewEntry(j).block))]
    BY DEF SetEnd, Plus
  <2> QED
    BY <2>3, <2>4, <2>8, <2>9, <2>10, <2>11
<1> QED
  BY <1>1, <1>2, MapShrinks, BytesOwn

\* What is in place of a read's bytes counts as left by it when it has failed.
LEMMA GarbledFrom ==
  ASSUME Types, NEW j \in Job, req' = req, req[j].op = "read", j \in failed'
  PROVE  From(Garbled(j), req[j].file, req[j].pos)'
<1>1. PICK f, p, z, s : f = req[j].file /\ p = req[j].pos /\ z = req[j].size /\ s = Garbled(j)
  OBVIOUS
<1>2. p \in Nat /\ z \in Nat /\ p + z <= FileSize /\ FileSize \in Nat /\ Len(s) = z
  BY <1>1, RequestIs, GarbledIs, BlockCacheAssumption DEF Types
<1>3. \A i \in 1..z : s[i] = [file |-> f, pos |-> p + i - 1, by |-> Noise]
  BY <1>1, GarbledIs
<1>4. ASSUME NEW i \in 1..Len(s) PROVE Right(s[i], f, p + i - 1)'
  <2>1. PICK x : x = p + i - 1
    OBVIOUS
  <2>2. x \in 0..(FileSize - 1) /\ x \in p..(p + z - 1)
    BY <1>2, <1>4, <2>1, SMT
  <2>3. s[i] = [file |-> f, pos |-> x, by |-> Noise]
    BY <1>2, <1>3, <1>4, <2>1
  <2>4. s[i].file = f /\ s[i].pos = x /\ s[i].by = Noise
    BY <2>3, SMT
  <2>5. Author(j)' = Noise
    BY DEF Author
  <2>6. Noise \in Left(f, x)'
    BY <1>1, <2>2, <2>5 DEF Left
  <2> QED
    BY <2>1, <2>2, <2>4, <2>6 DEF Right, Known
<1>5. Garbled(j)' = s
  BY <1>1 DEF Garbled
<1> QED
  BY <1>1, <1>4, <1>5 DEF From

\* The first of some bytes.
LEMMA FirstFrom ==
  ASSUME NEW s, NEW f, NEW p \in Nat, From(s, f, p)', Len(s) \in Nat, Len(s) >= 1
  PROVE  From(<<s[1]>>, f, p)'
<1>1. PICK t : t = <<s[1]>>
  OBVIOUS
<1>2. Len(t) = 1 /\ t[1] = s[1] /\ 1 \in 1..Len(s) /\ \A i \in 1..1 : i = 1
  BY <1>1, SMT
<1>3. Right(s[1], f, p + 1 - 1)'
  BY <1>2 DEF From
<1>4. From(t, f, p)'
  BY <1>2, <1>3 DEF From
<1> QED
  BY <1>1, <1>4

\* A read is answered with the storage's bytes, or with what comes in their place.
LEMMA DiskReadBytes ==
  ASSUME CacheInv, BytesOK, NEW j \in Job, NEW who \in {"servers", "timer"}, NEW ok \in BOOLEAN,
         DiskRead(j, who, ok)
  PROVE  BytesOK'
<1>1. /\ Step(j) /\ ~Emplace(j) /\ ~Publish(j)
  BY DEF Step, DiskRead, Answered, Emplace, Publish
<1>2. /\ UNCHANGED <<disk, blocks, via>> /\ req[j].op = "read"
      /\ data' = [data EXCEPT ![j] = ToCache(j, ok)] /\ reply' = [reply EXCEPT ![j] = Told(j, ok)]
      /\ failed' = IF ok THEN failed ELSE failed \cup {j}
  BY DEF DiskRead, ToCache, Told
<1>3. ASSUME Alone PROVE Collected(j)' /\ DiskRight'
  <2>1. /\ Types /\ Placed(j) /\ req \in Loads /\ Grows /\ req' = req /\ req[j].file \in File
        /\ DiskRight /\ Collected(j)
    BY <1>1, <1>3, Before
  <2>2. PICK f, p, s, t, m, r : /\ f = req[j].file /\ p = req[j].pos /\ s = ToCache(j, ok) /\ t = Told(j, ok)
                                /\ m = blocks[j] /\ r = reply[j]
    OBVIOUS
  <2>3. data'[j] = s /\ reply'[j] = t /\ pc'[j] = "fill"
    BY <1>2, <2>1, <2>2 DEF Types, DiskRead, Answered, Goto
  <2>4. p \in Nat /\ Len(s) = req[j].size /\ Len(s) \in Nat /\ Len(s) >= 1
    BY <2>1, <2>2, RequestIs, StoredIs, GarbledIs DEF ToCache
  <2>5. From(s, f, p)'
    <3>1. CASE ok
      <4>1. \A i \in 1..Len(s) : p + i - 1 \in 0..(FileSize - 1) /\ s[i] = disk[f][p + i - 1]
        BY <2>1, <2>2, <3>1, StoredIs DEF ToCache
      <4>2. From(s, f, p)
        BY <2>1, <2>2, <4>1 DEF DiskRight, From
      <4> QED
        BY <2>1, <2>2, <4>2, FromGrows
    <3>2. CASE ~ok
      <4>1. Garbled(j)' = Garbled(j) /\ s = Garbled(j)
        BY <2>1, <2>2, <3>2 DEF Garbled, ToCache
      <4>2. From(Garbled(j), req[j].file, req[j].pos)'
        BY <1>2, <2>1, <3>2, GarbledFrom
      <4> QED
        BY <2>1, <2>2, <4>1, <4>2
    <3> QED
      BY <3>1, <3>2
  <2>6. /\ r # <<>> => (Len(r) = req[j].size \/ j \in failed) /\ From(r, f, p)
        /\ \A b \in DOMAIN m : FullBlock(m[b], f, b)
    BY <2>1, <2>2 DEF Collected
  <2>7. (From(r, f, p) => From(r, f, p)') /\ \A b \in DOMAIN m : FullBlock(m[b], f, b)'
    BY <2>1, <2>2, <2>6, FromGrows, FullGrows
  <2>8. (Len(t) = req[j].size \/ j \in failed') /\ From(t, f, p)'
    <3>1. CASE r # <<>>
      BY <2>1, <2>2, <2>6, <2>7, <3>1 DEF Told, Grows
    <3>2. CASE r = <<>> /\ ok
      BY <2>2, <2>4, <2>5, <3>2 DEF Told, ToCache
    <3>3. CASE r = <<>> /\ ~ok
      <4>1. t = <<s[1]>>
        BY <2>2, <3>3 DEF Told, ToCache
      <4> QED
        BY <1>2, <2>4, <2>5, <3>3, <4>1, FirstFrom
    <3> QED
      BY <3>1, <3>2, <3>3
  <2>9. ~Reading(j)'
    BY <2>3 DEF Reading
  <2>10. Collected(j)'
    BY <1>2, <2>1, <2>2, <2>3, <2>5, <2>7, <2>8, <2>9 DEF Collected
  <2> QED
    BY <1>2, <2>1, <2>10, DiskKept
<1> QED
  BY <1>1, <1>3, MapShrinks, BytesOwn

\* The storage has the bytes of a write that it has done; those of others are left by
\* them.
LEMMA DiskWriteBytes ==
  ASSUME CacheInv, BytesOK, NEW j \in Job, NEW who \in {"servers", "timer"}, NEW ok \in BOOLEAN,
         DiskWrite(j, who, ok)
  PROVE  BytesOK'
<1>1. /\ Step(j) /\ ~Emplace(j) /\ ~Publish(j) /\ UNCHANGED <<reply, blocks, via>>
      /\ data' = [data EXCEPT ![j] = Mine(j)] /\ req[j].op = "write"
  BY DEF Step, DiskWrite, Answered, Emplace, Publish
<1>2. ASSUME Alone PROVE Collected(j)' /\ DiskRight'
  <2>1. /\ Types /\ Placed(j) /\ req \in Loads /\ Grows /\ req' = req /\ req[j].file \in File
        /\ DiskRight /\ Collected(j)
    BY <1>1, <1>2, Before
  <2>2. PICK f, s, r, m : f = req[j].file /\ s = Mine(j) /\ r = reply[j] /\ m = blocks[j]
    OBVIOUS
  <2>3. data'[j] = s /\ pc'[j] = "fill" /\ reply'[j] = r /\ req[j].pos = 0
    BY <1>1, <1>2, <2>1, <2>2 DEF Types, DiskWrite, Answered, Goto, Alone
  <2>4. ASSUME NEW p \in 0..(req[j].size - 1) PROVE j \in Known(f, p)'
    <3>1. CASE ok
      <4>1. PICK at : at = {x \in 0..(req[j].size - 1) : ok}
        OBVIOUS
      <4>2. committed' = [committed EXCEPT ![f] = [x \in DOMAIN committed[f] |->
                              IF x \in at THEN committed[f][x] \cup {j} ELSE committed[f][x]]]
        BY <2>2, <4>1 DEF DiskWrite
      <4>3. committed \in [File -> [0..(FileSize - 1) -> SUBSET (Job \cup {Nobody})]] /\ p \in 0..(FileSize - 1)
        BY <2>1, <2>4, PlacesIn DEF Types
      <4>4. committed'[f] = [x \in DOMAIN committed[f] |-> IF x \in at THEN committed[f][x] \cup {j} ELSE committed[f][x]]
        BY <2>1, <2>2, <4>2, <4>3
      <4>5. p \in DOMAIN committed[f] /\ p \in at
        BY <2>1, <2>2, <2>4, <3>1, <4>1, <4>3
      <4> QED
        BY <4>4, <4>5 DEF Known
    <3>2. CASE ~ok
      <4>1. j \in failed' /\ Author(j)' = j
        BY <1>1, <2>1, <3>2 DEF DiskWrite, Author
      <4>2. p \in req[j].pos..(req[j].pos + req[j].size - 1)
        BY <2>1, <2>3, <2>4, RequestIs, SMT
      <4> QED
        BY <2>1, <2>2, <4>1, <4>2 DEF Known, Left
    <3> QED
      BY <3>1, <3>2
  <2>5. /\ Len(s) = req[j].size /\ Len(s) \in Nat
        /\ \A i \in 1..Len(s) : s[i] = [file |-> f, pos |-> 0 + i - 1, by |-> j]
    <3>1. Len(s) = req[j].size /\ req[j].size \in Nat
      BY <2>1, <2>2, MineIs, RequestIs
    <3>2. \A i \in 1..req[j].size : s[i] = [file |-> req[j].file, pos |-> req[j].pos + i - 1, by |-> j]
      BY <2>1, <2>2, MineIs
    <3> QED
      BY <2>2, <2>3, <3>1, <3>2
  <2>6. ASSUME NEW i \in 1..Len(s) PROVE Right(s[i], f, 0 + i - 1)'
    <3>1. PICK p : p = 0 + i - 1
      OBVIOUS
    <3>2. p \in 0..(req[j].size - 1)
      BY <2>5, <2>6, <3>1, SMT
    <3>3. p \in 0..(FileSize - 1)
      BY <2>1, <3>2, PlacesIn
    <3>4. s[i] = [file |-> f, pos |-> p, by |-> j]
      BY <2>5, <2>6, <3>1
    <3>5. s[i].file = f /\ s[i].pos = p /\ s[i].by = j
      BY <3>4, SMT
    <3>6. Right(s[i], f, p)'
      BY <2>4, <3>2, <3>3, <3>5 DEF Right
    <3> QED
      BY <3>1, <3>6
  <2>7. From(s, f, 0)'
    BY <2>6 DEF From
  <2>8. DiskRight'
    <3>1. PICK at : at = {p \in 0..(req[j].size - 1) : ok}
      OBVIOUS
    <3>2. disk' = [disk EXCEPT ![f] = [p \in DOMAIN disk[f] |-> IF p \in at THEN s[p + 1] ELSE disk[f][p]]]
      BY <2>2, <3>1 DEF DiskWrite
    <3>3. disk \in [File -> [0..(FileSize - 1) -> Byte]]
      BY <2>1 DEF Types
    <3>4. ASSUME NEW g \in File, NEW p \in 0..(FileSize - 1) PROVE Right(disk[g][p], g, p)'
      <4>1. PICK x : x = disk'[g][p]
        OBVIOUS
      <4>2. CASE g = f /\ p \in at
        <5>1. x = s[p + 1]
          <6>1. disk'[f] = [y \in DOMAIN disk[f] |-> IF y \in at THEN s[y + 1] ELSE disk[f][y]]
            BY <2>1, <2>2, <3>2, <3>3
          <6>2. p \in DOMAIN disk[f]
            BY <2>1, <2>2, <3>3
          <6> QED
            BY <4>1, <4>2, <6>1, <6>2
        <5>2. p + 1 \in 1..Len(s)
          BY <2>1, <2>5, <3>1, <4>2, PlacesIn
        <5>3. 0 + (p + 1) - 1 = p
          BY SMT
        <5>4. Right(x, f, p)'
          BY <2>6, <5>1, <5>2, <5>3
        <5> QED
          BY <4>1, <4>2, <5>4
      <4>3. CASE ~(g = f /\ p \in at)
        <5>1. x = disk[g][p]
          <6>1. CASE g # f
            BY <3>2, <3>3, <4>1, <6>1
          <6>2. CASE g = f
            <7>1. disk'[f] = [y \in DOMAIN disk[f] |-> IF y \in at THEN s[y + 1] ELSE disk[f][y]]
              BY <2>1, <2>2, <3>2, <3>3
            <7>2. p \in DOMAIN disk[f]
              BY <2>1, <2>2, <3>3
            <7> QED
              BY <4>1, <4>3, <6>2, <7>1, <7>2
          <6> QED
            BY <6>1, <6>2
        <5>2. Right(x, g, p)
          BY <2>1, <5>1 DEF DiskRight
        <5>3. Right(x, g, p)'
          BY <2>1, <5>2 DEF Right, Grows
        <5> QED
          BY <4>1, <5>3
      <4> QED
        BY <4>2, <4>3
    <3> QED
      BY <3>4 DEF DiskRight
  <2>9. /\ r # <<>> => (Len(r) = req[j].size \/ j \in failed') /\ From(r, f, 0)'
        /\ \A b \in DOMAIN m : FullBlock(m[b], f, b)'
    BY <2>1, <2>2, <2>3, FromGrows, FullGrows DEF Collected, Grows
  <2>10. ~Reading(j)'
    BY <2>3 DEF Reading
  <2>11. Collected(j)'
    BY <1>1, <2>1, <2>2, <2>3, <2>5, <2>7, <2>9, <2>10 DEF Collected
  <2> QED
    BY <2>8, <2>11
<1> QED
  BY <1>1, <1>2, MapShrinks, BytesOwn

\* An emplaced block is one of the directory's file.
LEMMA EmplaceBytes ==
  ASSUME CacheInv, BytesOK, NEW j \in Job, Emplace(j)
  PROVE  BytesOK'
<1>1. /\ Step(j) /\ UNCHANGED <<disk, data, blocks, reply, via>> /\ pc[j] = "emplace"
  BY DEF Step, Emplace
<1>2. ASSUME Alone PROVE DiskRight' /\ Collected(j)' /\ \A k \in Job : Mapped(k)'
  <2>1. /\ Types /\ Placed(j) /\ req \in Loads /\ Grows /\ req' = req /\ req[j].file \in File
        /\ DiskRight /\ Collected(j) /\ Whole(j)
    BY <1>1, <1>2, Before
  <2>2. via[j] = "update" /\ Going(j) /\ todo[j] # <<>> /\ Len(data[j]) = req[j].size
    BY <1>1, <2>1 DEF Placed
  <2>3. Collected(j)'
    BY <1>1, <2>1, <2>2, CollectedKept DEF Reading
  <2>4. PICK b, c, f, d : b = Head(todo[j]) /\ c = Chunk(j, b) /\ f = req[j].file /\ d = Key(j)
    OBVIOUS
  <2>5. FullBlock(c, f, b)'
    <3>1. FullBlock(c, f, b)
      BY <2>1, <2>2, <2>4, ChunkFull DEF Collected
    <3> QED
      BY <2>1, <2>4, <3>1, FullGrows
  <2>6. /\ DOMAIN caching_map' = DOMAIN caching_map
        /\ \A x \in DOMAIN caching_map : x # d => caching_map'[x] = caching_map[x]
        /\ d \in DOMAIN caching_map =>
              \/ caching_map'[d] = caching_map[d]
              \/ Gains(caching_map[d], caching_map'[d], b, c)
    BY <2>1, <2>4, EmplaceMap
  <2>7. ASSUME NEW k \in Job PROVE Mapped(k)'
    <3>1. Mapped(k)
      BY <1>2 DEF BytesOK
    <3>2. CASE Key(k) # d \/ caching_map'[d] = caching_map[d]
      BY <2>1, <2>6, <3>1, <3>2, MappedKept
    <3>3. CASE Key(k) = d /\ d \in DOMAIN caching_map /\ Gains(caching_map[d], caching_map'[d], b, c)
      <4>1. req[k].file = f
        BY <1>2, <2>4, <3>3 DEF Alone
      <4>2. PICK m, w : m = caching_map[d] /\ w = caching_map'[d]
        OBVIOUS
      <4>3. \A x \in DOMAIN m : FullBlock(m[x], f, x)
        BY <3>1, <3>3, <4>1, <4>2 DEF Mapped
      <4>4. \A x \in DOMAIN m : FullBlock(m[x], f, x)'
        BY <2>1, <2>4, <4>3, FullGrows
      <4>5. \A x \in DOMAIN w : FullBlock(w[x], f, x)'
        BY <2>5, <3>3, <4>2, <4>4 DEF Gains
      <4>6. Key(k)' = d /\ req'[k].file = f
        BY <2>1, <3>3, <4>1 DEF Key
      <4> QED
        BY <4>2, <4>5, <4>6 DEF Mapped
    <3>4. CASE Key(k) = d /\ d \notin DOMAIN caching_map
      <4>1. Key(k)' = d
        BY <2>1, <3>4 DEF Key
      <4> QED
        BY <2>6, <3>4, <4>1 DEF Mapped
    <3> QED
      BY <2>6, <3>2, <3>3, <3>4
  <2> QED
    BY <1>1, <2>1, <2>3, <2>7, DiskKept
<1> QED
  BY <1>1, <1>2, BytesOwn

\* A new map has blocks of the directory's file.
LEMMA PublishBytes ==
  ASSUME CacheInv, BytesOK, NEW j \in Job, Publish(j)
  PROVE  BytesOK'
<1>1. /\ Step(j) /\ UNCHANGED <<disk, data, blocks, reply, via>> /\ pc[j] = "publish"
  BY DEF Step, Publish
<1>2. ASSUME Alone PROVE DiskRight' /\ Collected(j)' /\ \A k \in Job : Mapped(k)'
  <2>1. /\ Types /\ Placed(j) /\ req \in Loads /\ Grows /\ req' = req /\ req[j].file \in File
        /\ DiskRight /\ Collected(j)
    BY <1>1, <1>2, Before
  <2>2. via[j] = "first"
    BY <1>1, <2>1 DEF Placed
  <2>3. Collected(j)'
    BY <1>1, <2>1, <2>2, CollectedKept DEF Reading
  <2>4. PICK m, f, d : m = blocks[j] /\ f = req[j].file /\ d = Key(j)
    OBVIOUS
  <2>5. \A x \in DOMAIN m : FullBlock(m[x], f, x)'
    BY <2>1, <2>4, FullGrows DEF Collected
  <2>6. /\ DOMAIN caching_map' = DOMAIN caching_map \cup {d}
        /\ \A x \in DOMAIN caching_map : caching_map'[x] = caching_map[x]
        /\ d \notin DOMAIN caching_map => caching_map'[d] = m
    BY <2>1, <2>4, PublishMap
  <2>7. ASSUME NEW k \in Job PROVE Mapped(k)'
    <3>1. Mapped(k)
      BY <1>2 DEF BytesOK
    <3>2. CASE Key(k) # d \/ d \in DOMAIN caching_map
      BY <2>1, <2>6, <3>1, <3>2, MappedKept
    <3>3. CASE Key(k) = d /\ d \notin DOMAIN caching_map
      <4>1. req[k].file = f
        BY <1>2, <2>4, <3>3 DEF Alone
      <4>2. Key(k)' = d /\ req'[k].file = f /\ caching_map'[d] = m
        BY <2>1, <2>6, <3>3, <4>1 DEF Key
      <4> QED
        BY <2>5, <4>2 DEF Mapped
    <3> QED
      BY <3>2, <3>3
  <2> QED
    BY <1>1, <2>1, <2>3, <2>7, DiskKept
<1> QED
  BY <1>1, <1>2, BytesOwn

\* At the start the storage has the bytes that nobody wrote.
LEMMA InitBytes ==
  ASSUME Init
  PROVE  BytesOK
<1>1. DiskRight
  <2> SUFFICES ASSUME NEW f \in File, NEW p \in 0..(FileSize - 1) PROVE Right(disk[f][p], f, p)
    BY DEF DiskRight
  <2>1. PICK x : x = disk[f][p]
    OBVIOUS
  <2>2. x = [file |-> f, pos |-> p, by |-> Nobody]
    BY <2>1 DEF Init
  <2>3. x.file = f /\ x.pos = p /\ x.by = Nobody
    BY <2>2, SMT
  <2>4. committed[f][p] = {Nobody}
    BY DEF Init
  <2> QED
    BY <2>1, <2>3, <2>4 DEF Right, Known
<1>2. DOMAIN Empty = {}
  BY DEF Empty
<1>3. \A j \in Job : Mapped(j)
  BY <1>2 DEF Mapped, Init
<1>4. \A j \in Job : Collected(j)
  BY <1>2, NoBytes DEF Collected, Init, Reading
<1> QED
  BY <1>1, <1>3, <1>4 DEF BytesOK

\* So every step keeps the bytes right.
LEMMA StepBytes ==
  ASSUME CacheInv, BytesOK, [Next]_vars
  PROVE  BytesOK'
<1>1. ASSUME NEW j \in Job, Step(j) PROVE BytesOK'
  BY <1>1, StartBytes, QuietBytes, HitBytes, MissBytes, SetEndBytes, DiskReadBytes, DiskWriteBytes,
     FillBytes, EmplaceBytes, PublishBytes DEF Step
<1>2. CASE UNCHANGED vars
  <2>1. UNCHANGED <<req, disk, caching_map, pc, via, todo, data, blocks, reply, committed, failed>>
    BY <1>2 DEF vars, cacheVars
  <2>2. Grows /\ req \in Loads
    BY <2>1, LeftGrows DEF Grows, Known, CacheInv, Types
  <2>3. Alone' => Alone
    BY <2>1, AloneBack
  <2>4. ASSUME Alone PROVE DiskRight' /\ \A j \in Job : Mapped(j)' /\ Collected(j)'
    <3>1. DiskRight /\ \A j \in Job : Mapped(j) /\ Collected(j)
      BY <2>4 DEF BytesOK
    <3>2. \A j \in Job : Mapped(j)'
      BY <2>1, <2>2, <3>1, MappedKept
    <3>3. \A j \in Job : Reading(j)' => Reading(j)
      BY <2>1 DEF Reading
    <3>4. \A j \in Job : Collected(j)'
      BY <2>1, <2>2, <3>1, <3>3, CollectedKept
    <3> QED
      BY <2>1, <2>2, <3>1, <3>2, <3>4, DiskKept
  <2> QED
    BY <2>3, <2>4 DEF BytesOK
<1> QED
  BY <1>1, <1>2 DEF Next
=============================================================================
