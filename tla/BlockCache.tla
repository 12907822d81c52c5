----------------------------- MODULE BlockCache -----------------------------
(***************************************************************************)
(* The block cache of a datafunction (caching.hpp) and the requests that   *)
(* use it (start_storage_perform of proxy-command.hpp): the map from       *)
(* header.key, the file's directory, to cached blocks; the LRU list with   *)
(* its mutex; and the locks that accessors of the map hold.                *)
(*                                                                         *)
(* A thread works on a request from a "new" or "disk" step to the next     *)
(* wait for the storage.  A byte is identified by where in the file and by *)
(* whom it was to be written; the storage has those of a write from its    *)
(* position 0 on, whatever the position of the request.                    *)
(*                                                                         *)
(* The storage may answer a request twice: 30 s after it was sent a timer  *)
(* answers with an error, and the servers may have answered before or may  *)
(* answer later.  Both answers are handled alike, one after the other.     *)
(***************************************************************************)
EXTENDS Naturals, Sequences, FiniteSetsExt

CONSTANTS Job,         \* requests
          Dir, File,
          DirOf,       \* the directory of a file
          Loads,       \* what the requests may be
          BlockSize,   \* fullsize_
          Cap,         \* cap of the LRU list, in bytes
          FileSize,    \* bytes of a file
          Threads,     \* numbers of threads the io_context may have
          Nobody,      \* the writer of the bytes that were there first
          Noise        \* ... and of those that are not of the storage

\* fails: the storage may answer late, or with less than was asked for.
Request == [op : {"read", "write"}, file : File, pos : 0..(FileSize - 1), size : 1..FileSize,
            fails : BOOLEAN]

ASSUME BlockCacheAssumption ==
    /\ DirOf \in [File -> Dir]
    /\ Loads \subseteq [Job -> Request]
    /\ \A l \in Loads, j \in Job : l[j].pos + l[j].size <= FileSize
    /\ BlockSize \in Nat \ {0} /\ Cap \in Nat /\ BlockSize <= Cap /\ FileSize \in Nat
    /\ Threads \subseteq Nat \ {0}

VARIABLES
    req,          \* the member of Loads
    threads,      \* the one of Threads
    disk,         \* the bytes the storage has
    caching_map,  \* caching_map_: directory -> block id -> bytes
    lru,          \* the list from head to tail: [key, block, size]
    cur_size,     \* cur_size_
    pc,           \* where a request is
    via,          \* the loop it is in: read_from_cache, or write_to_cache with
                  \* the file found ("update") or not found ("first")
    todo,         \* block ids the loop has left
    data,         \* what read_from_cache has collected; later, the bytes to cache
    blocks,       \* the block_map that write_to_cache builds
    reply,        \* what the client was told first
    given,        \* the answers of the storage that were handled
    committed,    \* history: who wrote a byte of the storage at some time
    failed        \* history: requests that the storage did not do, or not yet,
                  \* when it answered

cacheVars == <<caching_map, lru, cur_size>>
vars == <<req, threads, disk, cacheVars, pc, via, todo, data, blocks, reply, given, committed,
          failed>>

Empty == [x \in {} |-> x]

Init ==
    /\ req \in Loads
    /\ threads \in Threads
    /\ disk = [f \in File |-> [p \in 0..(FileSize - 1) |->
                [file |-> f, pos |-> p, by |-> Nobody]]]
    /\ caching_map = Empty
    /\ lru = <<>>
    /\ cur_size = 0
    /\ pc = [j \in Job |-> "new"]
    /\ via = [j \in Job |-> "read"]
    /\ todo = [j \in Job |-> <<>>]
    /\ data = [j \in Job |-> <<>>]
    /\ blocks = [j \in Job |-> Empty]
    /\ reply = [j \in Job |-> <<>>]
    /\ given = [j \in Job |-> {}]
    /\ committed = [f \in File |-> [p \in 0..(FileSize - 1) |-> {Nobody}]]
    /\ failed = {}

-----------------------------------------------------------------------------
\* input.uuid(): the key of a request in the cache.
Key(j) == DirOf[req[j].file]

\* get_block_ids: one id for every BlockSize bytes from the position on.
BlockIds(j) ==
    [i \in 1..((req[j].size + BlockSize - 1) \div BlockSize) |->
        (req[j].pos + (i - 1) * BlockSize) \div BlockSize]

\* Slip: every block is filled from the start of the data.
Chunk_fromStart(j, b) == SubSeq(data[j], 1, Min({BlockSize, Len(data[j])}))

\* The part of the request's bytes that write_to_cache puts into block b.
Chunk(j, b) ==
    LET start == (b - req[j].pos \div BlockSize) * BlockSize
    IN  SubSeq(data[j], start + 1, start + Min({BlockSize, req[j].size - start}))

\* The bytes that a request writes, and those that the storage has for it.
Mine(j) ==
    [i \in 1..req[j].size |-> [file |-> req[j].file, pos |-> req[j].pos + i - 1, by |-> j]]

Stored(j) == [i \in 1..req[j].size |-> disk[req[j].file][req[j].pos + i - 1]]

\* What is in their place when the storage does not give them all: the text of
\* an error, or a part of the bytes (taken for noise, too), and what lies behind
\* in the memory.
Garbled(j) ==
    [i \in 1..req[j].size |-> [file |-> req[j].file, pos |-> req[j].pos + i - 1, by |-> Noise]]

-----------------------------------------------------------------------------
\* A thread runs a request, from the first step of a handler to the last.
Running(j) == pc[j] \notin {"new", "disk", "done"}

Free == Cardinality({j \in Job : Running(j)}) < threads

\* Requests in read_from_cache.
Reading(j) == via[j] = "read" /\ pc[j] \in {"lookup", "set", "evict"}

\* Slip: write_to_cache holds its const_accessor while it sets a block.
Shared_unreleased(d) ==
    \E j \in Job : /\ Key(j) = d
                   /\ \/ Reading(j)
                      \/ via[j] = "update" /\ pc[j] \in {"set", "evict"}

\* They hold a const_accessor of their directory.
Shared(d) == \E j \in Job : Reading(j) /\ Key(j) = d

\* mtx_ of the LRU list is taken in set.
Locked == \E j \in Job : pc[j] = "evict"

Goto(j, label) == pc' = [pc EXCEPT ![j] = label]

\* start_job, on the strand of the directory: a write goes to the storage, a
\* read to the cache, if the directory is there.
Start(j) ==
    /\ Free
    /\ pc[j] = "new"
    /\ \A k \in Job : Reading(k) => Key(k) # Key(j)
    /\ \/ /\ req[j].op = "read" /\ Key(j) \in DOMAIN caching_map
          /\ todo' = [todo EXCEPT ![j] = BlockIds(j)]
          /\ Goto(j, "lookup")
       \/ /\ req[j].op = "write" \/ Key(j) \notin DOMAIN caching_map
          /\ Goto(j, "disk")
          /\ UNCHANGED todo
    /\ UNCHANGED <<req, threads, disk, cacheVars, via, data, blocks, reply, given, committed, failed>>

\* read_from_cache: all blocks found is a hit, ...
Hit(j) ==
    /\ pc[j] = "lookup" /\ todo[j] = <<>>
    /\ reply' = [reply EXCEPT ![j] = data[j]]
    /\ Goto(j, "done")
    /\ UNCHANGED <<req, threads, disk, cacheVars, via, todo, data, blocks, given, committed, failed>>

\* ... a block found is to be moved to the head of the list, ...
Found(j) ==
    /\ pc[j] = "lookup" /\ todo[j] # <<>>
    /\ Head(todo[j]) \in DOMAIN caching_map[Key(j)]
    /\ Goto(j, "set")
    /\ UNCHANGED <<req, threads, disk, cacheVars, via, todo, data, blocks, reply, given, committed, failed>>

\* ... and one that is missing sends the request to the storage.
Miss(j) ==
    /\ pc[j] = "lookup" /\ todo[j] # <<>>
    /\ Head(todo[j]) \notin DOMAIN caching_map[Key(j)]
    /\ data' = [data EXCEPT ![j] = <<>>]
    /\ Goto(j, "disk")
    /\ UNCHANGED <<req, threads, disk, cacheVars, via, todo, blocks, reply, given, committed, failed>>

-----------------------------------------------------------------------------
\* The entry a request sets: its current block, with the size it is to have.
NewEntry(j) ==
    LET b == Head(todo[j])
    IN  [key |-> Key(j), block |-> b,
         size |-> IF via[j] = "read" THEN Len(caching_map[Key(j)][b]) ELSE Len(Chunk(j, b))]

SameBlock(e, f) == e.key = f.key /\ e.block = f.block

SizeOf(entries) == MapThenSumSet(LAMBDA i : entries[i].size, DOMAIN entries)

\* The places of a block's node in the list.
Nodes(e) == {i \in DOMAIN lru : SameBlock(e, lru[i])}

\* deletenode: a list without its node at place i.
deletenode(nodes, i) == SubSeq(nodes, 1, i - 1) \o SubSeq(nodes, i + 1, Len(nodes))

\* LRUCache::set takes the mutex and deletes the block's node, if it has one.
SetBegin(j) ==
    LET at == Nodes(NewEntry(j)) IN
    /\ pc[j] = "set" /\ ~Locked
    /\ \/ at = {} /\ UNCHANGED <<lru, cur_size>>
       \/ \E i \in at : /\ lru' = deletenode(lru, i)
                        /\ cur_size' = cur_size - lru[i].size
    /\ Goto(j, "evict")
    /\ UNCHANGED <<req, threads, disk, caching_map, via, todo, data, blocks, reply, given, committed, failed>>

\* delete_entry_from_cache: the block goes, and with the last its directory.
Without(map, d, b) ==
    IF d \notin DOMAIN map THEN map
    ELSE LET rest == [x \in DOMAIN map[d] \ {b} |-> map[d][x]]
         IN  IF rest = Empty THEN [x \in DOMAIN map \ {d} |-> map[x]]
                             ELSE [map EXCEPT ![d] = rest]

\* Slip: the list forgets a block that stays in the map.
Evict_listOnly(j) ==
    /\ pc[j] = "evict" /\ cur_size + NewEntry(j).size > Cap
    /\ ~Shared(lru[Len(lru)].key)
    /\ lru' = deletenode(lru, Len(lru))
    /\ cur_size' = cur_size - lru[Len(lru)].size
    /\ UNCHANGED <<req, threads, disk, caching_map, pc, via, todo, data, blocks, reply, given, committed, failed>>

\* While the new block does not fit, the one at the tail goes.  That takes an
\* accessor of its directory, which waits for those who read it.
Evict(j) ==
    LET victim == lru[Len(lru)] IN
    /\ pc[j] = "evict" /\ cur_size + NewEntry(j).size > Cap
    /\ ~Shared(victim.key)
    /\ caching_map' = Without(caching_map, victim.key, victim.block)
    /\ lru' = deletenode(lru, Len(lru))
    /\ cur_size' = cur_size - victim.size
    /\ UNCHANGED <<req, threads, disk, pc, via, todo, data, blocks, reply, given, committed, failed>>

\* Slip: the size of the new node is not added.
Grown_not(e) == cur_size

\* addnode on the size.
Grown(e) == cur_size + e.size

\* Then the new node comes to the head and the mutex is released.  The loops
\* go on: the block is collected, to be emplaced, or put into the new map.
SetEnd(j) ==
    LET e == NewEntry(j)
        b == e.block
        rest == Tail(todo[j])
    IN  /\ pc[j] = "evict" /\ cur_size + e.size <= Cap
        /\ lru' = <<e>> \o lru
        /\ cur_size' = Grown(e)
        /\ \/ /\ via[j] = "read"
              /\ data' = [data EXCEPT ![j] = @ \o caching_map[Key(j)][b]]
              /\ todo' = [todo EXCEPT ![j] = rest]
              /\ Goto(j, "lookup")
              /\ UNCHANGED blocks
           \/ /\ via[j] = "update"
              /\ Goto(j, "emplace")
              /\ UNCHANGED <<data, todo, blocks>>
           \/ /\ via[j] = "first"
              /\ blocks' = [blocks EXCEPT ![j] = [x \in DOMAIN @ \cup {b} |->
                                IF x = b THEN Chunk(j, b) ELSE @[x]]]
              /\ todo' = [todo EXCEPT ![j] = rest]
              /\ Goto(j, IF rest = <<>> THEN "publish" ELSE "set")
              /\ UNCHANGED data
        /\ UNCHANGED <<req, threads, disk, caching_map, via, reply, given, committed, failed>>

-----------------------------------------------------------------------------
\* An answer of the storage is handled, the servers' or the timer's.
Answered(j, who) ==
    /\ Free
    /\ \/ pc[j] = "disk"
       \/ pc[j] = "done" /\ given[j] # {}
    /\ who \notin given[j]
    /\ who = "timer" => req[j].fails
    /\ given' = [given EXCEPT ![j] = @ \cup {who}]
    /\ Goto(j, "fill")

\* One to a read: the client is told, if it was not yet, and as many bytes as
\* the request is for are cached, however many have come.  (The copy from
\* behind the end may also crash the worker, which ends the behaviour.)
DiskRead(j, who, ok) ==
    /\ req[j].op = "read"
    /\ Answered(j, who)
    /\ ok => who = "servers"
    /\ ~ok => req[j].fails
    /\ data' = [data EXCEPT ![j] = IF ok THEN Stored(j) ELSE Garbled(j)]
    /\ reply' = [reply EXCEPT ![j] = IF @ # <<>> THEN @
                                     ELSE IF ok THEN Stored(j) ELSE <<Garbled(j)[1]>>]
    /\ failed' = IF ok THEN failed ELSE failed \cup {j}
    /\ UNCHANGED <<req, threads, disk, cacheVars, via, todo, blocks, committed>>

\* ... or to a write, done or not; its bytes are cached in both cases.
\* start_write makes the file's request for position 0.
DiskWrite(j, who, ok) ==
    LET at == {p \in 0..(req[j].size - 1) : ok}
        f == req[j].file
    IN  /\ req[j].op = "write"
        /\ Answered(j, who)
        /\ ok => who = "servers"
        /\ disk' = [disk EXCEPT ![f] = [p \in DOMAIN @ |-> IF p \in at THEN Mine(j)[p + 1] ELSE @[p]]]
        /\ committed' = [committed EXCEPT ![f] = [p \in DOMAIN @ |->
                            IF p \in at THEN @[p] \cup {j} ELSE @[p]]]
        /\ data' = [data EXCEPT ![j] = Mine(j)]
        /\ failed' = IF ok THEN failed ELSE failed \cup {j}
        /\ UNCHANGED <<req, threads, cacheVars, via, todo, blocks, reply>>

\* write_to_cache: is the directory there?
Fill(j) ==
    /\ pc[j] = "fill"
    /\ via' = [via EXCEPT ![j] = IF Key(j) \in DOMAIN caching_map THEN "update" ELSE "first"]
    /\ todo' = [todo EXCEPT ![j] = BlockIds(j)]
    /\ blocks' = [blocks EXCEPT ![j] = Empty]
    /\ Goto(j, "set")
    /\ UNCHANGED <<req, threads, disk, cacheVars, data, reply, given, committed, failed>>

\* ... If so each block is emplaced, unless the map or the block is there no
\* longer or already: emplace does not replace.
Emplace(j) ==
    LET d == Key(j)
        b == Head(todo[j])
    IN  /\ pc[j] = "emplace"
        /\ ~Shared(d)
        /\ caching_map' =
              IF d \in DOMAIN caching_map /\ b \notin DOMAIN caching_map[d]
              THEN [caching_map EXCEPT ![d] = [x \in DOMAIN @ \cup {b} |->
                        IF x = b THEN Chunk(j, b) ELSE @[x]]]
              ELSE caching_map
        /\ todo' = [todo EXCEPT ![j] = Tail(@)]
        /\ Goto(j, IF Len(todo[j]) = 1 THEN "done" ELSE "set")
        /\ UNCHANGED <<req, threads, disk, lru, cur_size, via, data, blocks, reply, given, committed, failed>>

\* ... If not, the new map is emplaced as a whole.
Publish(j) ==
    LET d == Key(j) IN
    /\ pc[j] = "publish"
    /\ caching_map' = IF d \in DOMAIN caching_map THEN caching_map
                      ELSE [x \in DOMAIN caching_map \cup {d} |->
                                IF x = d THEN blocks[j] ELSE caching_map[x]]
    /\ Goto(j, "done")
    /\ UNCHANGED <<req, threads, disk, lru, cur_size, via, todo, data, blocks, reply, given, committed, failed>>

-----------------------------------------------------------------------------
Step(j) ==
    \/ Start(j) \/ Hit(j) \/ Found(j) \/ Miss(j)
    \/ SetBegin(j) \/ Evict(j) \/ SetEnd(j)
    \/ \E who \in {"servers", "timer"}, ok \in BOOLEAN : DiskRead(j, who, ok) \/ DiskWrite(j, who, ok)
    \/ Fill(j) \/ Emplace(j) \/ Publish(j)

Next == \E j \in Job : Step(j)

Spec == Init /\ [][Next]_vars

\* The threads go on as long as one can.
FairSpec == Spec /\ WF_vars(Next)

-----------------------------------------------------------------------------
\* The list accounts for its size: cur_size_ is the sum of the entries, stays
\* within the capacity, and no block has two nodes, whatever the threads do.
ListAccounted ==
    /\ cur_size = SizeOf(lru) /\ cur_size <= Cap
    /\ \A i, k \in DOMAIN lru : SameBlock(lru[i], lru[k]) => i = k

\* Requests for whole blocks that fit into the cache.
Whole(j) == req[j].pos % BlockSize = 0 /\ req[j].size % BlockSize = 0 /\ req[j].size <= Cap

\* On one thread every cached block has its node in the list once a request is
\* finished, so that it will be evicted some time; if no request is larger than
\* the cache.  The node has the size of the last request: emplace may have kept
\* a longer block.
CachedAreListed ==
    (threads = 1 /\ (\A j \in Job : req[j].size <= Cap) /\ (\A j \in Job : ~Running(j)))
        => \A d \in DOMAIN caching_map : \A b \in DOMAIN caching_map[d] :
              \E i \in DOMAIN lru : lru[i].key = d /\ lru[i].block = b

\* Who is to blame for a byte that the cache has of a request that failed, and
\* for those that it may have for a place of a file.
Author(j) == IF req[j].op = "write" THEN j ELSE Noise

Left(f, p) ==
    {Author(j) : j \in {k \in failed : /\ req[k].file = f
                                        /\ p \in req[k].pos..(req[k].pos + req[k].size - 1)}}

\* A read that is answered gets the bytes of its file at its position, as many
\* as it asked for unless it failed; each as it once was in the storage, or as
\* a request for the same place that failed left it in the cache: the byte of a
\* write that was not done, or what a read got in its stead.  Also from the
\* cache, whatever the threads do and in whatever order the storage answers; if
\* directories have one file each, requests are for whole blocks, and writes
\* begin at position 0.
ReadsAreOfTheFile ==
    (/\ \A j, k \in Job : Key(j) = Key(k) => req[j].file = req[k].file
     /\ \A j \in Job : Whole(j) /\ (req[j].op = "write" => req[j].pos = 0))
        => \A j \in Job : reply[j] # <<>> =>
              /\ Len(reply[j]) = req[j].size \/ j \in failed
              /\ \A i \in DOMAIN reply[j] :
                    LET x == reply[j][i]
                    IN  /\ x.file = req[j].file /\ x.pos = req[j].pos + i - 1
                        /\ x.by \in committed[x.file][x.pos] \cup Left(x.file, x.pos)

\* On one thread requests for whole blocks are all finished: none waits in
\* set for an accessor of a directory that it holds itself.  (A smaller write
\* leaves a node that is smaller than its block; a read that finds the block may
\* have to evict another one of the directory it holds.)
EveryRequestDone ==
    (threads = 1 /\ \A j \in Job : Whole(j)) => <>(\A j \in Job : pc[j] = "done")
=============================================================================
