---------------------------- MODULE Directories ----------------------------
(***************************************************************************)
(* Directories and the requests on them (storage-conf-ssbd-backend.hpp): a *)
(* directory is a file of cells of 64 bytes, a header with the number of   *)
(* its entries and then the entries.  A request reads the directory, makes *)
(* the new content of the whole file, and writes it with a two phase       *)
(* commit, together with the other files it changes.                       *)
(*                                                                         *)
(* A cell is a pair: <<"stat", count>> is a header, <<name, size>> an      *)
(* entry, <<request, i>> the i-th cell of the data that a request wrote.   *)
(* The path of a directory ends in "/" and that of a file does not, so     *)
(* their keys differ.  A worker's handlers run on one thread, the cache is *)
(* off, and replication_size_ is 1.                                        *)
(***************************************************************************)
EXTENDS Integers, SequencesExt, FiniteSetsExt

CONSTANTS Job,         \* requests
          Worker,      \* datafunctions
          Dir,         \* directories, each called like its entry in its parent
          Name,        \* names of files and directories
          File,        \* the paths of files, of a directory and a name
          Version,     \* version() as each request draws it
          Past,        \* who wrote the files there are at the beginning
          Scenarios,   \* what is asked, of whom, and what goes wrong
          BlockCells,  \* blocksize(), and what the first read asks for
          FileBlocks,  \* blocks of the largest file
          SizeLimit    \* file_size has 16 bits

DirKey(d) == <<d, "/">>
FileKey(d, n) == <<d, n>>
Key == (Dir \X {"/"}) \cup File
Block == Key \X (0..(FileBlocks - 1))

\* A request about name in dir; rename takes it to new in to.
Request == [op : {"init", "addfile", "addfile_write", "deletefile", "mkdir", "rename",
                  "write", "read", "ls", "getstat", "open"},
            dir : Dir, name : Name, pos : Nat, size : Nat, to : Dir, new : Name]

Plain(op, d, n) == [op |-> op, dir |-> d, name |-> n, pos |-> 0, size |-> 0, to |-> d, new |-> n]

\* What Client::rename_file sends: the rename, then the unlock of the old
\* parent, and first its lock, if the parents have different proxies.  Lock and
\* unlock are made with meta_operation_t::init.
ClientRename(d, n, e, m, same_proxy) ==
    (IF same_proxy THEN <<>> ELSE <<Plain("init", d, n)>>)
        \o <<[Plain("rename", d, n) EXCEPT !.to = e, !.new = m], Plain("init", d, n)>>

\* The entries of the directories there are; the requests, their workers and
\* those that a request is sent after; whether it may be sent while one on the
\* same files is unanswered; and the requests whose timers may expire.
IsScenario(s) ==
    /\ DOMAIN s.tree \subseteq Dir
    /\ \A d \in DOMAIN s.tree : s.tree[d] \in Seq(Name \X (0..(SizeLimit - 1)))
    /\ s.load \in [Job -> Request]
    /\ \A j \in Job : LET q == s.load[j]
                     IN  q.op # "mkdir" => {FileKey(q.dir, q.name), FileKey(q.to, q.new)} \subseteq File
    /\ s.on \in [Job -> Worker] /\ s.after \in [Job -> SUBSET Job]
    /\ s.overlap \in BOOLEAN /\ s.expires \subseteq Job

ASSUME DirectoriesAssumption ==
    /\ Version \in [Job -> Nat] /\ \A j, k \in Job : Version[j] > 1 /\ (Version[j] = Version[k] => j = k)
    /\ BlockCells \in Nat \ {0} /\ FileBlocks \in Nat \ {0} /\ SizeLimit \in Nat \ {0}
    /\ \A s \in Scenarios : IsScenario(s)

Zero == <<"", 0>>
TimeoutText == <<"Error: Read Request Timeout", 0>>
Cell == (Name \X (0..(SizeLimit - 1))) \cup ({"stat"} \X Nat) \cup (Job \X Nat)
           \cup (Range(Past) \X Nat) \cup {TimeoutText}

S == INSTANCE SsbdBlock WITH Txn <- Cell, Part <- 0..(BlockCells - 1), None <- Zero

\* start_read of the directory, of the new parent (part 2 of a rename), or of
\* the content of a file (part 3).
Slot == {"dir", "to", "data"}

VARIABLES
    sc,       \* the member of Scenarios
    blk,      \* the blocks on the servers
    pipe,     \* pipe[w][x]: requests in flight from worker w to the server of x
    resp,     \* responses in flight
    alive,    \* workers that run
    checked,  \* recoder_ of each worker
    begun,    \* requests that were started
    rd,       \* rd[j][s]: result_accumulator and timer of a start_read
    ren,      \* outstanding_requests, all_requests_successful, error_string
              \* and filemeta of a rename
    inputs,   \* the files to write, and their new cells from position 0 on
    tx,       \* outstanding_requests, all_ssbd_agree and timer of the two phase
              \* commit; its decision; history: how many were started
    told      \* what next was invoked with, in order

vars == <<sc, blk, pipe, resp, alive, checked, begun, rd, ren, inputs, tx, told>>

NoInputs == [k \in {} |-> <<>>]
NoRead == [size |-> 0, got |-> NoInputs, timer |-> "off"]
NoTx == [left |-> 0, agree |-> TRUE, timer |-> "off", decision |-> "none", starts |-> 0]

TypeOK ==
    /\ blk \in [Block -> [present : BOOLEAN, data : S!Content, committed : Nat,
                          pver : Nat, pdata : S!Content]]
    /\ \A w \in Worker, x \in Block : \A i \in DOMAIN pipe[w][x] :
          pipe[w][x][i].kind \in {"get", "prepare", "quick", "execute", "rollback"}
    /\ \A r \in resp : r.job \in Job /\ r.slot \in Slot \cup {"2pc"} /\ r.block \in Block
    /\ alive \subseteq Worker /\ begun \subseteq Job
    /\ checked \in [Worker -> SUBSET Key]
    /\ \A j \in Job : /\ \A s \in Slot : rd[j][s].timer \in {"off", "on"}
                      /\ DOMAIN inputs[j] \subseteq Key
                      /\ ren[j].left \in Int /\ tx[j].left \in Nat
                      /\ tx[j].decision \in {"none", "execute", "rollback"}
                      /\ tx[j].timer \in {"off", "on"}

\* A file of these cells, committed by an earlier request.
Stored(cells, b) ==
    IF b * BlockCells >= Len(cells) THEN S!FreshBlock
    ELSE [S!FreshBlock EXCEPT !.present = TRUE, !.committed = 1, !.pver = 1,
            !.data = [p \in 0..(BlockCells - 1) |->
                        LET i == b * BlockCells + p + 1
                        IN  IF i <= Len(cells) THEN cells[i] ELSE Zero]]

Header(n) == <<"stat", n>>
Directory(entries) == <<Header(Len(entries))>> \o entries

\* The cells of a file at the beginning.
FirstCells(s, k) ==
    IF k[1] \notin DOMAIN s.tree THEN <<>>
    ELSE IF k[2] = "/" THEN Directory(s.tree[k[1]])
    ELSE LET mine == {e \in Range(s.tree[k[1]]) : e[1] = k[2]}
         IN  IF mine = {} THEN <<>>
             ELSE [i \in 1..(CHOOSE e \in mine : TRUE)[2] |-> <<Past[k], i>>]

Init ==
    /\ sc \in Scenarios
    /\ blk = [x \in Block |-> Stored(FirstCells(sc, x[1]), x[2])]
    /\ pipe = [w \in Worker |-> [x \in Block |-> <<>>]]
    /\ resp = {}
    /\ alive = Worker
    /\ checked = [w \in Worker |-> {}]
    /\ begun = {}
    /\ rd = [j \in Job |-> [s \in Slot |-> NoRead]]
    /\ ren = [j \in Job |-> [left |-> 0, ok |-> TRUE, err |-> "", entry |-> Zero]]
    /\ inputs = [j \in Job |-> NoInputs]
    /\ tx = [j \in Job |-> NoTx]
    /\ told = [j \in Job |-> <<>>]

-----------------------------------------------------------------------------
\* The content of a directory.

\* file_count; zero bytes are a header of an empty directory.
Count(c) == c[1][2]

Entries(c) == SubSeq(c, 2, Count(c) + 1)

\* What is too short to hold a header: nothing, or the text of an error.
NoHeader(c) == c = <<>> \/ c = <<TimeoutText>>

\* The read was long enough for all entries.
Enough(c) == Len(c) >= Count(c) + 1

\* The first entry of that name, or 0.
Find(c, n) ==
    LET at == {i \in 1..Count(c) : Entries(c)[i][1] = n}
    IN  IF at = {} THEN 0 ELSE Min(at)

Added(c, entry) == Directory(Append(Entries(c), entry))

\* The last entry takes the place of the one removed.
Removed(c, i) ==
    LET es == Entries(c) IN Directory(Front([es EXCEPT ![i] = Last(es)]))

Replaced(c, i, entry) == <<c[1]>> \o [Entries(c) EXCEPT ![i] = entry]

\* The size start_write computes: the number of the last block and what is
\* written to it, wherever in the block that starts.
NewFileSize(q) ==
    LET end == q.pos + q.size
        last == ((end - 1) \div BlockCells) * BlockCells
    IN  IF q.size = 0 THEN 0 ELSE last + end - Max({q.pos, last})

\* Slip: more bits than file_size has.
Grown_wide(size, q) == Max({size, NewFileSize(q)})

Grown(size, q) == Max({size, NewFileSize(q)}) % SizeLimit

-----------------------------------------------------------------------------
\* What a request makes of the directory it has read: an error, an answer, or
\* the files it writes, each from position 0 on.

Refuse(text) == [text |-> text, seen |-> {}, files |-> NoInputs]

Answer(seen) == [text |-> "OK", seen |-> seen, files |-> NoInputs]

Writes(files) == [text |-> "", seen |-> {}, files |-> files]

Data(j) == [i \in 1..sc.load[j].size |-> <<j, i>>]

\* Slip: the file is added whether or not its name is there.
start_meta_add_file_anyway(q, c) == Writes(DirKey(q.dir) :> Added(c, <<q.name, 0>>))

start_meta_add_file(q, c) ==
    IF Find(c, q.name) # 0 THEN Refuse("Error: File already exists")
    ELSE Writes(DirKey(q.dir) :> Added(c, <<q.name, 0>>))

start_create_and_write_file_single_request(j, c) ==
    LET q == sc.load[j]
    IN  IF Find(c, q.name) # 0 THEN Refuse("Error: File already exists")
        ELSE Writes((DirKey(q.dir) :> Added(c, <<q.name, 0>>)) @@ (FileKey(q.dir, q.name) :> Data(j)))

start_meta_mkdir(q, c) ==
    IF Find(c, q.name) # 0 THEN Refuse("Error: Directory already exists")
    ELSE Writes((DirKey(q.dir) :> Added(c, <<q.name, 0>>)) @@ (DirKey(q.name) :> <<Header(0)>>))

start_meta_delete_file(q, c) ==
    IF Find(c, q.name) = 0 THEN Refuse("Error: File not found")
    ELSE Writes(DirKey(q.dir) :> Removed(c, Find(c, q.name)))

\* The data goes to position 0, whatever the position of the write.  A file
\* that the directory does not have is written all the same.
start_write(j, c) ==
    LET q == sc.load[j]
        i == Find(c, q.name)
    IN  Writes((FileKey(q.dir, q.name) :> Data(j)) @@ (DirKey(q.dir) :>
            IF i = 0 THEN SubSeq(c, 1, Count(c) + 1)
            ELSE Replaced(c, i, <<q.name, Grown(Entries(c)[i][2], q)>>)))

start_meta_get_stat(q, c) ==
    IF Find(c, q.name) = 0 THEN Refuse("Error: File not found")
    ELSE Answer({Entries(c)[Find(c, q.name)]})

start_meta_open_file(q, c) ==
    IF Find(c, q.name) = 0 THEN Refuse("Error: File not found") ELSE Answer({})

start_meta_ls(c) == Answer(Range(Entries(c)))

\* Slip: the new entry does not keep the size.
Moved_sizeLost(q, c) == <<q.new, 0>>

\* The entry that a rename gives the file.
Moved(q, c) == <<q.new, Entries(c)[Find(c, q.name)][2]>>

\* Within a directory, the new name is compared with the old one only.  The
\* old parent is the first file that a rename writes.
start_meta_rename_file(q, c) ==
    LET i == Find(c, q.name)
    IN  CASE i = 0 -> Refuse("Error: File not found")
          [] i # 0 /\ q.to = q.dir /\ q.new = q.name -> Refuse("Error: File name already exists")
          [] i # 0 /\ q.to = q.dir /\ q.new # q.name ->
                Writes(DirKey(q.dir) :> Replaced(c, i, Moved(q, c)))
          [] i # 0 /\ q.to # q.dir -> Writes(DirKey(q.dir) :> Removed(c, i))

Outcome(j, c) ==
    LET q == sc.load[j]
    IN  CASE q.op = "addfile" -> start_meta_add_file(q, c)
          [] q.op = "addfile_write" -> start_create_and_write_file_single_request(j, c)
          [] q.op = "mkdir" -> start_meta_mkdir(q, c)
          [] q.op = "deletefile" -> start_meta_delete_file(q, c)
          [] q.op = "write" -> start_write(j, c)
          [] q.op = "getstat" -> start_meta_get_stat(q, c)
          [] q.op = "open" -> start_meta_open_file(q, c)
          [] q.op = "ls" -> start_meta_ls(c)
          [] q.op = "rename" -> start_meta_rename_file(q, c)

-----------------------------------------------------------------------------
\* Messages, and the steps that handlers are made of.

BlocksOf(files) ==
    UNION {{k} \X (0..((Len(files[k]) - 1) \div BlockCells)) : k \in DOMAIN files}

Chunk(cells, b) == SubSeq(cells, b * BlockCells + 1, Min({Len(cells), (b + 1) * BlockCells}))

Message(kind, j, slot, n, cells) ==
    [kind |-> kind, job |-> j, slot |-> slot, n |-> n, cells |-> cells]

\* start_send_request, to the servers of some blocks.
Send(j, messages) ==
    pipe' = [pipe EXCEPT ![sc.on[j]] = [x \in Block |->
                IF x \in DOMAIN messages THEN Append(@[x], messages[x]) ELSE @[x]]]

\* start_read, of some keys and numbers of cells: one get for every block.
StartRead(j, reads, base) ==
    LET blocks(s) == BlocksOf(reads[s][1] :> [i \in 1..reads[s][2] |-> Zero])
        Slice(s, b) == Min({BlockCells, reads[s][2] - b * BlockCells})
    IN  /\ rd' = [base EXCEPT ![j] = [s \in Slot |->
                    IF s \in DOMAIN reads
                    THEN [size |-> reads[s][2], got |-> NoInputs, timer |-> "on"] ELSE @[s]]]
        /\ Send(j, [x \in UNION {blocks(s) : s \in DOMAIN reads} |->
                    LET s == CHOOSE s \in DOMAIN reads : reads[s][1] = x[1]
                    IN  Message("get", j, s, Slice(s, x[2]), <<>>)])

\* start_2pc_prepare and start_2pc_prepare_multi_inputs: a prepare for every
\* block of every file.
Prepare(j, files) ==
    LET w == sc.on[j]
        kind(k) == IF k \in checked[w] THEN "quick" ELSE "prepare"
    IN  /\ inputs' = [inputs EXCEPT ![j] = files]
        /\ tx' = [tx EXCEPT ![j] = [left |-> Cardinality(BlocksOf(files)), agree |-> TRUE,
                     timer |-> "on", decision |-> "none", starts |-> @.starts + 1]]
        /\ Send(j, [x \in BlocksOf(files) |->
                      Message(kind(x[1]), j, "2pc", 0, Chunk(files[x[1]], x[2]))])

\* The client's answer.
Tell(j, text, seen) == told' = [told EXCEPT ![j] = Append(@, [text |-> text, seen |-> seen])]

Recode(j, keys) == checked' = [checked EXCEPT ![sc.on[j]] = keys]

-----------------------------------------------------------------------------
\* A rename: the old parent is read, then the new parent and the file.

\* The file and the new parent are read side by side; an empty file is not.
RenameParts(j, c, left, base) ==
    LET q == sc.load[j]
        entry == Moved(q, c)
        file == FileKey(q.dir, q.name)
        two == IF q.to = q.dir THEN NoInputs ELSE "to" :> <<DirKey(q.to), BlockCells>>
        three == IF entry[2] = 0 THEN NoInputs ELSE "data" :> <<file, entry[2]>>
        known == left @@ (IF entry[2] = 0 THEN FileKey(q.to, q.new) :> <<>> ELSE NoInputs)
    IN  IF DOMAIN (two @@ three) = {}
        THEN Prepare(j, known) /\ rd' = base /\ UNCHANGED ren
        ELSE /\ StartRead(j, two @@ three, base)
             /\ ren' = [ren EXCEPT ![j] = [left |-> Cardinality(DOMAIN (two @@ three)),
                                            ok |-> TRUE, err |-> "", entry |-> entry]]
             /\ inputs' = [inputs EXCEPT ![j] = known]
             /\ UNCHANGED tx

\* Slip: what comes after the last part is taken for the last, too.
LastPart_orLater(left) == left <= 0

LastPart(left) == left = 0

\* A part is finished.  After the last, everything is written, or the error is
\* answered.  A part that has been told twice, by its timer and by the servers,
\* may leave the other one out: the worker dies of the null pointer.
PartDone(j, ok, err, files, base, keys) ==
    LET q == sc.load[j]
        left == ren[j].left - 1
        good == ren[j].ok /\ ok
        complete == {DirKey(q.to), FileKey(q.to, q.new)} \subseteq DOMAIN files
    IN  /\ ren' = [ren EXCEPT ![j] = [left |-> left, ok |-> good, entry |-> @.entry,
                                       err |-> IF ok THEN @.err ELSE err]]
        /\ rd' = base
        /\ Recode(j, keys)
        /\ \/ /\ ~LastPart(left)
              /\ inputs' = [inputs EXCEPT ![j] = files]
              /\ UNCHANGED <<pipe, tx, told, alive>>
           \/ /\ LastPart(left) /\ ~good
              /\ Tell(j, ren'[j].err, {})
              /\ UNCHANGED <<pipe, tx, inputs, alive>>
           \/ /\ LastPart(left) /\ good /\ complete
              /\ Prepare(j, files)
              /\ UNCHANGED <<told, alive>>
           \/ /\ LastPart(left) /\ good /\ ~complete
              /\ alive' = alive \ {sc.on[j]}
              /\ UNCHANGED <<pipe, tx, inputs, told>>

\* start_meta_rename_part_2 on the content of the new parent.
Part2(j, c, base, keys) ==
    LET q == sc.load[j]
        to == DirKey(q.to)
    IN  \/ /\ NoHeader(c)
           /\ PartDone(j, FALSE, "Error: No such directory", inputs[j], base, keys \ {to})
        \/ /\ ~NoHeader(c) /\ ~Enough(c)
           /\ StartRead(j, "to" :> <<to, Count(c) + 1>>, base)
           /\ UNCHANGED <<checked, ren, inputs, tx, told, alive>>
        \/ /\ ~NoHeader(c) /\ Enough(c) /\ Find(c, q.new) # 0
           /\ PartDone(j, FALSE, "Error: File name already exists", inputs[j], base, keys)
        \/ /\ ~NoHeader(c) /\ Enough(c) /\ Find(c, q.new) = 0
           /\ PartDone(j, TRUE, "", (to :> Added(c, ren[j].entry)) @@ inputs[j], base, keys)

\* start_meta_rename_part_3: what was read is the content, be it an error text.
Part3(j, c, base, keys) ==
    LET q == sc.load[j]
    IN  PartDone(j, TRUE, "", (FileKey(q.to, q.new) :> c) @@ inputs[j], base, keys)

-----------------------------------------------------------------------------
\* The handlers of a worker.

\* The directory is there: the readnext of each request.
Perform(j, c, base, keys) ==
    LET q == sc.load[j]
        dir == DirKey(q.dir)
    IN  \/ /\ NoHeader(c)
           /\ Tell(j, "Error: No such directory", {})
           /\ rd' = base
           /\ Recode(j, keys \ {dir})
           /\ UNCHANGED <<pipe, ren, inputs, tx>>
        \/ /\ ~NoHeader(c) /\ ~Enough(c)
           /\ StartRead(j, "dir" :> <<dir, Count(c) + 1>>, base)
           /\ UNCHANGED <<checked, ren, inputs, tx, told>>
        \/ /\ ~NoHeader(c) /\ Enough(c)
           /\ UNCHANGED checked
           /\ LET made == Outcome(j, c) IN
              \/ /\ made.text # ""
                 /\ Tell(j, made.text, made.seen)
                 /\ rd' = base
                 /\ UNCHANGED <<pipe, ren, inputs, tx>>
              \/ /\ made.text = "" /\ q.op # "rename"
                 /\ Prepare(j, made.files)
                 /\ rd' = base
                 /\ UNCHANGED <<ren, told>>
              \/ /\ made.text = "" /\ q.op = "rename"
                 /\ RenameParts(j, c, made.files, base)
                 /\ UNCHANGED told

\* The handler of a read, on what it has read.
ReadNext(j, slot, c, base, keys) ==
    \/ slot = "dir" /\ Perform(j, c, base, keys) /\ UNCHANGED alive
    \/ slot = "to" /\ Part2(j, c, base, keys)
    \/ slot = "data" /\ sc.load[j].op = "rename" /\ Part3(j, c, base, keys)
    \/ /\ slot = "data" /\ sc.load[j].op = "read"
       /\ Tell(j, "OK", {<<i, c[i]>> : i \in {i \in DOMAIN c : c[i] # Zero}})
       /\ rd' = base
       /\ Recode(j, keys)
       /\ UNCHANGED <<pipe, ren, inputs, tx, alive>>

Touches(q) ==
    {DirKey(q.dir), DirKey(q.to), FileKey(q.dir, q.name), FileKey(q.to, q.new)}
        \cup (IF q.op = "mkdir" THEN {DirKey(q.name)} ELSE {})

Apart(j, k) == Touches(sc.load[j]) \cap Touches(sc.load[k]) = {}

\* A request comes in: start_perform and start_perform_metadata.
Start(j) ==
    LET q == sc.load[j]
        read == IF q.op = "read" THEN "data" :> <<FileKey(q.dir, q.name), q.size>>
                                 ELSE "dir" :> <<DirKey(q.dir), BlockCells>>
    IN  /\ j \notin begun /\ sc.on[j] \in alive
        /\ \A k \in sc.after[j] : told[k] # <<>>
        /\ \A k \in begun : sc.overlap \/ told[k] # <<>> \/ Apart(j, k)
        /\ begun' = begun \cup {j}
        /\ \/ /\ q.op = "init"
              /\ Prepare(j, DirKey(q.dir) :> <<Header(0)>>)
              /\ UNCHANGED rd
           \/ /\ q.op # "init"
              /\ StartRead(j, read, rd)
              /\ UNCHANGED <<inputs, tx>>
        /\ UNCHANGED <<sc, blk, resp, alive, checked, ren, told>>

\* A timer that is cancelled has its handler in the queue already, or not.
Cancelled(j, timer) == IF timer = "on" /\ j \in sc.expires THEN {"off", "on"} ELSE {"off"}

\* Slip: a read that ends with a block waits for one more.
AllReady_oneMore(size, got) == DOMAIN got = 0..(size \div BlockCells)

\* Every block of the read is there.
AllReady(size, got) == DOMAIN got = 0..((size - 1) \div BlockCells)

\* A response to a get; with the last one the read is complete.
Receive(r) ==
    LET j == r.job
        got == (r.block[2] :> r.cells) @@ rd[j][r.slot].got
        size == rd[j][r.slot].size
        base(timer) == [rd EXCEPT ![j][r.slot] = [size |-> size, got |-> got, timer |-> timer]]
        content == FlattenSeq([i \in 1..Cardinality(DOMAIN got) |-> got[i - 1]])
    IN  /\ r.slot \in Slot /\ sc.on[j] \in alive
        /\ resp' = resp \ {r}
        /\ \/ /\ ~AllReady(size, got)
              /\ rd' = base(rd[j][r.slot].timer)
              /\ UNCHANGED <<pipe, alive, checked, ren, inputs, tx, told>>
           \/ /\ AllReady(size, got)
              /\ \E timer \in Cancelled(j, rd[j][r.slot].timer) :
                    ReadNext(j, r.slot, content, base(timer), checked[sc.on[j]])
        /\ UNCHANGED <<sc, blk, begun>>

ReadKey(j, slot) ==
    LET q == sc.load[j]
    IN  CASE slot = "dir" -> DirKey(q.dir) [] slot = "to" -> DirKey(q.to)
          [] slot = "data" -> FileKey(q.dir, q.name)

\* The timer of a read: the handler is run on the error text.
ReadTimeout(j, slot) ==
    /\ j \in sc.expires /\ sc.on[j] \in alive /\ rd[j][slot].timer = "on"
    /\ ReadNext(j, slot, <<TimeoutText>>, [rd EXCEPT ![j][slot].timer = "off"],
                checked[sc.on[j]] \ {ReadKey(j, slot)})
    /\ UNCHANGED <<sc, blk, resp, begun>>

LastVote(j) == tx[j].left = 1

\* A response to a prepare; after the last the client is told, and the
\* decision is sent to every block of every file.
Vote(r) ==
    LET j == r.job
        agree == tx[j].agree /\ r.agree
        decision == IF agree THEN "execute" ELSE "rollback"
        keys == DOMAIN inputs[j]
    IN  /\ r.slot = "2pc" /\ sc.on[j] \in alive
        /\ resp' = resp \ {r}
        /\ \/ /\ ~LastVote(j)
              /\ tx' = [tx EXCEPT ![j].left = @ - 1, ![j].agree = agree]
              /\ UNCHANGED <<pipe, checked, told>>
           \/ /\ LastVote(j)
              /\ \E timer \in Cancelled(j, tx[j].timer) :
                   tx' = [tx EXCEPT ![j] = [left |-> 0, agree |-> agree, timer |-> timer,
                                             decision |-> decision, starts |-> @.starts]]
              /\ Recode(j, IF agree THEN checked[sc.on[j]] \cup keys ELSE checked[sc.on[j]] \ keys)
              /\ Tell(j, IF agree THEN "OK" ELSE "Error: Found Pending 2PC Log", {})
              /\ Send(j, [x \in BlocksOf(inputs[j]) |-> Message(decision, j, "2pc", 0, <<>>)])
        /\ UNCHANGED <<sc, blk, alive, begun, rd, ren, inputs>>

\* The timer of the two phase commit.
Deadline(j) ==
    /\ j \in sc.expires /\ sc.on[j] \in alive /\ tx[j].timer = "on"
    /\ tx' = [tx EXCEPT ![j].timer = "off"]
    /\ Recode(j, checked[sc.on[j]] \ DOMAIN inputs[j])
    /\ Tell(j, "Error: request timeout internally", {})
    /\ UNCHANGED <<sc, blk, pipe, resp, alive, begun, rd, ren, inputs>>

-----------------------------------------------------------------------------
\* The server of block x handles the next request of worker w.

Respond(m, x, cells, agree) ==
    resp' = resp \cup {[job |-> m.job, slot |-> m.slot, block |-> x,
                        cells |-> cells, agree |-> agree]}

\* start_db_read: a block that is there is as long as the read asks for.
ServeGet(m, x) ==
    /\ m.kind = "get"
    /\ Respond(m, x, IF blk[x].present THEN [i \in 1..m.n |-> blk[x].data[i - 1]] ELSE <<>>, TRUE)
    /\ UNCHANGED blk

Logged(k, m) ==
    [k EXCEPT !.pver = Version[m.job],
              !.pdata = [p \in DOMAIN k.data |->
                            IF p < Len(m.cells) THEN m.cells[p + 1] ELSE k.data[p]]]

ServePrepare(m, x) ==
    LET k == S!Created(blk[x])
        agree == m.kind = "quick" \/ ~S!HavePendingLog(k)
    IN  /\ m.kind \in {"prepare", "quick"}
        /\ blk' = [blk EXCEPT ![x] = IF agree THEN Logged(k, m) ELSE k]
        /\ Respond(m, x, <<>>, agree)

\* The acknowledgement of a decision changes nothing in the worker.
ServeDecision(m, x) ==
    /\ m.kind \in {"execute", "rollback"}
    /\ blk' = [blk EXCEPT ![x] = IF m.kind = "execute" THEN S!AfterExecute(@) ELSE S!AfterRollback(@)]
    /\ UNCHANGED resp

Serve(w, x) ==
    /\ pipe[w][x] # <<>>
    /\ LET m == Head(pipe[w][x]) IN ServeGet(m, x) \/ ServePrepare(m, x) \/ ServeDecision(m, x)
    /\ pipe' = [pipe EXCEPT ![w][x] = Tail(@)]
    /\ UNCHANGED <<sc, alive, checked, begun, rd, ren, inputs, tx, told>>

-----------------------------------------------------------------------------
Next ==
    \/ \E j \in Job : Start(j) \/ Deadline(j) \/ \E slot \in Slot : ReadTimeout(j, slot)
    \/ \E r \in resp : Receive(r) \/ Vote(r)
    \/ \E w \in Worker, x \in Block : Serve(w, x)

Spec == Init /\ [][Next]_vars

-----------------------------------------------------------------------------
\* The requests that are decided take effect as soon as the servers of their
\* blocks have the decision; this is what they will show.

Decided(k) == \E j \in Job : tx[j].decision = "execute" /\ Version[j] = k.pver

WillShow(x) ==
    LET k == blk[x] IN IF S!HavePendingLog(k) /\ Decided(k) THEN k.pdata ELSE k.data

Made == {d \in Dir : LET k == blk[<<DirKey(d), 0>>] IN k.committed # 0 \/ Decided(k)}

Shown(k) ==
    LET show == [b \in 0..(FileBlocks - 1) |-> WillShow(<<k, b>>)]
    IN  [i \in 1..(FileBlocks * BlockCells) |-> show[(i - 1) \div BlockCells][(i - 1) % BlockCells]]

Listed(d) == IF d \in Made THEN Entries(Shown(DirKey(d))) ELSE <<>>

\* One worker, no requests for the same files at a time, no timers.
Calm == ~sc.overlap /\ sc.expires = {} /\ \A j, k \in Job : sc.on[j] = sc.on[k]

N == INSTANCE NameSpace WITH
        load <- sc.load, calm <- Calm, made <- Made,
        dirs <- [d \in Dir |-> Range(Listed(d))],
        files <- [f \in File |-> Shown(f)]

\* Requests that do not overlap on a file see directories as sets of names and
\* change them in one step, all files of a request together, although each is
\* a read, a computation and a two phase commit that is answered before it is
\* carried out.
ImplementsNameSpace == N!Spec

\* Within a directory, a rename may give a file a name that is taken.
RenamesOnto == \E j \in Job : LET q == sc.load[j] IN q.op = "rename" /\ q.to = q.dir

\* No directory lists a name twice.
NamesUnique ==
    Calm /\ ~RenamesOnto => \A d \in Dir : \A i, k \in DOMAIN Listed(d) :
                                Listed(d)[i][1] = Listed(d)[k][1] => i = k

\* However its timers and the answers of the servers fall, a request writes
\* its files once at most, and is answered OK once at most.
OnceAtMost ==
    \A j \in Job : /\ tx[j].starts <= 1
                   /\ Cardinality({i \in DOMAIN told[j] : told[j][i].text = "OK"}) <= 1

\* A request waits only while a message for it is under way: none is left
\* without an answer, unless its worker died.
NobodyWaits ==
    \A j \in begun : \/ told[j] # <<>> \/ sc.on[j] \notin alive
                     \/ \E r \in resp : r.job = j
                     \/ \E x \in Block : \E i \in DOMAIN pipe[sc.on[j]][x] : pipe[sc.on[j]][x][i].job = j

\* Client::rename_file locks the old parent ("creating lock request") and has
\* it unlocked in the background: the other files of a directory stay in it
\* when a client renames one.
OthersStay ==
    \A d \in DOMAIN sc.tree : \A e \in Range(sc.tree[d]) :
        (\A j \in Job : sc.load[j].op \notin {"rename", "deletefile"} \/ sc.load[j].name # e[1])
            => \E i \in DOMAIN Listed(d) : Listed(d)[i][1] = e[1]
=============================================================================
