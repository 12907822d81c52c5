------------------------------ MODULE NameSpace ------------------------------
(***************************************************************************)
(* What directories promise to clients whose requests for the same files   *)
(* do not overlap: each request is carried out in one step, on directories *)
(* that are sets of names with sizes, and on whole files.  The promise     *)
(* ends when it is broken by a client or a timer (calm).                   *)
(***************************************************************************)
EXTENDS Naturals, FiniteSets

CONSTANTS Job, SizeLimit, BlockCells,
          Zero    \* what a cell shows that was never written

VARIABLES load,   \* the requests
          calm,   \* the promise holds
          dirs,   \* dirs[d]: the set of <<name, size>> of d; made: it exists
          made,
          files,  \* files[d, n]: the cells of a file
          told    \* the answers

vars == <<load, calm, dirs, made, files, told>>

Init == told = [j \in Job |-> <<>>]

Answer(j, text, seen) == told' = [told EXCEPT ![j] = <<[text |-> text, seen |-> seen]>>]

Named(d, n) == {e \in dirs[d] : e[1] = n}

Refuse(j, text) ==
    /\ Answer(j, text, {})
    /\ UNCHANGED <<load, calm, dirs, made, files>>

\* The cells a request writes, over those there are.
Written(f, cells) == [files EXCEPT ![f] = [i \in DOMAIN @ |-> IF i \in DOMAIN cells THEN cells[i] ELSE @[i]]]

Data(j) == [i \in 1..load[j].size |-> <<j, i>>]

AddFile(j) ==
    LET q == load[j] IN
    /\ q.op \in {"addfile", "addfile_write"} /\ q.dir \in made
    /\ \/ /\ Named(q.dir, q.name) # {}
          /\ Refuse(j, "Error: File already exists")
       \/ /\ Named(q.dir, q.name) = {}
          /\ dirs' = [dirs EXCEPT ![q.dir] = @ \cup {<<q.name, 0>>}]
          /\ files' = IF q.op = "addfile" THEN files ELSE Written(<<q.dir, q.name>>, Data(j))
          /\ Answer(j, "OK", {})
          /\ UNCHANGED <<load, calm, made>>

Mkdir(j) ==
    LET q == load[j] IN
    /\ q.op = "mkdir" /\ q.dir \in made
    /\ \/ /\ Named(q.dir, q.name) # {}
          /\ Refuse(j, "Error: Directory already exists")
       \/ /\ Named(q.dir, q.name) = {}
          /\ dirs' = [dirs EXCEPT ![q.dir] = @ \cup {<<q.name, 0>>}, ![q.name] = {}]
          /\ made' = made \cup {q.name}
          /\ Answer(j, "OK", {})
          /\ UNCHANGED <<load, calm, files>>

\* An existing directory is emptied.
MakeEmpty(j) ==
    /\ load[j].op = "init"
    /\ dirs' = [dirs EXCEPT ![load[j].dir] = {}]
    /\ made' = made \cup {load[j].dir}
    /\ Answer(j, "OK", {})
    /\ UNCHANGED <<load, calm, files>>

\* Of the requests that need the name, those that do not find it, ...
NotFound(j) ==
    LET q == load[j] IN
    /\ q.op \in {"deletefile", "rename", "getstat", "open"} /\ q.dir \in made
    /\ Named(q.dir, q.name) = {}
    /\ Refuse(j, "Error: File not found")

\* ... a deletion, which leaves the cells of the file where they are, ...
Delete(j) ==
    LET q == load[j] IN
    /\ q.op = "deletefile" /\ q.dir \in made /\ Named(q.dir, q.name) # {}
    /\ dirs' = [dirs EXCEPT ![q.dir] = @ \ Named(q.dir, q.name)]
    /\ Answer(j, "OK", {})
    /\ UNCHANGED <<load, calm, made, files>>

\* ... and a rename: the entry moves with its size, and as many cells of the
\* file are copied.
Rename(j) ==
    LET q == load[j]
        old == Named(q.dir, q.name)
        size == (CHOOSE e \in old : TRUE)[2]
    IN  /\ q.op = "rename" /\ q.dir \in made /\ old # {}
        /\ \/ /\ q.to \notin made
              /\ Refuse(j, "Error: No such directory")
           \/ /\ q.to \in made /\ Named(q.to, q.new) # {}
              /\ Refuse(j, "Error: File name already exists")
           \/ /\ q.to \in made /\ Named(q.to, q.new) = {}
              /\ dirs' = [d \in DOMAIN dirs |->
                            (dirs[d] \ (IF d = q.dir THEN old ELSE {}))
                                \cup (IF d = q.to THEN {<<q.new, size>>} ELSE {})]
              /\ files' = Written(<<q.to, q.new>>, [i \in 1..size |-> files[q.dir, q.name][i]])
              /\ Answer(j, "OK", {})
              /\ UNCHANGED <<load, calm, made>>

\* The size of the file as the write leaves it.
Sizes(j, size) ==
    LET q == load[j]
        block == (q.pos + q.size - 1) \div BlockCells
        end == IF q.pos \div BlockCells = block THEN block * BlockCells + q.size ELSE q.pos + q.size
    IN  (IF end > size THEN end ELSE size) % SizeLimit

\* A write replaces the first cells, and its directory keeps the larger size.
Write(j) ==
    LET q == load[j] IN
    /\ q.op = "write" /\ q.dir \in made
    /\ dirs' = [dirs EXCEPT ![q.dir] = (@ \ Named(q.dir, q.name))
                    \cup {<<e[1], Sizes(j, e[2])>> : e \in Named(q.dir, q.name)}]
    /\ files' = Written(<<q.dir, q.name>>, Data(j))
    /\ Answer(j, "OK", {})
    /\ UNCHANGED <<load, calm, made>>

Look(j) ==
    LET q == load[j] IN
    /\ \/ q.op = "ls" /\ q.dir \in made /\ Answer(j, "OK", dirs[q.dir])
       \/ /\ q.op = "getstat" /\ q.dir \in made /\ Named(q.dir, q.name) # {}
          /\ Answer(j, "OK", Named(q.dir, q.name))
       \/ /\ q.op = "open" /\ q.dir \in made /\ Named(q.dir, q.name) # {}
          /\ Answer(j, "OK", {})
       \/ /\ q.op = "read"
          /\ LET cells == files[q.dir, q.name]
             IN  Answer(j, "OK", {<<i, cells[i]>> : i \in {i \in 1..q.size : cells[i] # Zero}})
    /\ UNCHANGED <<load, calm, dirs, made, files>>

NoDirectory(j) ==
    /\ load[j].op \notin {"init", "read"} /\ load[j].dir \notin made
    /\ Refuse(j, "Error: No such directory")

Do(j) == AddFile(j) \/ Mkdir(j) \/ MakeEmpty(j) \/ NotFound(j) \/ Delete(j) \/ Rename(j)
            \/ Write(j) \/ Look(j) \/ NoDirectory(j)

Next == ~calm \/ \E j \in Job : told[j] = <<>> /\ told'[j] # <<>> /\ Do(j)

Spec == Init /\ [][Next]_vars
=============================================================================
