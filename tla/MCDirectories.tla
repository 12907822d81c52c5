--------------------------- MODULE MCDirectories ---------------------------
(***************************************************************************)
(* An instance of Directories for model checking.  The first block of a    *)
(* directory has its header and two entries, as many as r has at the       *)
(* beginning; file a has one block, and b two.                             *)
(***************************************************************************)
EXTENDS Directories

CONSTANTS j1, j2, j3, w1, w2, pa, pb, px

MCVersion == j1 :> 2 @@ j2 :> 3 @@ j3 :> 4
MCPast == <<"r", "a">> :> pa @@ <<"r", "b">> :> pb @@ <<"s", "a">> :> px
MCFile == {"r", "s"} \X {"a", "b", "c"}

One == "r" :> <<<<"a", 1>>, <<"b", 4>>>>
Two == One @@ ("s" :> <<<<"a", 2>>>>)

Sized(op, d, n, p, k) == [Plain(op, d, n) EXCEPT !.pos = p, !.size = k]
Move(d, n, e, m) == [Plain("rename", d, n) EXCEPT !.to = e, !.new = m]

Updates == <<Plain("addfile", "r", "c"), Plain("addfile", "r", "a"), Plain("deletefile", "r", "a"),
             Plain("mkdir", "r", "s"), Move("r", "a", "s", "b"), Move("r", "b", "s", "a"),
             Move("r", "b", "s", "c"), Sized("write", "r", "a", 0, 4), Sized("write", "r", "a", 6, 2),
             Sized("addfile_write", "s", "c", 0, 2), Plain("init", "s", "a")>>
Looks == {Plain("getstat", "r", "c"), Plain("open", "s", "b")}

Alone(tree, l, m, n) ==
    [tree |-> tree, load |-> j1 :> l @@ j2 :> m @@ j3 :> n, on |-> [j \in Job |-> w1],
     after |-> [j \in Job |-> {}], overlap |-> FALSE, expires |-> {}]

\* Two changes in any order, and a listing at any time; the same with a first
\* change that makes s; or one change, and two other looks.
Calmly ==
    {Alone(Two, Updates[x[1]], Updates[x[2]], Plain("ls", "r", "a")) :
        x \in {x \in (1..Len(Updates)) \X (1..Len(Updates)) : x[1] <= x[2]}}
    \cup {Alone(One, Plain("mkdir", "r", "s"), q, Plain("ls", "r", "a")) : q \in Range(Updates)}
    \cup {Alone(Two, q, l, Sized("read", "s", "c", 0, 4)) : q \in Range(Updates), l \in Looks}

\* The timers of a change expire, and its answer is followed by two requests.
Timers == {[Alone(Two, l, Plain("getstat", "r", "a"), Plain("ls", "s", "a"))
               EXCEPT !.overlap = TRUE, !.expires = {j1},
                      !.after = j1 :> {} @@ j2 :> {j1} @@ j3 :> {j2}] :
              l \in {Move("r", "b", "s", "c"), Move("r", "a", "r", "c"), Plain("mkdir", "r", "s")}}

\* Requests of two workers overlap.
Mixed == {[Alone(Two, l, Plain("addfile", "r", "c"), Plain("ls", "r", "a"))
              EXCEPT !.overlap = TRUE, !.on[j2] = w2] :
              l \in {Move("r", "b", "s", "c"), Plain("deletefile", "r", "a"), Sized("write", "r", "a", 0, 4)}}

MCScenarios == Calmly \cup Timers \cup Mixed

\* A client renames one of two files.
MCClientRename ==
    LET q == ClientRename("r", "b", "s", "c", TRUE)
    IN  {[Alone(Two, q[1], q[2], Plain("ls", "r", "a"))
             EXCEPT !.after = j1 :> {} @@ j2 :> {j1} @@ j3 :> {j2}]}
=============================================================================
