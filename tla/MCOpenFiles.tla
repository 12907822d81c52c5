---------------------------- MODULE MCOpenFiles ----------------------------
(***************************************************************************)
(* Instances of OpenFiles for model checking: requests on one file of the  *)
(* directory d1, that come in any order.  The request r1, when it is a     *)
(* rename, moves the file to d2; a rename by another stays in d1.          *)
(***************************************************************************)
EXTENDS OpenFiles, TLC

CONSTANTS r1, j1, j2, j3, d1, d2, w1, w2, f1

MCFileOf == [j \in Job |-> f1]
MCDirOf == [j \in Job |-> IF j = r1 THEN d2 ELSE d1]
MCFrom == [j \in Job |-> d1]

MCMaxTimeouts == [j \in Job |-> 1]

\* One worker that may crash and one that stays; the same with timers that
\* expire; and with the worker that stays alone.
Ask(o0, o1, o2, o3) ==
    [ask |-> r1 :> o0 @@ j1 :> o1 @@ j2 :> o2 @@ j3 :> o3, workers |-> {w1, w2}, slow |-> {}]
AskSlow(o0, o1, o2, o3) == [Ask(o0, o1, o2, o3) EXCEPT !.slow = {r1, j1}]
AskOne(o0, o1, o2, o3) == [AskSlow(o0, o1, o2, o3) EXCEPT !.workers = {w2}]

MCMixes == {Ask("none", "open", "open", "close"),
            Ask("none", "open", "access", "none"),
            AskSlow("none", "open", "deletefile", "none"),
            Ask("rename", "open", "none", "none"),
            Ask("rename", "rename", "none", "none"),
            Ask("rename", "other", "none", "none"),
            Ask("rename", "lock", "unlock", "none"),
            AskOne("close", "open", "open", "deletefile"),
            AskOne("rename", "other", "none", "none")}
=============================================================================
