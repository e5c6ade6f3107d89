----------------------------- MODULE MCVmeIrq -----------------------------
(* Constants for checking VmeIrq. *)
EXTENDS VmeIrq, TLC

CONSTANTS f1, f2, t1, t2

\* Every file has a thread of its own.
OneEach == (t1 :> f1) @@ (t2 :> f2)

\* The processes are alike.
Exchange ==
    {[x \in {f1, f2, t1, t2} |-> x],
     (f1 :> f2) @@ (f2 :> f1) @@ (t1 :> t2) @@ (t2 :> t1)}

AllLevels == {Levels}
Top == {{CHOOSE l \in Levels : \A k \in Levels : k =< l}}
=============================================================================
