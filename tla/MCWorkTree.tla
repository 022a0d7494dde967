------------------------------ MODULE MCWorkTree -------------------------------
(* Instance of WorkTree: from one commit, HEAD's, a fast-forward of it that *)
(* changes one file and adds another, and a diverged one that changes the   *)
(* first as well and adds another version of the second; or, for the abort, *)
(* one that leaves the second alone.                                        *)
EXTENDS WorkTree

MCPaths == {"p", "n"}
MCWrites == <<"d1", "d2", "d1">>
MCPast ==
  LET commit(parents, p, n) == [parents |-> parents, tree |-> [p |-> p, n |-> n]]
  IN  <<commit(<<>>, "p1", Absent), commit(<<1>>, "p2", Absent),
        commit(<<2>>, "p3", "n3"), commit(<<1>>, "p4", "n4")>>
MCPastAbort == [MCPast EXCEPT ![4].tree.n = Absent]
===============================================================================
