------------------------------ MODULE MCHistory -------------------------------
(* Instance of History: two branches from one commit, `main` diverged from  *)
(* its upstream, `topic` behind its own; opened quiet, in the middle of a   *)
(* rebase or of a merge, or in a state the application does not handle.     *)
EXTENDS History

MCPast ==
  LET commit(c, parents) == [parents |-> parents, of |-> {c}]
  IN  <<commit(1, <<>>), commit(2, <<1>>), commit(3, <<1>>), commit(4, <<3>>),
        commit(5, <<1>>), commit(6, <<4>>)>>
MCTips == [main |-> 2, topic |-> 4, new |-> 0]
MCUpstream == [main |-> 5, topic |-> 6]
Quiet == RepoOn("topic")
MidRebase ==
  [Quiet EXCEPT !.head = Detached, !.at = 2, !.op = "rebase", !.orig = "topic", !.from = 4,
                !.todo = <<3, 4>>, !.inHand = TRUE, !.conflicts = {"p"}]
MidMerge == [Quiet EXCEPT !.op = "merge", !.theirs = 2, !.conflicts = {"p"}]
MCStarts == {Quiet, MidRebase, MidMerge, [Quiet EXCEPT !.op = "other"]}
===============================================================================
