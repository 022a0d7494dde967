---------------------------- MODULE SerialExecutor ----------------------------
(***************************************************************************)
(* What a repository is promised of the writes of one write queue, seen     *)
(* from the repository: the jobs of the queue touch it one at a time, in    *)
(* the order of their submission, and the submitter hears of each of them   *)
(* once, in that same order.  Nothing here says how: there is no pool, no   *)
(* event loop and no dialog.                                                *)
(*                                                                         *)
(* Job identifiers are handed out in submission order, so "earlier" is "<". *)
(***************************************************************************)
EXTENDS Naturals

CONSTANT MaxJobs

Jobs == 1..MaxJobs

VARIABLES
  submitted,   \* the jobs handed to the executor
  writing,     \* the jobs that are writing to the repository
  written,     \* the jobs that have stopped writing
  reported     \* the jobs whose outcome the submitter has been told

vars == <<submitted, writing, written, reported>>

Earlier(j) == 1..(j - 1)

Init ==
  /\ submitted = {}
  /\ writing = {}
  /\ written = {}
  /\ reported = {}

Submit(j) ==
  /\ submitted = Earlier(j)
  /\ submitted' = submitted \cup {j}
  /\ UNCHANGED <<writing, written, reported>>

Begin(j) ==
  /\ j \in submitted \ written
  /\ writing = {}
  /\ Earlier(j) \subseteq written
  /\ writing' = {j}
  /\ UNCHANGED <<submitted, written, reported>>

End(j) ==
  /\ writing = {j}
  /\ writing' = {}
  /\ written' = written \cup {j}
  /\ UNCHANGED <<submitted, reported>>

Report(j) ==
  /\ j \in written \ reported
  /\ Earlier(j) \subseteq reported
  /\ reported' = reported \cup {j}
  /\ UNCHANGED <<submitted, writing, written>>

Next ==
  \E j \in Jobs : Submit(j) \/ Begin(j) \/ End(j) \/ Report(j)

Spec == Init /\ [][Next]_vars

(* A job that may begin begins, one that writes stops, and one that has     *)
(* stopped is reported.  Nobody is obliged to submit.                       *)
FairSpec ==
  /\ Spec
  /\ \A j \in Jobs : WF_vars(Begin(j)) /\ WF_vars(End(j)) /\ WF_vars(Report(j))
===============================================================================
