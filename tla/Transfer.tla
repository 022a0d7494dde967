------------------------------- MODULE Transfer -------------------------------
(***************************************************************************)
(* A remote operation on its worker thread, from the pool to the end:       *)
(* RemoteWorker and CloneWorker (application/remote_workers.py) over the    *)
(* process runner of RemoteEngine (infrastructure/remote_engine.py).        *)
(*                                                                         *)
(* Five parties meet: the UI thread, which makes workers and cancels them;  *)
(* the worker; the thread that kills for a cancellation; git, with children *)
(* that may outlive it and hold its pipes; and, for a clone, whoever else   *)
(* uses the destination, the next clone included.  The destination is the   *)
(* same for every clone: the case that matters.                             *)
(***************************************************************************)
EXTENDS Naturals, Sequences, FiniteSets

CONSTANTS
  Orders,     \* the operations the user may have started: sequences of kinds
  Found,      \* what may be at the destination: "absent", "empty", "files"
  MaxWorkers, \* bound on the workers
  MaxSaves    \* bound on the files the user saves into the destination

ASSUME TransferAssumption ==
  /\ Orders \subseteq Seq({"fetch", "clone"})
  /\ Found \subseteq {"absent", "empty", "files"}
  /\ MaxWorkers \in Nat /\ MaxSaves \in Nat

None == 0
User == 0
Ids == 1..MaxWorkers
Kinds == {"fetch", "clone"}

(* queued: in the pool; made: run() has made an engine; ready: the engine   *)
(* that will run git can be reached by cancel(); spawned: Popen has         *)
(* returned; waiting: `_wait_for`; draining: the pipes are emptied; reaping: *)
(* in `communicate`, after the kill of a git that an abort came before;     *)
(* settled: the outcome is known; tidying: maintenance; retired: the last   *)
(* signal is out; gone: run() has returned.                                 *)
Stages == {"queued", "made", "ready", "spawned", "waiting", "draining", "reaping",
           "settled", "tidying", "retired", "gone"}

(* A definition named D_Variant is a wrong version of D, to try the         *)
(* properties on; nothing uses it.                                          *)

VARIABLES
  worker,    \* the workers made so far
  dest,      \* the destination: whether it exists, whose files are in it, and
             \* the clone whose references are there
  slot,      \* _fetch_worker
  cancelling,\* the worker whose cancel() the UI thread is in
  saves      \* the files saved so far

vars == <<worker, dest, slot, cancelling, saves>>

Places ==
  [absent |-> [exists |-> FALSE, files |-> {}, complete |-> None],
   empty  |-> [exists |-> TRUE,  files |-> {}, complete |-> None],
   files  |-> [exists |-> TRUE,  files |-> {User}, complete |-> None]]

Init ==
  /\ worker = <<>>
  /\ \E f \in Found : dest = Places[f]
  /\ slot = None
  /\ cancelling = None
  /\ saves = 0

(* `__init__`; `_decide_cleanup_policy`: only what is absent or empty now   *)
(* may be cleaned later.                                                    *)
Worker(kind) ==
  [kind |-> kind, at |-> "queued",
   cancelled |-> FALSE,   \* _cancelled
   stopped |-> FALSE,     \* cancel() has returned
   aborted |-> FALSE,     \* the engine's _aborted
   held |-> FALSE,        \* the engine's _proc is set
   killer |-> "none",     \* the thread of abort(), while git runs: none, sent, failed
   git |-> "none",        \* none, running, receiving (into its destination), done, failed, killed
   stray |-> FALSE,       \* a child that a kill does not reach holds the pipes still waited for
   started |-> FALSE,     \* _started
   outcome |-> "none",
   recorded |-> FALSE, told |-> {},
   raised |-> FALSE,      \* history: a kill by the worker itself has raised
   littered |-> FALSE,    \* history: the removal of its clone has left something
   created |-> ~dest.exists,
   cleanable |-> kind = "clone" /\ dest.files = {}]

At(i, stage) == i \in DOMAIN worker /\ worker[i].at = stage

Alive(w) == w.git \in {"running", "receiving"}
Ended(w, how) == [w EXCEPT !.git = how, !.killer = "none"]
Killed(w) == IF Alive(w) THEN Ended(w, "killed") ELSE w

(* The engine that runs git has been published.                             *)
Reachable(w) == w.at \notin {"queued", "gone"} /\ (w.kind = "fetch" \/ w.at # "made")

-------------------------------------------------------------------------------
(* The UI thread.                                                           *)
UiFree == cancelling = None

UserStarts(kind) ==
  /\ UiFree /\ slot = None /\ Len(worker) < MaxWorkers
  /\ Append([i \in DOMAIN worker |-> worker[i].kind], kind) \in Orders
  /\ worker' = Append(worker, Worker(kind))
  /\ slot' = Len(worker) + 1
  /\ UNCHANGED <<dest, cancelling, saves>>

(* `_on_cancel_remote`: the slot is free at once, then `cancel` marks the   *)
(* worker ...                                                               *)
UserCancels ==
  /\ UiFree /\ slot # None
  /\ worker' = [worker EXCEPT ![slot].cancelled = TRUE]
  /\ cancelling' = slot
  /\ slot' = None
  /\ UNCHANGED <<dest, saves>>

(* ... and aborts the engine it finds: `abort` sets the flag and leaves the *)
(* killing to a thread of its own.                                          *)
Aborts ==
  /\ cancelling # None
  /\ LET w == worker[cancelling]
     IN  worker' = [worker EXCEPT
           ![cancelling] = IF ~Reachable(w) THEN [w EXCEPT !.stopped = TRUE]
                           ELSE [w EXCEPT !.stopped = TRUE, !.aborted = TRUE,
                                          !.killer = IF w.held /\ Alive(w) THEN "sent" ELSE "none"]]
  /\ cancelling' = None
  /\ UNCHANGED <<dest, slot, saves>>

(* `_on_fetch_finished`, `_on_remote_failed`, `_on_worker_retired`: the     *)
(* window lets go of a worker that has reported.                            *)
LetsGo ==
  /\ UiFree /\ slot # None
  /\ worker[slot].told # {}
  /\ slot' = None
  /\ UNCHANGED <<worker, dest, cancelling, saves>>

(* The user, or another program, saves a file into the destination.         *)
UserSaves ==
  /\ saves < MaxSaves
  /\ saves' = saves + 1
  /\ dest' = [dest EXCEPT !.exists = TRUE, !.files = @ \cup {User}]
  /\ UNCHANGED <<worker, slot, cancelling>>

-------------------------------------------------------------------------------
(* The worker.                                                              *)
Steps(i, w) ==
  /\ worker' = [worker EXCEPT ![i] = w]
  /\ UNCHANGED <<slot, cancelling, saves>>

(* An operation comes back well, or an exception leaves it.                 *)
Settled(w, outcome) == [w EXCEPT !.at = "settled", !.outcome = outcome]

(* `_run_guarded`: a worker cancelled before it begins only retires.        *)
Begins(i) ==
  /\ At(i, "queued")
  /\ LET w == worker[i]
     IN  Steps(i, CASE w.cancelled -> [w EXCEPT !.at = "retired", !.told = {"retired"}]
                    [] ~w.cancelled /\ w.kind = "clone" -> [w EXCEPT !.at = "made"]
                    [] ~w.cancelled /\ w.kind = "fetch" -> [w EXCEPT !.at = "ready"])
  /\ UNCHANGED dest

(* `_operate` of a clone publishes an engine of its own.                    *)
OperatesClone(i) ==
  /\ At(i, "made")
  /\ Steps(i, IF worker[i].cancelled THEN Settled(worker[i], "error")
              ELSE [worker[i] EXCEPT !.at = "ready", !.started = TRUE])
  /\ UNCHANGED dest

(* `_run`: git is started, or is not there.                                 *)
Spawns(i) ==
  /\ At(i, "ready")
  /\ \/ Steps(i, [worker[i] EXCEPT !.at = "spawned", !.git = "running"])
     \/ Steps(i, Settled(worker[i], "error"))
  /\ UNCHANGED dest

Registers_Unasked(i) ==
  /\ At(i, "spawned")
  /\ Steps(i, [worker[i] EXCEPT !.at = "waiting", !.held = TRUE])
  /\ UNCHANGED dest

(* `_kill_process_tree` raises when taskkill does not end in time, before   *)
(* `proc.kill()`: git may be dead or not, the exception leaves `_run`, and  *)
(* is none of those that `_run_measured` gives its figures to.              *)
KillRaises(w) ==
  {[Settled(v, "error") EXCEPT !.held = FALSE, !.stray = FALSE, !.raised = TRUE] :
     v \in {w, Killed(w)}}

(* The process is published, unless an abort came first: then it is killed  *)
(* here.                                                                    *)
Registers(i) ==
  /\ At(i, "spawned")
  /\ LET w == worker[i]
     IN  \/ ~w.aborted /\ Steps(i, [w EXCEPT !.at = "waiting", !.held = TRUE])
         \/ w.aborted /\ Steps(i, [Killed(w) EXCEPT !.at = "reaping"])
         \/ w.aborted /\ \E v \in KillRaises(w) : Steps(i, v)
  /\ UNCHANGED dest

(* `communicate` after it has no limit: it waits for the end of the pipes.  *)
Reaps(i) ==
  /\ At(i, "reaping") /\ ~worker[i].stray
  /\ Steps(i, Settled(worker[i], "error"))
  /\ UNCHANGED dest

(* `_wait_for`: the process has ended ...                                   *)
NoticesEnd(i) ==
  /\ At(i, "waiting") /\ ~Alive(worker[i])
  /\ Steps(i, [worker[i] EXCEPT !.at = "draining"])
  /\ UNCHANGED dest

WatchdogKills_LetsGo(i) ==
  /\ At(i, "waiting") /\ Alive(worker[i])
  /\ Steps(i, [worker[i] EXCEPT !.at = "draining", !.outcome = "error"])
  /\ UNCHANGED dest

(* ... or has been silent, or run, for too long, and is killed.             *)
WatchdogKills(i) ==
  /\ At(i, "waiting") /\ Alive(worker[i])
  /\ \/ Steps(i, [Killed(worker[i]) EXCEPT !.at = "draining", !.outcome = "error"])
     \/ \E v \in KillRaises(worker[i]) : Steps(i, v)
  /\ UNCHANGED dest

Drained(w) ==
  LET well == w.outcome = "none" /\ ~w.aborted /\ w.git = "done"
  IN  Settled([w EXCEPT !.held = FALSE, !.stray = FALSE], IF well THEN "ok" ELSE "error")

Drains_ByClosing(i) ==
  /\ At(i, "draining") /\ ~worker[i].stray
  /\ Steps(i, Drained(worker[i]))
  /\ UNCHANGED dest

(* The pumps are joined for a bounded time; pipes that are still held are   *)
(* let go of, not closed (`_release_pipes`).  Then the exit is judged, a    *)
(* cancellation first.                                                      *)
Drains(i) ==
  /\ At(i, "draining")
  /\ Steps(i, Drained(worker[i]))
  /\ UNCHANGED dest

Reports_CancelFirst(i) ==
  /\ At(i, "settled")
  /\ LET w == worker[i]
     IN  Steps(i, CASE w.cancelled -> [w EXCEPT !.at = "tidying"]
                    [] ~w.cancelled /\ w.outcome = "ok" ->
                         [w EXCEPT !.at = "tidying", !.recorded = TRUE, !.told = {"finished"}]
                    [] OTHER -> [w EXCEPT !.at = "tidying", !.recorded = TRUE, !.told = {"failed"}])
  /\ UNCHANGED dest

(* `_run_measured` has figures of whatever came of it, unless it was never  *)
(* called or has been left by another exception.                            *)
Measured(w) == (w.kind = "fetch" \/ w.started) /\ ~w.raised

(* The traffic is recorded; then whoever has not cancelled is told.         *)
Reports(i) ==
  /\ At(i, "settled")
  /\ LET w == [worker[i] EXCEPT !.at = "tidying", !.recorded = Measured(worker[i])]
     IN  Steps(i, CASE w.cancelled -> w
                    [] ~w.cancelled /\ w.outcome = "ok" -> [w EXCEPT !.told = {"finished"}]
                    [] OTHER -> [w EXCEPT !.told = {"failed"}])
  /\ UNCHANGED dest

(* Maintenance, which a cancellation cuts short, and the last signal.       *)
Retires(i) ==
  /\ At(i, "tidying")
  /\ Steps(i, [worker[i] EXCEPT !.at = "retired", !.told = @ \cup {"retired"}])
  /\ UNCHANGED dest

HasRepository_ByHead == dest.files \ {User} # {}

(* `_has_complete_repository`: there are references.                        *)
HasRepository == dest.complete # None

(* `_clean_partial_clone`: the whole destination, or its contents.          *)
Cleaned(w) ==
  [exists |-> ~w.created, files |-> {}, complete |-> None]

(* It goes on over what it cannot remove and says nothing of it.            *)
Remains(w) == {[dest EXCEPT !.files = F] : F \in SUBSET dest.files} \ {Cleaned(w)}

Cleans_Unchecked(i) ==
  /\ At(i, "retired")
  /\ LET w == worker[i]
     IN  dest' = IF w.cleanable /\ w.outcome # "ok" /\ dest.exists /\ w.started
                 THEN Cleaned(w) ELSE dest
  /\ Steps(i, [worker[i] EXCEPT !.at = "gone"])

(* `run` of a clone after the signals: the remains of one that failed are   *)
(* taken away; of one that never ran git, an empty folder at most.          *)
Cleans(i) ==
  /\ At(i, "retired")
  /\ LET w == worker[i]
         gone == [w EXCEPT !.at = "gone"]
         partial == w.cleanable /\ w.outcome # "ok" /\ dest.exists
                    /\ IF ~w.started THEN dest.files = {} ELSE ~HasRepository
     IN  \/ dest' = (IF partial THEN Cleaned(w) ELSE dest) /\ Steps(i, gone)
         \/ /\ partial /\ dest' \in Remains(w)
            /\ Steps(i, [gone EXCEPT !.littered = TRUE])

-------------------------------------------------------------------------------
(* The thread of `abort`, and git.                                          *)
Kills(i) ==
  /\ i \in DOMAIN worker /\ worker[i].killer = "sent"
  /\ \/ Steps(i, Killed(worker[i]))
     \/ Steps(i, [worker[i] EXCEPT !.killer = "failed"])
  /\ UNCHANGED dest

Running(i) == i \in DOMAIN worker /\ Alive(worker[i])
Receiving(i) == Running(i) /\ worker[i].git = "receiving"

(* A clone makes its destination, unless there are files in it.             *)
GitMakes(i) ==
  /\ Running(i) /\ worker[i].git = "running"
  /\ worker[i].kind = "clone" /\ dest.files = {}
  /\ dest' = [dest EXCEPT !.exists = TRUE, !.files = {i}]
  /\ Steps(i, [worker[i] EXCEPT !.git = "receiving"])

(* All objects are there: the references are written.                       *)
GitCompletes(i) ==
  /\ Receiving(i) /\ i \in dest.files
  /\ dest' = [dest EXCEPT !.complete = i]
  /\ UNCHANGED <<worker, slot, cancelling, saves>>

(* It ends well, or by itself in failure: then a clone empties what it made, *)
(* or leaves a complete repository it could not check out.                  *)
GitEnds(i) ==
  /\ Running(i)
  /\ \/ /\ worker[i].kind = "clone" => dest.complete = i
        /\ Steps(i, Ended(worker[i], "done"))
        /\ UNCHANGED dest
     \/ /\ Steps(i, Ended(worker[i], "failed"))
        /\ dest' = IF Receiving(i) /\ dest.complete = None
                    THEN [dest EXCEPT !.files = {}, !.exists = ~worker[i].created]
                    ELSE dest

(* A child of git detaches itself: it holds the pipes for as long as it     *)
(* likes.                                                                   *)
ChildStrays(i) ==
  /\ At(i, "spawned") \/ At(i, "waiting")
  /\ Running(i) /\ ~worker[i].stray
  /\ Steps(i, [worker[i] EXCEPT !.stray = TRUE])
  /\ UNCHANGED dest

-------------------------------------------------------------------------------
WorkerSteps(i) ==
  \/ Begins(i) \/ OperatesClone(i) \/ Spawns(i) \/ Registers(i) \/ Reaps(i)
  \/ NoticesEnd(i) \/ WatchdogKills(i) \/ Drains(i)
  \/ Reports(i) \/ Retires(i) \/ Cleans(i)

Next ==
  \/ \E kind \in Kinds : UserStarts(kind)
  \/ UserCancels \/ Aborts \/ LetsGo \/ UserSaves
  \/ \E i \in Ids :
       \/ WorkerSteps(i) \/ Kills(i)
       \/ GitMakes(i) \/ GitCompletes(i) \/ GitEnds(i) \/ ChildStrays(i)

(* The pool runs its workers, and the watchdog has a deadline; git, and the *)
(* thread that kills it for a cancellation, may hang.                       *)
Fairness == \A i \in Ids : WF_vars(WorkerSteps(i))

Spec == Init /\ [][Next]_vars
FairSpec == Spec /\ Fairness

-------------------------------------------------------------------------------
(* Every variable has its type.                                             *)
TypeOK ==
  /\ Len(worker) \in 0..MaxWorkers
  /\ \A i \in DOMAIN worker :
       /\ worker[i].at \in Stages
       /\ worker[i].git \in {"none", "running", "receiving", "done", "failed", "killed"}
       /\ worker[i].outcome \in {"none", "ok", "error"}
       /\ worker[i].told \subseteq {"finished", "failed", "retired"}
       /\ worker[i].killer \in {"none", "sent", "failed"}
       /\ worker[i].at \in {"settled", "tidying"} => worker[i].outcome # "none"
  /\ dest.exists \in BOOLEAN /\ dest.files \subseteq {User} \cup Ids
  /\ dest.files # {} => dest.exists
  /\ slot \in 0..MaxWorkers /\ cancelling \in 0..MaxWorkers
  /\ saves \in 0..MaxSaves

(* A cancellation reaches git wherever the worker was: when cancel() has    *)
(* returned and the thread it started has done its work, no git is waited   *)
(* for that still runs (Popen and abort() race, and so do the two engines   *)
(* of a clone), unless the kill of that thread raised.                      *)
CancelReaches ==
  \A i \in DOMAIN worker :
    worker[i].stopped /\ worker[i].at = "waiting" =>
      ~Alive(worker[i]) \/ worker[i].killer \in {"sent", "failed"}

Over == {"reaping", "settled", "tidying", "retired", "gone"}

(* A git outlives its worker, or the wait for it, only when the worker has  *)
(* tried to kill it and that kill has raised: not by a cancellation at a    *)
(* bad moment, nor by a thread of abort() that failed.                      *)
NoOrphan ==
  \A i \in DOMAIN worker :
    worker[i].at \in Over /\ Alive(worker[i]) => worker[i].raised

(* What a git that ran has moved over the network is recorded, be it that   *)
(* the operation failed or was cancelled (ADR-26), unless a kill by the     *)
(* worker raised.                                                           *)
TrafficRecorded ==
  \A i \in DOMAIN worker :
    worker[i].at \in {"retired", "gone"} /\ worker[i].git # "none" =>
      worker[i].recorded \/ worker[i].raised

(* The remains of a clone do not stay to block the next attempt, unless the *)
(* destination was not the worker's to clean, the removal failed somewhere  *)
(* or git goes on after a kill that raised.                                 *)
NoLeftover ==
  \A i \in DOMAIN worker :
    worker[i].at = "gone" /\ i \in dest.files =>
      dest.complete # None \/ ~worker[i].cleanable \/ worker[i].raised \/ worker[i].littered

(* Cleaning up spares a complete clone, also one that could not be checked  *)
(* out or was cancelled after its last object, and the files that the user  *)
(* had in the destination when the clone was asked for.                     *)
CleaningSpares ==
  [][/\ dest.complete # None => dest.complete' = dest.complete
     /\ User \in dest.files /\ saves = 0 => User \in dest.files']_vars

Retired(i) == i \in DOMAIN worker /\ "retired" \in worker[i].told

(* `communicate` has a child that keeps the pipes open.                     *)
Stuck(i) == At(i, "reaping") /\ worker[i].stray

(* Every operation comes to its last signal (the window would hold the slot *)
(* for ever), with a git that hangs, kills that raise, and a child that     *)
(* keeps the pipes open: but for such a child of a git that was started     *)
(* after its cancellation.                                                  *)
EveryWorkerRetires == \A i \in Ids : At(i, "queued") ~> Retired(i) \/ Stuck(i)

(* The same without the exceptions, as the code's comments have it; none of *)
(* these holds.  The direct child dies for certain (`_kill_process_tree`):  *)
KillIsCertain == \A i \in DOMAIN worker : worker[i].at \in Over => ~Alive(worker[i])

(* the traffic of a failure is not left out (`_run_guarded`):               *)
AllTrafficRecorded ==
  \A i \in DOMAIN worker :
    worker[i].at \in {"retired", "gone"} /\ worker[i].git # "none" => worker[i].recorded

(* a partial clone is cleared away (`CloneWorker`):                         *)
NothingStays ==
  \A i \in DOMAIN worker :
    worker[i].at = "gone" /\ i \in dest.files => dest.complete # None \/ ~worker[i].cleanable

(* no child's pipe stops a worker (`_release_pipes`).                       *)
NoWorkerStuck == \A i \in Ids : At(i, "queued") ~> Retired(i)

(* Only what the clone itself has put into the destination is taken away    *)
(* (`_decide_cleanup_policy`'s one rule).                                   *)
CleansOwn ==
  [][\A i \in Ids : Cleans(i) => dest.files \ dest.files' \subseteq {i}]_vars
===============================================================================
