------------------------------- MODULE Session --------------------------------
(***************************************************************************)
(* The window between the repositories it opens and their write queues      *)
(* (ui/main_window.py): `open_repository`, `_dispose_write_queue`,          *)
(* `_submit_write`, `_on_write_succeeded`, `_on_write_queue_idle`, and the  *)
(* loader that fills the commit list.                                       *)
(*                                                                         *)
(* A queue is taken at its word (module SerialExecutor): its jobs run one   *)
(* at a time in submission order, and each is reported once.  Opening       *)
(* another repository abandons the queue but not its jobs: they go on, and  *)
(* their signals still arrive.                                              *)
(*                                                                         *)
(* The history of a repository is a version number, raised by each write    *)
(* that changes it: by those that succeed, and by some that fail, a rebase  *)
(* killed by its time limit or a branch made and then not checked out.      *)
(* A failure asks for no reload.  A slot of job_succeeded or job_failed may be held up   *)
(* in a dialog; `stack` holds the suspended emissions, innermost first.     *)
(***************************************************************************)
EXTENDS Integers, Sequences, FiniteSetsExt, Functions

CONSTANTS
  Repos,          \* the repositories the user opens
  LastRepository, \* the one that is open at the start
  MaxJobs,        \* bound on the writes ever submitted
  MaxQueues       \* bound on the queues ever made

ASSUME SessionAssumption ==
  /\ LastRepository \in Repos
  /\ MaxJobs \in Nat
  /\ MaxQueues \in Nat \ {0}

(* What a write is to the window: "stage" leaves the history alone; a       *)
(* "commit" (and any other write submitted with reload_graph) asks for a    *)
(* reload when it has succeeded; a "merge" (_start_merge, _finish_pull)     *)
(* asks for it when it is submitted.                                        *)
Kinds == {"stage", "commit", "merge"}

(* "succeeded" and "failed": the signal is queued, not yet delivered.       *)
Stages == {"waiting", "running", "succeeded", "failed", "done"}

(* A definition named D_Variant is a wrong version of D, to try the         *)
(* properties on; nothing uses it.                                          *)

VARIABLES
  repo,     \* _repo_path
  queues,   \* the repository of each queue ever made
  queue,    \* _write_queue, an index of queues
  jobs,     \* the jobs of all queues, in submission order
  flag,     \* _graph_reload_pending
  stack,    \* the suspended emissions
  version,  \* the version of each repository's history
  owed,     \* history: the version left by the last write of each repository
            \* that asks for a reload
  loads,    \* the last two CommitLoaders
  loader,   \* _loader, an index of loads
  shown,    \* what the commit list shows: a repository and its version
  split     \* history: a queue was made while another one of the same
            \* repository had jobs left

vars == <<repo, queues, queue, jobs, flag, stack, version, owed, loads, loader, shown, split>>

Nothing == [repo |-> LastRepository, version |-> -1]
NoLoad == [repo |-> LastRepository, seen |-> -2]
Unread == -1

Init ==
  /\ repo = LastRepository
  /\ queues = <<LastRepository>>
  /\ queue = 1
  /\ jobs = <<>>
  /\ flag = FALSE
  /\ stack = <<>>
  /\ version = [r \in Repos |-> 0]
  /\ owed = [r \in Repos |-> 0]
  /\ loads = [l \in {0, 1} |-> NoLoad]
  /\ loader = 0
  /\ shown = [repo |-> LastRepository, version |-> 0]
  /\ split = FALSE

-------------------------------------------------------------------------------
(* Jobs of queue q among js: those at one of the given stages.              *)
JobsOf(js, q, stages) ==
  {j \in DOMAIN js : js[j].queue = q /\ js[j].stage \in stages}

(* `is_busy`.                                                               *)
Busy(js, q) == JobsOf(js, q, Stages \ {"done"}) # {}

(* `_start_next_if_idle` of queue q.                                        *)
StartNext(js, q) ==
  LET waiting == JobsOf(js, q, {"waiting"})
      active  == JobsOf(js, q, {"running", "succeeded", "failed"})
  IN  IF active # {} \/ waiting = {} THEN js
      ELSE [js EXCEPT ![Min(waiting)].stage = "running"]

(* `submit` to queue q.                                                     *)
Enqueue(js, q, kind) ==
  StartNext(Append(js, [queue |-> q, kind |-> kind, stage |-> "waiting"]), q)

(* `_start_loading`: the loader that was current goes stale.                *)
Load(r) ==
  /\ loader' = 1 - loader
  /\ loads' = [loads EXCEPT ![1 - loader] = [repo |-> r, seen |-> Unread]]
  /\ shown' = Nothing

Open_DropsFlag(r, js, fl) ==
  /\ repo' = r
  /\ IF queues[queue] = r
     THEN UNCHANGED <<queue, queues, split>>
     ELSE /\ Len(queues) < MaxQueues
          /\ queues' = Append(queues, r)
          /\ queue' = Len(queues) + 1
          /\ split' = (split \/ \E q \in DOMAIN queues : queues[q] = r /\ Busy(js, q))
  /\ flag' = FALSE
  /\ Load(r)

(* `open_repository`, called when the queues hold js and the reload flag    *)
(* is fl.  The queue of the repository that is open is used again; any      *)
(* other one is left to itself (`_dispose_write_queue`).                    *)
Open(r, js, fl) ==
  /\ repo' = r
  /\ IF queues[queue] = r
     THEN UNCHANGED <<queue, queues, split>>
     ELSE /\ Len(queues) < MaxQueues
          /\ queues' = Append(queues, r)
          /\ queue' = Len(queues) + 1
          /\ split' = (split \/ \E q \in DOMAIN queues : queues[q] = r /\ Busy(js, q))
  /\ flag' = (fl /\ Busy(js, queue'))
  /\ Load(r)

NoReload == UNCHANGED <<repo, queues, queue, loads, loader, shown, split>>

-------------------------------------------------------------------------------
(* A dialog keeps the user from the rest of the window.                     *)
UserFree == stack = <<>>

(* A pull that has fetched submits its merge (`_finish_pull`), whatever the *)
(* user is doing; every other write is the user's.                          *)
Submits(kind) ==
  /\ UserFree \/ kind = "merge"
  /\ Len(jobs) < MaxJobs
  /\ jobs' = Enqueue(jobs, queue, kind)
  /\ flag' = (flag \/ kind = "merge")
  /\ UNCHANGED <<stack, version, owed>> /\ NoReload

(* The user opens a repository or reloads it (F5).  Under a dialog, the     *)
(* watcher or a fetch that has ended reloads the repository that is open,   *)
(* and a clone that has ended opens a new one (`_finish_clone`).            *)
Opens(r) ==
  /\ UserFree \/ r = repo \/ r \notin Range(queues)
  /\ Open(r, jobs, flag)
  /\ UNCHANGED <<jobs, stack, version, owed>>

(* A job returns on its worker's thread, successful or not.  A success of   *)
(* any kind but "stage" has changed the history, and a failure may have:    *)
(* of a rebase, the steps before the time limit (`_run_git`) or the commit  *)
(* kept before `--continue` failed (`keep_empty_operation`), of a new       *)
(* branch the branch (`create_branch`).                                     *)
JobEnds(j, outcome, changes) ==
  LET r == queues[jobs[j].queue]
  IN  /\ jobs[j].stage = "running"
      /\ jobs[j].kind = "stage" => ~changes
      /\ outcome = "succeeded" /\ jobs[j].kind # "stage" => changes
      /\ jobs' = [jobs EXCEPT ![j].stage = outcome]
      /\ version' = IF changes THEN [version EXCEPT ![r] = @ + 1] ELSE version
      /\ owed' = IF changes /\ (outcome = "succeeded" \/ jobs[j].kind = "merge")
                 THEN [owed EXCEPT ![r] = version'[r]]
                 ELSE owed
      /\ UNCHANGED <<flag, stack>> /\ NoReload

FlagAfter_NoIdentity(j, outcome) ==
  \/ flag
  \/ outcome = "succeeded" /\ jobs[j].kind = "commit"

(* `_ok` of `_submit_write`: the reload flag after a success of job j.      *)
FlagAfter(j, outcome) ==
  \/ flag
  \/ /\ jobs[j].queue = queue
     /\ outcome = "succeeded"
     /\ jobs[j].kind = "commit"

AfterSlots_IfFirst(j, js, fl) ==
  LET q == jobs[j].queue
      started == StartNext(js, q)
  IN  /\ jobs' = started
      /\ IF q = queue /\ ~Busy(started, q) /\ fl /\ stack = <<>>
         THEN Open(repo, started, FALSE)
         ELSE flag' = fl /\ NoReload

(* The rest of `_on_done`, from `_ok` on: the queue q of job j goes on to   *)
(* its next job, or reports idle() and, being the window's, has the flag    *)
(* redeemed (`_on_write_queue_idle`).                                       *)
AfterSlots(j, js, fl) ==
  LET q == jobs[j].queue
      started == StartNext(js, q)
  IN  /\ jobs' = started
      /\ IF q = queue /\ ~Busy(started, q) /\ fl
         THEN Open(repo, started, FALSE)
         ELSE flag' = fl /\ NoReload

(* `_on_done`: the signal of job j is emitted.  The slots of a queue the    *)
(* window has left do nothing; the others may open a dialog (a failure is   *)
(* reported, a conflict announced).                                         *)
OnDone(j, dialog) ==
  /\ jobs[j].stage \in {"succeeded", "failed"}
  /\ dialog => jobs[j].queue = queue
  /\ UNCHANGED <<version, owed>>
  /\ LET js == [jobs EXCEPT ![j].stage = "done"]
         outcome == jobs[j].stage
     IN  IF dialog
         THEN /\ stack' = <<[job |-> j, outcome |-> outcome]>> \o stack
              /\ jobs' = js
              /\ UNCHANGED flag /\ NoReload
         ELSE /\ UNCHANGED stack
              /\ AfterSlots(j, js, FlagAfter(j, outcome))

(* The user closes the innermost dialog; in that of a commit that would be  *)
(* empty (`_enter_would_be_empty`) one button submits the next write, to    *)
(* the queue the window has by now.                                         *)
DialogCloses(resubmits) ==
  /\ stack # <<>>
  /\ LET f == Head(stack)
     IN  /\ resubmits => /\ f.outcome = "succeeded"
                         /\ jobs[f.job].kind = "commit"
                         /\ Len(jobs) < MaxJobs
         /\ AfterSlots(f.job, IF resubmits THEN Enqueue(jobs, queue, "commit") ELSE jobs,
                       FlagAfter(f.job, f.outcome))
  /\ stack' = Tail(stack)
  /\ UNCHANGED <<version, owed>>

(* The loader reads the history on its thread ...                           *)
LoaderReads(l) ==
  /\ loads[l].seen = Unread
  /\ loads' = [loads EXCEPT ![l].seen = version[loads[l].repo]]
  /\ UNCHANGED <<repo, queues, queue, jobs, flag, stack, version, owed, loader, shown, split>>

(* ... and its signals fill the list, if it is still the window's loader    *)
(* (`_on_batch_ready`, `_on_loading_finished`).                             *)
OnLoaded(l) ==
  /\ loads[l] # NoLoad
  /\ loads[l].seen # Unread
  /\ loads' = [loads EXCEPT ![l] = NoLoad]
  /\ shown' = IF l = loader THEN [repo |-> loads[l].repo, version |-> loads[l].seen]
              ELSE shown
  /\ UNCHANGED <<repo, queues, queue, jobs, flag, stack, version, owed, loader, split>>

-------------------------------------------------------------------------------
Outcomes == {"succeeded", "failed"}

Works(j) == \E o \in Outcomes, b \in BOOLEAN : JobEnds(j, o, b)
Reports(j) == \E d \in BOOLEAN : OnDone(j, d)

Next ==
  \/ \E k \in Kinds : Submits(k)
  \/ \E r \in Repos : Opens(r)
  \/ \E j \in DOMAIN jobs : Works(j) \/ Reports(j)
  \/ \E b \in BOOLEAN : DialogCloses(b)
  \/ \E l \in {0, 1} : LoaderReads(l) \/ OnLoaded(l)

Spec == Init /\ [][Next]_vars

(* Jobs and loaders end, the event loop delivers, dialogs are closed.       *)
FairSpec ==
  /\ Spec
  /\ WF_vars(\E j \in DOMAIN jobs : Works(j))
  /\ WF_vars(\E j \in DOMAIN jobs : Reports(j))
  /\ WF_vars(\E b \in BOOLEAN : DialogCloses(b))
  /\ \A l \in {0, 1} : WF_vars(LoaderReads(l)) /\ WF_vars(OnLoaded(l))

-------------------------------------------------------------------------------
(* Every variable has its type.                                             *)
TypeOK ==
  /\ repo \in Repos
  /\ queues \in Seq(Repos) /\ Len(queues) \in 1..MaxQueues
  /\ queue \in DOMAIN queues
  /\ jobs \in Seq([queue : DOMAIN queues, kind : Kinds, stage : Stages])
  /\ Len(jobs) <= MaxJobs
  /\ flag \in BOOLEAN
  /\ stack \in Seq([job : DOMAIN jobs, outcome : Outcomes])
  /\ version \in [Repos -> Nat]
  /\ owed \in [Repos -> Nat]
  /\ loads \in [{0, 1} -> [repo : Repos, seen : Nat \cup {Unread}] \cup {NoLoad}]
  /\ loader \in {0, 1}
  /\ shown \in [repo : Repos, version : Nat] \cup {Nothing}
  /\ split \in BOOLEAN

(* A reload is pending only while someone is there to redeem it: the        *)
(* window's own queue is busy, or a signal of one of its jobs is being      *)
(* handled.  Otherwise the next write, of whatever kind and repository,     *)
(* would redraw everything (the comment in `_ok`).                          *)
FlagIsOwed ==
  flag => \/ Busy(jobs, queue)
          \/ \E f \in Range(stack) : jobs[f.job].queue = queue

(* When the writes are done, reported and followed by their reload, the     *)
(* list shows all that the writes have done, unless two queues were at work *)
(* on the repository.  Only what a failed write has done since may be       *)
(* missing.                                                                 *)
Quiet ==
  /\ stack = <<>>
  /\ ~Busy(jobs, queue)
  /\ loads[loader] = NoLoad

FreshWhenQuiet ==
  Quiet /\ ~split =>
    shown.repo = repo /\ shown.version \in owed[repo]..version[repo]

(* The list shows the history as it is, whether the writes have succeeded   *)
(* or not (a failed write needs no reload: the comment in `_ok`).           *)
FreshAfterFailure ==
  Quiet /\ ~split => shown = [repo |-> repo, version |-> version[repo]]

(* A write is never started for a repository while another one runs there   *)
(* (the write queue's reason to be, application/write_queue.py:3-4).        *)
OneWriterPerRepo ==
  \A i, j \in DOMAIN jobs :
    /\ i # j
    /\ jobs[i].stage = "running" /\ jobs[j].stage = "running"
    => queues[jobs[i].queue] # queues[jobs[j].queue]

(* A pending reload happens in the end, or is dropped with the repository   *)
(* it was for, however dialogs and queues interleave.                       *)
FlagRedeemed == flag ~> ~flag
===============================================================================
