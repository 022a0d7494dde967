------------------------------- MODULE DiffPane -------------------------------
(***************************************************************************)
(* The diff pane of the window (ui/main_window.py, application/            *)
(* diff_loader.py) and the partial staging done from it.                    *)
(*                                                                         *)
(* A diff is computed by a loader on a thread of its own; each has a token, *)
(* and the latest token is the one the window expects                       *)
(* (`_diff_generation`).  Cancelling a loader stops an answer it has not    *)
(* sent, never one already in the event queue.                              *)
(*                                                                         *)
(* The lines a user picks in the patch of a changed file are coordinates    *)
(* in the patch on the screen.  They are applied later, by a job of the     *)
(* write queue, to the patch the engine reads then (`stage_partial`).       *)
(*                                                                         *)
(* A diff is of a commit, whole or narrowed to a file, or of a change that  *)
(* is not committed: a path and a side (staged or not).  The patch of a     *)
(* change is a version, raised whenever the file or the index moves under   *)
(* it.                                                                      *)
(***************************************************************************)
EXTENDS Naturals, Sequences, FiniteSets

CONSTANTS
  Repos, LastRepository,
  Commits,      \* the commits of a repository
  Paths,        \* its changed files
  None,         \* no commit, no change, nothing shown
  MaxRequests,  \* bound on the diffs requested
  MaxEdits,     \* bound on the changes made outside of this pane
  MaxJobs       \* bound on the partial applications

Changes == Paths \X {"unstaged", "staged"}
CommitDiffs == Commits \X (Paths \cup {None})
Diffs == CommitDiffs \cup Changes
Whole(c) == <<c, None>>

ASSUME DiffPaneAssumption ==
  /\ LastRepository \in Repos
  /\ None \notin Commits \cup Paths \cup Diffs
  /\ Commits \cap Paths = {}
  /\ MaxRequests \in Nat /\ MaxEdits \in Nat /\ MaxJobs \in Nat

(* The life of a request: its loader runs, then its answer or its error is  *)
(* in the event queue.                                                      *)
Stages == {"running", "answered", "failed"}

(* The life of a job: in the queue; its result in the event queue; over.    *)
JobStages == {"queued", "applied", "refused", "done"}

(* A definition named D_Variant is a wrong version of D, to try the         *)
(* properties on; nothing uses it.                                          *)

VARIABLES
  repo,      \* _repo_path
  sha,       \* _current_sha
  debounce,  \* _diff_debounce is running
  source,    \* _diff_source
  generation,\* _diff_generation
  requests,  \* the diff loaders at work, and the answers not delivered yet
  pane,      \* what _diff_model shows, and the token that brought it
  patches,   \* the version of each change of each repository
  edits,     \* how many changes were made outside of this pane
  jobs,      \* the partial applications submitted
  intent     \* history: what the user asked to see last; it is late when the
             \* debounce timer ran on behind it

vars == <<repo, sha, debounce, source, generation, requests, pane, patches, edits, jobs, intent>>

Init ==
  /\ repo = LastRepository
  /\ sha = None
  /\ debounce = FALSE
  /\ source = None
  /\ generation = 0
  /\ requests = {}
  /\ pane = None
  /\ patches = [r \in Repos |-> [c \in Changes |-> 0]]
  /\ edits = 0
  /\ jobs = <<>>
  /\ intent = None

-------------------------------------------------------------------------------
(* Cancelling stops the loaders that have not sent their answer.            *)
Cancelled(rs) == {q \in rs : q.stage # "running"}

Request_KeepsSource(what) ==
  /\ generation < MaxRequests
  /\ generation' = generation + 1
  /\ requests' = Cancelled(requests) \cup
       {[token |-> generation', repo |-> repo, what |-> what, stage |-> "running",
         version |-> 0]}
  /\ source' = IF what \in Changes THEN what ELSE source

(* `_request_diff` and its twin in `_on_workdir_diff_requested`.            *)
Request(what) ==
  /\ generation < MaxRequests
  /\ generation' = generation + 1
  /\ requests' = Cancelled(requests) \cup
       {[token |-> generation', repo |-> repo, what |-> what, stage |-> "running",
         version |-> 0]}
  /\ source' = IF what \in Changes THEN what ELSE None

(* A wish of the user.                                                      *)
Wish(what, late) == [repo |-> repo, what |-> what, late |-> late]

(* `is_busy` of the window's write queue.                                   *)
Busy == \E j \in DOMAIN jobs : jobs[j].ours /\ jobs[j].stage # "done"

-------------------------------------------------------------------------------
(* `_on_commit_selected`, by the user or by the first batch of commits.     *)
OnCommitSelected(c) ==
  /\ sha' = c
  /\ debounce' = TRUE
  /\ intent' = Wish(Whole(c), FALSE)
  /\ UNCHANGED <<repo, source, generation, requests, pane, patches, edits, jobs>>

(* `_dispatch_pending_diff`: the diff of the whole commit.                  *)
DispatchPendingDiff ==
  /\ debounce
  /\ debounce' = FALSE
  /\ IF sha = None THEN UNCHANGED <<source, generation, requests>> ELSE Request(Whole(sha))
  /\ UNCHANGED <<repo, sha, pane, patches, edits, jobs, intent>>

(* `_on_file_selected`: the diff of the current commit, narrowed to a file  *)
(* of the list, or whole again.  The debounce timer runs on.                *)
OnFileSelected(f) ==
  /\ sha # None
  /\ Request(<<sha, f>>)
  /\ intent' = Wish(<<sha, f>>, debounce)
  /\ UNCHANGED <<repo, sha, debounce, pane, patches, edits, jobs>>

OnWorkdirDiffRequested_KeepsDebounce(c) ==
  /\ Request(c)
  /\ intent' = Wish(c, FALSE)
  /\ UNCHANGED <<repo, sha, debounce, pane, patches, edits, jobs>>

(* `_on_workdir_diff_requested`: the user asks for a change that is not     *)
(* committed.                                                               *)
OnWorkdirDiffRequested(c) ==
  /\ debounce' = FALSE
  /\ Request(c)
  /\ intent' = Wish(c, FALSE)
  /\ UNCHANGED <<repo, sha, pane, patches, edits, jobs>>

(* `run` of a loader: it reads the diff, or finds none.                     *)
LoaderEnds(q) ==
  /\ q.stage = "running"
  /\ \E stage \in {"answered", "failed"} :
       requests' = (requests \ {q}) \cup
         {[q EXCEPT !.stage = stage,
                    !.version = IF q.what \in Changes THEN patches[q.repo][q.what] ELSE 0]}
  /\ UNCHANGED <<repo, sha, debounce, source, generation, pane, patches, edits, jobs, intent>>

Shown(q) == [token |-> q.token, repo |-> q.repo, what |-> q.what, version |-> q.version]

OnDiffReady_AnyToken(q) ==
  /\ q.stage = "answered"
  /\ requests' = requests \ {q}
  /\ pane' = Shown(q)
  /\ UNCHANGED <<repo, sha, debounce, source, generation, patches, edits, jobs, intent>>

(* `_on_diff_ready`, `_on_workdir_diff_ready`.                              *)
OnDiffReady(q) ==
  /\ q.stage = "answered"
  /\ requests' = requests \ {q}
  /\ pane' = IF q.token = generation THEN Shown(q) ELSE pane
  /\ UNCHANGED <<repo, sha, debounce, source, generation, patches, edits, jobs, intent>>

(* `_on_diff_failed`: a change is gone, so the pane is emptied; of a commit *)
(* the error is reported, the pane left as it is and the wish forgotten.    *)
OnDiffFailed(q) ==
  /\ q.stage = "failed"
  /\ requests' = requests \ {q}
  /\ IF q.token # generation THEN UNCHANGED <<pane, source, intent>>
     ELSE IF source # None
     THEN pane' = None /\ source' = None /\ UNCHANGED intent
     ELSE intent' = None /\ UNCHANGED <<pane, source>>
  /\ UNCHANGED <<repo, sha, debounce, generation, patches, edits, jobs>>

(* `open_repository`, as far as the pane goes: the loaders are cancelled,   *)
(* the pane is emptied, and another repository gets another write queue.    *)
(* The token and _diff_source stay as they are.                             *)
OpenRepository(r) ==
  /\ repo' = r
  /\ sha' = None
  /\ pane' = None
  /\ intent' = None
  /\ requests' = Cancelled(requests)
  /\ jobs' = IF r = repo THEN jobs
             ELSE [j \in DOMAIN jobs |-> [jobs[j] EXCEPT !.ours = FALSE]]
  /\ UNCHANGED <<debounce, source, generation, patches, edits>>

-------------------------------------------------------------------------------
(* Any other write, another program or the user's editor changes a patch.   *)
Edit(r, c) ==
  /\ edits < MaxEdits
  /\ edits' = edits + 1
  /\ patches' = [patches EXCEPT ![r][c] = @ + 1]
  /\ UNCHANGED <<repo, sha, debounce, source, generation, requests, pane, jobs, intent>>

(* A patch is known by its paths and its lines (`FilePatch.fingerprint`).   *)
Fingerprint(change, version) == <<change[1], version>>

(* `_apply_partial`: lines are picked in the pane, the change they are      *)
(* applied to is _diff_source.                                              *)
ApplyPartial ==
  /\ pane # None
  /\ pane.what \in Changes
  /\ source # None
  /\ ~Busy
  /\ Len(jobs) < MaxJobs
  /\ jobs' = Append(jobs, [repo |-> repo, ours |-> TRUE, change |-> source,
                           expected |-> Fingerprint(pane.what, pane.version),
                           after |-> 0, stage |-> "queued"])
  /\ UNCHANGED <<repo, sha, debounce, source, generation, requests, pane, patches, edits, intent>>

BothSides(change) == {c \in Changes : c[1] = change[1]}

(* `stage_partial` and `unstage_partial` on the worker's thread: the patch  *)
(* is read again, refused when it is not the one expected                   *)
(* (`_require_same_patch`), and applied otherwise, which moves lines from   *)
(* one side of the file to the other.                                       *)
RunPartial(j) ==
  LET r == jobs[j].repo
      c == jobs[j].change
  IN  /\ jobs[j].stage = "queued"
      /\ IF Fingerprint(c, patches[r][c]) = jobs[j].expected
         THEN /\ patches' = [patches EXCEPT ![r] =
                   [d \in Changes |-> IF d \in BothSides(c) THEN @[d] + 1 ELSE @[d]]]
              /\ jobs' = [jobs EXCEPT ![j].stage = "applied",
                                      ![j].after = patches[r][c] + 1]
         ELSE /\ jobs' = [jobs EXCEPT ![j].stage = "refused"]
              /\ UNCHANGED patches
      /\ UNCHANGED <<repo, sha, debounce, source, generation, requests, pane, edits, intent>>

ReloadAfterPartial_ClearsOnly(change) ==
  /\ pane' = IF source = change THEN None ELSE pane
  /\ UNCHANGED <<generation, requests, source, debounce>>

(* `_reload_after_partial`.                                                 *)
ReloadAfterPartial(change) ==
  IF source = change
  THEN pane' = None /\ debounce' = FALSE /\ Request(change)
  ELSE UNCHANGED <<pane, generation, requests, source, debounce>>

(* `_ok` of `_submit_write`, with on_success.                               *)
OnApplied(j) ==
  /\ jobs[j].stage = "applied"
  /\ jobs' = [jobs EXCEPT ![j].stage = "done"]
  /\ IF jobs[j].ours THEN ReloadAfterPartial(jobs[j].change)
     ELSE UNCHANGED <<pane, generation, requests, source, debounce>>
  /\ intent' = IF jobs[j].ours /\ source = jobs[j].change
               THEN Wish(source, FALSE) ELSE intent
  /\ UNCHANGED <<repo, sha, patches, edits>>

(* `_fail`, and the report of the refusal.                                  *)
OnRefused(j) ==
  /\ jobs[j].stage = "refused"
  /\ jobs' = [jobs EXCEPT ![j].stage = "done"]
  /\ UNCHANGED <<repo, sha, debounce, source, generation, requests, pane, patches, edits, intent>>

-------------------------------------------------------------------------------
Next ==
  \/ \E c \in Commits : OnCommitSelected(c)
  \/ DispatchPendingDiff
  \/ \E f \in Paths \cup {None} : OnFileSelected(f)
  \/ \E c \in Changes : OnWorkdirDiffRequested(c)
  \/ \E q \in requests : LoaderEnds(q) \/ OnDiffReady(q) \/ OnDiffFailed(q)
  \/ \E r \in Repos : OpenRepository(r)
  \/ \E r \in Repos, c \in Changes : Edit(r, c)
  \/ ApplyPartial
  \/ \E j \in DOMAIN jobs : RunPartial(j) \/ OnApplied(j) \/ OnRefused(j)

Spec == Init /\ [][Next]_vars

-------------------------------------------------------------------------------
(* Every variable has its type.                                             *)
TypeOK ==
  /\ repo \in Repos
  /\ sha \in Commits \cup {None}
  /\ debounce \in BOOLEAN
  /\ source \in Changes \cup {None}
  /\ generation \in Nat
  /\ requests \subseteq [token : 1..generation, repo : Repos, what : Diffs,
                          stage : Stages, version : Nat]
  /\ pane \in [token : Nat, repo : Repos, what : Diffs,
               version : Nat] \cup {None}
  /\ patches \in [Repos -> [Changes -> Nat]]
  /\ edits \in Nat
  /\ jobs \in Seq([repo : Repos, ours : BOOLEAN, change : Changes,
                   expected : Paths \X Nat, after : Nat, stage : JobStages])
  /\ intent \in [repo : Repos, what : Diffs, late : BOOLEAN] \cup {None}

(* A diff that comes late never covers a newer one.                         *)
NeverOlder ==
  [][pane # None /\ pane' # None => pane'.token >= pane.token]_vars

(* No answer is under way that the pane will take.                          *)
Settled ==
  /\ ~debounce
  /\ \A q \in requests : q.token # generation

(* What grants the wish: the diff asked for, and for a file asked for while *)
(* the debounce timer ran the whole diff of its commit.                     *)
Grants(what) ==
  \/ what = intent.what
  \/ intent.late /\ what = Whole(intent.what[1])

(* When nothing is under way any more, the pane shows what the user asked   *)
(* for last: a commit chosen before a change does not come back over it     *)
(* when the debounce timer runs out (`_on_workdir_diff_requested`), and a   *)
(* file chosen while the timer runs is at worst covered by the whole diff   *)
(* of the same commit.                                                      *)
LastAskedIsShown ==
  Settled /\ intent # None /\ pane # None =>
    pane.repo = intent.repo /\ Grants(pane.what)

(* The change that the buttons of partial staging act on (`_diff_source`)   *)
(* is the one on the screen, when nothing is under way: no answer, failure, *)
(* reload or change of repository parts the two (`_request_diff`,           *)
(* `_on_workdir_diff_requested`, `_on_diff_failed`).                        *)
SourceIsShown ==
  Settled /\ pane # None /\ source # None => pane.what = source

(* Once a partial application was reported and nothing is under way, the    *)
(* pane does not show the patch from before it, with coordinates that no    *)
(* longer hold (`_reload_after_partial`).                                   *)
FreshAfterApply ==
  \A j \in DOMAIN jobs :
    /\ jobs[j].stage = "done" /\ jobs[j].after # 0 /\ jobs[j].ours
    /\ Settled /\ pane # None /\ source # None
    /\ pane.repo = jobs[j].repo /\ pane.what = jobs[j].change
    => pane.version >= jobs[j].after

(* The pane shows a diff of the repository that is open, never one of the   *)
(* repository before (the token exists so that a late diff does not cover   *)
(* the screen: application/diff_loader.py:7-10).                            *)
PaneIsOfRepo == pane # None => pane.repo = repo

(* The file asked for last is shown, not the diff that the timer held (a    *)
(* timer that is not stopped covers what was asked for after it:            *)
(* ui/main_window.py:1850-1852, said of `_on_workdir_diff_requested`).      *)
FileStaysShown ==
  Settled /\ intent # None /\ pane # None => pane.what = intent.what
===============================================================================
