------------------------------- MODULE History --------------------------------
(***************************************************************************)
(* The window over one repository with history operations                   *)
(* (ui/main_window.py): its menus and buttons, the confirmations it asks    *)
(* for, the jobs it submits, what it makes of their results, the pull that  *)
(* merges when its fetch has ended, and the conflict panel.                 *)
(*                                                                         *)
(* What a job does to the repository is in Sequencer.  The write queue is   *)
(* taken at its word (WriteQueue): one job at a time, in order, and a slot  *)
(* that opens a dialog suspends the rest of its emission, while a job       *)
(* submitted meanwhile may start.  `stack` holds the open dialogs,          *)
(* innermost first; while there is one, the user reaches nothing else.      *)
(***************************************************************************)
EXTENDS Sequencer

CONSTANTS
  Starts,   \* the repositories the window may be opened on
  Sources,  \* the branches the user merges, rebases onto, checks out, deletes
  NewName,  \* the name of the branch the user makes
  Picked,   \* the commits the user picks, reverts, resets to
  MaxJobs   \* bound on the jobs ever submitted

ASSUME HistoryAssumption ==
  /\ Sources \cup {NewName} \subseteq Branches
  /\ NewName \notin Sources \cup DOMAIN Upstream
  /\ Picked \subseteq DOMAIN Past
  /\ MaxJobs \in Nat
  /\ \A r \in Starts : /\ WellFormed(r)
                       /\ Len(Past) <= Len(r.commits)
                       /\ r.op = "rebase" => r.head = Detached

(* A definition named D_Variant is a wrong version of D, to try the         *)
(* properties on; nothing uses it.                                          *)

VARIABLES
  repo,      \* the repository
  win,       \* the window: its queue and what it shows
  ended,     \* the result of the running job, its signal on the way
  stack,     \* the open dialogs
  fetching,  \* a pull is on the network
  count,     \* the jobs submitted so far
  owed,      \* history: the changes the rebase under way has to bring over
  lost       \* history: those a rebase that ended did not bring over

vars == <<repo, win, ended, stack, fetching, count, owed, lost>>

NoJob == [kind |-> "none"]
NoEnd == [kind |-> "none"]
NoPanel == [path |-> "none"]

(* What the window reads from the repository when it opens it or looks      *)
(* again (`operation_state`, `index_conflicts`).                            *)
Looks(r) == [op |-> r.op, conflicts |-> r.conflicts, stop |-> IF r.inHand THEN r.todo[1] ELSE Nobody]

(* The conflict a path has: between which commit's change and which HEAD.   *)
Conflict(r) == <<IF r.inHand THEN r.todo[1] ELSE r.theirs, r.at>>

Init ==
  /\ repo \in Starts
  /\ win = [active |-> NoJob, queue |-> <<>>, flag |-> FALSE, view |-> Looks(repo),
            branch |-> repo.head, locked |-> FALSE, panel |-> NoPanel]
  /\ ended = NoEnd
  /\ stack = <<>>
  /\ fetching = FALSE
  /\ count = 0
  /\ owed = IF repo.op = "rebase" THEN UNION {repo.commits[c].of : c \in Range(repo.todo)} ELSE {}
  /\ lost = {}

-------------------------------------------------------------------------------
(* The window's own steps, as functions of `win`.                           *)
Busy(w) == w.active # NoJob \/ w.queue # <<>>

(* `_start_next_if_idle`.                                                   *)
StartNext(w) ==
  IF w.active # NoJob \/ w.queue = <<>> THEN w
  ELSE [w EXCEPT !.active = Head(w.queue), !.queue = Tail(w.queue)]

(* `submit`.                                                                *)
Submitted(w, job) == StartNext([w EXCEPT !.queue = Append(@, job)])

(* `_apply_operation_state`: the buttons are locked while the queue is      *)
(* busy; the panel's rows are made anew, and it asks for the detail of the  *)
(* one it selects.                                                          *)
Applied(w) == [w EXCEPT !.locked = Busy(w), !.panel = NoPanel]

(* `_sync_operation_state`.                                                 *)
Synced(w, r) == Applied([w EXCEPT !.view = Looks(r)])

(* `open_repository` of the repository that is open.                        *)
Reopened(w, r) == Synced([w EXCEPT !.branch = r.head, !.flag = w.flag /\ Busy(w)], r)

AfterSlots_NoSync(w, r) ==
  LET v == StartNext(w)
  IN  CASE Busy(v)            -> v
        [] ~Busy(v) /\ v.flag -> Reopened([v EXCEPT !.flag = FALSE], r)
        [] OTHER              -> v

(* `_on_done` after its emission: the next job, or idle() and               *)
(* `_on_write_queue_idle`.                                                  *)
AfterSlots(w, r) ==
  LET v == StartNext(w)
  IN  CASE Busy(v)            -> v
        [] ~Busy(v) /\ v.flag -> Reopened([v EXCEPT !.flag = FALSE], r)
        [] OTHER              -> Synced(v, r)

(* `_ok` of `_submit_write`: the writes submitted with reload_graph.        *)
Reloading == {"rebase", "plan", "pick", "continue", "skip", "keep", "abort", "reset",
              "commit", "amend", "checkout", "branch", "delete"}

Flagged(w, reloads) == [w EXCEPT !.flag = @ \/ reloads]

-------------------------------------------------------------------------------
(* The user, whom a dialog keeps from everything else.                      *)
UserFree == stack = <<>>
MaySubmit == count < MaxJobs

Quietly == UNCHANGED <<repo, ended, fetching, owed, lost>>

Submits(job) ==
  /\ MaySubmit
  /\ win' = Submitted(win, job)
  /\ count' = count + 1
  /\ UNCHANGED stack /\ Quietly

Asks(job) ==
  /\ MaySubmit
  /\ stack' = <<[what |-> "ask", job |-> job, emits |-> FALSE]>> \o stack
  /\ UNCHANGED <<win, count>> /\ Quietly

(* `_busy_with_history`.                                                    *)
BusyWithHistory == win.view.op # "none" \/ Busy(win)

(* The menu of a reference: `_start_merge` sets the reload flag at once;    *)
(* the checkout; `_start_rebase`; `_start_interactive_rebase`, which shows  *)
(* the commits as they are now, to keep or to drop; and the deletion, which *)
(* is on offer whatever is under way.                                       *)
StartsMerge(b) ==
  /\ UserFree /\ ~BusyWithHistory /\ b # win.branch /\ MaySubmit
  /\ win' = [Submitted(win, [kind |-> "merge", source |-> b, branch |-> win.branch])
               EXCEPT !.flag = TRUE]
  /\ count' = count + 1
  /\ UNCHANGED stack /\ Quietly

ChecksOut(b) ==
  /\ UserFree /\ ~BusyWithHistory /\ b # win.branch
  /\ Submits([kind |-> "checkout", source |-> b])

StartsRebase(b) ==
  /\ UserFree /\ ~BusyWithHistory /\ b # win.branch
  /\ Asks([kind |-> "rebase", source |-> b, branch |-> win.branch])

StartsPlan(b) ==
  /\ UserFree /\ ~BusyWithHistory /\ b # win.branch /\ repo.tip[b] # Nobody
  /\ LET steps == RebaseTodo(repo, repo.tip[b])
     IN  /\ steps # <<>>
         /\ \A c \in Range(steps) : ~IsMergeCommit(repo, c)
         /\ \E drop \in SUBSET Range(steps) :
              Asks([kind |-> "plan", source |-> b, branch |-> win.branch, at |-> repo.at,
                    keep |-> Ordered(Range(steps) \ drop)])

ConfirmsDelete(b) ==
  /\ UserFree /\ b # win.branch
  /\ Asks([kind |-> "delete", source |-> b])

(* The menu of a commit: `_on_cherry_pick`, `_on_revert`, `_on_reset`.      *)
StartsPick(op, c) ==
  /\ UserFree /\ ~BusyWithHistory
  /\ Submits([kind |-> "pick", op |-> op, commit |-> c, branch |-> win.branch])

StartsReset(how, c) ==
  /\ UserFree /\ ~BusyWithHistory
  /\ Asks([kind |-> "reset", how |-> how, commit |-> c, branch |-> win.branch])

(* The banner.  The buttons are locked as soon as the job is submitted.     *)
Continues ==
  /\ UserFree /\ ~win.locked /\ MaySubmit
  /\ win.view.op \in Sequencers /\ win.view.conflicts = {}
  /\ win' = Applied(Submitted(win, [kind |-> "continue"]))
  /\ count' = count + 1
  /\ UNCHANGED stack /\ Quietly

AsksToSkip ==
  /\ UserFree /\ ~win.locked /\ win.view.op \in Sequencers
  /\ Asks([kind |-> "skip", about |-> win.view.stop])

AsksToAbort ==
  /\ UserFree /\ ~win.locked /\ win.view.op \in Sequencers \cup {"merge"}
  /\ Asks([kind |-> "abort"])

(* `_on_commit_requested`; `_confirm_amend` names the commit that HEAD is   *)
(* at now.                                                                  *)
CommitRequested(amend) ==
  /\ UserFree /\ ~Busy(win)
  /\ win.view.op \notin Sequencers
  /\ IF amend THEN Asks([kind |-> "amend", at |-> repo.at])
     ELSE Submits([kind |-> "commit"])

(* The work panel and the tool bar, which nothing locks: `_prompt_new_branch`, *)
(* `_on_stage_requested`, `_on_unstage_requested`, `_on_discard_requested`. *)
NewBranch == UserFree /\ Submits([kind |-> "branch", source |-> NewName])
Stages(p) == UserFree /\ Submits([kind |-> "stage", path |-> p])
Unstages == UserFree /\ Submits([kind |-> "unstage"])
Discards == UserFree /\ Asks([kind |-> "discard"])

(* The conflict panel: the detail of a path that was read is shown, and     *)
(* with it the buttons come alive (`_on_conflict_detail_ready`).            *)
DetailReady(p) ==
  /\ p \in win.view.conflicts \cap repo.conflicts
  /\ UserFree \/ win.panel = NoPanel
  /\ win' = [win EXCEPT !.panel = [path |-> p, seen |-> Conflict(repo)]]
  /\ UNCHANGED <<stack, count>> /\ Quietly

(* `_on_resolve_conflict`, which asks when the file was edited, and         *)
(* `_on_line_pick`, whose dialog does.  The panel's buttons are off until   *)
(* the queue is idle, or the user declines.                                 *)
Resolves(side, edited) ==
  /\ UserFree /\ win.panel # NoPanel /\ MaySubmit
  /\ LET job == [kind |-> "resolve", path |-> win.panel.path, side |-> side,
                 seen |-> win.panel.seen]
     IN  IF edited \/ side = "lines"
         THEN /\ stack' = <<[what |-> "ask", job |-> job, emits |-> FALSE]>>
              /\ win' = [win EXCEPT !.panel = NoPanel]
              /\ UNCHANGED count
         ELSE /\ win' = Submitted([win EXCEPT !.panel = NoPanel], job)
              /\ count' = count + 1
              /\ UNCHANGED stack
  /\ Quietly

(* F5.                                                                      *)
Reloads ==
  /\ UserFree
  /\ win' = Reopened(win, repo)
  /\ UNCHANGED <<stack, count>> /\ Quietly

(* The user's editor.                                                       *)
Edits ==
  /\ ~repo.dirty
  /\ repo' = [repo EXCEPT !.dirty = TRUE]
  /\ UNCHANGED <<win, ended, stack, fetching, count, owed, lost>>

-------------------------------------------------------------------------------
(* Pull: the fetch, then `_finish_pull`, which takes the upstream from HEAD *)
(* as it is and the branch from what the window knows.                      *)
Pulls ==
  /\ UserFree /\ ~fetching /\ win.view.op = "none" /\ MaySubmit
  /\ fetching' = TRUE
  /\ UNCHANGED <<repo, win, ended, stack, count, owed, lost>>

PullFails ==
  /\ fetching
  /\ fetching' = FALSE
  /\ stack' = <<[what |-> "note", emits |-> FALSE]>> \o stack
  /\ UNCHANGED <<repo, win, ended, count, owed, lost>>

FinishPull ==
  /\ fetching
  /\ fetching' = FALSE
  /\ IF \/ repo.head \notin DOMAIN Upstream
        \/ Upstream[repo.head] \in AncestorsOf(repo, repo.at)
     THEN win' = Reopened(win, repo) /\ UNCHANGED count
     ELSE LET ff == repo.at \in AncestorsOf(repo, Upstream[repo.head])
              job == [kind |-> IF ff THEN "fast_forward" ELSE "pull_merge",
                      of |-> repo.head, branch |-> win.branch]
          IN  /\ MaySubmit
              /\ win' = [Submitted(win, job) EXCEPT !.flag = TRUE]
              /\ count' = count + 1
  /\ UNCHANGED <<repo, ended, stack, owed, lost>>

-------------------------------------------------------------------------------
(* A job runs on its worker.  Any may fail and change nothing.              *)
Work(job, r) ==
  CASE job.kind = "merge"        -> IF r.tip[job.source] = Nobody THEN Refused(r)
                                    ELSE Merge(r, r.tip[job.source], job.branch)
    [] job.kind = "pull_merge"   -> Merge(r, Upstream[job.of], job.branch)
    [] job.kind = "fast_forward" -> FastForward(r, Upstream[job.of], job.branch)
    [] job.kind = "rebase"       -> IF r.tip[job.source] = Nobody THEN Refused(r)
                                    ELSE Rebase(r, r.tip[job.source], job.branch)
    [] job.kind = "plan"         -> IF r.tip[job.source] = Nobody THEN Refused(r)
                                    ELSE RebaseInteractive(r, r.tip[job.source], job.keep, job.branch)
    [] job.kind = "pick"         -> PickOne(r, job.op, job.commit, job.branch)
    [] job.kind = "reset"        -> ResetTo(r, job.commit, job.how, job.branch)
    [] job.kind = "continue"     -> Continue(r)
    [] job.kind = "skip"         -> Skip(r)
    [] job.kind = "keep"         -> KeepEmpty(r)
    [] job.kind = "abort"        -> Abort(r)
    [] job.kind = "commit"       -> CreateCommit(r, FALSE)
    [] job.kind = "amend"        -> CreateCommit(r, TRUE)
    [] job.kind = "branch"       -> CreateBranch(r, job.source)
    [] job.kind = "checkout"     -> CheckoutBranch(r, job.source)
    [] job.kind = "delete"       -> DeleteBranch(r, job.source)
    [] job.kind = "stage"        -> StageFile(r, job.path)
    [] job.kind = "unstage"      -> UnstageFile(r)
    [] job.kind = "discard"      -> DiscardFile(r)
    [] job.kind = "resolve"      -> ResolveConflict(r, job.path, job.side)

(* What a rebase has to bring over: from its start the commits it copies    *)
(* (those of the plan, or those upstream does not have already), up to the  *)
(* user's word to drop one or to give up.                                   *)
Owes(job, r, out) ==
  LET changes(C) == UNION {r.commits[c].of : c \in C}
      copied == IF job.kind = "plan" THEN Range(job.keep)
                ELSE {c \in Range(RebaseTodo(r, r.tip[job.source])) : ~IsMergeCommit(r, c)}
  IN  CASE job.kind \in {"rebase", "plan"} /\ r.op = "none" /\ out.repo # r ->
             changes(copied) \ changes(out.left)
        [] job.kind = "skip" /\ out.repo # r /\ r.op = "rebase" /\ r.inHand -> owed \ changes({Head(r.todo)})
        [] job.kind = "abort" /\ out.repo # r -> {}
        [] OTHER -> owed

JobEnds(out) ==
  /\ ended = NoEnd
  /\ win.active # NoJob
  /\ repo' = out.repo
  /\ ended' = [kind |-> out.kind, already |-> out.already, conflicts |-> out.repo.conflicts,
               stop |-> IF repo'.inHand THEN repo'.todo[1] ELSE Nobody]
  /\ LET due == Owes(win.active, repo, out)
     IN  /\ owed' = IF out.repo.op = "rebase" THEN due ELSE {}
         /\ lost' = IF out.repo.op = "rebase" \/ out.kind = "error" THEN {} ELSE due \ Holds(out.repo)
  /\ UNCHANGED <<win, stack, fetching, count>>

(* The signal is delivered (`_on_write_succeeded`, `_on_write_failed`): an  *)
(* error, a conflict or skipped commits are told in a dialog; a commit that *)
(* would be empty is put to the user (`_enter_would_be_empty`).             *)
OnDone ==
  /\ ended # NoEnd
  /\ ended' = NoEnd
  /\ LET job == win.active
         w == [win EXCEPT !.active = NoJob]
         reloads == job.kind \in Reloading /\ ended.kind # "error"
         note == [what |-> "note", emits |-> TRUE, reloads |-> reloads]
         box == [what |-> "box", emits |-> TRUE, reloads |-> reloads, stop |-> ended.stop]
     IN  CASE ended.kind = "conflicted" ->
                /\ win' = Applied([w EXCEPT !.view = [Looks(repo) EXCEPT !.conflicts = ended.conflicts]])
                /\ stack' = <<note>> \o stack
           [] ended.kind = "empty" ->
                /\ win' = Applied([w EXCEPT !.view = [Looks(repo) EXCEPT !.conflicts = {}]])
                /\ stack' = <<box>> \o stack
           [] ended.kind = "error" \/ (ended.kind = "ok" /\ ended.already # {}) ->
                /\ win' = w
                /\ stack' = <<note>> \o stack
           [] OTHER ->
                /\ win' = AfterSlots(Flagged(w, reloads), repo)
                /\ UNCHANGED stack
  /\ UNCHANGED <<repo, fetching, count, owed, lost>>

-------------------------------------------------------------------------------
(* Dialogs.  The innermost is closed; one that held up an emission lets it  *)
(* go on.                                                                   *)
Top == Head(stack)

LetGo(f, w) == IF f.emits THEN AfterSlots(Flagged(w, f.reloads), repo) ELSE w

Closes ==
  /\ stack # <<>>
  /\ Top.what \in {"note", "box"}
  /\ win' = LetGo(Top, win)
  /\ stack' = Tail(stack)
  /\ UNCHANGED count /\ Quietly

(* The box of a commit that would be empty: dropped or kept, without        *)
(* further question ...                                                     *)
Chooses(kind) ==
  /\ stack # <<>> /\ MaySubmit
  /\ Top.what = "box"
  /\ LET job == IF kind = "skip" THEN [kind |-> "skip", about |-> Top.stop] ELSE [kind |-> "keep"]
     IN  win' = LetGo(Top, Applied(Submitted(win, job)))
  /\ stack' = Tail(stack)
  /\ count' = count + 1
  /\ Quietly

(* ... or the operation aborted, which asks again inside the same emission. *)
ChoosesAbort ==
  /\ stack # <<>> /\ MaySubmit
  /\ Top.what = "box"
  /\ win.view.op # "none"
  /\ stack' = <<[what |-> "ask", job |-> [kind |-> "abort"],
                emits |-> Top.emits, reloads |-> Top.reloads]>> \o Tail(stack)
  /\ UNCHANGED <<win, count>> /\ Quietly

Confirms_NoLock ==
  /\ stack # <<>> /\ MaySubmit
  /\ Top.what = "ask"
  /\ LET w == Submitted(win, Top.job)
     IN  win' = LetGo(Top, w)
  /\ stack' = Tail(stack)
  /\ count' = count + 1
  /\ Quietly

(* A confirmation is given: the job is submitted, and the banner locked for *)
(* those it asked for; an abort empties the list of conflicts at once.      *)
Confirms ==
  /\ stack # <<>> /\ MaySubmit
  /\ Top.what = "ask"
  /\ LET w == Submitted(win, Top.job)
     IN  win' = LetGo(Top, CASE Top.job.kind = "skip"  -> Applied(w)
                             [] Top.job.kind = "abort" -> Applied([w EXCEPT !.view.conflicts = {}])
                             [] OTHER                  -> w)
  /\ stack' = Tail(stack)
  /\ count' = count + 1
  /\ Quietly

(* It is declined; the conflict panel is brought back to life.              *)
Declines ==
  /\ stack # <<>>
  /\ Top.what = "ask"
  /\ win' = LetGo(Top, IF Top.job.kind = "resolve" THEN Synced(win, repo) ELSE win)
  /\ stack' = Tail(stack)
  /\ UNCHANGED count /\ Quietly

-------------------------------------------------------------------------------
UserActs ==
  \/ \E b \in Sources :
       \/ StartsMerge(b) \/ ChecksOut(b) \/ ConfirmsDelete(b)
       \/ StartsRebase(b) \/ StartsPlan(b)
  \/ \E c \in Picked :
       \/ \E op \in {"cherry_pick", "revert"} : StartsPick(op, c)
       \/ \E how \in {"soft", "mixed", "hard"} : StartsReset(how, c)
  \/ Continues \/ AsksToSkip \/ AsksToAbort
  \/ \E amend \in BOOLEAN : CommitRequested(amend)
  \/ NewBranch \/ Unstages \/ Discards
  \/ \E p \in Paths \cup {"other"} : Stages(p)
  \/ \E side \in {"ours", "theirs", "lines"}, edited \in BOOLEAN : Resolves(side, edited)
  \/ Reloads \/ Edits \/ Pulls

DialogCloses ==
  \/ Closes \/ ChoosesAbort \/ Confirms \/ Declines
  \/ \E kind \in {"skip", "keep"} : Chooses(kind)

Next ==
  \/ UserActs
  \/ DialogCloses
  \/ PullFails \/ FinishPull
  \/ \E p \in Paths : DetailReady(p)
  \/ \E out \in IF win.active = NoJob THEN {} ELSE Work(win.active, repo) \cup Refused(repo) :
       JobEnds(out)
  \/ OnDone

Spec == Init /\ [][Next]_vars

-------------------------------------------------------------------------------
(* The running job, one of these kinds, has an effect.                      *)
Runs(kinds) == ended = NoEnd /\ ended' # NoEnd /\ win.active.kind \in kinds

(* Every variable has its type.                                             *)
TypeOK ==
  /\ WellFormed(repo)
  /\ win.view.op \in Operations /\ win.view.conflicts \subseteq Paths
  /\ win.flag \in BOOLEAN /\ win.locked \in BOOLEAN
  /\ ended # NoEnd => ended.kind \in Kinds
  /\ \A i \in DOMAIN stack : stack[i].what \in {"ask", "note", "box"}
  /\ fetching \in BOOLEAN
  /\ count \in 0..MaxJobs

(* No commit gets lost in a rebase: when it has ended, HEAD holds the       *)
(* changes of each commit it set out to copy, other than those upstream has *)
(* already and those the user dropped in the plan or skipped (ADR-76: git   *)
(* drops a commit that came out empty without a word).                      *)
NothingLost == lost = {}

(* Skipping drops the commit the user was told about, and no other:         *)
(* `git rebase --skip` pressed twice drops two (the comment in              *)
(* `_apply_operation_state`).                                               *)
SkippedAsAsked ==
  [][\A c \in DOMAIN repo.commits :
       /\ Runs({"skip"})
       /\ repo.inHand /\ repo.todo[1] = c
       /\ repo' # repo
       => win.active.about = c]_vars

(* Nothing moves HEAD under a merge but the commit that concludes it, which *)
(* joins the two sides it was started on (a HEAD moved meanwhile gives a    *)
(* merge commit that looks right and says something false, the comment in   *)
(* `fast_forward`).                                                         *)
MergeCommitJoins ==
  [][repo.op = "merge" /\ repo'.at # repo.at =>
       repo'.commits[repo'.at].parents = <<repo.at, repo.theirs>>]_vars

(* A pull brings a branch's upstream to that branch alone, wherever the     *)
(* user has gone while it was on the network.                               *)
PullIntoItsOwn ==
  [][/\ Runs({"fast_forward", "pull_merge"})
     /\ repo'.at # repo.at
     => repo.head = win.active.of]_vars

(* When the writes are done and reported, the window shows what is under    *)
(* way, its conflicts and the branch as they are, with the buttons that     *)
(* lead out of it alive.                                                    *)
ViewIsTrue ==
  stack = <<>> /\ ~Busy(win) =>
    /\ win.view = Looks(repo)
    /\ ~win.locked /\ ~win.flag
    /\ repo.op = "none" => win.branch = repo.head

-------------------------------------------------------------------------------
(* A choice between the sides of a conflict is applied to the conflict the  *)
(* user saw, not to the next commit's conflict in the same file.            *)
ResolvedAsSeen ==
  [][/\ Runs({"resolve"})
     /\ repo'.conflicts # repo.conflicts
     => win.active.seen = Conflict(repo)]_vars

(* What a confirmation described is what is replaced: the commit that       *)
(* `_confirm_amend` names, and the commits the plan lists.                  *)
ReplacedAsConfirmed ==
  [][/\ Runs({"plan", "amend"})
     /\ repo' # repo
     => win.active.at = repo.at]_vars
===============================================================================
