# A verification of GitClient's concurrent core

GitClient (`src/src/gitclient`) is a desktop Git client in Python: Qt for the
window, pygit2 (libgit2) for local work, the `git` executable for remote work.
This directory holds TLA+ models of its core, the TLC configurations that check
them on small instances, and proofs that TLAPS checks for every instance.

Paths below are relative to `src/src/gitclient/` unless they begin with `doc/`
or `tests/`. Every definition that models code names its lines in
`PROJECT.json` under `map`.

    tlc -workers 2 -config MCWriteQueue.cfg MCWriteQueue     # a run
    tlapm WriteQueueProofs.tla                               # the proofs

## 1. The system

One process. The **UI thread** runs Qt's event loop and owns all state of the
window. **Workers** (`QRunnable`s of the global thread pool) compute and write;
each opens an engine handle of its own and shares no state with the UI thread
but a `_cancelled` flag. A worker reports by Qt signals, which are *queued* to
the UI thread: they arrive later, in the order of emission per worker, in any
order between workers, and a signal already queued still arrives after its
worker was cancelled. Signals whose sender and receiver both live in the UI
thread are *direct* calls. A slot may open a **modal dialog**: a nested event loop
then runs other slots in the middle of the one that opened it, while the user
cannot reach the window behind.

| Component | State | Operations | Hard part | Correct when |
|---|---|---|---|---|
| **Write queue** `application/write_queue.py` | `_pending`, `_active`, `_next_id` | submit, the job on the pool, `_on_done`; signals job_succeeded / job_failed / idle | slots open dialogs in the middle of `_on_done`, submit again, and complete other jobs there | one write at a time, in order; never stalls; `idle()` neither lost nor early |
| **Session** `ui/main_window.py` 803-1180, 1521-1778 | `_repo_path`, `_write_queue`, `_graph_reload_pending`, `_loader` | open_repository, submit a write, success, failure and idle slots, the commit loader | the repository changes while jobs, dialogs and loaders of the one before are under way | a pending reload is redeemed or dropped with its repository; the list shows the current repository's history |
| **Remote slot** `ui/main_window.py` 2138-2615, `application/remote_workers.py` | `_fetch_worker`, `_prefetch_worker`, `_pending_remote`, `_remote_retry`; per worker `_cancelled` | start, cancel, prefetch by timer, promotion of a prefetch, result, retirement, login and one retry | results race cancellation, promotion, login and a change of repository | one transfer at a time, always cancellable, never revived; the slot comes free |
| **Diff pane** `ui/main_window.py` 1343-1463, 1847-1975, `application/diff_loader.py` | `_diff_generation`, `_diff_source`, debounce timer, the loaders | choose a commit, a file, a change; answers; apply lines | late answers; what is shown, what the buttons act on and what is asked for change at different times | the buttons act on what is shown; the latest wish wins |
| **Partial staging** `domain/patch.py`, `infrastructure/local_engine.py` 814-949 | the index | synthesise a patch of some lines, apply it | line numbers, the two mirrored directions, whole-file headers, missing final newlines | exactly the chosen lines move, or the choice is refused |
| **History operations** `infrastructure/local_engine.py` 2219-2532, `ui/main_window.py` 1780-1846, 2617-3516 | git's sequencer state, HEAD; the window's view of it, its locks, open confirmations | rebase with and without a plan, cherry-pick, revert, continue, skip, keep empty, abort, amend, reset, branches | the sequencer stops, becomes empty, is killed; confirmed now, run later, after what was queued before | no commit is lost, the one skipped is the one named, the menus offer what the sequencer can do |
| **Merge, fast-forward, conflicts** `infrastructure/local_engine.py` 1512-2100, `ui/conflict_panel.py` | HEAD, MERGE_HEAD, conflict entries | merge, conclude, abort, fast-forward, pull, resolve by side or by line | decided on one branch, run on another; the screen shows a conflict that has been replaced | a merge joins what it was started on; a pull serves its own branch |
| **Working tree, index, stash** `infrastructure/local_engine.py` 560-810, 950-1340, 1590-2060 | files, index, stash | stage, unstage, discard, commit, checkout, merge, abort, reset, stash | each operation over the leavings of every other; a death half way | what the user wrote, staged or stashed is kept; nothing appears that he did not do |
| **git process runner** `infrastructure/remote_engine.py` 257-360, 487-1100 | child process, pipe pumps, watchdog | run, abort, stall | abort, `Popen`, stall and exit race; grandchildren hold pipes | the worker always returns, leaves no process, and the traffic is recorded |
| **Clone** `application/remote_workers.py` 343-572 | target directory | clone, cancel, clean up | what existed before must survive; two engines, one cancellation | removes its own and nothing else |
| **Graph lanes** `domain/graph.py`, `viewmodel/commit_graph_model.py` | the lanes and their colours | place a commit | lanes used again, merges into lanes, parents drawn above their children | the lines lead from each commit to its parents and nowhere else |
| **Idle repack, file system watch** `ui/main_window.py` 922-1000, 2394-2438 | timers, suppression flags | settle, repack in the queue | own writes trigger the watch; the user arrives during a repack | the user never waits long; outside changes are seen |
| Loaders of refs, status, conflicts, path history | one current loader each | load, answer | late answers | as for the commit loader |
| Progress parsing and statistics, credentials helper, records, dialogs, translation | — | text and layout | little control | — |

How they interact: the window submits writes to the queue of the open
repository; the queue's `job_succeeded` sets the reload flag, its `idle()`
redeems it through `open_repository`, which replaces the loaders and, for another
repository, the queue. Remote workers report to the window, which submits
the merge half of a pull to the write queue. The diff pane picks lines in a patch it
was sent and submits their application to the queue; the engine reads the patch
again in the job and compares fingerprints before `synthesize_patch` runs. A
history operation is offered by what the window last read, confirmed in a dialog,
queued, run by the engine on whatever HEAD is by then, and its result decides
what the window reads and offers next. A remote worker drives one git process,
which a cancellation reaches from the UI thread.

The hazards of all this, each at its line, are in `PROJECT.json` under `hazards`,
with the properties that cover them or the reason why none does.

## 2. Modules

| Module | Models | State and actions |
|---|---|---|
| `SerialExecutor` | the abstract promise of a write queue | sets of jobs submitted, writing, written, reported |
| `WriteQueue` | `write_queue.py` | `pending`, `active`, `nextId` as in the code; `phase` per job; `stack`: the calls of `_on_done` that are suspended in a slot. `Submit`, `Begin`/`Finish` (pool thread), `OnDone` (up to the emission), `SlotReturns`/`DialogCloses` (the rest, at the innermost call) |
| `RemoteSlot` | the two remote slots and the life of their workers | the window's fields by name; `worker`: every worker with its stage, `cancelled`, and whether `retired` was relayed to the promotion slot; `events`: signals queued. One action per user command, timer, worker step and slot |
| `Session` | repositories, their queues, the reload | a queue is taken at its word, that of `SerialExecutor`; `stack` as above; `loads`: the current and the last loader; `version`: how often a repository's history has changed, `owed`: the version a reload is owed for (a failed write may change history, by a rebase killed at its time limit, and owes none) |
| `DiffPane` | requests, answers, partial application | `requests` in flight with tokens, for a commit's whole diff, one of its files or a change in the working tree, and the debounce timer with the commit it will ask for; `patches`: a version per file and side; `jobs`: partial applications with the fingerprint the user saw and the one found |
| `PatchSynthesis` | `domain/patch.py`: `synthesize_patch` and its helpers | operators only |
| `PartialStaging` | `stage_partial` and `unstage_partial` over one file | HEAD, index, working tree; `StagePartial`, `UnstagePartial` with any choice of lines; libgit2's diff and apply as external operators |
| `Sequencer` | the engine's history operations over a repository | operators: each operation is a function of the repository (commits, branches, sequencer, conflicts) that returns the set of its possible results, reports included. `Git...` operators are the git commands, external |
| `History` | the window over that engine | `repo`; `win`: queue, what was last read, locks, conflict panel; `stack`: open dialogs, which carry what they were opened about; the pull on the network. `UserActs` (menus, buttons, editor), `DialogCloses`, `FinishPull`, `DetailReady`, `JobEnds` (the engine's result), `OnDone` (the slots) |
| `WorkTree` | the files under the engine's writes | for each path what HEAD's commit, the index and the working tree hold, the other side of a conflict, the stash; one action per engine operation, the editor between them, a fast-forward may die half way |
| `Transfer` | `RemoteWorker`, `CloneWorker` and the process runner under them | `worker` with its place in `run()`, `_cancelled`, `_aborted`, `_proc`, the thread that kills, git and a child that strays; `raised` and `littered` remember that a kill or a removal has failed; `dest`: the clone's directory. Actions of the UI thread, worker, killer, git and the user in the directory |
| `GraphLanes` | `LaneAllocator` fed by `append_commits` | lanes, colours, rows drawn; `Push` of a commit with any parents |
| `WriteQueueProofs`, `RemoteSlotProofs`, `SessionProofs`, `StagingProofs`, `TransferProofs`, `WorkTreeProofs`, `HistoryProofs`, `GraphLanesProofs` | — | the theorems about the module they are named for, in `StagingProofs` about `DiffPane` and `PartialStaging`; the first part of `HistoryProofs` is the lemmas about what each operation of `Sequencer` may do to a repository |

`MC*` modules give constants their values. A definition named `D_Variant` is a
plausible wrong version of `D`, kept to show that a property can fail.

Composition is by promise: `WriteQueue` implements `SerialExecutor` (checked and
proved), and `Session`, `DiffPane`, `History` and `WorkTree` use queues that
behave so. `History` composes the window with `Sequencer` over one repository,
in which files are no more than a conflict, "staged" and "dirty"; `WorkTree`
looks at the same engine operations for what they do to contents, with history
reduced to trees. `DiffPane` has the application of a patch as one step, which
`PartialStaging` opens up; `RemoteSlot` has a worker's run as a few stages, which
`Transfer` opens up. The fingerprint of a patch is the content it digests: two patches
have one fingerprint if and only if they agree in path and version.

## 3. Runs

Passing:

| Run | Shows | Bounds |
|---|---|---|
| `write_queue` | four jobs, any nesting of dialogs: `idle()` neither lost (`IdleNotLost`) nor early (`IdleIsQuiet`), a refinement of `SerialExecutor` (one writer, in order, completions of the active job), every job reported | `MaxJobs = 4`: an emission, a job submitted in its slot, one that completes there in a nested `_on_done`, and one left waiting. The proofs lift the bound |
| `remote_slot` | one transfer at a time, each held by a slot and of the current repository, nothing the user gave up goes on or comes back, the login repeats the failed operation once, enabled actions mean a free slot, the slot is freed | two repositories, three workers, two of them prefetches at most: a prefetch, the operation that promotes or replaces it, a retry or a successor. 850,188 states |
| `session` | the reload flag is owed by someone, is redeemed in the end, and when all is quiet the list shows what the jobs that succeeded, and the merges, have made of the current repository's history (`FreshWhenQuiet`; a job that fails after it has changed history sets no flag) | two repositories, two jobs, three queues: leave and return with work outstanding. 156,000 states; the proofs lift the bound for the safety part |
| `diff_pane` | when all has settled, the change that the staging buttons act on is the one on the screen (`SourceIsShown`); a late diff never covers a newer one (`NeverOlder`); the last wish is shown, a file chosen while the debounce timer ran excepted, which the whole diff of its commit may cover (`LastAskedIsShown`); after an application the coordinates are fresh (`FreshAfterApply`) | two repositories, one commit, one file with both sides, three requests, one edit, one application. 2.7 million states |
| `partial_staging` | every choice of lines in every file up to five lines, in every index that earlier choices lead to: accepted choices apply with their numbers and move exactly the chosen lines; everything at once is never refused and reaches the other side, entry included; taking back restores; choices that would turn the order are refused | five lines with one line of context: two hunks, blocks with several deletions and additions, new, deleted and emptied files, missing final newlines on either side. The program's three lines of context only move where hunks begin. The proofs lift both bounds |
| `history` | rebases, plans, picks, reverts, merges, pulls, commits, resets, branches and their dialogs in every order the window lets through: a rebase loses no commit (`NothingLost`), a skip drops the commit that was named (`SkippedAsAsked`), only the concluding commit moves HEAD under a merge and it joins the two sides (`MergeCommitJoins`), a pull changes its own branch only (`PullIntoItsOwn`), and when all is reported the window shows what is so (`ViewIsTrue`) | two branches diverged from one commit, one diverged from its upstream and one behind it, opened quiet, mid-rebase, mid-merge or in a state the application does not handle; three jobs: one that stops, one confirmed against what it left, one queued behind. 2.7 million states, two minutes. The proofs lift the bound |
| `work_tree` | every operation on the files after every other, with edits between: written work is lost only to operations whose name says so, on that file (`WorkKept`), so is staged work (`StagedKept`), a stash goes only when all it holds of the user's is back in the file, in HEAD or in a conflict, contents staged and then written over excepted (`StashKept`), an abort restores (`AbortRestores`), and no path differs from HEAD that the user has not changed (`OnlyOwnChanges`) | two paths, one of them untracked at first; a fast-forward and a diverged branch that change both; three edits, one of them back to an earlier text, five writes, one stash: a merge that conflicts, its resolution, an abort or commit, and an operation before or after it. 643,894 states. The proofs lift the bound |
| `transfer` | a cancellation at any point, git that hangs, ends, is killed or leaves a child with the pipes, kills that raise before they reach git, removals that leave something: a cancellation reaches git unless the thread it started fails (`CancelReaches`), git outlives its worker only when the worker's own kill has raised (`NoOrphan`), traffic is recorded but for that case (`TrafficRecorded`), a clone's remains stay only after such a failure (`NoLeftover`), its cleaning spares complete clones and the user's files (`CleaningSpares`), every worker comes to its last signal unless `communicate` has a child that keeps the pipes (`EveryWorkerRetires`) | one fetch, a clone, or a clone and its successor in the same place (`MCOrders`: a fetch does not look at the destination, and one operation is what the slot admits until it lets go), over a destination that is absent or the user's, who saves one file into it; an empty one is what a removal that failed on the folder itself leaves to the second clone. 773,679 states, three minutes with liveness. The proofs lift the bound for the safety part |
| `graph_lanes` | the lines, followed row by row through the lanes, lead from each commit to its parents and nowhere else (`TellsHistory`), keep their colour (`ColourKept`) and fit the row (`RoomForAll`) | all histories of five commits with up to three parents each, parents above their children included, three colours. 369,876 states. A lane is opened, joined by another child, freed and used again within five rows. The proofs lift the bound |

Every module states its `TypeOK`. It was checked in these runs while the modules
were written and is left out of the runs' lists where a deeper property earns
the time; for nine modules it is proved.

Violated, as the code does otherwise than it says (`findings` in `PROJECT.json`
quotes the sentences):

| Run | Property | What happens |
|---|---|---|
| `two_writers` | `OneWriterPerRepo` | leave a repository during a write and come back: it has two queues |
| `resolved` | `ResolvedAsSeen` | while a skip runs the conflict panel stays alive; a side chosen for the conflict on the screen is applied to the next commit's conflict in the same file |
| `abort_merge` | `AbortKeepsUnrelated` | stage a file the merge did not touch while it is stopped: the abort takes it for the merge's and restores it |

### Divergences stated without a run

These properties are stated in the modules, each with the sentence of the code
it is taken from, and TLC finds each violated when it is added to its module's
configuration. They have no run of their own:

| Property | What happens |
|---|---|
| `WriteQueue!NobodyHostage`, under `UnansweredSpec` | a failed job's error box, opened in the slot of `job_failed`, keeps the next job waiting until it is closed |
| `RemoteSlot!PromotedIsRun` | a fetch promotes a prefetch that has emitted `retired` already; the connection comes too late and the fetch never starts |
| `RemoteSlot!MaintenanceHeld` | the window lets go of a worker on `finished`, so its maintenance cannot be cancelled |
| `Session!FreshAfterFailure` | a rebase killed by its time limit, or an emptied commit kept before `--continue` fails, has changed history; the job is reported as failed, sets no flag, and the list stays as it was |
| `DiffPane!FileStaysShown` | a file of a commit is chosen while the debounce timer for the commit runs: the timer is not stopped, and the whole diff covers that of the file |
| `DiffPane!PaneIsOfRepo` | an answer in the event queue survives the change of repository, because the token does not change |
| `PartialStaging!TurnedIsRefused` | a missing final newline puts a marker between deletions and additions; the ambiguity check looks at the wrong keys |
| `PartialStaging!LinesStayApart` | an unchosen last line without newline becomes context before a chosen addition, and the two become one line |
| `History!ReplacedAsConfirmed` | a pull ends while the confirmation of an amend is open; the commit replaced is not the one it named |
| `WorkTree!StashKeepsStaged` | stage a file, write it again, stash and pop: what had been staged is in the stash's index alone, which the pop does not ask for |
| `Transfer!KillIsCertain` | `taskkill` does not end in time: the exception leaves `_kill_process_tree` before `proc.kill()`, and git goes on after its worker |
| `Transfer!AllTrafficRecorded` | the same exception is none that `_run_measured` gives its figures to: git has run and nothing is recorded |
| `Transfer!NothingStays` | the removal of a partial clone swallows its errors; what it could not remove stays and nobody is told |
| `Transfer!NoWorkerStuck` | an abort comes between `Popen` and the registration, a child of git has detached itself: `proc.communicate()` after the kill has no time limit |
| `Transfer!CleansOwn` | a second clone goes into the directory that the cancelled one, let go of by the window, is about to clean |

A checkout, a fast-forward and a merge lose a staged change when the file itself
has been put back to what one of the two commits has: libgit2 looks at the file
alone (`checkout_branch`, `infrastructure/local_engine.py:1431`, speaks of the
changes libgit2 protects). `StagedKept` says so in its list of exceptions.

Read in the code and not stated as a property: `continue_operation` takes a stop
for a rescheduled pick like any other; commits skipped as already applied are
not reported when the rebase then stops; creating a branch with checkout and
deleting the branch that is being rebased do not ask for the sequencer's state;
`retired` is emitted before a clone has cleaned up.

A few definitions decide earlier than the code, or allow a little more; no
property depends on it. `History!StartsReset` takes the branch with the question,
the code after the dialogs; `History!ChecksOut` looks at the queue when the command
is given, the code when the menu opens; `History!Resolves` holds the panel for a
resolution by lines too. `Sequencer!CreateBranch` is refused as a whole when its
checkout is; the code leaves the branch behind.
`GraphLanes!ColourKept` leaves out the rows drawn for a commit whose first parent
is above it, and so the lines that only pass by in them.

`CHECK_DEADLOCK FALSE` is set where the system may stop: once the bounded supply
of jobs, workers, requests, choices or commits is used up and all is answered,
nothing has to happen. `history` and `resolved`, whose user can always edit, check it.

### Fairness

- *Pool threads* (weak): the pool runs what it is given; a job ends. In
  `Transfer` the worker's own steps are fair and nothing else: git may hang, the
  thread that kills for a cancellation may fail or not get to it, a stray child may
  hold the pipes for ever. The worker's step out of a hanging git is the watchdog's, which has a
  deadline in every phase (`infrastructure/remote_engine.py`).
- *The event loop* (weak, per kind of slot): queued signals are delivered while
  a loop runs, the nested loop of a dialog included.
- *Dialogs* (weak): the user answers a modal dialog sooner or later.
  `UnansweredSpec` in `WriteQueue` drops this one assumption: that is what
  `NobodyHostage` is about.
- Nobody has to submit, open, choose or cancel: the user's other actions and the
  timers have no fairness.

`EveryJobReported`, `SlotFreed`, `FlagRedeemed` and `EveryWorkerRetires` are
stated under it. `SlotFreed` is about workers of the user's own; a promoted
prefetch in the slot is what `PromotedIsRun` is refuted by.

## 4. Proofs

Nine modules are proved about, each for every value of its constants and from the
assumptions its module names (the last repository is one of the repositories, bounds
are numbers, and the like; those of `PartialStaging`, `WorkTree`, `History` and
`GraphLanes` are spelt out below). The checked invariants are seldom inductive as they
stand; `IInv` is, was checked by TLC first, and the theorems follow from it.

**`WriteQueueProofs`** (`JobsAssumption`): `LedgerKept` (`IInv`), `TypeCorrect`,
`Serialised` (`OneWriter`), `GuardIsDefensive` (`CompletionIsActive`),
`NeverStalls` (`NoStall`), `RefreshNotLost` (`IdleNotLost`), `IdleNeverRaces`
(`IdleIsQuiet`, an action property), `Implements` (`ImplementsSerial`, the
refinement of `SerialExecutor`). That one job runs at most says nothing of the
job that `_start_next_if_idle` pops next, which might be running already for all
that invariant knows. `IInv` adds the *ledger*: ids grow by one, `_pending` holds
exactly the youngest ids in order, and so the phase of every job follows from
its id. It is stated of given values because `submit` has it hold halfway,
between the append and the start of the next job (`StartKeepsLedger`). `NoStall`
and `IdleNotLost` relate the queue to the frames on `stack`; `StackFacts` shows
that popping an `idle` frame loses no `emit` frame. The refinement maps phases
to the four sets of `SerialExecutor`; `EarlierAreHandled` gets from the ledger
that all older jobs are handled, which the order needs.

**`RemoteSlotProofs`** (`RemoteAssumption`): `SlotInvariant` (`IInv`),
`TypeCorrect`, `OneAtATime` (`OneTransfer`), `TransfersAreHeld`
(`TransfersHeld`), `StoppedForGood` (`StoppedStaysStopped`), `RetriesAreOwn`
(`RetryIsOwn`), `EnabledWhenFree` (`EnabledMeansFree`). What the slots hold
depends on signals that are still queued, so `IInv` speaks of them: `SlotsHold`
says which worker may be in which stage outside a slot, `events \in
Seq(Emitted)` that a queued signal is true of its worker, `WaitingWaits` that
what waits for a promoted prefetch has not begun, `RetriesLeft` and
`LoginIsOwed` that a request which may be repeated has been made once and that a
login dialog keeps the slot free; and no request given up is served.
`StartRemoteKeeps` is the common part of the three steps that start a transfer
(`UserStarts`, `UserLogsIn`, `OnRelay`), `QuieterFacts` that of the steps that
start none.

**`SessionProofs`** (`SessionAssumption`): `SessionInvariant` (`IInv`), `TypeCorrect`,
`ReloadIsOwed` (`FlagIsOwed`), `QuietIsFresh` (`FreshWhenQuiet`), `QueuesStaySerial`,
`OneWriterUnlessReopened`. That the list is current when all is quiet comes from what
holds when it is not: `FreshOrOwed`, a list behind what is `owed` is owed a reload by
the flag, by a success that is announced and not yet reported, or by a loader that has
not read yet. Jobs that fail may change history too, and only a merge among them owes
a reload; so "current" is a version from `owed` on (`OwedIsPast`: never ahead of the
history), and which failed writes the list has missed is left open, as in the code.
It needs two more parts: `MergesFlagged` (a merge changes history even when it
fails, and sets the flag when it is submitted) and `OneQueue` (no job of an abandoned
queue writes to the repository on the screen — unless it has been reopened meanwhile,
which the history variable `split` records and `two_writers` is about). `LeastIsThere`
gives a queue its next job, by the well-foundedness of finite sets; `OpenKeeps` and
`AfterSlotsKeeps` are the two pieces that several steps share. The last two theorems
have an invariant of their own, `SerialInv`. Of each queue what is begun has only done
jobs before it, as `SerialExecutor` promises (there in single steps, of which one step
of the window may be two); and as long as `split` is false one queue at most has jobs
left for a repository. So the behaviour `two_writers` finds, leaving a repository
under a write and coming back, is the only way to two writers.

**`StagingProofs`, the pane** (`DiffPaneAssumption`): `PaneInvariant` (`IInv`),
`TypeCorrect`, `ButtonsActOnWhatIsShown` (`SourceIsShown`), `LastWishWins`
(`LastAskedIsShown`), `NoStaleCoordinates` (`FreshAfterApply`), `LateNeverCovers`
(`NeverOlder`, an action property). A late answer is recognised by its token
alone, so `IInv` says what a token is worth: `TokensAreFresh` (a token names one
answer, and none is awaited that the pane has got), `WishIsKept` (the user's wish
is what the debounce timer holds, or what is shown or awaited, or a file whose
commit is), `SourceIsNamed`
(`_diff_source` names the change that is shown or awaited), `OldIsReplaced` (a
pane with an older token is about to be replaced), `JobsAreOld` and `NothingStale`
(what is shown or awaited was read after the applications reported).

**`StagingProofs`, the engine** (`PartialStagingAssumption`: hunks have at least one
line of context; the program asks for three, and with none TLC finds that the
properties fail): `StagingInvariant` (`StagingIInv`), `StagingTypeCorrect`,
`StagingAppliesAsChosen` (`AppliesAsChosen`), `StagingWholeIsReached`
(`WholeIsReached`), `StagingUndoneByMirror` (`UndoneByMirror`),
`StagingOrderNeverTurned` (`OrderNeverTurned`), for files of any length, changed in
any way, every choice of lines and any number of choices before it. The invariant is
about the index: it has the lines that are on both sides (`OnBothSides`), so that a
diff never puts an addition right before a deletion; and whether the file has an entry
follows from its lines, unless HEAD and the working tree both have the file, without
which a choice and its mirror image would not come back to the same index. As in the
model, the properties speak of an index in which no two lines have become one.

Hunk numbers, counts, offsets and keys are all measured against the positions of one
diff. A version is a set of positions, a choice another, and the index afterwards is
their symmetric difference (`Changed`). `Picked` takes the elements at some positions
in order; `PickedAlike` and `PickedInTwo`, which carry the argument, come from
counting ranks, without induction over sequences. The body of a hunk, read on either
side, is then a stretch of a version (`BodyIsRead`), the number in its header a rank
(`Describes`), and the sum of the offsets before it a difference of two ranks
(`Offsets`), so each hunk finds its lines where the ones before it have left them
(`HunksApply`), and `PatchApplies` follows for the whole patch. The two recursive
functions, the offsets and the application of one hunk after the other, exist because
there is no least number for which they would not. That everything at once is never
refused needs the keys: `_reject_ambiguous_selection` counts them from the start of a
block, so the deletions of a block must stand together at its beginning
(`DeletionsOfBlock`), markers notwithstanding: only the last line of a side may lack
its newline (`OnlyTheLastMayLack`).

**`TransferProofs`** (`TransferAssumption`): `TransferInvariant` (`IInv`),
`TypeCorrect`, `CancellationReachesGit` (`CancelReaches`), `NothingOutlives`
(`NoOrphan`), `TrafficIsRecorded` (`TrafficRecorded`), `NothingIsLeft`
(`NoLeftover`), `CleaningIsSparing` (`CleaningSpares`, an action property). Most
of `IInv` is `Sound`, which judges one worker's record: git runs on only while it is
waited for or about to be, a cancellation has met the process, will meet it at the next
step or has sent a killer, which may have failed, and what the traffic was is known
where it is recorded. A kill by the worker itself that raises is the one way out of all
this, and the record remembers it (`raised`); each theorem names it where it has to. The lemma
`RecordDecides` lets a step be judged by the one record it writes. About the
destination: one clone at most is inside (`OneCloneInside`), the user's place is
nobody's to clean (`UsersPlaceIsLeft`), a clone that is done is complete
(`DoneIsComplete`).

**`WorkTreeProofs`** (`WorkTreeAssumption`: a commit's parents are older than it, no
commit holds a conflict, and what the user writes is none of the marks that stand
for an absent, conflicting or composed file):
`WorkTreeInvariant` (`IInv`), `TypeCorrect`, `ChangesAreOwn` (`OnlyOwnChanges`),
`WorkIsKept` (`WorkKept`), `StagedIsKept` (`StagedKept`), `StashIsKept`
(`StashKept`), `AbortGivesBack` (`AbortRestores`); the last four are action
properties. `OnlyOwnChanges` says nothing of a merge under way, whose commit ends
outside one; `Ours` adds that unstaged changes are the user's at any time, conflicts
apart, and that so is what a stash will bring back. `StashIsKept` follows from how
libgit2's apply, external here, takes an entry back, and does not speak of contents
staged and then written over, which it drops. `MergeIsPlain` is for the
abort: while nothing but conflicts has been resolved, what each file was like
before the merge follows from how its entry compares to HEAD now. Every engine
operation has a lemma for what it does to one path, and the theorems follow by
cases over the operations.

**`HistoryProofs`, the operations of `Sequencer`**: lemmas alone; for every operation
of the engine they show what the repository may become (`Outcome`). Commits are only
added (`Grown`), no reference and no list dangles (`WellFormed`), HEAD leaves its
branch for a rebase and comes back to that branch alone (`Goes`), and a command that
is reported as failed, killed ones included, has neither ended an operation nor moved
HEAD to another branch (`Unturned`) — the window does not look again after one. The
replay of n commits, `GitPicks`, is built as a sequence of n copies at once, so it
needs no induction. `Ordered`, which numbers a finite set in order, is shown to be a
sequence of its elements by counting: the number of smaller elements maps the set
one-to-one into 0..n-1 and so onto it (`RanksDiffer`, `OrderedHasAll`). The second
half is about what the commits bring. `AncestorsOf` is a recursive function, and that
it computes what it is meant to is proved without induction over data: `Below`, what
is in every set closed under parents, solves its equation, and two solutions agree
because commits are numbers and there is no least one at which they differ
(`LeastNumber`). From that follows, for every way an operation replays commits, that
the changes of HEAD's ancestors together with those on the list or in hand are still
there afterwards (`Brings`), unless the user leaves one out himself.

**`HistoryProofs`, the window** (`SequencerAssumption`, `HistoryAssumption`: the
histories the window is opened on are sound, in the middle of a rebase HEAD is
detached, and the branch the user makes is neither a tracked one nor one he merges or
checks out): `HistoryInvariant` (`IInv`), `TypeCorrect`, `ViewTellsTheTruth`
(`ViewIsTrue`), `MergeIsConcluded` (`MergeCommitJoins`), `PullStaysAtHome`
(`PullIntoItsOwn`), `SkipIsAsAsked` (`SkippedAsAsked`), `NoCommitIsLost`
(`NothingLost`). Jobs run later than they were asked for, so `IInv` says what each
needs of the repository it will meet (`JobsFit`): its commits are there; a checkout,
which alone changes branches, was the only thing in the queue and finds the repository
as the window showed it. A pull may be submitted under another branch than the one it
fetched for (`Astray`); then HEAD is away from the former and no job but a checkout
leads back (`Away`), so `_require_expected_branch` refuses it. What is shown is true,
or somebody is about to look: an emission that is held up by a dialog (`Told`); the
branch is HEAD's, or the flag, a result on its way or a dialog's emission will have it
read again (`Followed`). `Ran` is what `Outcome` means to the window; `Turns` what a
slot does to the queue; steps that open, close and answer dialogs share `WindowKeeps`.

The last two theorems have invariants of their own beside `IInv`. `HandInv`
(`HandInvariant`) follows the lock of the banner through every dialog: one job at
most that moves the replay on, or one dialog that may lead to one, is on its way,
the buttons are locked meanwhile, what it was asked about is the commit in hand,
and no other job touches that. So a skip leaves out what the user was shown.
`OwedInv` (`OwedInvariant`): while a rebase is under way, every change owed to the
user is in HEAD's history, on the list or in hand (`Due`), and nothing is owed
otherwise. TLC had checked both on the instance of `MCHistory` before they were
proved.

**`GraphLanesProofs`** (`GraphLanesAssumption`: there is a colour):
`GraphInvariant` (`IInv`), `TypeCorrect`, `HistoryIsTold` (`TellsHistory`),
`LinesKeepColour` (`ColourKept`), `NothingIsClipped` (`RoomForAll`), for histories
of any length and merges of any number of parents. The properties speak of the rows
drawn, the allocator of its lanes; `IInv` ties the two: no lane waits for a commit
that has been drawn (`WaitAhead`), what a lane waits for is the end of a line that
was drawn into it and has not ended (`WaitsAreDrawn`), and such a line has its
lane's colour (`ColourGoesOn`). The loop over the parents is a recursive function,
which exists because there is no least number of parents for which it would not
(`AssignmentsExist`). What it keeps from one parent to the next (`FirstAssigned`,
`OtherAssigned`) is that lanes waiting for other commits are left alone (`Apart`), that
the lanes given out wait for the parents so far (`Reaches`), and that a lane which
ends here keeps its colour until it has been taken over (`ColoursStay`, `AllTaken`).
`Draws` sums up what `push` does to lanes and edges, and `EndStays` shows that a row
below does not move the end of a line above.

Only model-checked: all liveness, and so the fairness it rests on.

Out of the prover's reach are liveness under fairness, `ENABLED`, and induction
over data: what a fold or an operator over sequences computes for every input. A
recursive function over numbers is the exception, as `AncestorsOf`,
`AssignParents` and the offsets of `Numbered` show.

## 5. Not modelled, and why

- `closeEvent` and the shutdown of the pool: the process ends.
- Progress texts and the progress bar: presentation. The bar's owner across a
  promotion is a listed hazard.
- The idle repack and the file system watch, but as causes of a reload: timers
  and flags; what can be lost there is listed as a hazard.
- A repository that cannot be opened, bare repositories (they have no writes).
- Squash, fixup and reordered plans of a rebase, and plans over merge commits:
  one copy of one commit is what the properties tell apart. A rebase that is
  killed by its time limit reports no commit as already applied.
- The text of a conflict's two sides (`domain/conflict_text.py`) and the dialog
  that composes a result from lines: `Composed` stands for what it makes.
- File modes, renames, submodules, links and ignored files; binary and renamed
  files in partial staging are refused before anything else. A stash made during
  a merge: what libgit2 leaves of the conflict then is not known.
- A clone's cleaning up is one step from its check to its removal, and there is
  one destination.
- Colours at a merge whose first parent is drawn above it: its other parent
  takes the lane with a new colour, so `ColourKept` leaves it out.
- The parsing of progress lines and the lengths of time limits.
- libgit2, git, Qt and the file system: external, modelled from how the code
  uses them (a safe checkout is refused as a whole, a diff has context, an
  application follows the numbers of the hunks, signals are queued or direct).
- Loaders of refs, status, conflicts and path history: the same identity guard as
  the commit loader's, which `Session` models.
- Dialogs, delegates, themes, translation, records, error texts, the command log,
  statistics: no control worth a model.

## 6. Plan

What is left, in order of what can go wrong unseen:

1. `Watch` and `IdleRepack` — own writes, suppression, settling, a repack that
   yields to the user; joins `Session`.
2. Extensions: the progress bar's owner and late retirements in `RemoteSlot`; a
   repository that cannot be opened in `Session`.
3. `Sequencer` with plans that squash and reorder; `ConflictText` as operators
   with a reference.
4. Proofs: of `History`'s and `WorkTree`'s divergences, that there is no other way to
   them, as `OneWriterUnlessReopened` has it for `Session`'s.

Bounds stay at the smallest instance with one actor more than the hazard needs;
runs stay below five minutes on two cores.
