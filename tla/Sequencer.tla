------------------------------ MODULE Sequencer -------------------------------
(***************************************************************************)
(* A repository as the history operations see it, and what each of them     *)
(* makes of it (infrastructure/local_engine.py): merge, fast-forward,       *)
(* rebase, cherry-pick, revert, the ways on from a stop (continue, skip,    *)
(* keep empty, abort), reset, commit, branches, and the resolution of       *)
(* conflicts.                                                               *)
(*                                                                         *)
(* An operation is a function of the repository that returns the set of     *)
(* its possible results: the repository it leaves, what it reports, and     *)
(* the commits it reports as already applied.  What the git command does    *)
(* (Git... below) is external, modelled from how the engine uses it.        *)
(*                                                                         *)
(* A commit is a number, greater than its parents'.  `of` says whose        *)
(* changes it holds: its own, or those of the commits it was copied from.   *)
(* The files are reduced to the conflicting paths, whether the index        *)
(* differs from HEAD (`staged`) and whether the working tree differs from   *)
(* the index (`dirty`).                                                     *)
(***************************************************************************)
EXTENDS Integers, FiniteSets, SequencesExt

CONSTANTS
  Paths,    \* the files that conflict
  Past,     \* the commits there are: a sequence of [parents, of]
  Tips,     \* the commit of each branch, 0 where there is no such branch
  Upstream  \* the commit of each tracked branch's remote-tracking branch

(* A definition named D_Variant is a wrong version of D, to try the         *)
(* properties on; nothing uses it.                                          *)

Branches == DOMAIN Tips
Detached == "detached"
Nobody == 0

Commits == [parents : Seq(Nat), of : SUBSET Nat]

(* A sequence of commits, each after its parents.                           *)
IsHistory(commits) ==
  /\ commits \in Seq(Commits)
  /\ \A c \in DOMAIN commits : Range(commits[c].parents) \subseteq 1..(c - 1)

ASSUME SequencerAssumption ==
  /\ IsHistory(Past)
  /\ Tips \in [Branches -> 0..Len(Past)]
  /\ Detached \notin Branches
  /\ DOMAIN Upstream \subseteq Branches
  /\ \A b \in DOMAIN Upstream : Upstream[b] \in DOMAIN Past

(* What `_SEQUENCER_COMMAND` knows; "other" is a bisect or a mailbox.       *)
Sequencers == {"rebase", "cherry_pick", "revert"}
Operations == Sequencers \cup {"none", "merge", "other"}

(* The repository on branch b, with nothing under way.                      *)
RepoOn(b) ==
  [head |-> b, at |-> Tips[b], tip |-> Tips, commits |-> Past, op |-> "none",
   theirs |-> Nobody, orig |-> Detached, from |-> Nobody, todo |-> <<>>, inHand |-> FALSE,
   conflicts |-> {}, staged |-> FALSE, dirty |-> FALSE]

(* A repository git can be in: no reference and no list dangles, HEAD's     *)
(* commit is its branch's, and what is recorded of an operation is there    *)
(* when it is under way.                                                    *)
WellFormed(r) ==
  /\ DOMAIN r = {"head", "at", "tip", "commits", "op", "theirs", "orig", "from", "todo",
                 "inHand", "conflicts", "staged", "dirty"}
  /\ IsHistory(r.commits)
  /\ r.at \in DOMAIN r.commits
  /\ r.tip \in [Branches -> {Nobody} \cup DOMAIN r.commits]
  /\ r.head \in Branches \cup {Detached}
  /\ r.head # Detached => r.tip[r.head] = r.at
  /\ r.op \in Operations
  /\ r.op = "rebase" => r.orig \in Branches /\ r.from \in DOMAIN r.commits
  /\ r.theirs \in {Nobody} \cup DOMAIN r.commits
  /\ r.op = "merge" <=> r.theirs # Nobody
  /\ r.todo \in Seq(DOMAIN r.commits)
  /\ r.inHand => r.op \in Sequencers /\ r.todo # <<>>
  /\ r.conflicts \subseteq Paths
  /\ r.inHand \in BOOLEAN /\ r.staged \in BOOLEAN /\ r.dirty \in BOOLEAN

-------------------------------------------------------------------------------
(* Commits.                                                                 *)
AncestorsOf(r, c) ==
  LET anc[x \in DOMAIN r.commits] ==
        {x} \cup UNION {anc[y] : y \in Range(r.commits[x].parents)}
  IN  anc[c]

(* The changes that HEAD holds.                                             *)
Holds(r) == UNION {r.commits[c].of : c \in AncestorsOf(r, r.at)}

IsMergeCommit(r, c) == Len(r.commits[c].parents) > 1

(* The commits of a set, oldest first.                                      *)
Ordered(C) ==
  [i \in 1..Cardinality(C) |-> CHOOSE c \in C : Cardinality({d \in C : d < c}) = i - 1]

(* The commits of HEAD that are not upstream's, as `rebase_todo` lists them. *)
RebaseTodo(r, upstream) ==
  Ordered({c \in DOMAIN r.commits :
             c \in AncestorsOf(r, r.at) /\ c \notin AncestorsOf(r, upstream)})

MoveTo(r, c) ==
  [r EXCEPT !.at = c,
            !.tip = IF r.head = Detached THEN @ ELSE [@ EXCEPT ![r.head] = c]]

(* A new commit at HEAD, of the index.                                      *)
NewCommit(r, parents, of) ==
  MoveTo([r EXCEPT !.commits = Append(@, [parents |-> parents, of |-> of]),
                   !.staged = FALSE],
         Len(r.commits) + 1)

Own(r) == {Len(r.commits) + 1}

(* `state_cleanup`: nothing is under way any more.                          *)
Cleaned(r) ==
  [r EXCEPT !.op = "none", !.theirs = Nobody, !.orig = Detached, !.from = Nobody,
            !.todo = <<>>, !.inHand = FALSE]

-------------------------------------------------------------------------------
(* git: replaying commits.  An answer is the repository git leaves and what *)
(* it says: "done", "empty" (nothing to commit), "said" (anything else,     *)
(* with exit code 1), or "timeout" when it had to be killed.                *)
Answer(r, says) == [repo |-> r, says |-> says]

(* The first n commits of the list are copied, each onto the one before.    *)
GitPicks(r, n) ==
  LET last == Len(r.commits)
      copies == [i \in 1..n |-> [parents |-> <<IF i = 1 THEN r.at ELSE last + i - 1>>,
                                 of |-> r.commits[r.todo[i]].of]]
      rest == [r EXCEPT !.todo = SubSeq(@, n + 1, Len(@)), !.inHand = FALSE]
  IN  IF n = 0 THEN rest
      ELSE MoveTo([rest EXCEPT !.commits = @ \o copies, !.staged = FALSE], last + n)

(* Every commit is copied: the branch follows, unless it has been deleted.  *)
GitRebaseEnds(r) ==
  LET done == GitPicks(r, Len(r.todo))
  IN  IF r.tip[r.orig] = Nobody THEN Answer(done, "said")
      ELSE Answer(Cleaned([done EXCEPT !.head = r.orig, !.tip[r.orig] = done.at]), "done")

(* git copies commits until it ends or stops: at a commit that conflicts,   *)
(* at one that leaves nothing to commit, at one that would overwrite an     *)
(* untracked file (which stays in the list), or because it is killed.       *)
GitStops(r, n, C, s) ==
  [GitPicks(r, n) EXCEPT !.inHand = TRUE, !.conflicts = C, !.staged = s]

GitReplays(r) ==
  LET before == 0..(Len(r.todo) - 1)
  IN  {GitRebaseEnds(r)}
      \cup {Answer(GitStops(r, n, C, s), "said") :
              n \in before, C \in (SUBSET Paths) \ {{}}, s \in BOOLEAN}
      \cup {Answer(GitStops(r, n, {}, FALSE), "empty") : n \in before}
      \cup {Answer(GitPicks(r, n), says) : n \in before, says \in {"said", "timeout"}}

(* `git rebase`, of the commits todo, onto a commit; refused over changes,  *)
(* and over an untracked file in the way.                                   *)
GitRebase(r, onto, todo) ==
  {Answer(r, "said")} \cup
  IF r.dirty \/ r.staged THEN {}
  ELSE GitReplays([r EXCEPT !.op = "rebase", !.orig = r.head, !.from = r.at,
                            !.head = Detached, !.at = onto, !.todo = todo])

(* `git cherry-pick` and `git revert` of one commit.                        *)
GitHolds(r, op, c, C, s) ==
  [r EXCEPT !.op = op, !.todo = <<c>>, !.inHand = TRUE, !.conflicts = C, !.staged = s]

GitPickOne(r, op, c) ==
  LET of == IF op = "revert" THEN Own(r) ELSE r.commits[c].of
  IN  IF r.staged \/ IsMergeCommit(r, c) THEN {Answer(r, "said")}
      ELSE {Answer(NewCommit(r, <<r.at>>, of), "done"),
            Answer(GitHolds(r, op, c, {}, FALSE), "empty"),
            Answer(r, "said"), Answer(r, "timeout")}
           \cup {Answer(GitHolds(r, op, c, C, s), "said") : C \in (SUBSET Paths) \ {{}}, s \in BOOLEAN}

(* `--continue`, once no conflict is left.  A rebase refuses over unstaged  *)
(* changes; it drops the commit in hand, without a word, when the index     *)
(* equals HEAD.                                                             *)
GitContinue(r) ==
  LET of == IF r.op = "revert" THEN Own(r)
            ELSE IF r.inHand THEN r.commits[Head(r.todo)].of ELSE {}
      rest == IF r.inHand THEN [r EXCEPT !.todo = Tail(@), !.inHand = FALSE] ELSE r
  IN  CASE r.op = "rebase" /\ r.dirty -> {Answer(r, "said")}
        [] r.op = "rebase" /\ ~r.dirty ->
             GitReplays(IF r.staged THEN NewCommit(rest, <<r.at>>, of) ELSE rest)
        [] OTHER ->
             IF r.staged THEN {Answer(Cleaned(NewCommit(r, <<r.at>>, of)), "done")}
             ELSE {Answer(r, "empty")}

(* `--skip`: a rebase resets everything, the others keep what is unrelated. *)
GitSkip(r) ==
  LET reset == [r EXCEPT !.conflicts = {}, !.staged = FALSE]
  IN  IF r.op # "rebase" THEN {Answer(Cleaned(reset), "done")}
      ELSE GitReplays([reset EXCEPT !.dirty = FALSE, !.inHand = FALSE,
                                    !.todo = IF r.inHand THEN Tail(@) ELSE @])

(* `--abort`, which also brings back a branch deleted meanwhile.            *)
GitAbort(r) ==
  LET reset == [r EXCEPT !.conflicts = {}, !.staged = FALSE]
  IN  IF r.op # "rebase" THEN Cleaned(reset)
      ELSE Cleaned([reset EXCEPT !.dirty = FALSE, !.head = r.orig, !.at = r.from,
                                 !.tip[r.orig] = r.from])

-------------------------------------------------------------------------------
(* The engine.  A result is the repository, what the caller is told, the    *)
(* commits git has left out as already applied, and those it is told of.    *)
Result(r, kind) == [repo |-> r, kind |-> kind, already |-> {}, left |-> {}]
Refused(r) == {Result(r, "error")}
Kinds == {"ok", "conflicted", "empty", "error"}

QuietRepository(r) == r.op = "none"

(* A detached HEAD is never the expected one: the window calls it "HEAD",   *)
(* the engine has no name for it.                                           *)
ExpectedBranch(r, branch) == r.head = branch /\ r.head # Detached

(* `_sequencer`: a git command is judged by the state it leaves.            *)
Judged(a) ==
  LET active == a.repo.op # "none"
  IN  CASE a.says = "timeout"                                             -> "error"
        [] active /\ a.says = "empty" /\ a.repo.conflicts = {}            -> "empty"
        [] active /\ a.says = "said"                                      -> "conflicted"
        [] ~active /\ a.says = "said"                                     -> "error"
        [] OTHER                                                          -> "ok"

Sequenced(answers) == {Result(a.repo, Judged(a)) : a \in answers}

(* `rebase`: git leaves out the merge commits, and those whose change       *)
(* upstream has already, which it names.                                    *)
Rebase(r, upstream, branch) ==
  IF ~QuietRepository(r) \/ ~ExpectedBranch(r, branch) THEN Refused(r)
  ELSE LET range == Range(RebaseTodo(r, upstream))
           single == {c \in range : ~IsMergeCommit(r, c)}
           upToDate == upstream \in AncestorsOf(r, r.at) /\ range = single
           told(A, a) == [Result(a.repo, Judged(a)) EXCEPT
                            !.left = A,
                            !.already = IF a.says = "timeout" \/ a.repo = r THEN {} ELSE A]
       IN  IF upToDate THEN {Result(r, "ok")}
           ELSE UNION {{told(A, a) : a \in GitRebase(r, upstream, Ordered(single \ A))} :
                         A \in {X \in SUBSET single : Cardinality(X) <= 1}}

(* `rebase_interactive`: the plan replaces git's own list.                  *)
RebaseInteractive(r, upstream, plan, branch) ==
  IF ~QuietRepository(r) \/ ~ExpectedBranch(r, branch) \/ plan = <<>> THEN Refused(r)
  ELSE Sequenced(GitRebase(r, upstream, plan))

(* `cherry_pick` and `revert`.                                              *)
PickOne(r, op, c, branch) ==
  IF ~QuietRepository(r) \/ ~ExpectedBranch(r, branch) THEN Refused(r)
  ELSE Sequenced(GitPickOne(r, op, c))

Continue_Unchecked(r) ==
  CASE r.op \notin Sequencers \/ r.conflicts # {} -> Refused(r)
    [] OTHER -> Sequenced(GitContinue(r))

(* `continue_operation`: git is not asked while conflicts are left, nor     *)
(* when the commit would vanish.                                            *)
Continue(r) ==
  CASE r.op \notin Sequencers \/ r.conflicts # {} -> Refused(r)
    [] r.op \in Sequencers /\ r.conflicts = {} /\ ~r.staged -> {Result(r, "empty")}
    [] OTHER -> Sequenced(GitContinue(r))

(* `keep_empty_operation`: an empty commit of what is in hand, and on.      *)
(* Without a message to take, the commit fails.                             *)
KeepEmpty(r) ==
  IF r.op \notin Sequencers \/ r.conflicts # {} \/ r.staged \/ ~r.inHand THEN Refused(r)
  ELSE LET of == IF r.op = "revert" THEN Own(r) ELSE r.commits[Head(r.todo)].of
           kept == NewCommit([r EXCEPT !.todo = Tail(@), !.inHand = FALSE], <<r.at>>, of)
       IN  CASE r.op # "rebase" -> {Result(Cleaned(kept), "ok")}
             [] r.op = "rebase" /\ r.dirty -> {Result(kept, "conflicted")}
             [] OTHER -> Sequenced(GitReplays(kept))

(* `skip_operation`.                                                        *)
Skip(r) ==
  IF r.op \notin Sequencers THEN Refused(r) ELSE Sequenced(GitSkip(r))

(* `abort_merge`: the files it touched and the index are HEAD's again.      *)
AbortMerge(r) == Cleaned([r EXCEPT !.conflicts = {}, !.staged = FALSE])

(* `abort_operation`.                                                       *)
Abort(r) ==
  CASE r.op = "none"        -> {Result(r, "ok")}
    [] r.op = "merge"       -> {Result(AbortMerge(r), "ok")}
    [] r.op = "other"       -> Refused(r)
    [] r.op \in Sequencers  -> {Result(GitAbort(r), "ok")}

(* `reset_to`.                                                              *)
ResetTo(r, c, kind, branch) ==
  IF ~QuietRepository(r) \/ ~ExpectedBranch(r, branch) THEN Refused(r)
  ELSE LET moved == MoveTo(r, c)
       IN  CASE kind = "soft"  -> {Result([moved EXCEPT !.staged = TRUE], "ok")}
             [] kind = "mixed" -> {Result([moved EXCEPT !.staged = FALSE, !.dirty = TRUE], "ok")}
             [] kind = "hard"  -> {Result([moved EXCEPT !.staged = FALSE, !.dirty = FALSE], "ok")}

FastForward_AnyState(r, target, branch) ==
  CASE ~ExpectedBranch(r, branch)      -> Refused(r)
    [] target \in AncestorsOf(r, r.at) -> {Result(r, "ok")}
    [] OTHER ->
         IF r.at \notin AncestorsOf(r, target) THEN Refused(r)
         ELSE {Result(MoveTo(r, target), "ok")}

(* `fast_forward`: the checkout comes first and may be refused over         *)
(* changes (Failing, in Work below); then the reference moves.              *)
FastForward(r, target, branch) ==
  CASE ~QuietRepository(r) \/ ~ExpectedBranch(r, branch) -> Refused(r)
    [] QuietRepository(r) /\ target \in AncestorsOf(r, r.at) -> {Result(r, "ok")}
    [] OTHER ->
         IF r.at \notin AncestorsOf(r, target) THEN Refused(r)
         ELSE {Result(MoveTo(r, target), "ok")}

(* `create_commit` under a merge takes MERGE_HEAD for its second parent; an *)
(* amended commit replaces the one HEAD is at.                              *)
CreateCommit(r, amend) ==
  CASE r.conflicts # {} -> Refused(r)
    [] r.conflicts = {} /\ amend ->
         IF r.theirs # Nobody THEN Refused(r)
         ELSE {Result(NewCommit(r, r.commits[r.at].parents, r.commits[r.at].of), "ok")}
    [] OTHER ->
         IF r.theirs # Nobody
         THEN {Result(Cleaned(NewCommit(r, <<r.at, r.theirs>>, Own(r))), "ok")}
         ELSE IF r.staged THEN {Result(NewCommit(r, <<r.at>>, Own(r)), "ok")}
         ELSE Refused(r)

Merging(r, source, C, s) ==
  [r EXCEPT !.op = "merge", !.theirs = source, !.conflicts = C, !.staged = s]

(* The merge itself is committed at once, or stops at its conflicts.        *)
Merged(r, source) ==
  CreateCommit(Merging(r, source, {}, TRUE), FALSE)
    \cup {Result(Merging(r, source, C, s), "conflicted") :
            C \in (SUBSET Paths) \ {{}}, s \in BOOLEAN}

Merge_AnyBranch(r, source, branch) ==
  CASE ~QuietRepository(r) -> Refused(r)
    [] QuietRepository(r) /\ source \in AncestorsOf(r, r.at) -> {Result(r, "ok")}
    [] OTHER ->
         IF r.at \in AncestorsOf(r, source) THEN FastForward(r, source, r.head)
         ELSE IF r.staged \/ r.dirty THEN Refused(r)
         ELSE CreateCommit(Merging(r, source, {}, TRUE), FALSE)

(* `merge`: up to date, a fast-forward, or a merge; if its commit fails, it *)
(* is taken back (Failing).                                                 *)
Merge(r, source, branch) ==
  CASE ~QuietRepository(r) \/ ~ExpectedBranch(r, branch) -> Refused(r)
    [] QuietRepository(r) /\ source \in AncestorsOf(r, r.at) -> {Result(r, "ok")}
    [] OTHER ->
         IF r.at \in AncestorsOf(r, source) THEN FastForward(r, source, branch)
         ELSE IF r.staged \/ r.dirty THEN Refused(r)
         ELSE Merged(r, source)

(* `create_branch` at HEAD, checked out: no sequencer is asked about.       *)
CreateBranch(r, b) ==
  IF r.tip[b] # Nobody THEN Refused(r)
  ELSE {Result([r EXCEPT !.tip[b] = r.at, !.head = b], "ok")}

(* `checkout_branch`, refused under a sequencer, and by libgit2 over        *)
(* conflicts.                                                               *)
CheckoutBranch(r, b) ==
  IF r.op \in Sequencers \/ r.conflicts # {} \/ r.tip[b] = Nobody THEN Refused(r)
  ELSE {Result([r EXCEPT !.head = b, !.at = r.tip[b]], "ok")}

(* `delete_branch`: any but the one HEAD is on.                             *)
DeleteBranch(r, b) ==
  IF r.tip[b] = Nobody \/ r.head = b THEN Refused(r)
  ELSE {Result([r EXCEPT !.tip[b] = Nobody], "ok")}

(* `stage_file` of a conflicting path, or of the other files.               *)
StageFile(r, p) ==
  IF p \in r.conflicts
  THEN {Result([r EXCEPT !.conflicts = @ \ {p}, !.staged = s], "ok") : s \in {r.staged, TRUE}}
  ELSE {Result([r EXCEPT !.staged = (@ \/ r.dirty), !.dirty = d], "ok") : d \in {r.dirty, FALSE}}

(* `unstage_file`, of the last staged file or of one among several.         *)
UnstageFile(r) ==
  {Result([r EXCEPT !.staged = s, !.dirty = (@ \/ r.staged)], "ok") : s \in {r.staged, FALSE}}

(* `discard_file`, of the last changed file or of one among several.        *)
DiscardFile(r) == {Result([r EXCEPT !.dirty = d], "ok") : d \in {r.dirty, FALSE}}

(* `resolve_conflict` and `resolve_conflict_lines`: our side is HEAD's.     *)
ResolveConflict(r, p, side) ==
  IF p \notin r.conflicts THEN Refused(r)
  ELSE {Result([r EXCEPT !.conflicts = @ \ {p}, !.staged = s], "ok") :
          s \in CASE side = "ours" -> {r.staged}
                  [] side = "theirs" -> {TRUE}
                  [] side = "lines" -> {r.staged, TRUE}}
===============================================================================
