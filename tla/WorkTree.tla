------------------------------- MODULE WorkTree -------------------------------
(***************************************************************************)
(* The user's files under the engine's writes                               *)
(* (infrastructure/local_engine.py): for each path what HEAD's commit, the  *)
(* index and the working tree hold, through staging, discarding, commits,   *)
(* checkout, fast-forward, merge, the resolution of conflicts, the abort of *)
(* a merge, reset and the stash.                                            *)
(*                                                                         *)
(* The writes run one at a time (WriteQueue), so each is one step, with the *)
(* user's editor and a death of the application between them; a             *)
(* fast-forward, which moves two things, can die half way.  libgit2's own   *)
(* rules are external, modelled from what the engine relies on: a checkout  *)
(* is safe, it is refused as a whole when it would overwrite a file that is *)
(* not as HEAD has it, unless it is forced.                                 *)
(***************************************************************************)
EXTENDS Integers, FiniteSets, SequencesExt

CONSTANTS
  Paths,      \* the files
  Past,       \* the commits there are: a sequence of [parents, tree]
  Start,      \* the commit HEAD is at when the repository is opened
  Tips,       \* the commits of the branches, which he checks out and merges
  Picked,     \* the commits he resets to
  Writes,     \* what he writes into files, one after the other
  MaxCommits, \* bound on the commits ever made
  MaxWrites,  \* bound on the engine's writes
  MaxStash    \* bound on the stash

Absent == "absent"
Markers == "markers"
Unmerged == "unmerged"
Composed == "composed"  \* what the line picker makes of the two sides
Nothing == 0
Drafts == Range(Writes)

ASSUME WorkTreeAssumption ==
  /\ {Start} \cup Tips \cup Picked \subseteq DOMAIN Past
  /\ \A c \in DOMAIN Past :
       /\ \A p \in Range(Past[c].parents) : p \in 1..(c - 1)
       /\ Past[c].tree \in [Paths -> STRING]
       /\ \A p \in Paths : Past[c].tree[p] # Unmerged
  /\ Past \in Seq([parents : Seq(Nat), tree : [Paths -> STRING]]) /\ Writes \in Seq(STRING)
  /\ MaxCommits \in Nat /\ Len(Past) <= MaxCommits /\ MaxWrites \in Nat /\ MaxStash \in Nat
  /\ {Absent, Markers, Unmerged, Composed} \cap Drafts = {}

Contents == {Past[c].tree[p] : c \in DOMAIN Past, p \in Paths}
            \cup Drafts \cup {Absent, Markers, Composed}

(* A definition named D_Variant is a wrong version of D, to try the         *)
(* properties on; nothing uses it.                                          *)

VARIABLES
  s,       \* the repository: commits, head, theirs (MERGE_HEAD), index, other (the
           \* other side of what conflicts; HEAD's is ours), work, stash
  own,     \* history: the paths the user has changed, or asked to change
  before,  \* history: the working tree when the merge under way was started
  meddled, \* history: the user has done more than resolve since then
  edits,   \* the edits so far
  writes   \* the writes so far

vars == <<s, own, before, meddled, edits, writes>>

-------------------------------------------------------------------------------
(* Reading.                                                                 *)
Tree(r) == r.commits[r.head].tree
Conflicts(r) == {p \in Paths : r.index[p] = Unmerged}
Staged(r) == {p \in Paths : r.index[p] # Tree(r)[p]}
Unstaged(r) == {p \in Paths : r.work[p] # r.index[p]}
Untracked(r) == {p \in Unstaged(r) : r.index[p] = Absent}

AncestorsOf(r, c) ==
  LET anc[x \in DOMAIN r.commits] ==
        {x} \cup UNION {anc[y] : y \in Range(r.commits[x].parents)}
  IN  anc[c]

MergeBase(r, c) == CHOOSE b \in AncestorsOf(r, r.head) \cap AncestorsOf(r, c) :
                     \A d \in AncestorsOf(r, r.head) \cap AncestorsOf(r, c) : d <= b

(* A file merged.                                                           *)
ThreeWay(base, ours, theirs) ==
  CASE ours = theirs                                      -> ours
    [] ours # theirs /\ ours = base                       -> theirs
    [] ours # theirs /\ theirs = base                     -> ours
    [] ours # theirs /\ ours # base /\ theirs # base      -> Unmerged

(* What a conflict leaves in the file: markers, or the one side there is.   *)
Left(ours, theirs) ==
  CASE ours = Absent -> theirs
    [] theirs = Absent -> ours
    [] OTHER -> Markers

-------------------------------------------------------------------------------
(* libgit2.                                                                 *)
(* A safe checkout of `to` over HEAD's tree: the paths it would overwrite,  *)
(* and what it makes of the files when there is none.                       *)
InTheWay(r, to) ==
  {p \in Paths : to[p] # Tree(r)[p] /\ r.work[p] \notin {Tree(r)[p], to[p]}}

CheckedOut(r, to) ==
  LET as(f) == [p \in Paths |-> IF to[p] # Tree(r)[p] THEN to[p] ELSE f[p]]
  IN  [r EXCEPT !.index = as(r.index), !.work = as(r.work)]

(* A forced checkout of some paths: files the tree has not are removed only *)
(* where the index knows them.                                              *)
Forced(r, to, P) ==
  [r EXCEPT !.index = [p \in Paths |-> IF p \in P THEN to[p] ELSE @[p]],
            !.work = [p \in Paths |->
                        IF p \in P /\ (to[p] # Absent \/ r.index[p] # Absent) THEN to[p] ELSE @[p]]]

(* `theirs` merged into the index and the files, where that changes HEAD's. *)
MergedInto(r, theirs, merged) ==
  LET changed == {p \in Paths : merged[p] # Tree(r)[p]}
  IN  [r EXCEPT !.index = [p \in Paths |-> IF p \in changed THEN merged[p] ELSE @[p]],
                !.other = [p \in Paths |-> IF merged[p] = Unmerged THEN theirs[p] ELSE Absent],
                !.work = [p \in Paths |->
                            CASE p \notin changed -> @[p]
                              [] p \in changed /\ merged[p] = Unmerged -> Left(Tree(r)[p], theirs[p])
                              [] p \in changed /\ merged[p] # Unmerged -> merged[p]]]

-------------------------------------------------------------------------------
(* The engine.  An operation returns the repositories it may leave; when it *)
(* raises, the one it was given.                                            *)
Raises(r) == {r}

(* `stage_file`: a file that is gone is taken out of the index, which fails *)
(* for one that conflicts.                                                  *)
StageFile(r, p) ==
  IF r.work[p] = Absent /\ p \in Conflicts(r) THEN Raises(r)
  ELSE {[r EXCEPT !.index[p] = r.work[p]]}

(* `unstage_file`.                                                          *)
UnstageFile(r, p) == {[r EXCEPT !.index[p] = Tree(r)[p]]}

DiscardFile_FromHead(r, p) ==
  CASE p \in Conflicts(r) -> Raises(r)
    [] p \notin Conflicts(r) /\ r.index[p] = Absent -> {[r EXCEPT !.work[p] = Absent]}
    [] OTHER -> {[r EXCEPT !.work[p] = Tree(r)[p], !.index[p] = Tree(r)[p]]}

(* `discard_file`: from the index, never from HEAD; a new file is deleted.  *)
DiscardFile(r, p) ==
  IF p \in Conflicts(r) THEN Raises(r)
  ELSE {[r EXCEPT !.work[p] = r.index[p]]}

(* `create_commit`, of the index.                                           *)
CreateCommit(r, amend) ==
  LET made(parents) == [r EXCEPT !.commits = Append(@, [parents |-> parents, tree |-> r.index]),
                                 !.head = Len(r.commits) + 1, !.theirs = Nothing]
  IN  CASE Conflicts(r) # {} \/ (amend /\ r.theirs # Nothing) -> Raises(r)
        [] Conflicts(r) = {} /\ amend /\ r.theirs = Nothing -> {made(r.commits[r.head].parents)}
        [] Conflicts(r) = {} /\ ~amend /\ r.theirs # Nothing -> {made(<<r.head, r.theirs>>)}
        [] OTHER -> IF Staged(r) = {} THEN Raises(r) ELSE {made(<<r.head>>)}

Checkout_Forced(r, c) == {[Forced(r, r.commits[c].tree, Paths) EXCEPT !.head = c]}

(* `checkout_branch`.                                                       *)
Checkout(r, c) ==
  IF InTheWay(r, r.commits[c].tree) # {} \/ Conflicts(r) # {} THEN Raises(r)
  ELSE {[CheckedOut(r, r.commits[c].tree) EXCEPT !.head = c]}

FastForward_RefFirst(r, c) ==
  IF r.head \notin AncestorsOf(r, c) \/ c = r.head THEN Raises(r)
  ELSE LET moved == [r EXCEPT !.head = c]
       IN  {CheckedOut(moved, Tree(moved))}

(* `fast_forward`: the checkout first, which may be refused as above, then  *)
(* HEAD; the application may die in between.                                *)
FastForward(r, c) ==
  IF \/ r.head \notin AncestorsOf(r, c) \/ c = r.head
     \/ InTheWay(r, r.commits[c].tree) # {} \/ Conflicts(r) # {}
  THEN Raises(r)
  ELSE LET there == CheckedOut(r, r.commits[c].tree) IN {[there EXCEPT !.head = c], there}

AbortMerge_ConflictsOnly(r) ==
  {[Forced(r, Tree(r), Conflicts(r)) EXCEPT !.theirs = Nothing, !.index = Tree(r)]}

(* `abort_merge`: what differs from HEAD in the index (`_merge_touched_paths`) *)
(* is forced back to HEAD, the rest of the files is left alone.             *)
AbortMerge(r) ==
  {[Forced(r, Tree(r), Conflicts(r) \cup Staged(r)) EXCEPT !.theirs = Nothing, !.index = Tree(r)]}

(* `merge` of what cannot be fast-forwarded: refused over tracked changes,  *)
(* and by libgit2 over an untracked file in the way; stopped at conflicts;  *)
(* else committed, or taken back when that fails.                           *)
Merge(r, c) ==
  LET base == r.commits[MergeBase(r, c)].tree
      merged == [p \in Paths |-> ThreeWay(base[p], Tree(r)[p], r.commits[c].tree[p])]
      merging == [MergedInto(r, r.commits[c].tree, merged) EXCEPT !.theirs = c]
  IN  CASE r.head \in AncestorsOf(r, c) -> FastForward(r, c)
        [] r.head \notin AncestorsOf(r, c) /\ Staged(r) \cup (Unstaged(r) \ Untracked(r)) # {} ->
             Raises(r)
        [] OTHER ->
             IF \E p \in Paths : merged[p] # Tree(r)[p] /\ r.work[p] \notin {Tree(r)[p], merged[p]}
             THEN Raises(r)
             ELSE IF Conflicts(merging) # {} THEN {merging}
             ELSE CreateCommit(merging, FALSE) \cup AbortMerge(merging)

(* `resolve_conflict` and `resolve_conflict_lines`, which needs the markers. *)
ResolveConflict(r, p, choice) ==
  LET as(c) == {[r EXCEPT !.index[p] = c, !.work[p] = c]}
  IN  CASE p \notin Conflicts(r) -> Raises(r)
        [] p \in Conflicts(r) /\ choice = "ours" -> as(Tree(r)[p])
        [] p \in Conflicts(r) /\ choice = "theirs" -> as(r.other[p])
        [] p \in Conflicts(r) /\ choice = "lines" ->
             IF r.work[p] = Markers THEN as(Composed) ELSE Raises(r)

(* `reset_to`, refused under a merge; a soft one by libgit2 over conflicts. *)
ResetTo(r, c, kind) ==
  IF r.theirs # Nothing \/ (kind = "soft" /\ Conflicts(r) # {}) THEN Raises(r)
  ELSE LET there == r.commits[c].tree
       IN  CASE kind = "soft"  -> {[r EXCEPT !.head = c]}
             [] kind = "mixed" -> {[r EXCEPT !.head = c, !.index = there]}
             [] kind = "hard"  -> {[Forced(r, there, Paths) EXCEPT !.head = c]}

(* `stash_save`, of untracked files as well.                                *)
StashSave(r) ==
  IF Conflicts(r) # {} \/ Staged(r) \cup Unstaged(r) = {} THEN Raises(r)
  ELSE {[r EXCEPT !.stash = <<[work |-> r.work, index |-> r.index, base |-> Tree(r)]>> \o @,
                  !.work = Tree(r), !.index = Tree(r)]}

(* What the files would be with a stash applied.                            *)
Unstashed(r, e) == [p \in Paths |-> ThreeWay(e.base[p], Tree(r)[p], e.work[p])]

PopRefused(r, e) ==
  \/ Staged(r) # {}
  \/ \E p \in Paths : Unstashed(r, e)[p] # Tree(r)[p] /\ r.work[p] # Tree(r)[p]

StashPop_DropFirst(r) ==
  IF r.stash = <<>> THEN Raises(r)
  ELSE LET e == Head(r.stash)
           dropped == [r EXCEPT !.stash = Tail(@)]
       IN  IF PopRefused(r, e) THEN {dropped} ELSE {MergedInto(dropped, e.work, Unstashed(r, e))}

(* `stash_pop`: refused over changes; a file that conflicts gets its entry  *)
(* in the index, the others are changed in the working tree only, but for   *)
(* new ones that had been staged.                                           *)
StashPop(r) ==
  IF r.stash = <<>> THEN Raises(r)
  ELSE LET e == Head(r.stash)
           to == Unstashed(r, e)
           entry(p) ==
             CASE to[p] = Unmerged -> to[p]
               [] to[p] # Unmerged /\ e.base[p] = Absent /\ e.index[p] # Absent -> to[p]
               [] OTHER -> r.index[p]
       IN  IF PopRefused(r, e) THEN Raises(r)
           ELSE {[MergedInto(r, e.work, to) EXCEPT !.stash = Tail(@),
                                           !.index = [p \in Paths |-> entry(p)]]}

-------------------------------------------------------------------------------
Init ==
  /\ s = [commits |-> Past, head |-> Start, theirs |-> Nothing,
          index |-> Past[Start].tree, other |-> [p \in Paths |-> Absent], work |-> Past[Start].tree, stash |-> <<>>]
  /\ own = {}
  /\ before = s.work
  /\ meddled = FALSE
  /\ edits = 0
  /\ writes = 0

(* The histories of a merge under way, of which `plain` steps are part.     *)
Recorded(plain) ==
  /\ before' = IF s.theirs = Nothing /\ s'.theirs # Nothing THEN s.work ELSE before
  /\ meddled' = (s.theirs # Nothing /\ s'.theirs # Nothing /\ (meddled \/ ~plain))

OneWrite ==
  /\ writes < MaxWrites
  /\ writes' = writes + 1
  /\ UNCHANGED edits

(* An operation leaves one of the results; P are the paths the user wished  *)
(* it to change.                                                            *)
Does(results, P) ==
  /\ s' \in results
  /\ own' = own \cup P
  /\ Recorded(FALSE)
  /\ OneWrite

Room == Len(s.commits) < MaxCommits
Differing(c) == {p \in Paths : s.commits[c].tree[p] # Tree(s)[p]}

(* The user's editor writes a file, or deletes it.                          *)
Edits(p) ==
  /\ edits < Len(Writes)
  /\ edits' = edits + 1
  /\ \E content \in {Writes[edits + 1], Absent} \ {s.work[p]} : s' = [s EXCEPT !.work[p] = content]
  /\ own' = own \cup {p}
  /\ Recorded(FALSE)
  /\ UNCHANGED writes

(* The lists of the work panel offer what there is.                         *)
Stages(p) == p \in Unstaged(s) /\ Does(StageFile(s, p), {p})
Unstages(p) == p \in Staged(s) \ Conflicts(s) /\ Does(UnstageFile(s, p), {p})
Discards(p) == p \in Unstaged(s) /\ Does(DiscardFile(s, p), {p})
Commits(amend) == Room /\ Does(CreateCommit(s, amend), {})

(* These are offered while nothing is under way (`_busy_with_history`).     *)
ChecksOut(c) == s.theirs = Nothing /\ c # s.head /\ Does(Checkout(s, c), {})
Merges(c) ==
  /\ s.theirs = Nothing /\ Room /\ c \notin AncestorsOf(s, s.head)
  /\ \E r \in Merge(s, c) :
       LET diedInside == r.head = s.head /\ r.theirs = Nothing
       IN  Does({r}, IF diedInside THEN Staged(r) ELSE {})
Resets(c, kind) ==
  s.theirs = Nothing /\ Does(ResetTo(s, c, kind), IF kind = "hard" THEN {} ELSE Differing(c))

ConflictChoices == {"ours", "theirs", "lines"}
Resolves(p, choice) ==
  /\ p \in Conflicts(s)
  /\ s' \in ResolveConflict(s, p, choice)
  /\ own' = own \cup {p}
  /\ Recorded(TRUE)
  /\ OneWrite
Aborts == s.theirs # Nothing /\ Does(AbortMerge(s), {})
Stashes == Len(s.stash) < MaxStash /\ Does(StashSave(s), Staged(s) \cup Unstaged(s))
Pops == Does(StashPop(s), {})

Next ==
  \/ \E p \in Paths :
       \/ Edits(p) \/ Stages(p) \/ Unstages(p) \/ Discards(p)
       \/ \E choice \in ConflictChoices : Resolves(p, choice)
  \/ \E amend \in BOOLEAN : Commits(amend)
  \/ \E c \in Tips : ChecksOut(c) \/ Merges(c)
  \/ \E c \in Picked, kind \in {"soft", "mixed", "hard"} : Resets(c, kind)
  \/ Aborts \/ Stashes \/ Pops

Spec == Init /\ [][Next]_vars

-------------------------------------------------------------------------------
(* The user's content d of path p can be had back: from the file, the       *)
(* index, a side of a conflict, a commit or the stash.                      *)
Recoverable(r, p, d) ==
  \/ r.work[p] = d \/ r.index[p] = d
  \/ r.index[p] = Unmerged /\ r.other[p] = d
  \/ \E c \in DOMAIN r.commits : r.commits[c].tree[p] = d
  \/ \E i \in DOMAIN r.stash : d \in {r.stash[i].work[p], r.stash[i].index[p]}

(* Every variable has its type, and a file holds a content, never a         *)
(* conflict.                                                                *)
TypeOK ==
  /\ s.head \in DOMAIN s.commits
  /\ s.theirs \in DOMAIN s.commits \cup {Nothing}
  /\ s.work \in [Paths -> Contents]
  /\ s.index \in [Paths -> Contents \cup {Unmerged}]
  /\ s.other \in [Paths -> Contents]
  /\ Len(s.stash) \in 0..MaxStash
  /\ Len(s.commits) \in Len(Past)..MaxCommits
  /\ own \subseteq Paths /\ meddled \in BOOLEAN /\ edits \in 0..Len(Writes) /\ writes \in 0..MaxWrites

(* What the user wrote into a file is not lost but by an operation whose    *)
(* name says so, on that file: his editor, a discard, the resolution of its *)
(* conflict, a hard reset, the abort of a merge for a path in the index.    *)
WorkKept ==
  [][\A p \in Paths :
       /\ s.work[p] \in Drafts
       /\ ~Recoverable(s', p, s.work[p])
       => \/ Edits(p) \/ Discards(p) \/ \E choice \in ConflictChoices : Resolves(p, choice)
          \/ \E c \in Picked : Resets(c, "hard")
          \/ Aborts /\ s.index[p] # Tree(s)[p]]_vars

(* What the user staged outlives everything but what is about the index of  *)
(* that path: a discard takes back unstaged changes alone (the finding in   *)
(* `discard_file`), a checkout, a merge and a fast-forward leave it.  Left  *)
(* out are a file that has been deleted since (what libgit2 does with the   *)
(* index then is not known), and one that has been put back to what either  *)
(* commit of a checkout has: libgit2 looks at the file alone.               *)
StagedKept ==
  [][\A p \in Paths :
       /\ s.index[p] \in Drafts /\ s.work[p] # Absent
       /\ ~Recoverable(s', p, s.index[p])
       => \/ Stages(p) \/ Unstages(p) \/ \E choice \in ConflictChoices : Resolves(p, choice)
          \/ \E c \in Picked, kind \in {"mixed", "hard"} : Resets(c, kind)
          \/ \E c \in Tips : /\ ChecksOut(c) \/ Merges(c)
                             /\ s.work[p] \in {Tree(s)[p], s.commits[c].tree[p]}
          \/ Aborts]_vars

(* What a stash holds of the user's at path p: the file's contents and the  *)
(* ones he had staged.                                                      *)
Held(e, p) == ({e.work[p], e.index[p]} \cap Drafts) \ {e.base[p]}

(* A content of a stash popped is back: in the file, in HEAD, or in a       *)
(* conflict.                                                                *)
Back(p, d) ==
  \/ d \in {s'.work[p], Tree(s)[p]}
  \/ s'.index[p] = Unmerged /\ s'.other[p] = d

(* The user had staged d and written the file again since.                  *)
StagedOver(e, p, d) == d = e.index[p] /\ e.work[p] # d

(* A stash goes only when all it holds of a path is back.  Left out is the  *)
(* contents he had staged of a file that he has written again since: it is  *)
(* in the stash's index alone, and `stash_pop` does not ask for the index.  *)
StashKept ==
  [][Len(s'.stash) < Len(s.stash) =>
       LET e == Head(s.stash) IN
       \A p \in Paths : \A d \in Held(e, p) : Back(p, d) \/ StagedOver(e, p, d)]_vars

(* The same without the exception, which `stash_save` and `stash_pop`       *)
(* describe (keep the current changes; take the latest stash out and apply  *)
(* it) and which does not hold: what was staged under a later edit is gone  *)
(* with the stash.                                                          *)
StashKeepsStaged ==
  [][Len(s'.stash) < Len(s.stash) =>
       \A p \in Paths : \A d \in Held(Head(s.stash), p) : Back(p, d)]_vars

(* No change appears that the user has not made: outside a merge, a path    *)
(* that differs from HEAD, staged or not, is one he has changed or has      *)
(* asked to have changed (after a fast-forward that moved the reference     *)
(* first, the old files are staged against the new commit, says             *)
(* `fast_forward`).  The death of the application inside a fast-forward     *)
(* is left out.                                                             *)
OnlyOwnChanges ==
  s.theirs = Nothing => Staged(s) \cup Unstaged(s) \subseteq own

(* Aborting a merge in which nothing but conflicts was resolved gives back  *)
(* every file as it was when the merge was started, and takes the merge's   *)
(* new files away (with them an untracked file that had the contents of the *)
(* merged commit's).                                                        *)
AbortRestores ==
  [][Aborts /\ ~meddled =>
       \A p \in Paths :
         \/ s'.work[p] = before[p]
         \/ Tree(s)[p] = Absent /\ before[p] = s.commits[s.theirs].tree[p]]_vars

(* Aborting a merge does not touch the uncommitted work in files unrelated  *)
(* to it (`abort_merge`'s description).                                     *)
AbortKeepsUnrelated ==
  [][\A p \in Paths :
       /\ Aborts
       /\ s.commits[s.theirs].tree[p] = s.commits[MergeBase(s, s.theirs)].tree[p]
       => s'.work[p] = s.work[p]]_vars
===============================================================================
