----------------------------- MODULE WorkTreeProofs ----------------------------
(***************************************************************************)
(* Proofs about WorkTree, for any files, commits, edits and any number of   *)
(* writes.                                                                  *)
(*                                                                         *)
(* What differs from HEAD outside a merge is the user's, which says nothing *)
(* of a merge that is about to be committed.  The inductive invariant adds  *)
(* that unstaged changes are the user's at any time, but for conflicts; that*)
(* so is what a stash will bring back; and, for the abort of a merge in     *)
(* which nothing but conflicts has been resolved, what each file was like   *)
(* before: HEAD's version wherever the index differs from HEAD now.         *)
(***************************************************************************)
EXTENDS WorkTree, TLAPS

Trees == [Paths -> Contents]
CommitRecords == [parents : Seq(Nat), tree : Trees]
Entries == [work : Trees, index : Trees, base : Trees]
Records ==
  [commits : Seq(CommitRecords), head : Nat, theirs : Nat,
   index : [Paths -> Contents \cup {Unmerged}], other : Trees, work : Trees,
   stash : Seq(Entries)]

(* A repository.                                                            *)
Sound(r) ==
  /\ r \in Records
  /\ r.head \in DOMAIN r.commits
  /\ r.theirs \in DOMAIN r.commits \cup {Nothing}

(* What a stash changes.                                                    *)
Stashed(e) == {p \in Paths : e.work[p] # e.base[p]}

(* The paths of o are the user's in the repository r: what is not staged is *)
(* his or a conflict's, outside a merge so is what is staged, and so is     *)
(* what a stash changes.                                                    *)
Ours(r, o) ==
  /\ Unstaged(r) \subseteq o \cup Conflicts(r)
  /\ r.theirs = Nothing => Staged(r) \cup Unstaged(r) \subseteq o
  /\ \A i \in DOMAIN r.stash : Stashed(r.stash[i]) \subseteq o

(* While nothing but conflicts has been resolved in a merge, a file that the*)
(* index has as HEAD does is as it was before the merge; another was as HEAD*)
(* has it, or a new file with the merged commit's contents.                 *)
PlainSoFar(r, b, p) ==
  /\ r.index[p] = Unmerged => b[p] = Tree(r)[p]
  /\ r.index[p] = Tree(r)[p] => r.work[p] = b[p]
  /\ r.index[p] # Tree(r)[p] =>
       \/ b[p] = Tree(r)[p]
       \/ Tree(r)[p] = Absent /\ b[p] = r.commits[r.theirs].tree[p]

MergeIsPlain == s.theirs # Nothing /\ ~meddled => \A p \in Paths : PlainSoFar(s, before, p)

Counted ==
  /\ Len(s.stash) <= MaxStash
  /\ Len(Past) <= Len(s.commits) /\ Len(s.commits) <= MaxCommits
  /\ own \subseteq Paths /\ meddled \in BOOLEAN
  /\ edits \in 0..Len(Writes) /\ writes \in 0..MaxWrites

IInv ==
  /\ Sound(s)
  /\ Counted
  /\ Ours(s, own)
  /\ MergeIsPlain
-------------------------------------------------------------------------------
(* The contents of files, and the trees of commits.                         *)
LEMMA ContentFacts ==
  /\ Unmerged \notin Contents
  /\ Absent \in Contents /\ Markers \in Contents /\ Composed \in Contents
  /\ Drafts \subseteq Contents
  /\ \A d \in Drafts : d # Absent /\ d # Markers /\ d # Composed /\ d # Unmerged
<1>1. Absent # Unmerged /\ Markers # Unmerged /\ Composed # Unmerged
  BY DEF Absent, Markers, Composed, Unmerged
<1>2. /\ \A c \in DOMAIN Past, p \in Paths : Past[c].tree[p] # Unmerged
      /\ {Absent, Markers, Unmerged, Composed} \cap Drafts = {}
  BY WorkTreeAssumption DEF WorkTreeAssumption
<1>3. Unmerged \notin Contents
  <2>1. Unmerged \notin {Past[c].tree[p] : c \in DOMAIN Past, p \in Paths}
    BY <1>2
  <2>2. Unmerged \notin Drafts \cup {Absent, Markers, Composed}
    BY <1>1, <1>2
  <2> QED
    BY <2>1, <2>2 DEF Contents
<1>4. /\ Absent \in Contents /\ Markers \in Contents /\ Composed \in Contents
      /\ Drafts \subseteq Contents
  BY DEF Contents
<1>5. ASSUME NEW d \in Drafts PROVE d # Absent /\ d # Markers /\ d # Composed /\ d # Unmerged
  BY <1>2
<1> QED
  BY <1>3, <1>4, <1>5

(* A sequence of things that are in T.                                      *)
LEMMA InSeqOf ==
  ASSUME NEW S, NEW T, NEW q \in Seq(S), \A i \in DOMAIN q : q[i] \in T
  PROVE  q \in Seq(T)
<1>1. Len(q) \in Nat /\ q \in [1..Len(q) -> S] /\ DOMAIN q = 1..Len(q)
  OBVIOUS
<1>2. q \in [1..Len(q) -> T]
  BY <1>1
<1> QED
  BY <1>1, <1>2

(* What is in a sequence over S is in S.                                    *)
LEMMA InSeq == ASSUME NEW S, NEW q \in Seq(S), NEW i \in DOMAIN q PROVE q[i] \in S
  OBVIOUS

(* The commits there are from the start are commits.                        *)
LEMMA PastIsSound == Past \in Seq(CommitRecords)
<1> DEFINE R == [parents : Seq(Nat), tree : [Paths -> STRING]]
<1>1. Past \in Seq(R)
  BY WorkTreeAssumption DEF WorkTreeAssumption
<1>2. ASSUME NEW c \in DOMAIN Past PROVE Past[c] \in R
  <2> HIDE DEF R
  <2> QED
    BY <1>1, InSeq
<1>3. ASSUME NEW c \in DOMAIN Past PROVE Past[c] \in CommitRecords
  <2>1. \A p \in Paths : Past[c].tree[p] \in Contents
    BY DEF Contents
  <2>2. Past[c].tree \in Trees
    BY <1>2, <2>1 DEF Trees
  <2> QED
    BY <1>2, <2>2 DEF CommitRecords
<1>4. \A c \in DOMAIN Past : Past[c] \in CommitRecords
  BY <1>3
<1> HIDE DEF R
<1> QED
  BY <1>1, <1>4, InSeqOf

(* What a sound repository is made of.                                      *)
LEMMA SoundFacts ==
  ASSUME NEW r, Sound(r)
  PROVE  /\ \A c \in DOMAIN r.commits : r.commits[c] \in CommitRecords /\ r.commits[c].tree \in Trees
         /\ r.commits \in Seq(CommitRecords) /\ Len(r.commits) \in Nat
         /\ DOMAIN r.commits = 1..Len(r.commits)
         /\ r.head \in DOMAIN r.commits /\ r.theirs \in DOMAIN r.commits \cup {Nothing}
         /\ Tree(r) = r.commits[r.head].tree /\ Tree(r) \in Trees
         /\ r.work \in Trees /\ r.other \in Trees
         /\ r.index \in [Paths -> Contents \cup {Unmerged}]
         /\ r.stash \in Seq(Entries)
<1>1. r.commits \in Seq(CommitRecords)
  BY DEF Sound, Records
<1>2. \A c \in DOMAIN r.commits : r.commits[c] \in CommitRecords
  BY <1>1
<1>3. \A c \in DOMAIN r.commits : r.commits[c].tree \in Trees
  BY <1>2 DEF CommitRecords
<1>4. /\ r.work \in Trees /\ r.other \in Trees
      /\ r.index \in [Paths -> Contents \cup {Unmerged}]
      /\ r.stash \in Seq(Entries)
      /\ r.head \in DOMAIN r.commits /\ r.theirs \in DOMAIN r.commits \cup {Nothing}
  BY DEF Sound, Records
<1> QED
  BY <1>1, <1>2, <1>3, <1>4 DEF Tree

-------------------------------------------------------------------------------
(* What an operation leaves of a repository r in q.                         *)

(* The commits there were are there.                                        *)
Grown(r, q) ==
  /\ DOMAIN r.commits \subseteq DOMAIN q.commits
  /\ \A c \in DOMAIN r.commits : q.commits[c] = r.commits[c]

(* The file or the index of a path is as it was.                            *)
SameWork(r, q, p) == q.work[p] = r.work[p]
SameIndex(r, q, p) == q.index[p] = r.index[p]

(* Nothing but files and index entries has changed.                         *)
SameBut(r, q) ==
  /\ q.commits = r.commits /\ q.head = r.head /\ q.theirs = r.theirs
  /\ q.other = r.other /\ q.stash = r.stash

(* The index and the file of a path are rewritten, or either.               *)
RewrittenAt(r, q, p, i, w) ==
  \/ q = [r EXCEPT !.index[p] = i, !.work[p] = w]
  \/ q = [r EXCEPT !.index[p] = i] /\ w = r.work[p]
  \/ q = [r EXCEPT !.work[p] = w] /\ i = r.index[p]

(* Other contents in the files and in the index.                            *)
Rewrite(r, i, w) == [r EXCEPT !.index = i, !.work = w]

(* They leave it sound.                                                     *)
LEMMA Rewritten ==
  ASSUME NEW r, Sound(r), NEW w \in Trees, NEW i \in [Paths -> Contents \cup {Unmerged}],
         NEW q, q = Rewrite(r, i, w)
  PROVE  Sound(q) /\ SameBut(r, q) /\ Tree(q) = Tree(r) /\ q.index = i /\ q.work = w
<1>1. q.index = i /\ q.work = w /\ SameBut(r, q)
  BY DEF Rewrite, Sound, Records, SameBut
<1>2. Tree(q) = Tree(r)
  BY <1>1 DEF Tree, SameBut
<1>3. Sound(q)
  BY DEF Rewrite, Sound, Records
<1> QED
  BY <1>1, <1>2, <1>3

(* HEAD at another commit.                                                  *)
Moved(r, c) == [r EXCEPT !.head = c]

(* That leaves it sound as well.                                            *)
LEMMA HeadMoved ==
  ASSUME NEW r, Sound(r), NEW c \in DOMAIN r.commits, NEW q, q = Moved(r, c)
  PROVE  /\ Sound(q) /\ Tree(q) = r.commits[c].tree /\ q.head = c
         /\ q.commits = r.commits /\ q.theirs = r.theirs /\ q.index = r.index
         /\ q.work = r.work /\ q.stash = r.stash
<1>1. /\ q.head = c /\ q.commits = r.commits /\ q.theirs = r.theirs /\ q.index = r.index
      /\ q.work = r.work /\ q.stash = r.stash
  BY DEF Moved, Sound, Records
<1>2. c \in Nat
  BY SoundFacts
<1>3. Sound(q)
  BY <1>2 DEF Moved, Sound, Records
<1> QED
  BY <1>1, <1>3 DEF Tree

(* What is in a tree is in no conflict, so a conflict is staged.            *)
LEMMA ConflictsAreStaged ==
  ASSUME NEW r, Sound(r)
  PROVE  /\ Conflicts(r) \subseteq Staged(r)
         /\ \A p \in Paths : Tree(r)[p] # Unmerged /\ r.work[p] # Unmerged
         /\ \A c \in DOMAIN r.commits : \A p \in Paths : r.commits[c].tree[p] # Unmerged
<1>1. Tree(r) \in Trees /\ r.work \in Trees /\ \A c \in DOMAIN r.commits : r.commits[c].tree \in Trees
  BY SoundFacts
<1>2. \A t \in Trees, p \in Paths : t[p] # Unmerged
  BY ContentFacts DEF Trees
<1> QED
  BY <1>1, <1>2 DEF Conflicts, Staged

(* A change of some paths that the user has asked for.                      *)
LEMMA InPlace ==
  ASSUME NEW r, NEW o, Ours(r, o), NEW q, NEW P,
         Tree(q) = Tree(r), q.theirs = r.theirs,
         \A i \in DOMAIN q.stash : Stashed(q.stash[i]) \subseteq o,
         \A p \in Paths \ P : SameWork(r, q, p) /\ SameIndex(r, q, p)
  PROVE  Ours(q, o \cup P)
<1>1. ASSUME NEW p \in Paths \ P
      PROVE  /\ p \in Unstaged(q) <=> p \in Unstaged(r)
             /\ p \in Staged(q) <=> p \in Staged(r)
             /\ p \in Conflicts(q) <=> p \in Conflicts(r)
  BY DEF SameWork, SameIndex, Unstaged, Staged, Conflicts
<1>2. Unstaged(q) \subseteq Paths /\ Staged(q) \subseteq Paths
  BY DEF Unstaged, Staged
<1> QED
  BY <1>1, <1>2 DEF Ours

(* He may own more.                                                         *)
LEMMA OursMore ==
  ASSUME NEW r, NEW o, Ours(r, o), NEW P
  PROVE  Ours(r, o \cup P)
BY DEF Ours

(* One path rewritten: an edit, `stage_file`, `unstage_file`,               *)
(* `discard_file`, `resolve_conflict`.                                      *)
LEMMA OnePath ==
  ASSUME NEW r, Sound(r), NEW o, Ours(r, o), NEW p \in Paths,
         NEW i \in Contents \cup {Unmerged}, NEW w \in Contents,
         NEW q, RewrittenAt(r, q, p, i, w)
  PROVE  /\ Sound(q) /\ Ours(q, o \cup {p}) /\ SameBut(r, q)
         /\ q.index[p] = i /\ q.work[p] = w
         /\ \A x \in Paths \ {p} : SameWork(r, q, x) /\ SameIndex(r, q, x)
<1> DEFINE qi == [r.index EXCEPT ![p] = i]
           qw == [r.work EXCEPT ![p] = w]
<1>1. /\ r.work \in Trees
      /\ r.index \in [Paths -> Contents \cup {Unmerged}]
  BY SoundFacts
<1>2. qi \in [Paths -> Contents \cup {Unmerged}] /\ qi[p] = i /\ \A x \in Paths \ {p} : qi[x] = r.index[x]
  BY <1>1
<1>3. qw \in Trees /\ qw[p] = w /\ \A x \in Paths \ {p} : qw[x] = r.work[x]
  BY <1>1 DEF Trees
<1>4. w = r.work[p] => qw = r.work
  BY <1>1 DEF Trees
<1>5. i = r.index[p] => qi = r.index
  BY <1>1
<1>6. q.index = qi /\ q.work = qw /\ SameBut(r, q)
  BY <1>4, <1>5 DEF Sound, Records, SameBut, RewrittenAt
<1>7. Sound(q)
  <2>1. qi \in [Paths -> Contents \cup {Unmerged}] /\ qw \in Trees
    BY <1>2, <1>3
  <2> HIDE DEF qi, qw
  <2>2. \/ q = [r EXCEPT !.index = qi, !.work = qw]
        \/ q = [r EXCEPT !.index = qi]
        \/ q = [r EXCEPT !.work = qw]
    BY DEF qi, qw, Sound, Records, RewrittenAt
  <2> QED
    BY <2>1, <2>2 DEF Sound, Records
<1> HIDE DEF qi, qw
<1>8. \A x \in Paths \ {p} : SameWork(r, q, x) /\ SameIndex(r, q, x)
  BY <1>2, <1>3, <1>6 DEF SameWork, SameIndex
<1>9. Ours(q, o \cup {p})
  <2>1. Tree(q) = Tree(r) /\ q.theirs = r.theirs /\ q.stash = r.stash
    BY <1>6 DEF Tree, SameBut
  <2>2. \A k \in DOMAIN q.stash : Stashed(q.stash[k]) \subseteq o
    BY <2>1 DEF Ours
  <2> QED
    BY <1>8, <2>1, <2>2, InPlace
<1> QED
  BY <1>2, <1>3, <1>6, <1>7, <1>8, <1>9

(* `stage_file` changes one path, in the index.                             *)
LEMMA StageFileEffect ==
  ASSUME NEW r, Sound(r), NEW o, Ours(r, o), NEW p \in Paths, NEW q \in StageFile(r, p)
  PROVE  /\ Sound(q) /\ Ours(q, o \cup {p}) /\ SameBut(r, q)
         /\ \A x \in Paths : SameWork(r, q, x)
         /\ \A x \in Paths \ {p} : SameIndex(r, q, x)
<1>1. CASE q = r
  BY <1>1, OursMore DEF SameBut, SameWork, SameIndex
<1>2. CASE q = [r EXCEPT !.index[p] = r.work[p]]
  <2>1. r.work[p] \in Contents
    BY SoundFacts DEF Trees
  <2>2. /\ Sound(q) /\ Ours(q, o \cup {p}) /\ SameBut(r, q) /\ q.work[p] = r.work[p]
        /\ \A x \in Paths \ {p} : SameWork(r, q, x) /\ SameIndex(r, q, x)
    <3>1. PICK i \in Contents : i = r.work[p]
      BY <2>1
    <3>2. i \in Contents \cup {Unmerged} /\ RewrittenAt(r, q, p, i, i)
      BY <1>2, <3>1 DEF RewrittenAt
    <3>3. /\ Sound(q) /\ Ours(q, o \cup {p}) /\ SameBut(r, q)
          /\ q.index[p] = i /\ q.work[p] = i
          /\ \A x \in Paths \ {p} : SameWork(r, q, x) /\ SameIndex(r, q, x)
      BY <3>2, OnePath
    <3> QED
      BY <3>1, <3>3
  <2> QED
    BY <2>2 DEF SameWork
<1> QED
  BY <1>1, <1>2 DEF StageFile, Raises

(* So does `unstage_file`.                                                  *)
LEMMA UnstageFileEffect ==
  ASSUME NEW r, Sound(r), NEW o, Ours(r, o), NEW p \in Paths, NEW q \in UnstageFile(r, p)
  PROVE  /\ Sound(q) /\ Ours(q, o \cup {p}) /\ SameBut(r, q)
         /\ \A x \in Paths : SameWork(r, q, x)
         /\ \A x \in Paths \ {p} : SameIndex(r, q, x)
<1>1. PICK i \in Contents \cup {Unmerged}, w \in Contents : i = Tree(r)[p] /\ w = r.work[p]
  BY SoundFacts DEF Trees
<1>2. i \in Contents \cup {Unmerged} /\ w \in Contents /\ RewrittenAt(r, q, p, i, w)
  BY <1>1 DEF UnstageFile, RewrittenAt
<1>3. /\ Sound(q) /\ Ours(q, o \cup {p}) /\ SameBut(r, q)
      /\ q.index[p] = i /\ q.work[p] = w
      /\ \A x \in Paths \ {p} : SameWork(r, q, x) /\ SameIndex(r, q, x)
  BY <1>2, OnePath
<1> QED
  BY <1>1, <1>3 DEF SameWork

(* `discard_file` changes one path, in the working tree.                    *)
LEMMA DiscardFileEffect ==
  ASSUME NEW r, Sound(r), NEW o, Ours(r, o), NEW p \in Paths, NEW q \in DiscardFile(r, p)
  PROVE  /\ Sound(q) /\ Ours(q, o \cup {p}) /\ SameBut(r, q)
         /\ \A x \in Paths : SameIndex(r, q, x)
         /\ \A x \in Paths \ {p} : SameWork(r, q, x)
<1>1. CASE q = r
  BY <1>1, OursMore DEF SameBut, SameWork, SameIndex
<1>2. CASE p \notin Conflicts(r) /\ q = [r EXCEPT !.work[p] = r.index[p]]
  <2>1. r.index[p] \in Contents \cup {Unmerged} /\ r.index[p] # Unmerged
    BY <1>2, SoundFacts DEF Conflicts
  <2>2. PICK i \in Contents : i = r.index[p]
    BY <2>1
  <2>3. i \in Contents \cup {Unmerged} /\ RewrittenAt(r, q, p, i, i)
    BY <1>2, <2>2 DEF RewrittenAt
  <2>4. /\ Sound(q) /\ Ours(q, o \cup {p}) /\ SameBut(r, q)
        /\ q.index[p] = i /\ q.work[p] = i
        /\ \A x \in Paths \ {p} : SameWork(r, q, x) /\ SameIndex(r, q, x)
    BY <2>3, OnePath
  <2> QED
    BY <2>2, <2>4 DEF SameIndex
<1> QED
  BY <1>1, <1>2 DEF DiscardFile, Raises

(* The resolution of a conflict gives its path one content, in the file and *)
(* in the index.                                                            *)
LEMMA ResolveConflictEffect ==
  ASSUME NEW r, Sound(r), NEW o, Ours(r, o), NEW p \in Paths, p \in Conflicts(r),
         NEW choice \in ConflictChoices, NEW q \in ResolveConflict(r, p, choice)
  PROVE  /\ Sound(q) /\ Ours(q, o \cup {p}) /\ SameBut(r, q)
         /\ q = r \/ (q.index[p] = q.work[p] /\ q.index[p] # Unmerged)
         /\ \A x \in Paths \ {p} : SameWork(r, q, x) /\ SameIndex(r, q, x)
<1>1. CASE q = r
  BY <1>1, OursMore DEF SameBut, SameWork, SameIndex
<1>2. ASSUME NEW c \in Contents, q = [r EXCEPT !.index[p] = c, !.work[p] = c]
      PROVE  /\ Sound(q) /\ Ours(q, o \cup {p}) /\ SameBut(r, q)
             /\ q.index[p] = q.work[p] /\ q.index[p] # Unmerged
             /\ \A x \in Paths \ {p} : SameWork(r, q, x) /\ SameIndex(r, q, x)
  <2>1. c \in Contents \cup {Unmerged} /\ c # Unmerged /\ RewrittenAt(r, q, p, c, c)
    BY <1>2, ContentFacts DEF RewrittenAt
  <2>2. /\ Sound(q) /\ Ours(q, o \cup {p}) /\ SameBut(r, q)
        /\ q.index[p] = c /\ q.work[p] = c
        /\ \A x \in Paths \ {p} : SameWork(r, q, x) /\ SameIndex(r, q, x)
    BY <2>1, OnePath
  <2> QED
    BY <2>1, <2>2
<1>3. \A x \in {Tree(r)[p], r.other[p], Composed} : x \in Contents
  BY SoundFacts, ContentFacts DEF Trees
<1>4. q = r \/ \E c \in {Tree(r)[p], r.other[p], Composed} : q = [r EXCEPT !.index[p] = c, !.work[p] = c]
  BY DEF ResolveConflict, Raises, ConflictChoices
<1> QED
  BY <1>1, <1>2, <1>3, <1>4

(* An edit.                                                                 *)
Edited(r, p, w) == [r EXCEPT !.work[p] = w]

(* The user's editor changes one file.                                      *)
LEMMA EditEffect ==
  ASSUME NEW r, Sound(r), NEW o, Ours(r, o), NEW p \in Paths, NEW w \in Contents,
         NEW q \in {Edited(r, p, w)}
  PROVE  /\ Sound(q) /\ Ours(q, o \cup {p}) /\ SameBut(r, q)
         /\ \A x \in Paths : SameIndex(r, q, x)
         /\ \A x \in Paths \ {p} : SameWork(r, q, x)
<1>1. PICK i \in Contents \cup {Unmerged} : i = r.index[p]
  BY SoundFacts
<1>2. i \in Contents \cup {Unmerged} /\ w \in Contents /\ RewrittenAt(r, q, p, i, w)
  BY <1>1 DEF Edited, RewrittenAt
<1>3. /\ Sound(q) /\ Ours(q, o \cup {p}) /\ SameBut(r, q)
      /\ q.index[p] = i /\ q.work[p] = w
      /\ \A x \in Paths \ {p} : SameWork(r, q, x) /\ SameIndex(r, q, x)
  BY <1>2, OnePath
<1> QED
  BY <1>1, <1>3 DEF SameIndex

(* `create_commit`: nothing, or the index is the new HEAD's tree.           *)
LEMMA CreateCommitEffect ==
  ASSUME NEW r, Sound(r), NEW amend \in BOOLEAN, NEW q \in CreateCommit(r, amend)
  PROVE  /\ Sound(q) /\ Grown(r, q)
         /\ q.work = r.work /\ q.index = r.index /\ q.stash = r.stash
         /\ \/ q = r /\ ~(Conflicts(r) = {} /\ ~amend /\ r.theirs # Nothing)
            \/ /\ Conflicts(r) = {} /\ q.theirs = Nothing /\ Tree(q) = r.index
               /\ q.head = Len(r.commits) + 1 /\ Len(q.commits) = Len(r.commits) + 1
<1> DEFINE made(parents) == [r EXCEPT !.commits = Append(@, [parents |-> parents, tree |-> r.index]),
                                      !.head = Len(r.commits) + 1, !.theirs = Nothing]
<1>1. \/ q = r /\ ~(Conflicts(r) = {} /\ ~amend /\ r.theirs # Nothing)
      \/ Conflicts(r) = {} /\ \E parents \in {r.commits[r.head].parents, <<r.head, r.theirs>>, <<r.head>>} :
                                q = made(parents)
  BY DEF CreateCommit, Raises
<1>2. {r.commits[r.head].parents, <<r.head, r.theirs>>, <<r.head>>} \subseteq Seq(Nat)
  <2>1. r.commits[r.head].parents \in Seq(Nat)
    BY SoundFacts DEF CommitRecords
  <2>2. r.head \in Nat /\ r.theirs \in Nat
    BY DEF Sound, Records
  <2> QED
    BY <2>1, <2>2
<1>3. CASE q = r /\ ~(Conflicts(r) = {} /\ ~amend /\ r.theirs # Nothing)
  BY <1>3 DEF Grown
<1>4. ASSUME Conflicts(r) = {}, NEW parents \in Seq(Nat), q = made(parents)
      PROVE  /\ Sound(q) /\ Grown(r, q)
             /\ q.work = r.work /\ q.index = r.index /\ q.stash = r.stash
             /\ q.theirs = Nothing /\ Tree(q) = r.index
             /\ q.head = Len(r.commits) + 1 /\ Len(q.commits) = Len(r.commits) + 1
  <2> DEFINE x == [parents |-> parents, tree |-> r.index]
             C == Append(r.commits, x)
  <2>1. x \in CommitRecords /\ x.tree = r.index
    <3>1. r.index \in [Paths -> Contents \cup {Unmerged}] /\ \A p \in Paths : r.index[p] # Unmerged
      BY <1>4, SoundFacts DEF Conflicts
    <3>2. r.index \in Trees
      BY <3>1 DEF Trees
    <3> QED
      BY <3>2 DEF CommitRecords
  <2>2. r.commits \in Seq(CommitRecords) /\ Len(r.commits) \in Nat /\ DOMAIN r.commits = 1..Len(r.commits)
    BY SoundFacts
  <2>3. q = [r EXCEPT !.commits = C, !.head = Len(r.commits) + 1, !.theirs = Nothing]
    BY <1>4
  <2> HIDE DEF x, made
  <2>4. /\ C \in Seq(CommitRecords) /\ Len(C) = Len(r.commits) + 1
        /\ C[Len(r.commits) + 1] = x /\ \A c \in DOMAIN r.commits : C[c] = r.commits[c]
        /\ DOMAIN C = 1..(Len(r.commits) + 1)
    BY <2>1, <2>2
  <2> HIDE DEF C
  <2>5. /\ q.commits = C /\ q.head = Len(r.commits) + 1 /\ q.theirs = Nothing
        /\ q.work = r.work /\ q.index = r.index /\ q.stash = r.stash
    BY <2>3 DEF Sound, Records
  <2>6. q \in Records
    <3>1. C \in Seq(CommitRecords) /\ Len(r.commits) + 1 \in Nat /\ Nothing \in Nat
      BY <2>2, <2>4 DEF Nothing
    <3> DEFINE S == Seq(CommitRecords)
               n == Len(r.commits) + 1
    <3>2. C \in S /\ n \in Nat /\ Nothing \in Nat /\ q = [r EXCEPT !.commits = C, !.head = n, !.theirs = Nothing]
      BY <2>3, <3>1
    <3> HIDE DEF n
    <3> QED
      BY <3>2 DEF Sound, Records
  <2>7. Sound(q)
    BY <2>2, <2>4, <2>5, <2>6 DEF Sound
  <2>8. Grown(r, q)
    BY <2>2, <2>4, <2>5 DEF Grown
  <2>9. Tree(q) = r.index
    BY <2>1, <2>4, <2>5 DEF Tree
  <2> QED
    BY <2>4, <2>5, <2>7, <2>8, <2>9
<1> QED
  BY <1>1, <1>2, <1>3, <1>4

(* Where the tree is not HEAD's, index and file are taken from it.          *)
Taken(r, q, to) ==
  \A p \in Paths :
    /\ to[p] # Tree(r)[p] => q.index[p] = to[p] /\ q.work[p] = to[p]
    /\ to[p] = Tree(r)[p] => SameIndex(r, q, p) /\ SameWork(r, q, p)

(* A safe checkout that nothing is in the way of.                           *)
LEMMA CheckedOutEffect ==
  ASSUME NEW r, Sound(r), NEW to \in Trees, NEW q \in {CheckedOut(r, to)}
  PROVE  /\ Sound(q) /\ SameBut(r, q) /\ Tree(q) = Tree(r)
         /\ Taken(r, q, to)
<1> DEFINE as(f) == [p \in Paths |-> IF to[p] # Tree(r)[p] THEN to[p] ELSE f[p]]
<1>1. r.work \in Trees /\ r.index \in [Paths -> Contents \cup {Unmerged}]
  BY SoundFacts
<1>2. as(r.work) \in Trees /\ as(r.index) \in [Paths -> Contents \cup {Unmerged}]
  BY <1>1 DEF Trees
<1>3. PICK w \in Trees, i \in [Paths -> Contents \cup {Unmerged}] : w = as(r.work) /\ i = as(r.index)
  BY <1>2
<1>4. q = Rewrite(r, i, w)
  BY <1>3 DEF CheckedOut, Rewrite
<1>5. Sound(q) /\ SameBut(r, q) /\ Tree(q) = Tree(r) /\ q.index = i /\ q.work = w
  BY <1>4, Rewritten
<1> QED
  BY <1>3, <1>5 DEF SameIndex, SameWork, Taken

(* With HEAD at its tree the checkout leaves no change that was not there;  *)
(* with HEAD where it was, what it took is staged.                          *)
LEMMA OursTaken ==
  ASSUME NEW r, NEW o, Ours(r, o), r.theirs = Nothing, NEW to, NEW q, Taken(r, q, to),
         q.theirs = Nothing, q.stash = r.stash
  PROVE  /\ Tree(q) = to => Ours(q, o)
         /\ Tree(q) = Tree(r) => Ours(q, o \cup Staged(q))
<1>1. \A p \in Paths : to[p] # Tree(r)[p] => q.index[p] = to[p] /\ q.work[p] = to[p]
  BY DEF Taken
<1>2. \A p \in Paths : to[p] = Tree(r)[p] => q.index[p] = r.index[p] /\ q.work[p] = r.work[p]
  BY DEF Taken, SameIndex, SameWork
<1>3. Staged(r) \cup Unstaged(r) \subseteq o
  BY DEF Ours
<1>4. ASSUME Tree(q) = to PROVE Staged(q) \cup Unstaged(q) \subseteq o
  BY <1>1, <1>2, <1>3, <1>4 DEF Staged, Unstaged
<1>5. ASSUME Tree(q) = Tree(r) PROVE Unstaged(q) \subseteq o
  BY <1>1, <1>2, <1>3 DEF Unstaged
<1> QED
  BY <1>4, <1>5 DEF Ours

(* A path is as it was, or its file was as one of the two commits has it.   *)
Overwrites(r, q, c) ==
  \A p \in Paths : \/ SameIndex(r, q, p) /\ SameWork(r, q, p)
                   \/ r.work[p] \in {Tree(r)[p], r.commits[c].tree[p]}

(* A safe checkout overwrites nothing else.                                 *)
LEMMA OverwritesTaken ==
  ASSUME NEW r, NEW c, NEW q, Taken(r, q, r.commits[c].tree), InTheWay(r, r.commits[c].tree) = {}
  PROVE  Overwrites(r, q, c)
BY DEF Taken, InTheWay, Overwrites

(* `checkout_branch`.                                                       *)
LEMMA CheckoutEffect ==
  ASSUME NEW r, Sound(r), NEW o, Ours(r, o), r.theirs = Nothing,
         NEW c \in DOMAIN r.commits, NEW q \in Checkout(r, c)
  PROVE  /\ Sound(q) /\ Ours(q, o) /\ Overwrites(r, q, c)
         /\ q.commits = r.commits /\ q.theirs = Nothing /\ q.stash = r.stash
<1>1. CASE q = r
  BY <1>1 DEF Overwrites, SameIndex, SameWork
<1>2. CASE InTheWay(r, r.commits[c].tree) = {} /\ q = Moved(CheckedOut(r, r.commits[c].tree), c)
  <2>1. PICK to \in Trees : to = r.commits[c].tree
    BY SoundFacts
  <2>2. PICK there : there = CheckedOut(r, to)
    OBVIOUS
  <2>3. Sound(there) /\ SameBut(r, there) /\ Tree(there) = Tree(r) /\ Taken(r, there, to)
    BY <2>2, CheckedOutEffect
  <2>4. q = Moved(there, c) /\ c \in DOMAIN there.commits
    BY <1>2, <2>1, <2>2, <2>3 DEF SameBut
  <2>5. /\ Sound(q) /\ Tree(q) = there.commits[c].tree /\ q.head = c
        /\ q.commits = there.commits /\ q.theirs = there.theirs /\ q.index = there.index
        /\ q.work = there.work /\ q.stash = there.stash
    BY <2>3, <2>4, HeadMoved
  <2>6. /\ Tree(q) = to /\ q.commits = r.commits /\ q.theirs = Nothing /\ q.stash = r.stash
        /\ Taken(r, q, to)
    BY <2>1, <2>3, <2>5 DEF SameBut, Taken, SameIndex, SameWork
  <2>7. Ours(q, o)
    BY <2>6, OursTaken
  <2>8. Overwrites(r, q, c)
    BY <1>2, <2>1, <2>6, OverwritesTaken
  <2> QED
    BY <2>5, <2>6, <2>7, <2>8
<1> QED
  BY <1>1, <1>2 DEF Checkout, Raises, Moved

(* `fast_forward`, which may die before HEAD has moved.                     *)
LEMMA FastForwardEffect ==
  ASSUME NEW r, Sound(r), NEW o, Ours(r, o), r.theirs = Nothing,
         NEW c \in DOMAIN r.commits, NEW q \in FastForward(r, c)
  PROVE  /\ Sound(q) /\ Overwrites(r, q, c)
         /\ q.commits = r.commits /\ q.theirs = Nothing /\ q.stash = r.stash
         /\ Ours(q, o) \/ (q.head = r.head /\ Ours(q, o \cup Staged(q)))
<1>1. CASE q = r
  BY <1>1 DEF Overwrites, SameIndex, SameWork
<1>2. CASE InTheWay(r, r.commits[c].tree) = {} /\ q \in {Moved(CheckedOut(r, r.commits[c].tree), c), CheckedOut(r, r.commits[c].tree)}
  <2>1. PICK to \in Trees : to = r.commits[c].tree
    BY SoundFacts
  <2>2. PICK there : there = CheckedOut(r, to)
    OBVIOUS
  <2>3. Sound(there) /\ SameBut(r, there) /\ Tree(there) = Tree(r) /\ Taken(r, there, to)
    BY <2>2, CheckedOutEffect
  <2>4. CASE q = there
    <3>1. /\ q.commits = r.commits /\ q.theirs = Nothing /\ q.stash = r.stash /\ q.head = r.head
          /\ Tree(q) = Tree(r) /\ Taken(r, q, to)
      BY <2>3, <2>4 DEF SameBut
    <3>2. Ours(q, o \cup Staged(q))
      BY <3>1, OursTaken
    <3>3. Overwrites(r, q, c)
      BY <1>2, <2>1, <3>1, OverwritesTaken
    <3> QED
      BY <2>3, <2>4, <3>1, <3>2, <3>3
  <2>5. CASE q = Moved(there, c)
    <3>1. c \in DOMAIN there.commits
      BY <2>3 DEF SameBut
    <3>2. /\ Sound(q) /\ Tree(q) = there.commits[c].tree /\ q.head = c
          /\ q.commits = there.commits /\ q.theirs = there.theirs /\ q.index = there.index
          /\ q.work = there.work /\ q.stash = there.stash
      BY <2>3, <2>5, <3>1, HeadMoved
    <3>3. /\ Tree(q) = to /\ q.commits = r.commits /\ q.theirs = Nothing /\ q.stash = r.stash
          /\ Taken(r, q, to)
      BY <2>1, <2>3, <3>2 DEF SameBut, Taken, SameIndex, SameWork
    <3>4. Ours(q, o)
      BY <3>3, OursTaken
    <3>5. Overwrites(r, q, c)
      BY <1>2, <2>1, <3>3, OverwritesTaken
    <3> QED
      BY <3>2, <3>3, <3>4, <3>5
  <2> QED
    BY <1>2, <2>1, <2>2, <2>4, <2>5
<1> QED
  BY <1>1, <1>2 DEF FastForward, Raises, Moved

(* A forced checkout of the paths of P.                                     *)
LEMMA ForcedEffect ==
  ASSUME NEW r, Sound(r), NEW to \in Trees, NEW P, NEW q, q = Forced(r, to, P)
  PROVE  /\ Sound(q) /\ SameBut(r, q) /\ Tree(q) = Tree(r)
         /\ \A p \in Paths :
              /\ p \in P => q.index[p] = to[p]
              /\ p \in P /\ (to[p] # Absent \/ r.index[p] # Absent) => q.work[p] = to[p]
              /\ p \in P /\ to[p] = Absent /\ r.index[p] = Absent => SameWork(r, q, p)
              /\ p \notin P => SameIndex(r, q, p) /\ SameWork(r, q, p)
<1> DEFINE fi == [p \in Paths |-> IF p \in P THEN to[p] ELSE r.index[p]]
           fw == [p \in Paths |->
                   IF p \in P /\ (to[p] # Absent \/ r.index[p] # Absent) THEN to[p] ELSE r.work[p]]
<1>1. r.work \in Trees /\ r.index \in [Paths -> Contents \cup {Unmerged}]
  BY SoundFacts
<1>2. fw \in Trees /\ fi \in [Paths -> Contents \cup {Unmerged}]
  BY <1>1 DEF Trees
<1>3. PICK w \in Trees, i \in [Paths -> Contents \cup {Unmerged}] : w = fw /\ i = fi
  BY <1>2
<1>4. q = Rewrite(r, i, w)
  BY <1>3 DEF Forced, Rewrite
<1>5. Sound(q) /\ SameBut(r, q) /\ Tree(q) = Tree(r) /\ q.index = i /\ q.work = w
  BY <1>4, Rewritten
<1> QED
  BY <1>3, <1>5 DEF SameIndex, SameWork

(* The kinds of a reset, and what it changes of HEAD.                       *)
Kinds == {"soft", "mixed", "hard"}
TouchesFiles(kind) == kind = "hard"
TouchesIndex(kind) == kind # "soft"
Changed(r, c) == {p \in Paths : r.commits[c].tree[p] # Tree(r)[p]}

(* `reset_to`: a soft one leaves the index, only a hard one touches files,  *)
(* of which it leaves alone those that neither the commit nor the index has.*)
LEMMA ResetToEffect ==
  ASSUME NEW r, Sound(r), NEW o, Ours(r, o), r.theirs = Nothing, NEW c \in DOMAIN r.commits,
         NEW kind \in Kinds, NEW q \in ResetTo(r, c, kind)
  PROVE  /\ Sound(q) /\ q.commits = r.commits /\ q.theirs = Nothing /\ q.stash = r.stash
         /\ TouchesFiles(kind) => Ours(q, o)
         /\ ~TouchesFiles(kind) => Ours(q, o \cup Changed(r, c))
         /\ ~TouchesFiles(kind) => q.work = r.work
         /\ ~TouchesIndex(kind) => q.index = r.index
<1> DEFINE X == Changed(r, c)
<1>0. PICK to \in Trees : to = r.commits[c].tree
  BY SoundFacts
<1>1. CASE q = r
  BY <1>1, OursMore
<1>2. ASSUME kind = "soft", q = Moved(r, c)
      PROVE  /\ Sound(q) /\ q.commits = r.commits /\ q.theirs = Nothing /\ q.stash = r.stash
             /\ q.work = r.work /\ q.index = r.index /\ Ours(q, o \cup X)
  <2>1. /\ Sound(q) /\ Tree(q) = r.commits[c].tree /\ q.head = c
        /\ q.commits = r.commits /\ q.theirs = r.theirs /\ q.index = r.index
        /\ q.work = r.work /\ q.stash = r.stash
    BY <1>2, HeadMoved
  <2>2. Staged(q) \cup Unstaged(q) \subseteq Staged(r) \cup Unstaged(r) \cup X
    BY <2>1 DEF Staged, Unstaged, Changed
  <2>3. Ours(q, o \cup X)
    BY <2>1, <2>2 DEF Ours
  <2> QED
    BY <2>1, <2>3
<1>3. ASSUME kind = "mixed", q = [r EXCEPT !.head = c, !.index = to]
      PROVE  /\ Sound(q) /\ q.commits = r.commits /\ q.theirs = Nothing /\ q.stash = r.stash
             /\ q.work = r.work /\ Ours(q, o \cup X)
  <2>1. PICK there : there = Rewrite(r, to, r.work)
    OBVIOUS
  <2>2. to \in [Paths -> Contents \cup {Unmerged}] /\ r.work \in Trees
    BY SoundFacts DEF Trees
  <2>3. Sound(there) /\ SameBut(r, there) /\ Tree(there) = Tree(r) /\ there.index = to /\ there.work = r.work
    BY <2>1, <2>2, Rewritten
  <2>4. q = Moved(there, c) /\ c \in DOMAIN there.commits
    BY <1>3, <2>1, <2>3 DEF Moved, Rewrite, SameBut, Sound, Records
  <2>5. /\ Sound(q) /\ Tree(q) = there.commits[c].tree /\ q.head = c
        /\ q.commits = there.commits /\ q.theirs = there.theirs /\ q.index = there.index
        /\ q.work = there.work /\ q.stash = there.stash
    BY <2>3, <2>4, HeadMoved
  <2>6. /\ q.commits = r.commits /\ q.theirs = Nothing /\ q.stash = r.stash
        /\ q.work = r.work /\ q.index = to /\ Tree(q) = to
    BY <1>0, <2>3, <2>5 DEF SameBut
  <2>7. Staged(q) \cup Unstaged(q) \subseteq Staged(r) \cup Unstaged(r) \cup X
    BY <1>0, <2>6 DEF Staged, Unstaged, Changed
  <2>8. Ours(q, o \cup X)
    BY <2>6, <2>7 DEF Ours
  <2> QED
    BY <2>5, <2>6, <2>8
<1>4. ASSUME kind = "hard", q = Moved(Forced(r, to, Paths), c)
      PROVE  /\ Sound(q) /\ q.commits = r.commits /\ q.theirs = Nothing /\ q.stash = r.stash
             /\ Ours(q, o)
  <2>1. PICK there : there = Forced(r, to, Paths)
    OBVIOUS
  <2>2. /\ Sound(there) /\ SameBut(r, there) /\ Tree(there) = Tree(r)
        /\ \A p \in Paths :
             /\ p \in Paths => there.index[p] = to[p]
             /\ p \in Paths /\ (to[p] # Absent \/ r.index[p] # Absent) => there.work[p] = to[p]
             /\ p \in Paths /\ to[p] = Absent /\ r.index[p] = Absent => SameWork(r, there, p)
             /\ p \notin Paths => SameIndex(r, there, p) /\ SameWork(r, there, p)
    BY <2>1, ForcedEffect
  <2>3. q = Moved(there, c) /\ c \in DOMAIN there.commits
    BY <1>4, <2>1, <2>2 DEF SameBut
  <2>4. /\ Sound(q) /\ Tree(q) = there.commits[c].tree /\ q.head = c
        /\ q.commits = there.commits /\ q.theirs = there.theirs /\ q.index = there.index
        /\ q.work = there.work /\ q.stash = there.stash
    BY <2>2, <2>3, HeadMoved
  <2>5. q.commits = r.commits /\ q.theirs = Nothing /\ q.stash = r.stash /\ Tree(q) = to
    BY <1>0, <2>2, <2>4 DEF SameBut
  <2>6. Staged(q) = {}
    BY <2>2, <2>4, <2>5 DEF Staged
  <2>7. Unstaged(q) \subseteq Unstaged(r)
    BY <2>2, <2>4 DEF Unstaged, SameWork
  <2>8. Ours(q, o)
    BY <2>5, <2>6, <2>7 DEF Ours
  <2> QED
    BY <2>4, <2>5, <2>8
<1>5. \/ q = r
      \/ kind = "soft" /\ q = Moved(r, c)
      \/ kind = "mixed" /\ q = [r EXCEPT !.head = c, !.index = to]
      \/ kind = "hard" /\ q = Moved(Forced(r, to, Paths), c)
  BY <1>0 DEF ResetTo, Raises, Moved, Kinds
<1> QED
  BY <1>1, <1>2, <1>3, <1>4, <1>5 DEF TouchesFiles, TouchesIndex

(* `abort_merge`: what the index has as HEAD does is left as it is, the     *)
(* rest is as HEAD has it.                                                  *)
LEMMA AbortMergeEffect ==
  ASSUME NEW r, Sound(r), NEW q \in AbortMerge(r)
  PROVE  /\ Sound(q) /\ q.commits = r.commits /\ q.head = r.head /\ q.theirs = Nothing
         /\ q.stash = r.stash /\ q.index = Tree(r) /\ Tree(q) = Tree(r)
         /\ \A p \in Paths : IF p \in Staged(r) THEN q.work[p] = Tree(r)[p] ELSE SameWork(r, q, p)
<1>1. PICK P, there : P = Conflicts(r) \cup Staged(r) /\ there = Forced(r, Tree(r), P)
  OBVIOUS
<1>2. Tree(r) \in Trees
  BY SoundFacts
<1>3. /\ Sound(there) /\ SameBut(r, there) /\ Tree(there) = Tree(r)
      /\ \A p \in Paths :
           /\ p \in P => there.index[p] = Tree(r)[p]
           /\ p \in P /\ (Tree(r)[p] # Absent \/ r.index[p] # Absent) => there.work[p] = Tree(r)[p]
           /\ p \in P /\ Tree(r)[p] = Absent /\ r.index[p] = Absent => SameWork(r, there, p)
           /\ p \notin P => SameIndex(r, there, p) /\ SameWork(r, there, p)
  BY <1>1, <1>2, ForcedEffect
<1>4. q = [there EXCEPT !.theirs = Nothing, !.index = Tree(r)]
  BY <1>1 DEF AbortMerge
<1>5. /\ q.commits = r.commits /\ q.head = r.head /\ q.theirs = Nothing
      /\ q.stash = r.stash /\ q.index = Tree(r) /\ q.work = there.work
  BY <1>3, <1>4 DEF SameBut, Sound, Records
<1>6. Tree(q) = Tree(r)
  BY <1>5 DEF Tree
<1>7. Sound(q)
  <2>1. PICK t \in [Paths -> Contents \cup {Unmerged}] : t = Tree(r)
    BY <1>2 DEF Trees
  <2> QED
    BY <1>3, <1>4, <2>1 DEF Sound, Records, Nothing
<1>8. P = Staged(r) /\ \A p \in Staged(r) : r.index[p] # Tree(r)[p]
  BY <1>1, ConflictsAreStaged DEF Staged
<1>9. \A p \in Paths : IF p \in Staged(r) THEN q.work[p] = Tree(r)[p] ELSE SameWork(r, q, p)
  BY <1>3, <1>5, <1>8 DEF SameWork
<1> QED
  BY <1>5, <1>6, <1>7, <1>9

(* What a file merges to.                                                   *)
LEMMA ThreeWayFacts ==
  ASSUME NEW base, NEW ours, NEW theirs
  PROVE  /\ ThreeWay(base, ours, theirs) \in {ours, theirs, Unmerged}
         /\ ours = theirs => ThreeWay(base, ours, theirs) = ours
         /\ theirs = base => ThreeWay(base, ours, theirs) = ours
         /\ ours = base => ThreeWay(base, ours, theirs) = theirs
         /\ ours # theirs /\ theirs # base /\ ours # base => ThreeWay(base, ours, theirs) = Unmerged
BY DEF ThreeWay

(* What a merge leaves in the index and in the files.                       *)
LEMMA MergedIntoEffect ==
  ASSUME NEW r, Sound(r), NEW theirs \in Trees, NEW merged \in [Paths -> Contents \cup {Unmerged}],
         NEW q, q = MergedInto(r, theirs, merged)
  PROVE  /\ Sound(q) /\ Tree(q) = Tree(r)
         /\ q.commits = r.commits /\ q.head = r.head /\ q.theirs = r.theirs /\ q.stash = r.stash
         /\ \A p \in Paths :
              /\ merged[p] = Tree(r)[p] => SameIndex(r, q, p) /\ SameWork(r, q, p)
              /\ merged[p] # Tree(r)[p] => q.index[p] = merged[p]
              /\ merged[p] # Tree(r)[p] /\ merged[p] # Unmerged => q.work[p] = merged[p]
              /\ merged[p] = Unmerged => q.other[p] = theirs[p]
<1> DEFINE changed == {p \in Paths : merged[p] # Tree(r)[p]}
           fi == [p \in Paths |-> IF p \in changed THEN merged[p] ELSE r.index[p]]
           fo == [p \in Paths |-> IF merged[p] = Unmerged THEN theirs[p] ELSE Absent]
           fw == [p \in Paths |->
                   CASE p \notin changed -> r.work[p]
                     [] p \in changed /\ merged[p] = Unmerged -> Left(Tree(r)[p], theirs[p])
                     [] p \in changed /\ merged[p] # Unmerged -> merged[p]]
<1>1. r.work \in Trees /\ r.index \in [Paths -> Contents \cup {Unmerged}] /\ Tree(r) \in Trees
  BY SoundFacts
<1>2. \A p \in Paths : Left(Tree(r)[p], theirs[p]) \in Contents
  BY <1>1, ContentFacts DEF Left, Trees
<1>3. fw \in Trees
  <2>1. \A p \in Paths : r.work[p] \in Contents /\ (merged[p] # Unmerged => merged[p] \in Contents)
    BY <1>1 DEF Trees
  <2> QED
    BY <1>2, <2>1 DEF Trees
<1>4. fi \in [Paths -> Contents \cup {Unmerged}]
  BY <1>1
<1>5. fo \in Trees
  BY ContentFacts DEF Trees
<1>6. PICK w \in Trees, i \in [Paths -> Contents \cup {Unmerged}], x \in Trees :
        w = fw /\ i = fi /\ x = fo
  BY <1>3, <1>4, <1>5
<1>7. q = [r EXCEPT !.index = i, !.other = x, !.work = w]
  BY <1>6 DEF MergedInto
<1>8. /\ q.commits = r.commits /\ q.head = r.head /\ q.theirs = r.theirs /\ q.stash = r.stash
      /\ q.index = i /\ q.other = x /\ q.work = w
  BY <1>7 DEF Sound, Records
<1>9. Sound(q)
  BY <1>7 DEF Sound, Records
<1>10. Tree(q) = Tree(r)
  BY <1>8 DEF Tree
<1>11. ASSUME NEW p \in Paths
       PROVE  /\ merged[p] = Tree(r)[p] => SameIndex(r, q, p) /\ SameWork(r, q, p)
              /\ merged[p] # Tree(r)[p] => q.index[p] = merged[p]
              /\ merged[p] # Tree(r)[p] /\ merged[p] # Unmerged => q.work[p] = merged[p]
              /\ merged[p] = Unmerged => q.other[p] = theirs[p]
  BY <1>6, <1>8 DEF SameIndex, SameWork
<1> HIDE DEF fw, fi, fo
<1> QED
  BY <1>8, <1>9, <1>10, <1>11

(* `stash_save`: nothing, or the files are as HEAD has them and what they   *)
(* held is in the stash.                                                    *)
LEMMA StashSaveEffect ==
  ASSUME NEW r, Sound(r), NEW o, Ours(r, o), NEW q \in StashSave(r)
  PROVE  /\ Sound(q) /\ q.commits = r.commits /\ q.theirs = r.theirs
         /\ Ours(q, o \cup (Staged(r) \cup Unstaged(r)))
         /\ \/ q = r
            \/ /\ Len(q.stash) = Len(r.stash) + 1
               /\ 1 \in DOMAIN q.stash /\ q.stash[1].work = r.work /\ q.stash[1].index = r.index
<1>1. CASE q = r
  BY <1>1, OursMore
<1>2. CASE /\ Conflicts(r) = {}
           /\ q = [r EXCEPT !.stash = <<[work |-> r.work, index |-> r.index, base |-> Tree(r)]>> \o @,
                            !.work = Tree(r), !.index = Tree(r)]
  <2>1. PICK e : e = [work |-> r.work, index |-> r.index, base |-> Tree(r)]
    OBVIOUS
  <2>2. r.work \in Trees /\ Tree(r) \in Trees /\ r.index \in Trees
    BY <1>2, SoundFacts DEF Conflicts, Trees
  <2>3. e \in Entries /\ e.work = r.work /\ e.index = r.index /\ e.base = Tree(r)
    BY <2>1, <2>2 DEF Entries
  <2>4. PICK S : S = <<e>> \o r.stash
    OBVIOUS
  <2>5. r.stash \in Seq(Entries)
    BY SoundFacts
  <2>6. /\ S \in Seq(Entries) /\ Len(S) = Len(r.stash) + 1 /\ 1 \in DOMAIN S /\ S[1] = e
        /\ \A i \in DOMAIN S : S[i] = e \/ \E j \in DOMAIN r.stash : S[i] = r.stash[j]
    <3>1. /\ S \in Seq(Entries) /\ Len(S) = Len(r.stash) + 1 /\ 1 \in DOMAIN S /\ S[1] = e
      BY <2>3, <2>4, <2>5
    <3>2. ASSUME NEW i \in DOMAIN S, i # 1 PROVE i - 1 \in DOMAIN r.stash /\ S[i] = r.stash[i - 1]
      BY <2>3, <2>4, <2>5, <3>1, <3>2
    <3> QED
      BY <3>1, <3>2
  <2>7. PICK t \in Trees : t = Tree(r)
    BY <2>2
  <2>8. q = [r EXCEPT !.stash = S, !.work = t, !.index = t]
    BY <1>2, <2>1, <2>4, <2>7
  <2>9. /\ q.commits = r.commits /\ q.head = r.head /\ q.theirs = r.theirs /\ q.stash = S
        /\ q.work = t /\ q.index = t
    BY <2>8 DEF Sound, Records
  <2>10. Sound(q)
    <3>1. t \in [Paths -> Contents \cup {Unmerged}]
      BY <2>7 DEF Trees
    <3> QED
      BY <2>6, <2>7, <2>8, <3>1 DEF Sound, Records
  <2>11. Staged(q) \cup Unstaged(q) = {}
    BY <2>7, <2>9 DEF Staged, Unstaged, Tree
  <2>12. Stashed(e) \subseteq Staged(r) \cup Unstaged(r)
    BY <2>3 DEF Stashed, Staged, Unstaged
  <2>13. Ours(q, o \cup (Staged(r) \cup Unstaged(r)))
    <3>1. \A i \in DOMAIN S : Stashed(S[i]) \subseteq o \cup (Staged(r) \cup Unstaged(r))
      BY <2>6, <2>12 DEF Ours
    <3> QED
      BY <2>9, <2>11, <3>1 DEF Ours
  <2> QED
    BY <2>3, <2>6, <2>9, <2>10, <2>13
<1> QED
  BY <1>1, <1>2 DEF StashSave, Raises

(* `stash_pop`: nothing, or a stash less, whose changes are in the files,   *)
(* in HEAD or in a conflict; a file it has changed was as HEAD has it.      *)
LEMMA StashPopEffect ==
  ASSUME NEW r, Sound(r), NEW o, Ours(r, o), NEW q \in StashPop(r)
  PROVE  /\ Sound(q) /\ q.commits = r.commits /\ q.theirs = r.theirs /\ Ours(q, o)
         /\ \/ q = r
            \/ /\ r.stash # <<>> /\ q.stash = Tail(r.stash)
               /\ \A p \in Paths : r.index[p] = Tree(r)[p]
               /\ \A p \in Paths : SameWork(r, q, p) \/ r.work[p] = Tree(r)[p]
               /\ \A p \in Paths : Head(r.stash).work[p] # Head(r.stash).base[p] =>
                    \/ Head(r.stash).work[p] \in {q.work[p], Tree(r)[p]}
                    \/ q.index[p] = Unmerged /\ q.other[p] = Head(r.stash).work[p]
<1>1. CASE q = r
  BY <1>1
<1>2. CASE r.stash # <<>> /\ q # r
  <2>1. PICK e : e = Head(r.stash)
    OBVIOUS
  <2>2. e \in Entries /\ e = r.stash[1] /\ 1 \in DOMAIN r.stash
    BY <1>2, <2>1, SoundFacts
  <2>3. e.work \in Trees /\ e.index \in Trees /\ e.base \in Trees /\ Tree(r) \in Trees
    BY <2>2, SoundFacts DEF Entries
  <2>4. PICK to : to = Unstashed(r, e)
    OBVIOUS
  <2>5. /\ \A p \in Paths : to[p] = ThreeWay(e.base[p], Tree(r)[p], e.work[p])
        /\ to = [p \in Paths |-> to[p]]
    BY <2>4 DEF Unstashed
  <2>6. \A p \in Paths : to[p] \in {Tree(r)[p], e.work[p], Unmerged}
    BY <2>5, ThreeWayFacts
  <2>7. to \in [Paths -> Contents \cup {Unmerged}]
    BY <2>3, <2>5, <2>6 DEF Trees
  <2>8. Staged(r) = {} /\ \A p \in Paths : to[p] # Tree(r)[p] => r.work[p] = Tree(r)[p]
    BY <1>2, <2>1, <2>4 DEF StashPop, PopRefused, Raises
  <2>9. PICK there : there = MergedInto(r, e.work, to)
    OBVIOUS
  <2>10. /\ Sound(there) /\ Tree(there) = Tree(r)
         /\ there.commits = r.commits /\ there.head = r.head
         /\ there.theirs = r.theirs /\ there.stash = r.stash
         /\ \A p \in Paths :
              /\ to[p] = Tree(r)[p] => SameIndex(r, there, p) /\ SameWork(r, there, p)
              /\ to[p] # Tree(r)[p] => there.index[p] = to[p]
              /\ to[p] # Tree(r)[p] /\ to[p] # Unmerged => there.work[p] = to[p]
              /\ to[p] = Unmerged => there.other[p] = e.work[p]
    <3>1. PICK W \in Trees : W = e.work
      BY <2>3
    <3>2. there = MergedInto(r, W, to)
      BY <2>9, <3>1
    <3>3. /\ Sound(there) /\ Tree(there) = Tree(r)
          /\ there.commits = r.commits /\ there.head = r.head
          /\ there.theirs = r.theirs /\ there.stash = r.stash
          /\ \A p \in Paths :
               /\ to[p] = Tree(r)[p] => SameIndex(r, there, p) /\ SameWork(r, there, p)
               /\ to[p] # Tree(r)[p] => there.index[p] = to[p]
               /\ to[p] # Tree(r)[p] /\ to[p] # Unmerged => there.work[p] = to[p]
               /\ to[p] = Unmerged => there.other[p] = W[p]
      BY <2>7, <3>2, MergedIntoEffect
    <3> QED
      BY <3>1, <3>3
  <2> DEFINE entry(p) ==
        CASE to[p] = Unmerged -> to[p]
          [] to[p] # Unmerged /\ e.base[p] = Absent /\ e.index[p] # Absent -> to[p]
          [] OTHER -> r.index[p]
  <2>11. q = [there EXCEPT !.stash = Tail(@), !.index = [p \in Paths |-> entry(p)]]
    BY <1>2, <2>1, <2>4, <2>9 DEF StashPop, Raises
  <2>12. /\ \A p \in Paths : entry(p) \in {to[p], r.index[p]}
         /\ \A p \in Paths : to[p] = Unmerged => entry(p) = Unmerged
    OBVIOUS
  <2>13. PICK i : i = [p \in Paths |-> entry(p)]
    OBVIOUS
  <2>14. \A p \in Paths : i[p] \in {to[p], r.index[p]} /\ (to[p] = Unmerged => i[p] = Unmerged)
    BY <2>12, <2>13
  <2>15. i \in [Paths -> Contents \cup {Unmerged}]
    <3>1. \A p \in Paths : i[p] \in Contents \cup {Unmerged}
      BY <2>7, <2>14, SoundFacts
    <3> QED
      BY <2>13, <3>1
  <2>16. q = [there EXCEPT !.stash = Tail(r.stash), !.index = i]
    BY <2>10, <2>11, <2>13
  <2> HIDE DEF entry
  <2>17. Tail(r.stash) \in Seq(Entries) /\ Len(Tail(r.stash)) = Len(r.stash) - 1
         /\ \A j \in DOMAIN Tail(r.stash) : j + 1 \in DOMAIN r.stash /\ Tail(r.stash)[j] = r.stash[j + 1]
    BY <1>2, SoundFacts
  <2>18. PICK S \in Seq(Entries) : S = Tail(r.stash)
    BY <2>17
  <2>19. /\ q.commits = r.commits /\ q.head = r.head /\ q.theirs = r.theirs /\ q.stash = S
         /\ q.index = i /\ q.work = there.work /\ q.other = there.other
    BY <2>10, <2>16, <2>18 DEF Sound, Records
  <2>20. Sound(q)
    BY <2>10, <2>15, <2>16, <2>18 DEF Sound, Records
  <2>21. Tree(q) = Tree(r)
    BY <2>19 DEF Tree
  <2> DEFINE P == {p \in Paths : to[p] # Tree(r)[p]}
  <2>22. \A p \in Paths : r.index[p] = Tree(r)[p]
    BY <2>8 DEF Staged
  <2>23. \A p \in Paths \ P : SameWork(r, q, p) /\ SameIndex(r, q, p)
    BY <2>10, <2>14, <2>19, <2>22 DEF SameWork, SameIndex
  <2>24. P \subseteq Stashed(e)
    <3>1. ASSUME NEW p \in P, e.work[p] = e.base[p] PROVE FALSE
      BY <2>5, <3>1, ThreeWayFacts
    <3> QED
      BY <3>1 DEF Stashed
  <2>25. Ours(q, o)
    <3>1. P \subseteq o
      BY <2>2, <2>24 DEF Ours
    <3>2. \A j \in DOMAIN q.stash : Stashed(q.stash[j]) \subseteq o
      BY <2>17, <2>18, <2>19 DEF Ours
    <3>3. Ours(q, o \cup P)
      BY <2>19, <2>21, <2>23, <3>2, InPlace
    <3>4. o \cup P = o
      BY <3>1
    <3> QED
      BY <3>3, <3>4
  <2>26. \A p \in Paths : SameWork(r, q, p) \/ r.work[p] = Tree(r)[p]
    BY <2>8, <2>23
  <2>27. ASSUME NEW p \in Paths, e.work[p] # e.base[p]
         PROVE  \/ e.work[p] \in {q.work[p], Tree(r)[p]}
                \/ q.index[p] = Unmerged /\ q.other[p] = e.work[p]
    <3>1. CASE e.work[p] = Tree(r)[p]
      BY <3>1
    <3>2. CASE e.work[p] # Tree(r)[p] /\ e.base[p] = Tree(r)[p]
      <4>1. to[p] = e.work[p]
        BY <2>5, <3>2, ThreeWayFacts
      <4>2. e.work[p] # Unmerged
        BY <2>3, ContentFacts DEF Trees
      <4> QED
        BY <2>10, <2>19, <3>2, <4>1, <4>2
    <3>3. CASE e.work[p] # Tree(r)[p] /\ e.base[p] # Tree(r)[p]
      <4>1. to[p] = Unmerged
        BY <2>5, <2>27, <3>3, ThreeWayFacts
      <4> QED
        BY <2>10, <2>14, <2>19, <4>1
    <3> QED
      BY <3>1, <3>2, <3>3
  <2> QED
    BY <1>2, <2>1, <2>18, <2>19, <2>20, <2>22, <2>25, <2>26, <2>27
<1>3. CASE r.stash = <<>>
  BY <1>1, <1>3 DEF StashPop, Raises
<1> QED
  BY <1>1, <1>2, <1>3

(* `merge` of what cannot be fast-forwarded: a path is as it was, or its    *)
(* file was as one of the two commits has it; when it has stopped at        *)
(* conflicts, nothing has been done yet but merging.                        *)
LEMMA MergeEffect ==
  ASSUME NEW r, Sound(r), NEW o, Ours(r, o), r.theirs = Nothing,
         NEW c \in DOMAIN r.commits, c # Nothing, NEW q \in Merge(r, c)
  PROVE  /\ Sound(q) /\ Grown(r, q) /\ Overwrites(r, q, c) /\ q.stash = r.stash
         /\ Len(q.commits) \in {Len(r.commits), Len(r.commits) + 1}
         /\ Ours(q, o \cup (IF q.head = r.head /\ q.theirs = Nothing THEN Staged(q) ELSE {}))
         /\ q.theirs # Nothing => \A p \in Paths : PlainSoFar(q, r.work, p)
<1>1. CASE q \in FastForward(r, c)
  <2>1. /\ Sound(q) /\ Overwrites(r, q, c)
        /\ q.commits = r.commits /\ q.theirs = Nothing /\ q.stash = r.stash
        /\ Ours(q, o) \/ (q.head = r.head /\ Ours(q, o \cup Staged(q)))
    BY <1>1, FastForwardEffect
  <2>2. Ours(q, o \cup (IF q.head = r.head /\ q.theirs = Nothing THEN Staged(q) ELSE {}))
    BY <2>1, OursMore
  <2> QED
    BY <2>1, <2>2 DEF Grown
<1>2. CASE q = r
  BY <1>2, OursMore DEF Grown, Overwrites, SameIndex, SameWork
<1>3. CASE q \notin FastForward(r, c) /\ q # r
  <2> DEFINE base == r.commits[MergeBase(r, c)].tree
             f == [p \in Paths |-> ThreeWay(base[p], Tree(r)[p], r.commits[c].tree[p])]
  <2>1. PICK theirs \in Trees : theirs = r.commits[c].tree
    BY SoundFacts
  <2>2. PICK merged : merged = f
    OBVIOUS
  <2>3. /\ \A p \in Paths : merged[p] \in {Tree(r)[p], theirs[p], Unmerged}
        /\ merged = [p \in Paths |-> merged[p]]
    BY <2>1, <2>2, ThreeWayFacts
  <2>4. merged \in [Paths -> Contents \cup {Unmerged}]
    BY <2>1, <2>3, SoundFacts DEF Trees
  <2>5. PICK there : there = MergedInto(r, theirs, merged)
    OBVIOUS
  <2>6. /\ Sound(there) /\ Tree(there) = Tree(r)
        /\ there.commits = r.commits /\ there.head = r.head
        /\ there.theirs = r.theirs /\ there.stash = r.stash
        /\ \A p \in Paths :
             /\ merged[p] = Tree(r)[p] => SameIndex(r, there, p) /\ SameWork(r, there, p)
             /\ merged[p] # Tree(r)[p] => there.index[p] = merged[p]
             /\ merged[p] # Tree(r)[p] /\ merged[p] # Unmerged => there.work[p] = merged[p]
             /\ merged[p] = Unmerged => there.other[p] = theirs[p]
    BY <2>4, <2>5, MergedIntoEffect
  <2>7. PICK m : m = [there EXCEPT !.theirs = c]
    OBVIOUS
  <2>8. /\ Staged(r) \cup (Unstaged(r) \ Untracked(r)) = {}
        /\ \A p \in Paths : merged[p] # Tree(r)[p] => r.work[p] \in {Tree(r)[p], merged[p]}
        /\ \/ Conflicts(m) # {} /\ q = m
           \/ Conflicts(m) = {} /\ q \in CreateCommit(m, FALSE) \cup AbortMerge(m)
    BY <1>3, <2>1, <2>2, <2>5, <2>7 DEF Merge, Raises
  <2> HIDE DEF base, f
  <2>9. /\ m.commits = r.commits /\ m.head = r.head /\ m.theirs = c /\ m.stash = r.stash
        /\ m.index = there.index /\ m.work = there.work
    BY <2>6, <2>7 DEF Sound, Records
  <2>10. Sound(m)
    <3>1. c \in Nat /\ c \in DOMAIN there.commits
      BY <2>6, SoundFacts
    <3> QED
      BY <2>6, <2>7, <3>1 DEF Sound, Records
  <2>11. Tree(m) = Tree(r)
    BY <2>9 DEF Tree
  <2>12. \A p \in Paths : r.index[p] = Tree(r)[p] /\ (r.work[p] = Tree(r)[p] \/ Tree(r)[p] = Absent)
    BY <2>8 DEF Staged, Unstaged, Untracked
  <2>13. /\ \A p \in Paths : merged[p] = Tree(r)[p] => m.index[p] = r.index[p] /\ m.work[p] = r.work[p]
         /\ \A p \in Paths : merged[p] # Tree(r)[p] => m.index[p] = merged[p]
         /\ \A p \in Paths : merged[p] # Tree(r)[p] /\ merged[p] # Unmerged => m.work[p] = merged[p]
    BY <2>6, <2>9 DEF SameIndex, SameWork
  <2>14. \A p \in Paths : merged[p] # Tree(r)[p] => r.work[p] \in {Tree(r)[p], theirs[p]}
    BY <2>3, <2>8, ConflictsAreStaged
  <2>15. Unstaged(m) \subseteq Unstaged(r) \cup Conflicts(m)
    BY <2>13 DEF Unstaged, Conflicts
  <2>16. Unstaged(r) \subseteq o
    BY DEF Ours
  <2>17. CASE q = m
    <3>1. Overwrites(r, q, c)
      BY <2>1, <2>13, <2>14, <2>17 DEF Overwrites, SameIndex, SameWork
    <3>2. Ours(q, o)
      BY <2>9, <2>15, <2>16, <2>17 DEF Ours
    <3>3. ASSUME NEW p \in Paths PROVE PlainSoFar(q, r.work, p)
      <4>1. CASE merged[p] = Tree(r)[p]
        <5>1. m.index[p] = Tree(r)[p] /\ m.work[p] = r.work[p] /\ Tree(r)[p] # Unmerged
          BY <2>12, <2>13, <4>1, ConflictsAreStaged
        <5> QED
          BY <2>11, <2>17, <5>1 DEF PlainSoFar
      <4>2. CASE merged[p] # Tree(r)[p]
        <5>1. m.index[p] = merged[p]
          BY <2>13, <4>2
        <5>2. merged[p] = Unmerged => r.work[p] = Tree(r)[p]
          BY <2>8, <4>2, ConflictsAreStaged
        <5>3. \/ r.work[p] = Tree(r)[p]
              \/ Tree(r)[p] = Absent /\ r.work[p] = m.commits[m.theirs].tree[p]
          BY <2>1, <2>9, <2>12, <2>14, <4>2
        <5> QED
          BY <2>11, <2>17, <4>2, <5>1, <5>2, <5>3 DEF PlainSoFar
      <4> QED
        BY <4>1, <4>2
    <3>4. Len(q.commits) \in {Len(r.commits), Len(r.commits) + 1} /\ Grown(r, q)
      BY <2>9, <2>17 DEF Grown
    <3> QED
      BY <2>9, <2>10, <2>17, <3>1, <3>2, <3>3, <3>4, OursMore
  <2>18. CASE Conflicts(m) = {} /\ q \in CreateCommit(m, FALSE)
    <3>1. /\ Sound(q) /\ Grown(m, q)
          /\ q.work = m.work /\ q.index = m.index /\ q.stash = m.stash
          /\ q.theirs = Nothing /\ Tree(q) = m.index
          /\ q.head = Len(m.commits) + 1 /\ Len(q.commits) = Len(m.commits) + 1
      <4>1. FALSE \in BOOLEAN /\ m.theirs # Nothing
        BY <2>9
      <4> QED
        BY <2>10, <2>18, <4>1, CreateCommitEffect
    <3>2. Overwrites(r, q, c)
      BY <2>1, <2>13, <2>14, <3>1 DEF Overwrites, SameIndex, SameWork
    <3>3. Staged(q) = {} /\ Unstaged(q) = Unstaged(m)
      BY <3>1 DEF Staged, Unstaged
    <3>4. Ours(q, o)
      <4>1. Unstaged(q) \subseteq o
        BY <2>15, <2>16, <2>18, <3>3
      <4>2. q.stash = r.stash
        BY <2>9, <3>1
      <4> QED
        BY <3>3, <4>1, <4>2 DEF Ours
    <3>5. Grown(r, q) /\ Len(q.commits) = Len(r.commits) + 1 /\ q.stash = r.stash
      BY <2>9, <3>1 DEF Grown
    <3> QED
      BY <3>1, <3>2, <3>4, <3>5, OursMore
  <2>19. CASE Conflicts(m) = {} /\ q \in AbortMerge(m)
    <3>1. /\ Sound(q) /\ q.commits = m.commits /\ q.head = m.head /\ q.theirs = Nothing
          /\ q.stash = m.stash /\ q.index = Tree(m) /\ Tree(q) = Tree(m)
          /\ \A p \in Paths : IF p \in Staged(m) THEN q.work[p] = Tree(m)[p] ELSE SameWork(m, q, p)
      BY <2>10, <2>19, AbortMergeEffect
    <3>2. ASSUME NEW p \in Paths, merged[p] = Tree(r)[p]
          PROVE  q.index[p] = r.index[p] /\ q.work[p] = r.work[p]
      <4>1. p \notin Staged(m)
        BY <2>11, <2>12, <2>13, <3>2 DEF Staged
      <4> QED
        BY <2>11, <2>12, <2>13, <3>1, <3>2, <4>1 DEF SameWork
    <3>3. ASSUME NEW p \in Paths, merged[p] # Tree(r)[p]
          PROVE  q.index[p] = Tree(r)[p] /\ q.work[p] = Tree(r)[p]
      <4>1. p \in Staged(m)
        BY <2>11, <2>13, <3>3 DEF Staged
      <4> QED
        BY <2>11, <3>1, <4>1
    <3>4. Overwrites(r, q, c)
      BY <2>1, <2>14, <3>2 DEF Overwrites, SameIndex, SameWork
    <3>5. Unstaged(q) \subseteq Unstaged(r) /\ Staged(q) = {}
      <4>1. Staged(q) = {}
        BY <3>1 DEF Staged
      <4>2. ASSUME NEW p \in Unstaged(q) PROVE p \in Unstaged(r)
        BY <3>2, <3>3 DEF Unstaged
      <4> QED
        BY <4>1, <4>2
    <3>6. q.stash = r.stash /\ q.commits = r.commits
      BY <2>9, <3>1
    <3>7. Ours(q, o)
      BY <2>16, <3>5, <3>6 DEF Ours
    <3>8. Grown(r, q) /\ Len(q.commits) = Len(r.commits)
      BY <3>6 DEF Grown
    <3> QED
      BY <3>1, <3>4, <3>6, <3>7, <3>8, OursMore
  <2> QED
    BY <2>8, <2>17, <2>18, <2>19
<1> QED
  BY <1>1, <1>2, <1>3

-------------------------------------------------------------------------------
(* The invariant, action by action; with it what each does to files, index  *)
(* entries and the stash.                                                   *)

(* What is checked out, merged or reset to is there.                        *)
LEMMA TheyAreThere ==
  ASSUME IInv, NEW c \in Tips \cup Picked
  PROVE  c \in DOMAIN s.commits /\ c # Nothing
<1>1. c \in DOMAIN Past /\ Len(Past) <= Len(s.commits)
  BY WorkTreeAssumption DEF WorkTreeAssumption, IInv, Counted
<1>2. DOMAIN Past = 1..Len(Past) /\ Len(Past) \in Nat
  BY PastIsSound
<1>3. DOMAIN s.commits = 1..Len(s.commits) /\ Len(s.commits) \in Nat
  BY SoundFacts DEF IInv
<1> QED
  BY <1>1, <1>2, <1>3 DEF Nothing

(* The invariant holds to begin with.                                       *)
LEMMA InitKeeps == Init => IInv
<1> SUFFICES ASSUME Init PROVE IInv
  OBVIOUS
<1>1. Start \in DOMAIN Past /\ Past \in Seq(CommitRecords) /\ Len(Past) \in Nat /\ DOMAIN Past = 1..Len(Past)
  BY WorkTreeAssumption, PastIsSound DEF WorkTreeAssumption
<1>2. PICK t \in Trees : t = Past[Start].tree
  <2>1. Past[Start] \in CommitRecords
    BY <1>1, InSeq
  <2> QED
    BY <2>1 DEF CommitRecords
<1>3. PICK x \in Trees : x = [p \in Paths |-> Absent]
  BY ContentFacts DEF Trees
<1>4. PICK S \in Seq(Entries) : S = <<>>
  <2>1. <<>> \in Seq(Entries)
    OBVIOUS
  <2> QED
    BY <2>1
<1>5. s = [commits |-> Past, head |-> Start, theirs |-> Nothing, index |-> t, other |-> x, work |-> t, stash |-> S]
  BY <1>2, <1>3, <1>4 DEF Init
<1>6. /\ s.commits = Past /\ s.head = Start /\ s.theirs = Nothing /\ s.index = t /\ s.work = t /\ s.stash = S
  BY <1>5
<1>7. Sound(s)
  <2>1. t \in [Paths -> Contents \cup {Unmerged}] /\ Start \in Nat /\ Nothing \in Nat
    BY <1>1, <1>2 DEF Trees, Nothing
  <2> QED
    BY <1>1, <1>5, <2>1 DEF Sound, Records
<1>8. Tree(s) = t
  BY <1>2, <1>6 DEF Tree
<1>9. Ours(s, own)
  <2>1. Staged(s) \cup Unstaged(s) = {}
    BY <1>6, <1>8 DEF Staged, Unstaged
  <2>2. DOMAIN s.stash = {}
    BY <1>4, <1>6
  <2> QED
    BY <2>1, <2>2 DEF Ours
<1>10. Counted
  <2>1. /\ MaxStash \in Nat /\ MaxWrites \in Nat /\ Len(Past) <= MaxCommits /\ MaxCommits \in Nat
        /\ Len(Writes) \in Nat
    BY WorkTreeAssumption DEF WorkTreeAssumption
  <2>2. Len(s.stash) = 0 /\ own = {} /\ meddled = FALSE /\ edits = 0 /\ writes = 0
    BY <1>4, <1>6 DEF Init
  <2>3. Len(s.stash) <= MaxStash /\ Len(Past) <= Len(s.commits) /\ Len(s.commits) <= MaxCommits
    BY <1>1, <1>6, <2>1, <2>2
  <2>4. own \subseteq Paths /\ meddled \in BOOLEAN
    BY <2>2
  <2>5. edits \in 0..Len(Writes) /\ writes \in 0..MaxWrites
    BY <2>1, <2>2
  <2> QED
    BY <2>3, <2>4, <2>5 DEF Counted
<1> QED
  BY <1>6, <1>7, <1>9, <1>10 DEF IInv, MergeIsPlain

(* What is left to show of a step that records that the user has done more  *)
(* than resolve.                                                            *)
LEMMA StepKeeps ==
  ASSUME IInv, Sound(s'), Ours(s', own'), own' \subseteq Paths,
         Len(s'.stash) <= MaxStash, Len(s.commits) <= Len(s'.commits), Len(s'.commits) <= MaxCommits,
         Recorded(FALSE), edits' \in 0..Len(Writes), writes' \in 0..MaxWrites,
         \/ s.theirs # Nothing \/ s'.theirs = Nothing
         \/ \A p \in Paths : PlainSoFar(s', s.work, p)
  PROVE  IInv'
<1>1. Counted'
  <2>1. meddled' \in BOOLEAN
    BY DEF Recorded
  <2>2. Len(Past) <= Len(s.commits) /\ Len(Past) \in Nat /\ Len(s.commits) \in Nat /\ Len(s'.commits) \in Nat
    BY SoundFacts, PastIsSound DEF IInv, Counted
  <2>3. Len(Past) <= Len(s'.commits)
    BY <2>2
  <2> QED
    BY <2>1, <2>3 DEF Counted
<1>2. MergeIsPlain'
  <2>1. CASE s'.theirs = Nothing \/ s.theirs # Nothing
    BY <2>1 DEF Recorded, MergeIsPlain
  <2>2. CASE s'.theirs # Nothing /\ s.theirs = Nothing
    <3>1. before' = s.work
      BY <2>2 DEF Recorded
    <3> QED
      BY <2>2, <3>1 DEF MergeIsPlain
  <2> QED
    BY <2>1, <2>2
<1> QED
  BY <1>1, <1>2 DEF IInv

(* The counters of one write.                                               *)
LEMMA OneWriteCounts ==
  ASSUME IInv, OneWrite
  PROVE  edits' \in 0..Len(Writes) /\ writes' \in 0..MaxWrites
<1>1. edits' = edits /\ edits \in 0..Len(Writes)
  BY DEF IInv, Counted, OneWrite
<1>2. writes \in 0..MaxWrites /\ writes < MaxWrites /\ writes' = writes + 1 /\ MaxWrites \in Nat
  BY WorkTreeAssumption DEF WorkTreeAssumption, IInv, Counted, OneWrite
<1> QED
  BY <1>1, <1>2

(* The counts of a step that changes no commit and adds nothing to the      *)
(* stash.                                                                   *)
LEMMA SameCounts ==
  ASSUME IInv, s'.commits = s.commits, s'.stash = s.stash
  PROVE  /\ Len(s'.stash) <= MaxStash /\ Len(s.commits) <= Len(s'.commits)
         /\ Len(s'.commits) <= MaxCommits /\ own \subseteq Paths
<1>1. Len(s.stash) <= MaxStash /\ Len(s.commits) <= MaxCommits /\ own \subseteq Paths /\ Len(s.commits) \in Nat
  BY SoundFacts DEF IInv, Counted
<1> QED
  BY <1>1

(* Staging: the index of the path alone.                                     *)
LEMMA StagesKeeps ==
  ASSUME IInv, NEW p \in Paths, Stages(p)
  PROVE  /\ IInv' /\ s'.commits = s.commits /\ s'.stash = s.stash
         /\ \A x \in Paths : SameWork(s, s', x)
         /\ \A x \in Paths \ {p} : SameIndex(s, s', x)
<1>1. /\ s' \in StageFile(s, p) /\ own' = own \cup {p} /\ Recorded(FALSE) /\ OneWrite
  BY DEF Stages, Does
<1>2. Sound(s) /\ Ours(s, own)
  BY DEF IInv
<1>3. /\ Sound(s') /\ Ours(s', own') /\ SameBut(s, s')
      /\ \A x \in Paths : SameWork(s, s', x)
      /\ \A x \in Paths \ {p} : SameIndex(s, s', x)
  BY <1>1, <1>2, StageFileEffect
<1>4. s'.commits = s.commits /\ s'.stash = s.stash /\ s'.theirs = s.theirs
  BY <1>3 DEF SameBut
<1>5. /\ Len(s'.stash) <= MaxStash /\ Len(s.commits) <= Len(s'.commits)
      /\ Len(s'.commits) <= MaxCommits /\ own' \subseteq Paths
  BY <1>1, <1>4, SameCounts
<1>6. edits' \in 0..Len(Writes) /\ writes' \in 0..MaxWrites
  BY <1>1, OneWriteCounts
<1>7. IInv'
  BY <1>1, <1>3, <1>4, <1>5, <1>6, StepKeeps
<1> QED
  BY <1>3, <1>4, <1>7

(* Unstaging: the index of the path alone.                                   *)
LEMMA UnstagesKeeps ==
  ASSUME IInv, NEW p \in Paths, Unstages(p)
  PROVE  /\ IInv' /\ s'.commits = s.commits /\ s'.stash = s.stash
         /\ \A x \in Paths : SameWork(s, s', x)
         /\ \A x \in Paths \ {p} : SameIndex(s, s', x)
<1>1. /\ s' \in UnstageFile(s, p) /\ own' = own \cup {p} /\ Recorded(FALSE) /\ OneWrite
  BY DEF Unstages, Does
<1>2. Sound(s) /\ Ours(s, own)
  BY DEF IInv
<1>3. /\ Sound(s') /\ Ours(s', own') /\ SameBut(s, s')
      /\ \A x \in Paths : SameWork(s, s', x)
      /\ \A x \in Paths \ {p} : SameIndex(s, s', x)
  BY <1>1, <1>2, UnstageFileEffect
<1>4. s'.commits = s.commits /\ s'.stash = s.stash /\ s'.theirs = s.theirs
  BY <1>3 DEF SameBut
<1>5. /\ Len(s'.stash) <= MaxStash /\ Len(s.commits) <= Len(s'.commits)
      /\ Len(s'.commits) <= MaxCommits /\ own' \subseteq Paths
  BY <1>1, <1>4, SameCounts
<1>6. edits' \in 0..Len(Writes) /\ writes' \in 0..MaxWrites
  BY <1>1, OneWriteCounts
<1>7. IInv'
  BY <1>1, <1>3, <1>4, <1>5, <1>6, StepKeeps
<1> QED
  BY <1>3, <1>4, <1>7

(* Discarding: the file alone.                                               *)
LEMMA DiscardsKeeps ==
  ASSUME IInv, NEW p \in Paths, Discards(p)
  PROVE  /\ IInv' /\ s'.commits = s.commits /\ s'.stash = s.stash
         /\ \A x \in Paths : SameIndex(s, s', x)
         /\ \A x \in Paths \ {p} : SameWork(s, s', x)
<1>1. /\ s' \in DiscardFile(s, p) /\ own' = own \cup {p} /\ Recorded(FALSE) /\ OneWrite
  BY DEF Discards, Does
<1>2. Sound(s) /\ Ours(s, own)
  BY DEF IInv
<1>3. /\ Sound(s') /\ Ours(s', own') /\ SameBut(s, s')
      /\ \A x \in Paths : SameIndex(s, s', x)
      /\ \A x \in Paths \ {p} : SameWork(s, s', x)
  BY <1>1, <1>2, DiscardFileEffect
<1>4. s'.commits = s.commits /\ s'.stash = s.stash /\ s'.theirs = s.theirs
  BY <1>3 DEF SameBut
<1>5. /\ Len(s'.stash) <= MaxStash /\ Len(s.commits) <= Len(s'.commits)
      /\ Len(s'.commits) <= MaxCommits /\ own' \subseteq Paths
  BY <1>1, <1>4, SameCounts
<1>6. edits' \in 0..Len(Writes) /\ writes' \in 0..MaxWrites
  BY <1>1, OneWriteCounts
<1>7. IInv'
  BY <1>1, <1>3, <1>4, <1>5, <1>6, StepKeeps
<1> QED
  BY <1>3, <1>4, <1>7

(* The user's editor: the file alone.                                       *)
LEMMA EditsKeeps ==
  ASSUME IInv, NEW p \in Paths, Edits(p)
  PROVE  /\ IInv' /\ s'.commits = s.commits /\ s'.stash = s.stash
         /\ \A x \in Paths : SameIndex(s, s', x)
         /\ \A x \in Paths \ {p} : SameWork(s, s', x)
<1>1. PICK w \in {Writes[edits + 1], Absent} : s' = [s EXCEPT !.work[p] = w]
  BY DEF Edits
<1>2. /\ edits < Len(Writes) /\ edits' = edits + 1 /\ own' = own \cup {p} /\ Recorded(FALSE)
      /\ writes' = writes
  BY DEF Edits
<1>3. edits \in 0..Len(Writes) /\ Len(Writes) \in Nat /\ Writes \in Seq(STRING) /\ writes \in 0..MaxWrites
  BY WorkTreeAssumption DEF WorkTreeAssumption, IInv, Counted
<1>4. w \in Contents
  <2>1. edits + 1 \in DOMAIN Writes
    BY <1>2, <1>3
  <2>2. Writes[edits + 1] \in Drafts
    BY <2>1 DEF Drafts, Range
  <2> QED
    BY <1>1, <2>2, ContentFacts
<1>5. Sound(s) /\ Ours(s, own) /\ s' = Edited(s, p, w)
  BY <1>1 DEF IInv, Edited
<1>6. /\ Sound(s') /\ Ours(s', own') /\ SameBut(s, s')
      /\ \A x \in Paths : SameIndex(s, s', x)
      /\ \A x \in Paths \ {p} : SameWork(s, s', x)
  <2>1. PICK v \in Contents : v = w
    BY <1>4
  <2>2. PICK q \in {Edited(s, p, v)} : q = s'
    BY <1>5, <2>1
  <2>3. /\ Sound(q) /\ Ours(q, own \cup {p}) /\ SameBut(s, q)
        /\ \A x \in Paths : SameIndex(s, q, x)
        /\ \A x \in Paths \ {p} : SameWork(s, q, x)
    BY <1>5, EditEffect
  <2> QED
    BY <1>2, <2>2, <2>3
<1>7. s'.commits = s.commits /\ s'.stash = s.stash /\ s'.theirs = s.theirs
  BY <1>6 DEF SameBut
<1>8. /\ Len(s'.stash) <= MaxStash /\ Len(s.commits) <= Len(s'.commits)
      /\ Len(s'.commits) <= MaxCommits /\ own' \subseteq Paths
  BY <1>2, <1>7, SameCounts
<1>9. edits' \in 0..Len(Writes) /\ writes' \in 0..MaxWrites
  BY <1>2, <1>3
<1>10. IInv'
  BY <1>2, <1>6, <1>7, <1>8, <1>9, StepKeeps
<1> QED
  BY <1>6, <1>7, <1>10

(* The resolution of a conflict: the path alone; that path was as HEAD has  *)
(* it before the merge, and now it is the same in the index and in the file.*)
LEMMA ResolvesKeeps ==
  ASSUME IInv, NEW p \in Paths, NEW choice \in ConflictChoices, Resolves(p, choice)
  PROVE  /\ IInv' /\ s'.commits = s.commits /\ s'.stash = s.stash
         /\ \A x \in Paths \ {p} : SameWork(s, s', x) /\ SameIndex(s, s', x)
<1>1. /\ p \in Conflicts(s) /\ s' \in ResolveConflict(s, p, choice) /\ own' = own \cup {p}
      /\ Recorded(TRUE) /\ OneWrite
  BY DEF Resolves
<1>2. Sound(s) /\ Ours(s, own)
  BY DEF IInv
<1>3. /\ Sound(s') /\ Ours(s', own') /\ SameBut(s, s')
      /\ s' = s \/ (s'.index[p] = s'.work[p] /\ s'.index[p] # Unmerged)
      /\ \A x \in Paths \ {p} : SameWork(s, s', x) /\ SameIndex(s, s', x)
  <2>1. PICK q \in ResolveConflict(s, p, choice) : q = s'
    BY <1>1
  <2>2. /\ Sound(q) /\ Ours(q, own \cup {p}) /\ SameBut(s, q)
        /\ q = s \/ (q.index[p] = q.work[p] /\ q.index[p] # Unmerged)
        /\ \A x \in Paths \ {p} : SameWork(s, q, x) /\ SameIndex(s, q, x)
    BY <1>1, <1>2, ResolveConflictEffect
  <2> QED
    BY <1>1, <2>1, <2>2
<1>4. s'.commits = s.commits /\ s'.stash = s.stash /\ s'.theirs = s.theirs /\ s'.head = s.head
  BY <1>3 DEF SameBut
<1>5. /\ Len(s'.stash) <= MaxStash /\ Len(s.commits) <= Len(s'.commits)
      /\ Len(s'.commits) <= MaxCommits /\ own' \subseteq Paths
  BY <1>1, <1>4, SameCounts
<1>6. edits' \in 0..Len(Writes) /\ writes' \in 0..MaxWrites
  BY <1>1, OneWriteCounts
<1>7. Counted'
  <2>1. meddled' \in BOOLEAN
    BY <1>1 DEF Recorded
  <2>2. Len(Past) <= Len(s'.commits)
    BY <1>4 DEF IInv, Counted
  <2> QED
    BY <1>5, <1>6, <2>1, <2>2 DEF Counted
<1>8. MergeIsPlain'
  <2> SUFFICES ASSUME s'.theirs # Nothing, ~meddled', NEW x \in Paths
               PROVE  PlainSoFar(s', before', x)
    BY DEF MergeIsPlain
  <2>1. before' = before /\ ~meddled
    BY <1>1, <1>4 DEF Recorded
  <2>2. \A y \in Paths : PlainSoFar(s, before, y)
    BY <1>4, <2>1 DEF IInv, MergeIsPlain
  <2>3. Tree(s') = Tree(s) /\ s'.commits[s'.theirs] = s.commits[s.theirs]
    BY <1>4 DEF Tree
  <2>4. CASE x # p \/ s' = s
    <3>1. s'.index[x] = s.index[x] /\ s'.work[x] = s.work[x]
      BY <1>3, <2>4 DEF SameIndex, SameWork
    <3> QED
      BY <2>1, <2>2, <2>3, <3>1 DEF PlainSoFar
  <2>5. CASE x = p /\ s' # s
    <3>1. before[p] = Tree(s)[p]
      BY <1>1, <2>2 DEF PlainSoFar, Conflicts
    <3> QED
      BY <1>3, <2>1, <2>3, <2>5, <3>1 DEF PlainSoFar
  <2> QED
    BY <2>4, <2>5
<1>9. IInv'
  BY <1>3, <1>7, <1>8 DEF IInv
<1> QED
  BY <1>3, <1>4, <1>9

(* A commit: neither files nor index.                                       *)
LEMMA CommitsKeeps ==
  ASSUME IInv, NEW amend \in BOOLEAN, Commits(amend)
  PROVE  /\ IInv' /\ Grown(s, s') /\ s'.stash = s.stash
         /\ s'.work = s.work /\ s'.index = s.index
<1>1. /\ s' \in CreateCommit(s, amend) /\ own' = own /\ Recorded(FALSE) /\ OneWrite
      /\ Len(s.commits) < MaxCommits
  BY DEF Commits, Does, Room
<1>2. Sound(s) /\ Ours(s, own)
  BY DEF IInv
<1>3. /\ Sound(s') /\ Grown(s, s')
      /\ s'.work = s.work /\ s'.index = s.index /\ s'.stash = s.stash
      /\ \/ s' = s /\ ~(Conflicts(s) = {} /\ ~amend /\ s.theirs # Nothing)
         \/ /\ Conflicts(s) = {} /\ s'.theirs = Nothing /\ Tree(s') = s.index
            /\ s'.head = Len(s.commits) + 1 /\ Len(s'.commits) = Len(s.commits) + 1
  BY <1>1, <1>2, CreateCommitEffect
<1>4. Ours(s', own')
  <2>1. CASE s' = s
    BY <1>1, <1>2, <2>1
  <2>2. CASE Conflicts(s) = {} /\ Tree(s') = s.index
    <3>1. Staged(s') = {} /\ Unstaged(s') = Unstaged(s)
      BY <1>3, <2>2 DEF Staged, Unstaged
    <3>2. Unstaged(s) \subseteq own
      BY <1>2, <2>2 DEF Ours
    <3> QED
      BY <1>1, <1>2, <1>3, <3>1, <3>2 DEF Ours
  <2> QED
    BY <1>3, <2>1, <2>2
<1>5. /\ Len(s'.stash) <= MaxStash /\ Len(s.commits) <= Len(s'.commits)
      /\ Len(s'.commits) <= MaxCommits /\ own' \subseteq Paths
  <2>1. Len(s.commits) \in Nat /\ Len(s.stash) <= MaxStash /\ own \subseteq Paths /\ MaxCommits \in Nat
    BY SoundFacts, WorkTreeAssumption DEF WorkTreeAssumption, IInv, Counted
  <2>2. Len(s'.commits) \in {Len(s.commits), Len(s.commits) + 1}
    BY <1>3
  <2>3. Len(s.commits) <= Len(s'.commits) /\ Len(s'.commits) <= MaxCommits
    BY <1>1, <2>1, <2>2
  <2> QED
    BY <1>1, <1>3, <2>1, <2>3
<1>6. edits' \in 0..Len(Writes) /\ writes' \in 0..MaxWrites
  BY <1>1, OneWriteCounts
<1>7. s.theirs # Nothing \/ s'.theirs = Nothing
  BY <1>3
<1>8. IInv'
  BY <1>1, <1>3, <1>4, <1>5, <1>6, <1>7, StepKeeps
<1> QED
  BY <1>3, <1>8

(* A checkout: a path is as it was, or its file as one of the two commits   *)
(* has it.                                                                  *)
LEMMA ChecksOutKeeps ==
  ASSUME IInv, NEW c \in Tips, ChecksOut(c)
  PROVE  /\ IInv' /\ Overwrites(s, s', c) /\ s'.commits = s.commits /\ s'.stash = s.stash
<1>1. /\ s' \in Checkout(s, c) /\ own' = own /\ Recorded(FALSE) /\ OneWrite /\ s.theirs = Nothing
  BY DEF ChecksOut, Does
<1>2. Sound(s) /\ Ours(s, own) /\ c \in DOMAIN s.commits
  BY TheyAreThere DEF IInv
<1>3. /\ Sound(s') /\ Ours(s', own') /\ Overwrites(s, s', c)
      /\ s'.commits = s.commits /\ s'.theirs = Nothing /\ s'.stash = s.stash
  BY <1>1, <1>2, CheckoutEffect
<1>4. /\ Len(s'.stash) <= MaxStash /\ Len(s.commits) <= Len(s'.commits)
      /\ Len(s'.commits) <= MaxCommits /\ own' \subseteq Paths
  BY <1>1, <1>3, SameCounts
<1>5. edits' \in 0..Len(Writes) /\ writes' \in 0..MaxWrites
  BY <1>1, OneWriteCounts
<1>6. IInv'
  BY <1>1, <1>3, <1>4, <1>5, StepKeeps
<1> QED
  BY <1>3, <1>6

(* A merge, likewise; when it stops at conflicts it is plain so far.        *)
LEMMA MergesKeeps ==
  ASSUME IInv, NEW c \in Tips, Merges(c)
  PROVE  /\ IInv' /\ Overwrites(s, s', c) /\ Grown(s, s') /\ s'.stash = s.stash
<1>1. /\ s' \in Merge(s, c) /\ Recorded(FALSE) /\ OneWrite /\ s.theirs = Nothing
      /\ Len(s.commits) < MaxCommits
      /\ own' = own \cup (IF s'.head = s.head /\ s'.theirs = Nothing THEN Staged(s') ELSE {})
  BY DEF Merges, Does, Room
<1>2. Sound(s) /\ Ours(s, own) /\ c \in DOMAIN s.commits /\ c # Nothing
  BY TheyAreThere DEF IInv
<1>3. /\ Sound(s') /\ Grown(s, s') /\ Overwrites(s, s', c) /\ s'.stash = s.stash
      /\ Len(s'.commits) \in {Len(s.commits), Len(s.commits) + 1}
      /\ Ours(s', own')
      /\ s'.theirs # Nothing => \A p \in Paths : PlainSoFar(s', s.work, p)
  <2>1. PICK q \in Merge(s, c) : q = s'
    BY <1>1
  <2>2. /\ Sound(q) /\ Grown(s, q) /\ Overwrites(s, q, c) /\ q.stash = s.stash
        /\ Len(q.commits) \in {Len(s.commits), Len(s.commits) + 1}
        /\ Ours(q, own \cup (IF q.head = s.head /\ q.theirs = Nothing THEN Staged(q) ELSE {}))
        /\ q.theirs # Nothing => \A p \in Paths : PlainSoFar(q, s.work, p)
    BY <1>1, <1>2, MergeEffect
  <2> QED
    BY <1>1, <2>1, <2>2
<1>4. /\ Len(s'.stash) <= MaxStash /\ Len(s.commits) <= Len(s'.commits)
      /\ Len(s'.commits) <= MaxCommits
  <2>1. Len(s.commits) \in Nat /\ Len(s.stash) <= MaxStash /\ MaxCommits \in Nat
    BY SoundFacts, WorkTreeAssumption DEF WorkTreeAssumption, IInv, Counted
  <2>2. Len(s.commits) <= Len(s'.commits) /\ Len(s'.commits) <= MaxCommits
    BY <1>1, <1>3, <2>1
  <2> QED
    BY <1>3, <2>1, <2>2
<1>5. own' \subseteq Paths
  <2>1. own \subseteq Paths
    BY DEF IInv, Counted
  <2> QED
    BY <1>1, <2>1 DEF Staged
<1>6. edits' \in 0..Len(Writes) /\ writes' \in 0..MaxWrites
  BY <1>1, OneWriteCounts
<1>7. IInv'
  BY <1>1, <1>3, <1>4, <1>5, <1>6, StepKeeps
<1> QED
  BY <1>3, <1>7

(* A reset: only a hard one touches files, a soft one not even the index.   *)
LEMMA ResetsKeeps ==
  ASSUME IInv, NEW c \in Picked, NEW kind \in Kinds, Resets(c, kind)
  PROVE  /\ IInv' /\ s'.commits = s.commits /\ s'.stash = s.stash
         /\ ~TouchesFiles(kind) => s'.work = s.work
         /\ ~TouchesIndex(kind) => s'.index = s.index
<1>1. /\ s' \in ResetTo(s, c, kind) /\ Recorded(FALSE) /\ OneWrite /\ s.theirs = Nothing
      /\ own' = own \cup (IF TouchesFiles(kind) THEN {} ELSE Changed(s, c))
  BY DEF Resets, Does, Differing, Changed, TouchesFiles
<1>2. Sound(s) /\ Ours(s, own) /\ c \in DOMAIN s.commits
  BY TheyAreThere DEF IInv
<1>3. /\ Sound(s') /\ s'.commits = s.commits /\ s'.theirs = Nothing /\ s'.stash = s.stash
      /\ Ours(s', own')
      /\ ~TouchesFiles(kind) => s'.work = s.work
      /\ ~TouchesIndex(kind) => s'.index = s.index
  <2>0. PICK d \in DOMAIN s.commits : d = c
    BY <1>2
  <2>1. PICK q \in ResetTo(s, d, kind) : q = s'
    BY <1>1, <2>0
  <2>2. /\ Sound(q) /\ q.commits = s.commits /\ q.theirs = Nothing /\ q.stash = s.stash
        /\ TouchesFiles(kind) => Ours(q, own)
        /\ ~TouchesFiles(kind) => Ours(q, own \cup Changed(s, d))
        /\ ~TouchesFiles(kind) => q.work = s.work
        /\ ~TouchesIndex(kind) => q.index = s.index
    <3>1. Sound(s) /\ Ours(s, own) /\ s.theirs = Nothing /\ d \in DOMAIN s.commits /\ kind \in Kinds /\ q \in ResetTo(s, d, kind)
      BY <1>1, <1>2, <2>0, <2>1
    <3> QED
      BY <3>1, ResetToEffect
  <2> QED
    BY <1>1, <2>0, <2>1, <2>2
<1>4. /\ Len(s'.stash) <= MaxStash /\ Len(s.commits) <= Len(s'.commits)
      /\ Len(s'.commits) <= MaxCommits /\ own' \subseteq Paths
  <2>1. /\ Len(s'.stash) <= MaxStash /\ Len(s.commits) <= Len(s'.commits)
        /\ Len(s'.commits) <= MaxCommits /\ own \subseteq Paths
    BY <1>3, SameCounts
  <2> QED
    BY <1>1, <2>1 DEF Changed
<1>5. edits' \in 0..Len(Writes) /\ writes' \in 0..MaxWrites
  BY <1>1, OneWriteCounts
<1>6. IInv'
  BY <1>1, <1>3, <1>4, <1>5, StepKeeps
<1> QED
  BY <1>3, <1>6

(* The abort of a merge: what the index has as HEAD does is left, the rest  *)
(* is as HEAD has it.                                                       *)
LEMMA AbortsKeeps ==
  ASSUME IInv, Aborts
  PROVE  /\ IInv' /\ s'.commits = s.commits /\ s'.stash = s.stash
         /\ \A p \in Paths : IF p \in Staged(s) THEN s'.work[p] = Tree(s)[p] ELSE SameWork(s, s', p)
<1>1. /\ s' \in AbortMerge(s) /\ own' = own /\ Recorded(FALSE) /\ OneWrite
  BY DEF Aborts, Does
<1>2. Sound(s) /\ Ours(s, own)
  BY DEF IInv
<1>3. /\ Sound(s') /\ s'.commits = s.commits /\ s'.head = s.head /\ s'.theirs = Nothing
      /\ s'.stash = s.stash /\ s'.index = Tree(s) /\ Tree(s') = Tree(s)
      /\ \A p \in Paths : IF p \in Staged(s) THEN s'.work[p] = Tree(s)[p] ELSE SameWork(s, s', p)
  BY <1>1, <1>2, AbortMergeEffect
<1>4. Ours(s', own')
  <2>1. Staged(s') = {}
    BY <1>3 DEF Staged
  <2>2. ASSUME NEW p \in Unstaged(s') PROVE p \in own
    <3>1. p \in Paths /\ s'.work[p] # Tree(s)[p]
      BY <1>3 DEF Unstaged
    <3>2. p \notin Staged(s) /\ s'.work[p] = s.work[p]
      BY <1>3, <3>1 DEF SameWork
    <3>3. p \in Unstaged(s) /\ p \notin Conflicts(s)
      BY <1>2, <3>1, <3>2, ConflictsAreStaged DEF Staged, Unstaged
    <3> QED
      BY <1>2, <3>3 DEF Ours
  <2> QED
    BY <1>1, <1>2, <1>3, <2>1, <2>2 DEF Ours
<1>5. /\ Len(s'.stash) <= MaxStash /\ Len(s.commits) <= Len(s'.commits)
      /\ Len(s'.commits) <= MaxCommits /\ own' \subseteq Paths
  BY <1>1, <1>3, SameCounts
<1>6. edits' \in 0..Len(Writes) /\ writes' \in 0..MaxWrites
  BY <1>1, OneWriteCounts
<1>7. IInv'
  BY <1>1, <1>3, <1>4, <1>5, <1>6, StepKeeps
<1> QED
  BY <1>3, <1>7

(* `stash_save`: what the files and the index held is in the stash.         *)
LEMMA StashesKeeps ==
  ASSUME IInv, Stashes
  PROVE  /\ IInv' /\ s'.commits = s.commits
         /\ \/ s' = s
            \/ /\ Len(s'.stash) = Len(s.stash) + 1
               /\ 1 \in DOMAIN s'.stash /\ s'.stash[1].work = s.work /\ s'.stash[1].index = s.index
<1>1. /\ s' \in StashSave(s) /\ own' = own \cup (Staged(s) \cup Unstaged(s)) /\ Recorded(FALSE) /\ OneWrite
      /\ Len(s.stash) < MaxStash
  BY DEF Stashes, Does
<1>2. Sound(s) /\ Ours(s, own)
  BY DEF IInv
<1>3. /\ Sound(s') /\ s'.commits = s.commits /\ s'.theirs = s.theirs
      /\ Ours(s', own')
      /\ \/ s' = s
         \/ /\ Len(s'.stash) = Len(s.stash) + 1
            /\ 1 \in DOMAIN s'.stash /\ s'.stash[1].work = s.work /\ s'.stash[1].index = s.index
  <2>1. PICK q \in StashSave(s) : q = s'
    BY <1>1
  <2>2. /\ Sound(q) /\ q.commits = s.commits /\ q.theirs = s.theirs
        /\ Ours(q, own \cup (Staged(s) \cup Unstaged(s)))
        /\ \/ q = s
           \/ /\ Len(q.stash) = Len(s.stash) + 1
              /\ 1 \in DOMAIN q.stash /\ q.stash[1].work = s.work /\ q.stash[1].index = s.index
    BY <1>2, StashSaveEffect
  <2> QED
    BY <1>1, <2>1, <2>2
<1>4. /\ Len(s'.stash) <= MaxStash /\ Len(s.commits) <= Len(s'.commits)
      /\ Len(s'.commits) <= MaxCommits
  <2>1. Len(s.commits) \in Nat /\ Len(s.stash) \in Nat /\ Len(s.commits) <= MaxCommits /\ MaxStash \in Nat
    BY SoundFacts, WorkTreeAssumption DEF WorkTreeAssumption, IInv, Counted
  <2> QED
    BY <1>1, <1>3, <2>1
<1>5. own' \subseteq Paths
  BY <1>1 DEF IInv, Counted, Staged, Unstaged
<1>6. edits' \in 0..Len(Writes) /\ writes' \in 0..MaxWrites
  BY <1>1, OneWriteCounts
<1>7. s.theirs # Nothing \/ s'.theirs = Nothing
  BY <1>3
<1>8. IInv'
  BY <1>1, <1>3, <1>4, <1>5, <1>6, <1>7, StepKeeps
<1> QED
  BY <1>3, <1>8

(* `stash_pop`: a file it changes was as HEAD has it, and the index was so  *)
(* everywhere; what the stash had changed is in the files, in HEAD or in a  *)
(* conflict.                                                                *)
LEMMA PopsKeeps ==
  ASSUME IInv, Pops
  PROVE  /\ IInv' /\ s'.commits = s.commits
         /\ \/ s' = s
            \/ /\ s.stash # <<>>
               /\ \A p \in Paths : s.index[p] = Tree(s)[p]
               /\ \A p \in Paths : SameWork(s, s', p) \/ s.work[p] = Tree(s)[p]
               /\ \A p \in Paths : Head(s.stash).work[p] # Head(s.stash).base[p] =>
                    \/ Head(s.stash).work[p] \in {s'.work[p], Tree(s)[p]}
                    \/ s'.index[p] = Unmerged /\ s'.other[p] = Head(s.stash).work[p]
<1>1. s' \in StashPop(s) /\ own' = own /\ Recorded(FALSE) /\ OneWrite
  BY DEF Pops, Does
<1>2. Sound(s) /\ Ours(s, own)
  BY DEF IInv
<1>3. /\ Sound(s') /\ s'.commits = s.commits /\ s'.theirs = s.theirs /\ Ours(s', own)
      /\ \/ s' = s
         \/ /\ s.stash # <<>> /\ s'.stash = Tail(s.stash)
            /\ \A p \in Paths : s.index[p] = Tree(s)[p]
            /\ \A p \in Paths : SameWork(s, s', p) \/ s.work[p] = Tree(s)[p]
            /\ \A p \in Paths : Head(s.stash).work[p] # Head(s.stash).base[p] =>
                 \/ Head(s.stash).work[p] \in {s'.work[p], Tree(s)[p]}
                 \/ s'.index[p] = Unmerged /\ s'.other[p] = Head(s.stash).work[p]
  BY <1>1, <1>2, StashPopEffect
<1>4. /\ Len(s'.stash) <= MaxStash /\ Len(s.commits) <= Len(s'.commits)
      /\ Len(s'.commits) <= MaxCommits
  <2>1. /\ Len(s.commits) \in Nat /\ Len(s.stash) \in Nat /\ Len(s.stash) <= MaxStash
        /\ Len(s.commits) <= MaxCommits /\ MaxStash \in Nat /\ s.stash \in Seq(Entries)
    BY SoundFacts, WorkTreeAssumption DEF WorkTreeAssumption, IInv, Counted
  <2>2. s.stash # <<>> => Len(Tail(s.stash)) = Len(s.stash) - 1
    BY <2>1
  <2>3. Len(s'.stash) \in {Len(s.stash), Len(s.stash) - 1}
    BY <1>3, <2>2
  <2>4. Len(s'.stash) <= MaxStash
    BY <2>1, <2>3
  <2> QED
    BY <1>3, <2>1, <2>4
<1>5. own' \subseteq Paths
  BY <1>1 DEF IInv, Counted
<1>6. edits' \in 0..Len(Writes) /\ writes' \in 0..MaxWrites
  BY <1>1, OneWriteCounts
<1>7. s.theirs # Nothing \/ s'.theirs = Nothing
  BY <1>3
<1>8. IInv'
  BY <1>1, <1>3, <1>4, <1>5, <1>6, <1>7, StepKeeps
<1> QED
  BY <1>3, <1>8

-------------------------------------------------------------------------------
(* Every step keeps it.                                                     *)
LEMMA NextKeeps == IInv /\ [Next]_vars => IInv'
<1> SUFFICES ASSUME IInv, [Next]_vars PROVE IInv'
  OBVIOUS
<1>1. ASSUME NEW p \in Paths, Edits(p) PROVE IInv'
  BY <1>1, EditsKeeps
<1>2. ASSUME NEW p \in Paths, Stages(p) PROVE IInv'
  BY <1>2, StagesKeeps
<1>3. ASSUME NEW p \in Paths, Unstages(p) PROVE IInv'
  BY <1>3, UnstagesKeeps
<1>4. ASSUME NEW p \in Paths, Discards(p) PROVE IInv'
  BY <1>4, DiscardsKeeps
<1>5. ASSUME NEW p \in Paths, NEW choice \in ConflictChoices, Resolves(p, choice) PROVE IInv'
  BY <1>5, ResolvesKeeps
<1>6. ASSUME NEW amend \in BOOLEAN, Commits(amend) PROVE IInv'
  BY <1>6, CommitsKeeps
<1>7. ASSUME NEW c \in Tips, ChecksOut(c) PROVE IInv'
  BY <1>7, ChecksOutKeeps
<1>8. ASSUME NEW c \in Tips, Merges(c) PROVE IInv'
  BY <1>8, MergesKeeps
<1>9. ASSUME NEW c \in Picked, NEW kind \in {"soft", "mixed", "hard"}, Resets(c, kind) PROVE IInv'
  BY <1>9, ResetsKeeps DEF Kinds
<1>10. CASE Aborts
  BY <1>10, AbortsKeeps
<1>11. CASE Stashes
  BY <1>11, StashesKeeps
<1>12. CASE Pops
  BY <1>12, PopsKeeps
<1>13. CASE UNCHANGED vars
  BY <1>13 DEF vars, IInv, Sound, Ours, Counted, MergeIsPlain
<1> QED
  BY <1>1, <1>2, <1>3, <1>4, <1>5, <1>6, <1>7, <1>8, <1>9, <1>10, <1>11, <1>12, <1>13 DEF Next

(* The inductive invariant holds.                                           *)
THEOREM WorkTreeInvariant == Spec => []IInv
<1>1. Init => IInv
  BY InitKeeps
<1>2. IInv /\ [Next]_vars => IInv'
  BY NextKeeps
<1> QED
  BY <1>1, <1>2, PTL DEF Spec

(* Every variable has its type: a file always holds a content, never a      *)
(* conflict, HEAD and MERGE_HEAD are commits there are.                     *)
THEOREM TypeCorrect == Spec => []TypeOK
<1>1. IInv => TypeOK
  <2> SUFFICES ASSUME IInv PROVE TypeOK
    OBVIOUS
  <2>1. /\ s.head \in DOMAIN s.commits /\ s.theirs \in DOMAIN s.commits \cup {Nothing}
        /\ s.work \in [Paths -> Contents] /\ s.index \in [Paths -> Contents \cup {Unmerged}]
        /\ s.other \in [Paths -> Contents]
    BY SoundFacts DEF IInv, Trees
  <2>2. /\ Len(s.stash) \in Nat /\ Len(s.stash) <= MaxStash /\ MaxStash \in Nat
        /\ Len(s.commits) \in Nat /\ Len(Past) \in Nat /\ MaxCommits \in Nat
        /\ Len(Past) <= Len(s.commits) /\ Len(s.commits) <= MaxCommits
    BY SoundFacts, PastIsSound, WorkTreeAssumption DEF WorkTreeAssumption, IInv, Counted
  <2>3. Len(s.stash) \in 0..MaxStash /\ Len(s.commits) \in Len(Past)..MaxCommits
    BY <2>2
  <2>4. own \subseteq Paths /\ meddled \in BOOLEAN /\ edits \in 0..Len(Writes) /\ writes \in 0..MaxWrites
    BY DEF IInv, Counted
  <2> QED
    BY <2>1, <2>3, <2>4 DEF TypeOK
<1> QED
  BY <1>1, WorkTreeInvariant, PTL

(* No operation leaves a change in the index or in the files of a path that *)
(* the user has not changed or asked to have changed: not a checkout over   *)
(* local changes, a merge taken back, a reset, nor a stash of an older HEAD.*)
THEOREM ChangesAreOwn == Spec => []OnlyOwnChanges
<1>1. IInv => OnlyOwnChanges
  BY DEF IInv, Ours, OnlyOwnChanges
<1> QED
  BY <1>1, WorkTreeInvariant, PTL

(* What an unchanged file, or one that was as a commit has it, held can be  *)
(* had back; so for an index entry.                                         *)
LEMMA StillThere ==
  ASSUME NEW r, NEW q, NEW p
  PROVE  /\ SameWork(r, q, p) => Recoverable(q, p, r.work[p])
         /\ SameIndex(r, q, p) => Recoverable(q, p, r.index[p])
         /\ \A c \in DOMAIN r.commits : \A d :
              Grown(r, q) /\ d = r.commits[c].tree[p] => Recoverable(q, p, d)
<1>1. ASSUME NEW c \in DOMAIN r.commits, NEW d, Grown(r, q), d = r.commits[c].tree[p]
      PROVE  Recoverable(q, p, d)
  <2>1. c \in DOMAIN q.commits /\ q.commits[c].tree[p] = d
    BY <1>1 DEF Grown
  <2> QED
    BY <2>1 DEF Recoverable
<1>2. SameWork(r, q, p) => Recoverable(q, p, r.work[p])
  BY DEF SameWork, Recoverable
<1>3. SameIndex(r, q, p) => Recoverable(q, p, r.index[p])
  BY DEF SameIndex, Recoverable
<1> QED
  BY <1>1, <1>2, <1>3

(* What the user wrote into a file is not lost but by an operation whose    *)
(* name says so on that file: a checkout, a fast-forward, a merge, one that *)
(* is taken back, a stash or a reset that is not hard leave it somewhere.   *)
THEOREM WorkIsKept == Spec => WorkKept
<1>1. ASSUME IInv, [Next]_vars, NEW p \in Paths, s.work[p] \in Drafts, ~Recoverable(s', p, s.work[p])
      PROVE  \/ Edits(p) \/ Discards(p) \/ \E choice \in ConflictChoices : Resolves(p, choice)
             \/ \E c \in Picked : Resets(c, "hard")
             \/ Aborts /\ s.index[p] # Tree(s)[p]
  <2>1. ~SameWork(s, s', p)
    BY <1>1, StillThere
  <2>2. \A c \in DOMAIN s.commits : ~(Grown(s, s') /\ s.work[p] = s.commits[c].tree[p])
    BY <1>1, StillThere
  <2>3. s'.work # s.work
    BY <2>1 DEF SameWork
  <2>4. Grown(s, s') => s.work[p] # Tree(s)[p]
    BY <1>1, <2>2, SoundFacts DEF IInv
  <2>5. s'.commits = s.commits => Grown(s, s')
    BY DEF Grown
  <2>6. ASSUME NEW x \in Paths, Edits(x) \/ Discards(x) PROVE Edits(p) \/ Discards(p)
    BY <1>1, <2>1, <2>6, EditsKeeps, DiscardsKeeps
  <2>7. ASSUME NEW x \in Paths, Stages(x) \/ Unstages(x) PROVE FALSE
    BY <1>1, <2>1, <2>7, StagesKeeps, UnstagesKeeps
  <2>8. ASSUME NEW x \in Paths, NEW choice \in ConflictChoices, Resolves(x, choice)
        PROVE  Resolves(p, choice)
    BY <1>1, <2>1, <2>8, ResolvesKeeps
  <2>9. ASSUME NEW amend \in BOOLEAN, Commits(amend) PROVE FALSE
    BY <1>1, <2>3, <2>9, CommitsKeeps
  <2>10. ASSUME NEW c \in Tips, ChecksOut(c) \/ Merges(c) PROVE FALSE
    <3>1. Overwrites(s, s', c) /\ Grown(s, s') /\ c \in DOMAIN s.commits
      BY <1>1, <2>5, <2>10, ChecksOutKeeps, MergesKeeps, TheyAreThere
    <3>2. s.work[p] \in {Tree(s)[p], s.commits[c].tree[p]}
      BY <2>1, <3>1 DEF Overwrites
    <3> QED
      BY <2>2, <2>4, <3>1, <3>2
  <2>11. ASSUME NEW c \in Picked, NEW kind \in Kinds, Resets(c, kind)
         PROVE  Resets(c, "hard")
    <3>1. TouchesFiles(kind)
      BY <1>1, <2>3, <2>11, ResetsKeeps
    <3> QED
      BY <2>11, <3>1 DEF TouchesFiles
  <2>12. CASE Aborts
    <3>1. p \in Staged(s)
      BY <1>1, <2>1, <2>12, AbortsKeeps
    <3> QED
      BY <2>12, <3>1 DEF Staged
  <2>13. CASE Stashes
    <3>1. 1 \in DOMAIN s'.stash /\ s'.stash[1].work = s.work
      BY <1>1, <2>3, <2>13, StashesKeeps
    <3>2. Recoverable(s', p, s.work[p])
      BY <3>1 DEF Recoverable
    <3> QED
      BY <1>1, <3>2
  <2>14. CASE Pops
    <3>1. s.work[p] = Tree(s)[p] /\ s'.commits = s.commits
      BY <1>1, <2>1, <2>3, <2>14, PopsKeeps
    <3> QED
      BY <2>4, <2>5, <3>1
  <2>15. CASE UNCHANGED vars
    BY <2>3, <2>15 DEF vars
  <2> QED
    BY <1>1, <2>6, <2>7, <2>8, <2>9, <2>10, <2>11, <2>12, <2>13, <2>14, <2>15 DEF Next, Kinds
<1>2. IInv /\ [Next]_vars =>
        [\A p \in Paths :
           /\ s.work[p] \in Drafts
           /\ ~Recoverable(s', p, s.work[p])
           => \/ Edits(p) \/ Discards(p) \/ \E choice \in ConflictChoices : Resolves(p, choice)
              \/ \E c \in Picked : Resets(c, "hard")
              \/ Aborts /\ s.index[p] # Tree(s)[p]]_vars
  BY <1>1
<1> QED
  BY <1>2, WorkTreeInvariant, PTL DEF Spec, WorkKept

(* What the user staged outlives everything but what is about the index of  *)
(* that path, or a checkout or a merge over a file that was as one of the   *)
(* two commits has it.                                                      *)
THEOREM StagedIsKept == Spec => StagedKept
<1>1. ASSUME IInv, [Next]_vars, NEW p \in Paths,
             s.index[p] \in Drafts, s.work[p] # Absent, ~Recoverable(s', p, s.index[p])
      PROVE  \/ Stages(p) \/ Unstages(p) \/ \E choice \in ConflictChoices : Resolves(p, choice)
             \/ \E c \in Picked, kind \in {"mixed", "hard"} : Resets(c, kind)
             \/ \E c \in Tips : /\ ChecksOut(c) \/ Merges(c)
                                /\ s.work[p] \in {Tree(s)[p], s.commits[c].tree[p]}
             \/ Aborts
  <2>1. ~SameIndex(s, s', p)
    BY <1>1, StillThere
  <2>2. s'.index # s.index
    BY <2>1 DEF SameIndex
  <2>3. Grown(s, s') => s.index[p] # Tree(s)[p]
    <3>1. \A c \in DOMAIN s.commits : ~(Grown(s, s') /\ s.index[p] = s.commits[c].tree[p])
      BY <1>1, StillThere
    <3> QED
      BY <1>1, <3>1, SoundFacts DEF IInv
  <2>4. s'.commits = s.commits => Grown(s, s')
    BY DEF Grown
  <2>5. ASSUME NEW x \in Paths, Stages(x) \/ Unstages(x) PROVE Stages(p) \/ Unstages(p)
    BY <1>1, <2>1, <2>5, StagesKeeps, UnstagesKeeps
  <2>6. ASSUME NEW x \in Paths, Edits(x) \/ Discards(x) PROVE FALSE
    BY <1>1, <2>1, <2>6, EditsKeeps, DiscardsKeeps
  <2>7. ASSUME NEW x \in Paths, NEW choice \in ConflictChoices, Resolves(x, choice)
        PROVE  Resolves(p, choice)
    BY <1>1, <2>1, <2>7, ResolvesKeeps
  <2>8. ASSUME NEW amend \in BOOLEAN, Commits(amend) PROVE FALSE
    BY <1>1, <2>2, <2>8, CommitsKeeps
  <2>9. ASSUME NEW c \in Tips, ChecksOut(c) \/ Merges(c)
        PROVE  s.work[p] \in {Tree(s)[p], s.commits[c].tree[p]}
    <3>1. Overwrites(s, s', c)
      BY <1>1, <2>9, ChecksOutKeeps, MergesKeeps
    <3> QED
      BY <2>1, <3>1 DEF Overwrites
  <2>10. ASSUME NEW c \in Picked, NEW kind \in Kinds, Resets(c, kind) PROVE kind \in {"mixed", "hard"}
    <3>1. TouchesIndex(kind)
      BY <1>1, <2>2, <2>10, ResetsKeeps
    <3> QED
      BY <2>10, <3>1 DEF TouchesIndex, Kinds
  <2>11. CASE Stashes
    <3>1. 1 \in DOMAIN s'.stash /\ s'.stash[1].index = s.index
      BY <1>1, <2>2, <2>11, StashesKeeps
    <3>2. Recoverable(s', p, s.index[p])
      BY <3>1 DEF Recoverable
    <3> QED
      BY <1>1, <3>2
  <2>12. CASE Pops
    BY <1>1, <2>2, <2>3, <2>4, <2>12, PopsKeeps
  <2>13. CASE UNCHANGED vars
    BY <2>2, <2>13 DEF vars
  <2> QED
    BY <1>1, <2>5, <2>6, <2>7, <2>8, <2>9, <2>10, <2>11, <2>12, <2>13 DEF Next, Kinds
<1>2. IInv /\ [Next]_vars =>
        [\A p \in Paths :
           /\ s.index[p] \in Drafts /\ s.work[p] # Absent
           /\ ~Recoverable(s', p, s.index[p])
           => \/ Stages(p) \/ Unstages(p) \/ \E choice \in ConflictChoices : Resolves(p, choice)
              \/ \E c \in Picked, kind \in {"mixed", "hard"} : Resets(c, kind)
              \/ \E c \in Tips : /\ ChecksOut(c) \/ Merges(c)
                                 /\ s.work[p] \in {Tree(s)[p], s.commits[c].tree[p]}
              \/ Aborts]_vars
  BY <1>1
<1> QED
  BY <1>2, WorkTreeInvariant, PTL DEF Spec, StagedKept

(* A stash goes only when what it held of the user's is in the files, in    *)
(* HEAD or in a conflict; or was staged, and written over before the stash. *)
THEOREM StashIsKept == Spec => StashKept
<1>1. ASSUME IInv, [Next]_vars, Len(s'.stash) < Len(s.stash) PROVE Pops /\ s' # s
  <2>1. Len(s.stash) \in Nat
    BY SoundFacts DEF IInv
  <2>2. s'.stash # s.stash /\ ~(Len(s'.stash) = Len(s.stash) + 1)
    BY <1>1, <2>1
  <2>3. ASSUME NEW p \in Paths, Edits(p) \/ Stages(p) \/ Unstages(p) \/ Discards(p) PROVE FALSE
    BY <1>1, <2>2, <2>3, EditsKeeps, StagesKeeps, UnstagesKeeps, DiscardsKeeps
  <2>4. ASSUME NEW p \in Paths, NEW choice \in ConflictChoices, Resolves(p, choice) PROVE FALSE
    BY <1>1, <2>2, <2>4, ResolvesKeeps
  <2>5. ASSUME NEW amend \in BOOLEAN, Commits(amend) PROVE FALSE
    BY <1>1, <2>2, <2>5, CommitsKeeps
  <2>6. ASSUME NEW c \in Tips, ChecksOut(c) \/ Merges(c) PROVE FALSE
    BY <1>1, <2>2, <2>6, ChecksOutKeeps, MergesKeeps
  <2>7. ASSUME NEW c \in Picked, NEW kind \in Kinds, Resets(c, kind) PROVE FALSE
    BY <1>1, <2>2, <2>7, ResetsKeeps
  <2>8. CASE Aborts
    BY <1>1, <2>2, <2>8, AbortsKeeps
  <2>9. CASE Stashes
    BY <1>1, <2>2, <2>9, StashesKeeps
  <2>10. CASE UNCHANGED vars
    BY <2>2, <2>10 DEF vars
  <2> QED
    BY <1>1, <2>2, <2>3, <2>4, <2>5, <2>6, <2>7, <2>8, <2>9, <2>10 DEF Next, Kinds
<1>2. IInv /\ [Next]_vars =>
        [Len(s'.stash) < Len(s.stash) =>
           LET e == Head(s.stash) IN
           \A p \in Paths : \A d \in Held(e, p) : Back(p, d) \/ StagedOver(e, p, d)]_vars
  <2> SUFFICES ASSUME IInv, [Next]_vars, Len(s'.stash) < Len(s.stash),
                      NEW p \in Paths, NEW d \in Held(Head(s.stash), p),
                      ~StagedOver(Head(s.stash), p, d)
               PROVE  Back(p, d)
    OBVIOUS
  <2>1. d = Head(s.stash).work[p] /\ d # Head(s.stash).base[p]
    BY DEF Held, StagedOver
  <2>2. \/ Head(s.stash).work[p] \in {s'.work[p], Tree(s)[p]}
        \/ s'.index[p] = Unmerged /\ s'.other[p] = Head(s.stash).work[p]
    BY <1>1, <2>1, PopsKeeps
  <2> QED
    BY <2>1, <2>2 DEF Back
<1> QED
  BY <1>2, WorkTreeInvariant, PTL DEF Spec, StashKept

(* Aborting a merge in which nothing but conflicts was resolved gives every *)
(* file back as it was when the merge was started, and takes the merge's new*)
(* files away.                                                              *)
THEOREM AbortGivesBack == Spec => AbortRestores
<1>1. IInv /\ [Next]_vars =>
        [Aborts /\ ~meddled =>
           \A p \in Paths :
             \/ s'.work[p] = before[p]
             \/ Tree(s)[p] = Absent /\ before[p] = s.commits[s.theirs].tree[p]]_vars
  <2> SUFFICES ASSUME IInv, Aborts, ~meddled, NEW p \in Paths
               PROVE  \/ s'.work[p] = before[p]
                      \/ Tree(s)[p] = Absent /\ before[p] = s.commits[s.theirs].tree[p]
    OBVIOUS
  <2>1. PlainSoFar(s, before, p)
    BY DEF IInv, MergeIsPlain, Aborts
  <2>2. IF p \in Staged(s) THEN s'.work[p] = Tree(s)[p] ELSE SameWork(s, s', p)
    BY AbortsKeeps
  <2>3. CASE p \in Staged(s)
    BY <2>1, <2>2, <2>3 DEF PlainSoFar, Staged
  <2>4. CASE p \notin Staged(s)
    BY <2>1, <2>2, <2>4 DEF PlainSoFar, Staged, SameWork
  <2> QED
    BY <2>3, <2>4
<1> QED
  BY <1>1, WorkTreeInvariant, PTL DEF Spec, AbortRestores
===============================================================================
