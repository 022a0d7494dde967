---------------------------- MODULE HistoryProofs ----------------------------
(***************************************************************************)
(* Proofs about History, for every instance of its constants: that no       *)
(* reference and no list of the repository ever dangles, that nothing but   *)
(* its conclusion moves HEAD under a merge, that a pull brings a branch's   *)
(* upstream to that branch alone, that the window shows the truth once the  *)
(* writes are done and reported, that skipping leaves out the commit the    *)
(* user was asked about, and that a rebase loses none.                      *)
(*                                                                         *)
(* The first part is about the operations of the Sequencer: whatever is     *)
(* done to a repository, what each operation may do to HEAD, to the         *)
(* branches and to the operation under way, and that a rebase brings over   *)
(* the changes of every commit it set out to copy.  The second, from        *)
(* `JobKinds`, is about the window, its jobs and dialogs.                   *)
(***************************************************************************)
EXTENDS History, FiniteSetTheorems, TLAPS

-------------------------------------------------------------------------------
(* The commits of a finite set, in order.                                   *)

(* The number of smaller elements tells the elements of a finite set apart. *)
LEMMA RanksDiffer ==
  ASSUME NEW C \in SUBSET Nat, IsFiniteSet(C)
  PROVE  LET below(c) == {d \in C : d < c}
         IN  /\ Cardinality(C) \in Nat
             /\ \A c \in C : Cardinality(below(c)) \in 0..(Cardinality(C) - 1)
             /\ \A a, b \in C : Cardinality(below(a)) = Cardinality(below(b)) => a = b
<1> DEFINE below(c) == {d \in C : d < c}
           n == Cardinality(C)
<1>1. n \in Nat
  BY FS_CardinalityType
<1>2. ASSUME NEW c \in C
      PROVE  IsFiniteSet(below(c)) /\ Cardinality(below(c)) \in 0..(n - 1)
  <2>1. below(c) \in SUBSET C /\ below(c) # C
    OBVIOUS
  <2>2. /\ IsFiniteSet(below(c)) /\ Cardinality(below(c)) <= n
        /\ n = Cardinality(below(c)) => C = below(c)
    BY <2>1, FS_Subset
  <2>3. Cardinality(below(c)) \in Nat
    BY <2>2, FS_CardinalityType
  <2> QED
    BY <1>1, <2>1, <2>2, <2>3
<1>3. ASSUME NEW a \in C, NEW b \in C, a < b
      PROVE  Cardinality(below(a)) # Cardinality(below(b))
  <2>1. a \in Nat /\ b \in Nat /\ \A d \in C : d \in Nat
    OBVIOUS
  <2>2. \A d \in C : d < a => d < b
    BY <1>3, <2>1
  <2>3. below(a) \in SUBSET below(b) /\ a \in below(b) /\ a \notin below(a)
    <3>1. ~(a < a) /\ a < b
      BY <1>3, <2>1
    <3> QED
      BY <2>2, <3>1, Zenon
  <2>4. Cardinality(below(b)) = Cardinality(below(a)) => below(b) = below(a)
    BY <1>2, <2>3, FS_Subset
  <2> QED
    BY <2>3, <2>4
<1>4. ASSUME NEW a \in C, NEW b \in C, Cardinality(below(a)) = Cardinality(below(b)) PROVE a = b
  <2>1. a < b \/ b < a \/ a = b
    OBVIOUS
  <2> QED
    BY <1>3, <1>4, <2>1
<1> HIDE DEF below
<1>5. \A a, b \in C : Cardinality(below(a)) = Cardinality(below(b)) => a = b
  BY <1>4
<1> QED
  BY <1>1, <1>2, <1>5 DEF below

(* Each place of the order is taken by one of the commits.                  *)
LEMMA OrderedIsSeq ==
  ASSUME NEW C \in SUBSET Nat, IsFiniteSet(C)
  PROVE  Ordered(C) \in Seq(C)
<1> DEFINE below(c) == {d \in C : d < c}
           n == Cardinality(C)
           rank == [c \in C |-> Cardinality(below(c))]
<1>1. /\ n \in Nat
      /\ \A c \in C : Cardinality(below(c)) \in 0..(n - 1)
      /\ \A a, b \in C : Cardinality(below(a)) = Cardinality(below(b)) => a = b
  BY RanksDiffer
<1>2. rank \in Injection(C, 0..(n - 1))
  <2>1. rank \in [C -> 0..(n - 1)] /\ DOMAIN rank = C
    BY <1>1
  <2>2. \A a, b \in C : rank[a] = rank[b] => a = b
    <3> HIDE DEF below
    <3> QED
      BY <1>1
  <2> HIDE DEF rank
  <2> QED
    BY <2>1, <2>2 DEF Injection, IsInjective
<1>3. IsFiniteSet(0..(n - 1)) /\ Cardinality(0..(n - 1)) = n
  <2>1. 0 \in Int /\ n - 1 \in Int
    BY <1>1
  <2>2. IsFiniteSet(0..(n - 1)) /\ Cardinality(0..(n - 1)) = IF 0 > n - 1 THEN 0 ELSE (n - 1) - 0 + 1
    BY <2>1, FS_Interval
  <2> HIDE DEF n
  <2> QED
    BY <1>1, <2>2
<1>4. rank \in Surjection(C, 0..(n - 1))
  BY <1>2, <1>3, FS_Injection
<1>5. ASSUME NEW i \in 1..n
      PROVE  (CHOOSE c \in C : Cardinality({d \in C : d < c}) = i - 1) \in C
  <2>1. i - 1 \in 0..(n - 1)
    BY <1>1
  <2>2. \E c \in C : rank[c] = i - 1
    BY <1>4, <2>1 DEF Surjection
  <2> QED
    BY <2>2
<1>6. Ordered(C) \in [1..n -> C]
  BY <1>5 DEF Ordered
<1> QED
  BY <1>1, <1>6

(* And each of the commits has a place.                                     *)
LEMMA OrderedHasAll ==
  ASSUME NEW C \in SUBSET Nat, IsFiniteSet(C)
  PROVE  C \subseteq Range(Ordered(C))
<1> DEFINE below(c) == {d \in C : d < c}
           n == Cardinality(C)
<1>1. /\ n \in Nat
      /\ \A c \in C : Cardinality(below(c)) \in 0..(n - 1)
      /\ \A a, b \in C : Cardinality(below(a)) = Cardinality(below(b)) => a = b
  BY RanksDiffer
<1>2. Ordered(C) = [i \in 1..n |-> CHOOSE c \in C : Cardinality(below(c)) = i - 1]
  BY DEF Ordered
<1> HIDE DEF below, n
<1>3. ASSUME NEW c \in C PROVE c \in Range(Ordered(C))
  <2> DEFINE i == Cardinality(below(c)) + 1
  <2>1. i \in 1..n /\ Cardinality(below(c)) = i - 1
    BY <1>1
  <2> HIDE DEF i
  <2>2. c = CHOOSE d \in C : Cardinality(below(d)) = i - 1
    BY <1>1, <2>1
  <2>3. i \in DOMAIN Ordered(C) /\ Ordered(C)[i] = c
    BY <1>2, <2>1, <2>2
  <2> QED
    BY <2>3 DEF Range
<1> QED
  BY <1>3

(* A finite history has finitely many commits, and its numbers are theirs.  *)
LEMMA CommitsAreFinite ==
  ASSUME NEW commits, IsHistory(commits), NEW C \in SUBSET DOMAIN commits
  PROVE  /\ Len(commits) \in Nat /\ DOMAIN commits = 1..Len(commits)
         /\ IsFiniteSet(C) /\ C \in SUBSET Nat
<1>1. Len(commits) \in Nat /\ DOMAIN commits = 1..Len(commits)
  BY DEF IsHistory
<1>2. IsFiniteSet(1..Len(commits))
  BY <1>1, FS_Interval
<1> QED
  BY <1>1, <1>2, FS_Subset

(* The list of a rebase names commits that exist.                           *)
LEMMA TodoNamesCommits ==
  ASSUME NEW r, WellFormed(r), NEW C \in SUBSET DOMAIN r.commits
  PROVE  Ordered(C) \in Seq(DOMAIN r.commits)
<1>1. IsFiniteSet(C) /\ C \in SUBSET Nat
  BY CommitsAreFinite DEF WellFormed
<1>2. Ordered(C) \in Seq(C)
  BY <1>1, OrderedIsSeq
<1> QED
  BY <1>2

-------------------------------------------------------------------------------
(* Commits are added at HEAD.                                               *)

(* Nothing of r is lost in q: its commits and its branches are there.       *)
Grown(r, q) ==
  /\ Len(r.commits) <= Len(q.commits)
  /\ \A b \in Branches : r.tip[b] # Nobody => q.tip[b] # Nobody

(* The same operation is under way, on the same branch.                     *)
SameTask(r, q) ==
  q.head = r.head /\ q.op = r.op /\ q.theirs = r.theirs /\ q.orig = r.orig /\ q.from = r.from

Adds(r, q) == WellFormed(q) /\ Grown(r, q) /\ SameTask(r, q)

(* A repository with one more commit, that HEAD is not at yet.              *)
LEMMA OneMoreCommit ==
  ASSUME NEW commits, IsHistory(commits), NEW parents \in Seq(DOMAIN commits), NEW of \in SUBSET Nat
  PROVE  LET more == Append(commits, [parents |-> parents, of |-> of])
         IN  /\ IsHistory(more) /\ Len(more) = Len(commits) + 1
             /\ DOMAIN commits \subseteq DOMAIN more /\ Len(more) \in DOMAIN more
             /\ more[Len(more)].parents = parents
<1> DEFINE new == [parents |-> parents, of |-> of]
           more == Append(commits, new)
<1>1. commits \in Seq(Commits) /\ Len(commits) \in Nat /\ DOMAIN commits = 1..Len(commits)
  BY DEF IsHistory
<1>2. parents \in Seq(Nat) /\ Range(parents) \subseteq 1..Len(commits)
  BY <1>1 DEF Range
<1>3. new \in Commits /\ new.parents = parents
  BY <1>2 DEF Commits
<1> HIDE DEF new
<1>4. /\ more \in Seq(Commits) /\ Len(more) = Len(commits) + 1
      /\ DOMAIN more = 1..(Len(commits) + 1)
      /\ \A c \in 1..Len(commits) : more[c] = commits[c]
      /\ more[Len(commits) + 1] = new
  BY <1>1, <1>3
<1>5. ASSUME NEW c \in DOMAIN more PROVE Range(more[c].parents) \subseteq 1..(c - 1)
  <2>1. CASE c = Len(commits) + 1
    BY <1>1, <1>2, <1>3, <1>4, <2>1
  <2>2. CASE c \in 1..Len(commits)
    BY <1>1, <1>4, <2>2 DEF IsHistory
  <2> QED
    BY <1>1, <1>4, <2>1, <2>2
<1>6. IsHistory(more)
  BY <1>4, <1>5 DEF IsHistory
<1> QED
  BY <1>1, <1>3, <1>4, <1>6 DEF new

(* HEAD, and the branch it is on, go to a commit.                           *)
LEMMA MoveToEffect ==
  ASSUME NEW r, WellFormed(r), NEW c \in DOMAIN r.commits
  PROVE  /\ Adds(r, MoveTo(r, c))
         /\ MoveTo(r, c).at = c /\ MoveTo(r, c).commits = r.commits
         /\ MoveTo(r, c).todo = r.todo /\ MoveTo(r, c).inHand = r.inHand
         /\ MoveTo(r, c).conflicts = r.conflicts
<1> DEFINE tip == IF r.head = Detached THEN r.tip ELSE [r.tip EXCEPT ![r.head] = c]
           q == [r EXCEPT !.at = c, !.tip = tip]
<1>1. q = MoveTo(r, c)
  BY DEF MoveTo, WellFormed
<1>2. Nobody \notin DOMAIN r.commits
  BY DEF WellFormed, IsHistory, Nobody
<1>3. /\ tip \in [Branches -> {Nobody} \cup DOMAIN r.commits]
      /\ r.head # Detached => tip[r.head] = c
      /\ \A b \in Branches : r.tip[b] # Nobody => tip[b] # Nobody
  BY <1>2 DEF WellFormed
<1> HIDE DEF tip
<1>4. /\ DOMAIN q = DOMAIN r /\ q.at = c /\ q.tip = tip /\ q.commits = r.commits
      /\ SameTask(r, q) /\ q.todo = r.todo /\ q.inHand = r.inHand
      /\ q.conflicts = r.conflicts /\ q.staged = r.staged /\ q.dirty = r.dirty
  BY DEF WellFormed, SameTask
<1> HIDE DEF q
<1>5. WellFormed(q)
  BY <1>3, <1>4 DEF WellFormed, SameTask
<1>6. Grown(r, q)
  BY <1>3, <1>4 DEF Grown, WellFormed, IsHistory
<1> QED
  BY <1>1, <1>4, <1>5, <1>6 DEF Adds

(* A repository whose commits have grown, and nothing else but the list.    *)
LEMMA GrowsSoundly ==
  ASSUME NEW r, WellFormed(r), NEW commits, IsHistory(commits),
         DOMAIN r.commits \subseteq DOMAIN commits,
         NEW todo \in Seq(DOMAIN commits), NEW inHand \in BOOLEAN, inHand => r.op \in Sequencers /\ todo # <<>>,
         NEW staged \in BOOLEAN,
         NEW q, DOMAIN q = DOMAIN r, q.commits = commits, q.todo = todo, q.inHand = inHand,
         q.staged = staged, q.at = r.at, q.tip = r.tip, SameTask(r, q),
         q.conflicts = r.conflicts, q.dirty = r.dirty
  PROVE  Adds(r, q)
<1>1. Len(r.commits) <= Len(commits) /\ Nobody \notin DOMAIN commits
  <2>1. DOMAIN r.commits = 1..Len(r.commits) /\ Len(r.commits) \in Nat /\ r.at \in DOMAIN r.commits
    BY DEF WellFormed, IsHistory
  <2>2. DOMAIN commits = 1..Len(commits) /\ Len(commits) \in Nat
    BY DEF IsHistory
  <2>3. Len(r.commits) \in DOMAIN r.commits
    BY <2>1
  <2>4. Len(r.commits) \in 1..Len(commits)
    BY <2>2, <2>3
  <2> QED
    BY <2>2, <2>4 DEF Nobody
<1>2. r.at \in DOMAIN commits /\ r.theirs \in {Nobody} \cup DOMAIN commits
      /\ r.op = "rebase" => r.from \in DOMAIN commits
  BY DEF WellFormed
<1>3. r.tip \in [Branches -> {Nobody} \cup DOMAIN commits]
  BY DEF WellFormed
<1>4. WellFormed(q)
  BY <1>2, <1>3 DEF WellFormed, SameTask
<1> QED
  BY <1>1, <1>4 DEF Adds, Grown

(* One addition after another.                                              *)
LEMMA AddsAndAdds ==
  ASSUME NEW r, NEW s, NEW q, WellFormed(r), Adds(r, s), Adds(s, q)
  PROVE  Adds(r, q)
<1>1. Len(r.commits) \in Nat /\ Len(s.commits) \in Nat /\ Len(q.commits) \in Nat
  BY DEF Adds, WellFormed, IsHistory
<1> QED
  BY <1>1 DEF Adds, Grown, SameTask

(* A new commit at HEAD.                                                    *)
LEMMA NewCommitEffect ==
  ASSUME NEW r, WellFormed(r), NEW parents \in Seq(DOMAIN r.commits), NEW of \in SUBSET Nat
  PROVE  /\ Adds(r, NewCommit(r, parents, of))
         /\ NewCommit(r, parents, of).commits[NewCommit(r, parents, of).at].parents = parents
         /\ NewCommit(r, parents, of).todo = r.todo /\ NewCommit(r, parents, of).inHand = r.inHand
         /\ NewCommit(r, parents, of).conflicts = r.conflicts
<1> DEFINE more == Append(r.commits, [parents |-> parents, of |-> of])
           s == [r EXCEPT !.commits = more, !.staged = FALSE]
           n == Len(r.commits) + 1
           q == MoveTo(s, n)
<1>1. IsHistory(r.commits)
  BY DEF WellFormed
<1>2. /\ IsHistory(more) /\ Len(more) = n
      /\ DOMAIN r.commits \subseteq DOMAIN more /\ Len(more) \in DOMAIN more
      /\ more[Len(more)].parents = parents
  BY <1>1, OneMoreCommit
<1>3. NewCommit(r, parents, of) = q
  BY DEF NewCommit, WellFormed
<1> HIDE DEF more
<1>4. /\ DOMAIN s = DOMAIN r /\ s.commits = more /\ s.todo = r.todo /\ s.inHand = r.inHand
      /\ s.staged = FALSE /\ s.at = r.at /\ s.tip = r.tip /\ SameTask(r, s)
      /\ s.conflicts = r.conflicts /\ s.dirty = r.dirty
  BY DEF WellFormed, SameTask
<1>5. r.todo \in Seq(DOMAIN more) /\ r.inHand \in BOOLEAN /\ (r.inHand => r.op \in Sequencers /\ r.todo # <<>>)
  BY <1>2 DEF WellFormed
<1> HIDE DEF s, n
<1>6. Adds(r, s)
  BY <1>2, <1>4, <1>5, GrowsSoundly
<1>7. /\ Adds(s, q) /\ q.at = n /\ q.commits = more
      /\ q.todo = s.todo /\ q.inHand = s.inHand /\ q.conflicts = s.conflicts
  BY <1>2, <1>4, <1>6, MoveToEffect DEF Adds
<1>8. Adds(r, q)
  BY <1>6, <1>7, AddsAndAdds
<1> HIDE DEF q
<1> QED
  BY <1>2, <1>3, <1>4, <1>7, <1>8

(* Nothing is under way any more.                                           *)
LEMMA CleanedEffect ==
  ASSUME NEW r, WellFormed(r)
  PROVE  /\ WellFormed(Cleaned(r)) /\ Grown(r, Cleaned(r))
         /\ Cleaned(r).op = "none" /\ Cleaned(r).head = r.head /\ Cleaned(r).at = r.at
         /\ Cleaned(r).commits = r.commits /\ Cleaned(r).tip = r.tip
<1> DEFINE q == Cleaned(r)
<1>1. /\ DOMAIN q = DOMAIN r /\ q.op = "none" /\ q.theirs = Nobody /\ q.orig = Detached
      /\ q.from = Nobody /\ q.todo = <<>> /\ q.inHand = FALSE /\ q.head = r.head
      /\ q.at = r.at /\ q.tip = r.tip /\ q.commits = r.commits /\ q.conflicts = r.conflicts
      /\ q.staged = r.staged /\ q.dirty = r.dirty
  BY DEF Cleaned, WellFormed
<1> HIDE DEF q
<1>2. <<>> \in Seq(DOMAIN r.commits)
  OBVIOUS
<1>3. WellFormed(q)
  BY <1>1, <1>2 DEF WellFormed, Operations, Sequencers
<1>4. Grown(r, q)
  BY <1>1 DEF Grown, WellFormed, IsHistory
<1> QED
  BY <1>1, <1>3, <1>4 DEF q

-------------------------------------------------------------------------------
(* git replays commits.                                                     *)

(* The copies of n commits with these changes, one upon the other.          *)
Copies(commits, at, n, changes) ==
  [i \in 1..n |-> [parents |-> <<IF i = 1 THEN at ELSE Len(commits) + i - 1>>,
                   of |-> changes[i]]]

(* Such copies make the history longer.                                     *)
LEMMA CopiesMakeHistory ==
  ASSUME NEW commits, IsHistory(commits), NEW at \in DOMAIN commits, NEW n \in Nat \ {0},
         NEW changes \in [1..n -> SUBSET Nat]
  PROVE  LET more == commits \o Copies(commits, at, n, changes)
         IN  /\ IsHistory(more) /\ DOMAIN commits \subseteq DOMAIN more
             /\ Len(commits) + n \in DOMAIN more
<1> DEFINE last == Len(commits)
           base(i) == IF i = 1 THEN at ELSE last + i - 1
           copy(i) == [parents |-> <<base(i)>>, of |-> changes[i]]
           copies == [i \in 1..n |-> copy(i)]
           more == commits \o copies
<1>1. commits \in Seq(Commits) /\ last \in Nat /\ DOMAIN commits = 1..last
  BY DEF IsHistory
<1>2. ASSUME NEW i \in 1..n
      PROVE  base(i) \in 1..(last + i - 1)
  BY <1>1
<1>3. ASSUME NEW i \in 1..n
      PROVE  copy(i) \in Commits /\ Range(copy(i).parents) = {base(i)}
  <2>1. <<base(i)>> \in Seq(Nat) /\ Range(<<base(i)>>) = {base(i)}
    BY <1>1, <1>2 DEF Range
  <2>2. copy(i).parents = <<base(i)>>
    OBVIOUS
  <2> HIDE DEF base
  <2> QED
    BY <2>1, <2>2 DEF Commits
<1>4. copies \in Seq(Commits) /\ Len(copies) = n
  <2> HIDE DEF copy
  <2> QED
    BY <1>3
<1>5. /\ more \in Seq(Commits) /\ DOMAIN more = 1..(last + n)
      /\ \A c \in 1..last : more[c] = commits[c]
      /\ \A c \in (last + 1)..(last + n) : more[c] = copy(c - last)
  <2> HIDE DEF copy
  <2>1. /\ more \in Seq(Commits) /\ DOMAIN more = 1..(last + n)
        /\ \A c \in 1..last : more[c] = commits[c]
        /\ \A c \in (last + 1)..(last + n) : more[c] = copies[c - last]
    <3> HIDE DEF copies
    <3> QED
      BY <1>1, <1>4
  <2> QED
    BY <1>1, <2>1
<1>6. ASSUME NEW c \in DOMAIN more PROVE Range(more[c].parents) \subseteq 1..(c - 1)
  <2>1. CASE c \in 1..last
    BY <1>1, <1>5, <2>1 DEF IsHistory
  <2>2. CASE c \in (last + 1)..(last + n)
    <3>1. c - last \in 1..n /\ last + (c - last) - 1 = c - 1
      BY <1>1, <2>2
    <3>2. Range(more[c].parents) = {base(c - last)}
      BY <1>3, <1>5, <2>2, <3>1
    <3>3. base(c - last) \in 1..(c - 1)
      <4> HIDE DEF base
      <4> QED
        BY <1>2, <3>1
    <3> QED
      BY <3>2, <3>3
  <2>3. c \in 1..(last + n)
    BY <1>5
  <2>4. c \in 1..last \/ c \in (last + 1)..(last + n)
    BY <1>1, <2>3
  <2> QED
    BY <2>1, <2>2, <2>4
<1>7. IsHistory(more)
  <2> HIDE DEF more
  <2> QED
    BY <1>5, <1>6 DEF IsHistory
<1>8. DOMAIN commits \subseteq DOMAIN more /\ last + n \in DOMAIN more
  BY <1>1, <1>5
<1> QED
  BY <1>7, <1>8 DEF Copies

(* A list of members of a set is one of members of a larger set.            *)
LEMMA ListOfMore ==
  ASSUME NEW S, NEW T, S \subseteq T, NEW q \in Seq(S)
  PROVE  q \in Seq(T)
OBVIOUS

(* The rest of a list.                                                      *)
LEMMA RestOfList ==
  ASSUME NEW S, NEW q \in Seq(S), NEW n \in 0..Len(q)
  PROVE  /\ SubSeq(q, n + 1, Len(q)) \in Seq(S)
         /\ n < Len(q) => SubSeq(q, n + 1, Len(q)) # <<>>
<1>1. Len(q) \in Nat
  OBVIOUS
<1>2. \A i \in (n + 1)..Len(q) : q[i] \in S
  BY <1>1
<1>3. SubSeq(q, n + 1, Len(q)) \in Seq(S) /\ Len(SubSeq(q, n + 1, Len(q))) = Len(q) - n
  BY <1>1, <1>2
<1>4. ASSUME n < Len(q), SubSeq(q, n + 1, Len(q)) = <<>> PROVE FALSE
  <2>1. Len(q) - n = 0
    BY <1>3, <1>4
  <2> QED
    BY <1>1, <1>4, <2>1
<1> QED
  BY <1>3, <1>4

(* The first commits of the list are copied.                                *)
LEMMA GitPicksEffect ==
  ASSUME NEW r, WellFormed(r), NEW n \in 0..Len(r.todo)
  PROVE  /\ Adds(r, GitPicks(r, n))
         /\ n < Len(r.todo) => GitPicks(r, n).todo # <<>>
<1> DEFINE last == Len(r.commits)
           list == SubSeq(r.todo, n + 1, Len(r.todo))
           changes == [i \in 1..n |-> r.commits[r.todo[i]].of]
           copies == Copies(r.commits, r.at, n, changes)
           more == r.commits \o copies
           rest == [r EXCEPT !.todo = list, !.inHand = FALSE]
           s == [rest EXCEPT !.commits = more, !.staged = FALSE]
<1>1. /\ IsHistory(r.commits) /\ r.at \in DOMAIN r.commits /\ r.todo \in Seq(DOMAIN r.commits)
      /\ r.staged \in BOOLEAN /\ n \in Nat /\ Len(r.todo) \in Nat
  BY DEF WellFormed
<1>2. list \in Seq(DOMAIN r.commits) /\ (n < Len(r.todo) => list # <<>>)
  BY <1>1, RestOfList
<1>3. changes \in [1..n -> SUBSET Nat]
  <2>1. ASSUME NEW i \in 1..n PROVE r.commits[r.todo[i]].of \in SUBSET Nat
    <3>1. r.todo[i] \in DOMAIN r.commits
      BY <1>1
    <3>2. r.commits[r.todo[i]] \in Commits
      BY <1>1, <3>1 DEF IsHistory
    <3> QED
      BY <3>2 DEF Commits
  <2> QED
    BY <2>1
<1>4. GitPicks(r, n) = IF n = 0 THEN rest ELSE MoveTo(s, last + n)
  <2>1. \A i \in 1..n : changes[i] = r.commits[r.todo[i]].of
    OBVIOUS
  <2>2. copies = [i \in 1..n |-> [parents |-> <<IF i = 1 THEN r.at ELSE last + i - 1>>,
                                  of |-> r.commits[r.todo[i]].of]]
    BY <2>1 DEF Copies
  <2> HIDE DEF copies
  <2>3. rest.commits = r.commits
    BY DEF WellFormed
  <2> QED
    BY <2>2, <2>3 DEF GitPicks, WellFormed
<1>5. CASE n = 0
  <2>1. /\ DOMAIN rest = DOMAIN r /\ rest.commits = r.commits /\ rest.todo = list
        /\ rest.inHand = FALSE /\ rest.staged = r.staged /\ rest.at = r.at /\ rest.tip = r.tip
        /\ SameTask(r, rest) /\ rest.conflicts = r.conflicts /\ rest.dirty = r.dirty
    BY DEF WellFormed, SameTask
  <2> HIDE DEF rest, list
  <2>2. Adds(r, rest)
    BY <1>1, <1>2, <2>1, GrowsSoundly
  <2> QED
    BY <1>2, <1>4, <1>5, <2>1, <2>2 DEF list
<1>6. CASE n # 0
  <2>1. /\ IsHistory(more) /\ DOMAIN r.commits \subseteq DOMAIN more /\ last + n \in DOMAIN more
    <3>1. n \in Nat \ {0}
      BY <1>1, <1>6
    <3> HIDE DEF changes
    <3> QED
      BY <1>1, <1>3, <3>1, CopiesMakeHistory
  <2> HIDE DEF more
  <2>2. /\ DOMAIN s = DOMAIN r /\ s.commits = more /\ s.todo = list
        /\ s.inHand = FALSE /\ s.staged = FALSE /\ s.at = r.at /\ s.tip = r.tip
        /\ SameTask(r, s) /\ s.conflicts = r.conflicts /\ s.dirty = r.dirty
    BY DEF WellFormed, SameTask
  <2>3. list \in Seq(DOMAIN more)
    BY <1>2, <2>1, ListOfMore
  <2> HIDE DEF s, list
  <2>4. Adds(r, s)
    BY <2>1, <2>2, <2>3, GrowsSoundly
  <2>5. Adds(s, MoveTo(s, last + n)) /\ MoveTo(s, last + n).todo = s.todo
    BY <2>1, <2>2, <2>4, MoveToEffect DEF Adds
  <2>6. Adds(r, MoveTo(s, last + n))
    BY <2>4, <2>5, AddsAndAdds
  <2> QED
    BY <1>2, <1>4, <1>6, <2>2, <2>5, <2>6 DEF list
<1> QED
  BY <1>5, <1>6

(* A replay goes on with the same rebase, or ends it on its branch.         *)
Replayed(r, a) ==
  /\ WellFormed(a.repo) /\ Grown(r, a.repo)
  /\ \/ SameTask(r, a.repo)
     \/ a.repo.op = "none" /\ a.repo.head = r.orig /\ a.says = "done"

(* The end of a rebase: the branch moves to the last copy and HEAD returns. *)
LEMMA GitRebaseEndsEffect ==
  ASSUME NEW r, WellFormed(r), r.op = "rebase"
  PROVE  Replayed(r, GitRebaseEnds(r))
<1> DEFINE n == Len(r.todo)
           done == GitPicks(r, n)
           s == [done EXCEPT !.head = r.orig, !.tip[r.orig] = done.at]
<1>1. n \in 0..Len(r.todo)
  <2>1. n \in Nat
    BY DEF WellFormed
  <2> QED
    BY <2>1
<1>2. Adds(r, done)
  BY <1>1, GitPicksEffect
<1>3. CASE r.tip[r.orig] = Nobody
  <2>1. GitRebaseEnds(r).repo = done
    BY <1>3 DEF GitRebaseEnds, Answer
  <2> QED
    BY <1>2, <2>1 DEF Replayed, Adds
<1>4. CASE r.tip[r.orig] # Nobody
  <2>1. GitRebaseEnds(r).repo = Cleaned(s) /\ GitRebaseEnds(r).says = "done"
    BY <1>4 DEF GitRebaseEnds, Answer
  <2> HIDE DEF done
  <2>2. /\ DOMAIN s = DOMAIN done /\ s.head = r.orig
        /\ s.tip = [done.tip EXCEPT ![r.orig] = done.at] /\ s.at = done.at
        /\ s.commits = done.commits /\ s.op = done.op /\ s.theirs = done.theirs
        /\ s.orig = done.orig /\ s.from = done.from /\ s.todo = done.todo
        /\ s.inHand = done.inHand /\ s.conflicts = done.conflicts
        /\ s.staged = done.staged /\ s.dirty = done.dirty
    BY <1>2 DEF Adds, WellFormed
  <2>3. r.orig \in Branches /\ done.at \in DOMAIN done.commits /\ Nobody \notin DOMAIN done.commits
    BY <1>2 DEF Adds, WellFormed, IsHistory, Nobody
  <2>4. /\ s.tip \in [Branches -> {Nobody} \cup DOMAIN s.commits] /\ s.tip[r.orig] = s.at
        /\ \A b \in Branches : done.tip[b] # Nobody => s.tip[b] # Nobody
    BY <1>2, <2>2, <2>3 DEF Adds, WellFormed
  <2> HIDE DEF s
  <2>5. WellFormed(s) /\ Grown(r, s)
    <3>1. WellFormed(s)
      BY <1>2, <2>2, <2>3, <2>4 DEF Adds, WellFormed
    <3>2. Grown(r, s)
      BY <1>2, <2>2, <2>4 DEF Adds, Grown
    <3> QED
      BY <3>1, <3>2
  <2>6. /\ WellFormed(Cleaned(s)) /\ Grown(s, Cleaned(s))
        /\ Cleaned(s).op = "none" /\ Cleaned(s).head = s.head
        /\ Cleaned(s).commits = s.commits /\ Cleaned(s).tip = s.tip
    BY <2>5, CleanedEffect
  <2>7. Grown(r, Cleaned(s))
    BY <2>5, <2>6 DEF Grown
  <2> QED
    BY <2>1, <2>2, <2>6, <2>7 DEF Replayed
<1> QED
  BY <1>3, <1>4

(* Where git's replay stops, ends or is cut off.                            *)
LEMMA WaysOfReplay ==
  ASSUME NEW r, NEW a \in GitReplays(r)
  PROVE  LET before == 0..(Len(r.todo) - 1)
         IN  \/ a = GitRebaseEnds(r)
             \/ \E n \in before, C \in SUBSET Paths, s \in BOOLEAN, says \in {"said", "empty"} :
                  a = Answer(GitStops(r, n, C, s), says)
             \/ \E n \in before, says \in {"said", "timeout"} : a = Answer(GitPicks(r, n), says)
<1> DEFINE before == 0..(Len(r.todo) - 1)
           clashes == (SUBSET Paths) \ {{}}
           halts == {Answer(GitStops(r, n, C, s), "said") :
                       n \in before, C \in clashes, s \in BOOLEAN}
           empties == {Answer(GitStops(r, n, {}, FALSE), "empty") : n \in before}
           breaks == {Answer(GitPicks(r, n), says) : n \in before, says \in {"said", "timeout"}}
<1>1. a = GitRebaseEnds(r) \/ a \in halts \/ a \in empties \/ a \in breaks
  <2>1. GitReplays(r) = {GitRebaseEnds(r)} \cup halts \cup empties \cup breaks
    BY DEF GitReplays
  <2> HIDE DEF halts, empties, breaks
  <2> QED
    BY <2>1
<1>2. a \in halts => \E n \in before, C \in SUBSET Paths, s \in BOOLEAN :
                       a = Answer(GitStops(r, n, C, s), "said")
  <2>1. a \in halts => \E n \in before, C \in clashes, s \in BOOLEAN :
                         a = Answer(GitStops(r, n, C, s), "said")
    <3> HIDE DEF clashes, before
    <3> QED
      OBVIOUS
  <2> HIDE DEF halts
  <2> QED
    BY <2>1
<1>3. a \in empties => \E n \in before : a = Answer(GitStops(r, n, {}, FALSE), "empty")
  BY Zenon
<1>4. a \in breaks => \E n \in before, says \in {"said", "timeout"} : a = Answer(GitPicks(r, n), says)
  OBVIOUS
<1> HIDE DEF halts, empties, breaks, before
<1>5. CASE a \in empties
  <2>1. {} \in SUBSET Paths /\ FALSE \in BOOLEAN /\ "empty" \in {"said", "empty"}
    OBVIOUS
  <2> QED
    BY <1>3, <1>5, <2>1 DEF before
<1> QED
  BY <1>1, <1>2, <1>4, <1>5 DEF before

(* Wherever a replay stops, ends or is cut off, it has lost nothing.        *)
LEMMA GitReplaysEffect ==
  ASSUME NEW r, WellFormed(r), r.op = "rebase", NEW a \in GitReplays(r)
  PROVE  Replayed(r, a)
<1>1. Len(r.todo) \in Nat
  BY DEF WellFormed
<1>2. CASE a = GitRebaseEnds(r)
  BY <1>2, GitRebaseEndsEffect
<1>3. ASSUME NEW n \in 0..(Len(r.todo) - 1), NEW C \in SUBSET Paths, NEW s \in BOOLEAN, NEW says,
             a = Answer(GitStops(r, n, C, s), says)
      PROVE  Replayed(r, a)
  <2> DEFINE p == GitPicks(r, n)
             q == [p EXCEPT !.inHand = TRUE, !.conflicts = C, !.staged = s]
  <2>1. n \in 0..Len(r.todo) /\ n < Len(r.todo)
    BY <1>1
  <2>2. Adds(r, p) /\ p.todo # <<>>
    BY <2>1, GitPicksEffect
  <2>3. a.repo = q
    BY <1>3 DEF Answer, GitStops
  <2> HIDE DEF p
  <2>4. /\ DOMAIN q = DOMAIN p /\ q.todo = p.todo /\ q.inHand = TRUE /\ q.conflicts = C
        /\ q.staged = s /\ q.head = p.head /\ q.at = p.at /\ q.tip = p.tip
        /\ q.commits = p.commits /\ q.dirty = p.dirty /\ SameTask(p, q)
    BY <2>2 DEF Adds, WellFormed, SameTask
  <2> HIDE DEF q
  <2>5. WellFormed(q)
    BY <2>2, <2>4 DEF Adds, WellFormed, SameTask, Sequencers
  <2>6. Grown(r, q) /\ SameTask(r, q)
    BY <2>2, <2>4 DEF Adds, Grown, SameTask
  <2> QED
    BY <2>3, <2>5, <2>6 DEF Replayed
<1>4. ASSUME NEW n \in 0..(Len(r.todo) - 1), NEW says, a = Answer(GitPicks(r, n), says)
      PROVE  Replayed(r, a)
  <2>1. n \in 0..Len(r.todo)
    BY <1>1
  <2>2. Adds(r, GitPicks(r, n))
    BY <2>1, GitPicksEffect
  <2>3. a.repo = GitPicks(r, n)
    BY <1>4 DEF Answer
  <2> QED
    BY <2>2, <2>3 DEF Replayed, Adds
<1> QED
  BY <1>2, <1>3, <1>4, WaysOfReplay

-------------------------------------------------------------------------------
(* What the engine's operations may do to a repository.                     *)

(* Nothing dangles and nothing is lost; HEAD stays on its branch, leaves it *)
(* for a rebase, or comes back to it from one.                              *)
Goes(r, q) ==
  /\ WellFormed(q) /\ Grown(r, q)
  /\ q.head = r.head \/ q.head = Detached \/ (r.op = "rebase" /\ q.head = r.orig)
  /\ q.op = "rebase" => \/ r.op = "rebase" /\ q.orig = r.orig /\ q.head = r.head
                        \/ r.op # "rebase" /\ q.orig = r.head /\ q.head = Detached

(* The window need not look again to know the branch.                       *)
Unturned(r, q) ==
  /\ q.op = "none" => r.op = "none" /\ q.head = r.head
  /\ q.head # Detached => q.head = r.head

Outcome(r, o) ==
  /\ Goes(r, o.repo) /\ o.kind \in Kinds
  /\ o.kind = "error" => Unturned(r, o.repo)

(* The operation has found what the caller expected.                        *)
AsExpected(r, branch) == QuietRepository(r) /\ ExpectedBranch(r, branch)

(* An operation that changes nothing.                                       *)
LEMMA Stays ==
  ASSUME NEW r, WellFormed(r)
  PROVE  Adds(r, r) /\ Goes(r, r) /\ Unturned(r, r)
  BY DEF Goes, Unturned, Grown, WellFormed, IsHistory, Adds, SameTask

(* An operation that adds commits to where HEAD is goes well.               *)
LEMMA AddsGoes ==
  ASSUME NEW r, NEW q, WellFormed(r), Adds(r, q)
  PROVE  Goes(r, q) /\ Unturned(r, q)
  BY DEF Goes, Unturned, Adds, SameTask

(* What changes neither commits nor references nor the operation goes well. *)
LEMMA FilesChange ==
  ASSUME NEW r, WellFormed(r), NEW C \in SUBSET Paths, NEW s \in BOOLEAN, NEW d \in BOOLEAN,
         NEW q, DOMAIN q = DOMAIN r, SameTask(r, q), q.at = r.at, q.tip = r.tip,
         q.commits = r.commits, q.todo = r.todo, q.inHand = r.inHand,
         q.conflicts = C, q.staged = s, q.dirty = d
  PROVE  Adds(r, q)
<1>1. WellFormed(q)
  BY DEF WellFormed, SameTask
<1> QED
  BY <1>1 DEF Adds, Grown, WellFormed, IsHistory

(* A refused operation leaves the repository as it was.                     *)
LEMMA RefusedOutcome ==
  ASSUME NEW r, WellFormed(r), NEW o \in Refused(r)
  PROVE  Outcome(r, o) /\ o.repo = r
<1>1. o.repo = r /\ o.kind \in Kinds
  BY DEF Refused, Result, Kinds
<1> QED
  BY <1>1, Stays DEF Outcome

(* A fast-forward, and it moved only what its caller named.                 *)
LEMMA FastForwardOutcome ==
  ASSUME NEW r, WellFormed(r), NEW target \in DOMAIN r.commits, NEW branch,
         NEW o \in FastForward(r, target, branch)
  PROVE  /\ Outcome(r, o) /\ Unturned(r, o.repo)
         /\ o.repo = r \/ AsExpected(r, branch)
<1>1. \/ o \in Refused(r)
      \/ o = Result(r, "ok")
      \/ AsExpected(r, branch) /\ o = Result(MoveTo(r, target), "ok")
  BY DEF FastForward, AsExpected
<1>2. CASE o \in Refused(r)
  BY <1>2, RefusedOutcome, Stays
<1>3. CASE o = Result(r, "ok")
  BY <1>3, Stays DEF Outcome, Result, Kinds
<1>4. CASE AsExpected(r, branch) /\ o = Result(MoveTo(r, target), "ok")
  <2>1. Adds(r, MoveTo(r, target))
    BY MoveToEffect
  <2>2. Goes(r, MoveTo(r, target)) /\ Unturned(r, MoveTo(r, target))
    BY <2>1, AddsGoes
  <2>3. o.repo = MoveTo(r, target) /\ o.kind = "ok"
    BY <1>4 DEF Result
  <2> QED
    BY <1>4, <2>2, <2>3 DEF Outcome, Kinds
<1> QED
  BY <1>1, <1>2, <1>3, <1>4

(* The parents of a commit and of a merge.                                  *)
LEMMA OneOrTwo ==
  ASSUME NEW S, NEW a \in S, NEW b \in S
  PROVE  <<a>> \in Seq(S) /\ <<a, b>> \in Seq(S)
OBVIOUS

(* One commit's changes, for a copy.                                        *)
LEMMA ChangesOf ==
  ASSUME NEW r, WellFormed(r), NEW c \in DOMAIN r.commits
  PROVE  /\ r.commits[c].of \in SUBSET Nat
         /\ r.commits[c].parents \in Seq(DOMAIN r.commits)
         /\ Own(r) \in SUBSET Nat
<1>1. /\ r.commits \in Seq(Commits) /\ c \in 1..Len(r.commits) /\ Len(r.commits) \in Nat
      /\ DOMAIN r.commits = 1..Len(r.commits)
  BY DEF WellFormed, IsHistory
<1>2. r.commits[c] \in Commits
  BY <1>1
<1>3. r.commits[c].of \in SUBSET Nat /\ r.commits[c].parents \in Seq(Nat)
  BY <1>2 DEF Commits
<1>4. Range(r.commits[c].parents) \subseteq 1..(c - 1)
  BY DEF WellFormed, IsHistory
<1>5. r.commits[c].parents \in Seq(DOMAIN r.commits)
  <2> DEFINE ps == r.commits[c].parents
  <2>1. \A i \in 1..Len(ps) : ps[i] \in 1..(c - 1)
    BY <1>3, <1>4 DEF Range
  <2>2. \A i \in 1..Len(ps) : ps[i] \in 1..Len(r.commits)
    BY <1>1, <2>1
  <2>3. ps \in Seq(Nat)
    BY <1>3
  <2>4. ps \in Seq(1..Len(r.commits))
    <3> HIDE DEF ps
    <3> QED
      BY <2>2, <2>3
  <2> QED
    BY <1>1, <2>4
<1>6. Own(r) \in SUBSET Nat
  BY <1>1 DEF Own
<1> QED
  BY <1>3, <1>5, <1>6

(* A commit concludes a merge, joining its two sides.                       *)
LEMMA CreateCommitOutcome ==
  ASSUME NEW r, WellFormed(r), NEW amend \in BOOLEAN, NEW o \in CreateCommit(r, amend)
  PROVE  /\ Goes(r, o.repo) /\ o.kind \in Kinds /\ o.repo.head = r.head
         /\ o.repo = r \/ (o.kind = "ok" /\ (r.op = "merge" => o.repo.op = "none"))
         /\ r.op = "merge" /\ o.repo.at # r.at =>
              o.repo.commits[o.repo.at].parents = <<r.at, r.theirs>>
<1> DEFINE joined == NewCommit(r, <<r.at, r.theirs>>, Own(r))
           amended == NewCommit(r, r.commits[r.at].parents, r.commits[r.at].of)
           added == NewCommit(r, <<r.at>>, Own(r))
<1>1. \/ o \in Refused(r)
      \/ r.theirs = Nobody /\ o = Result(amended, "ok")
      \/ r.theirs # Nobody /\ o = Result(Cleaned(joined), "ok")
      \/ r.theirs = Nobody /\ o = Result(added, "ok")
  BY DEF CreateCommit
<1>2. /\ r.at \in DOMAIN r.commits /\ Own(r) \in SUBSET Nat
      /\ r.commits[r.at].of \in SUBSET Nat /\ r.commits[r.at].parents \in Seq(DOMAIN r.commits)
      /\ (r.op = "merge" <=> r.theirs # Nobody) /\ r.theirs \in {Nobody} \cup DOMAIN r.commits
  BY ChangesOf DEF WellFormed
<1>3. CASE o \in Refused(r)
  BY <1>3, RefusedOutcome DEF Outcome
<1>4. CASE r.theirs = Nobody /\ o = Result(amended, "ok")
  <2>1. Adds(r, amended)
    BY <1>2, NewCommitEffect
  <2>2. Goes(r, amended) /\ amended.head = r.head
    BY <2>1, AddsGoes DEF Adds, SameTask
  <2>3. o.repo = amended /\ o.kind = "ok"
    BY <1>4 DEF Result
  <2> QED
    BY <1>2, <1>4, <2>2, <2>3 DEF Kinds
<1>5. CASE r.theirs # Nobody /\ o = Result(Cleaned(joined), "ok")
  <2>1. <<r.at, r.theirs>> \in Seq(DOMAIN r.commits)
    <3>1. r.theirs \in DOMAIN r.commits
      BY <1>2, <1>5
    <3> QED
      BY <1>2, <3>1, OneOrTwo
  <2>2. Adds(r, joined) /\ joined.commits[joined.at].parents = <<r.at, r.theirs>>
    BY <1>2, <2>1, NewCommitEffect
  <2>3. o.repo = Cleaned(joined) /\ o.kind = "ok"
    BY <1>5 DEF Result
  <2> HIDE DEF joined
  <2>4. /\ WellFormed(Cleaned(joined)) /\ Grown(joined, Cleaned(joined))
        /\ Cleaned(joined).op = "none" /\ Cleaned(joined).head = joined.head
        /\ Cleaned(joined).at = joined.at /\ Cleaned(joined).commits = joined.commits
        /\ Cleaned(joined).tip = joined.tip
    BY <2>2, CleanedEffect DEF Adds
  <2>5. Goes(r, Cleaned(joined))
    BY <2>2, <2>4 DEF Goes, Grown, Adds, SameTask
  <2>6. Cleaned(joined).head = r.head
    BY <2>2, <2>4 DEF Adds, SameTask
  <2> QED
    BY <2>2, <2>3, <2>4, <2>5, <2>6 DEF Kinds
<1>6. CASE r.theirs = Nobody /\ o = Result(added, "ok")
  <2>1. <<r.at>> \in Seq(DOMAIN r.commits)
    BY <1>2, OneOrTwo
  <2>2. Adds(r, added)
    BY <1>2, <2>1, NewCommitEffect
  <2>3. Goes(r, added) /\ added.head = r.head
    BY <2>2, AddsGoes DEF Adds, SameTask
  <2>4. o.repo = added /\ o.kind = "ok"
    BY <1>6 DEF Result
  <2> QED
    BY <1>2, <1>6, <2>3, <2>4 DEF Kinds
<1> QED
  BY <1>1, <1>3, <1>4, <1>5, <1>6

(* A commit leaves everything as it was or succeeds.                        *)
LEMMA CommitOutcome ==
  ASSUME NEW r, WellFormed(r), NEW amend \in BOOLEAN, NEW o \in CreateCommit(r, amend)
  PROVE  Outcome(r, o)
<1>1. Goes(r, o.repo) /\ o.kind \in Kinds /\ (o.repo = r \/ o.kind = "ok")
  BY CreateCommitOutcome
<1> QED
  BY <1>1, Stays DEF Outcome

(* A merge of HEAD with a commit has begun.                                 *)
LEMMA MergeBegins ==
  ASSUME NEW r, WellFormed(r), QuietRepository(r), NEW source \in DOMAIN r.commits,
         NEW C \in SUBSET Paths, NEW s \in BOOLEAN
  PROVE  /\ Goes(r, Merging(r, source, C, s)) /\ Unturned(r, Merging(r, source, C, s))
         /\ Merging(r, source, C, s).op = "merge" /\ Merging(r, source, C, s).head = r.head
<1> DEFINE q == Merging(r, source, C, s)
<1>1. /\ DOMAIN q = DOMAIN r /\ q.op = "merge" /\ q.theirs = source /\ q.conflicts = C
      /\ q.staged = s /\ q.head = r.head /\ q.at = r.at /\ q.tip = r.tip
      /\ q.commits = r.commits /\ q.orig = r.orig /\ q.from = r.from /\ q.todo = r.todo
      /\ q.inHand = r.inHand /\ q.dirty = r.dirty
  BY DEF WellFormed, Merging
<1> HIDE DEF q
<1>2. source # Nobody /\ ~r.inHand
  BY DEF WellFormed, IsHistory, Nobody, QuietRepository, Sequencers
<1>3. WellFormed(q)
  BY <1>1, <1>2 DEF WellFormed, Operations, Sequencers
<1>4. Grown(r, q)
  BY <1>1 DEF Grown, WellFormed, IsHistory
<1> QED
  BY <1>1, <1>3, <1>4 DEF Goes, Unturned, q

(* A merge, and it moved only what its caller named.                        *)
LEMMA MergeOutcome ==
  ASSUME NEW r, WellFormed(r), NEW source \in DOMAIN r.commits, NEW branch,
         NEW o \in Merge(r, source, branch)
  PROVE  /\ Outcome(r, o) /\ Unturned(r, o.repo)
         /\ o.repo = r \/ AsExpected(r, branch)
<1> DEFINE clashes == (SUBSET Paths) \ {{}}
           stops == {Result(Merging(r, source, C, s), "conflicted") : C \in clashes, s \in BOOLEAN}
<1>1. \/ o \in Refused(r)
      \/ o = Result(r, "ok")
      \/ o \in FastForward(r, source, branch)
      \/ AsExpected(r, branch) /\ o \in CreateCommit(Merging(r, source, {}, TRUE), FALSE)
      \/ AsExpected(r, branch) /\ o \in stops
  <2>1. o \in Merged(r, source) => o \in CreateCommit(Merging(r, source, {}, TRUE), FALSE) \/ o \in stops
    <3>1. Merged(r, source) = CreateCommit(Merging(r, source, {}, TRUE), FALSE) \cup stops
      BY DEF Merged
    <3> HIDE DEF stops
    <3> QED
      BY <3>1
  <2>2. \/ o \in Refused(r)
        \/ o = Result(r, "ok")
        \/ o \in FastForward(r, source, branch)
        \/ AsExpected(r, branch) /\ o \in Merged(r, source)
    <3>1. CASE ~QuietRepository(r) \/ ~ExpectedBranch(r, branch)
      BY <3>1 DEF Merge
    <3>2. CASE AsExpected(r, branch) /\ source \in AncestorsOf(r, r.at)
      BY <3>2 DEF Merge, AsExpected
    <3>3. CASE AsExpected(r, branch) /\ source \notin AncestorsOf(r, r.at)
      BY <3>3 DEF Merge, AsExpected
    <3> QED
      BY <3>1, <3>2, <3>3 DEF AsExpected
  <2> HIDE DEF stops
  <2> QED
    BY <2>1, <2>2
<1>2. CASE o \in Refused(r)
  BY <1>2, RefusedOutcome, Stays
<1>3. CASE o = Result(r, "ok")
  BY <1>3, Stays DEF Outcome, Result, Kinds
<1>4. CASE o \in FastForward(r, source, branch)
  BY <1>4, FastForwardOutcome
<1>5. CASE AsExpected(r, branch) /\ o \in CreateCommit(Merging(r, source, {}, TRUE), FALSE)
  <2> DEFINE q == Merging(r, source, {}, TRUE)
  <2>1. {} \in SUBSET Paths /\ TRUE \in BOOLEAN /\ FALSE \in BOOLEAN
    OBVIOUS
  <2>2. QuietRepository(r)
    BY <1>5 DEF AsExpected
  <2>3. Goes(r, q) /\ q.op = "merge" /\ q.head = r.head
    BY <2>1, <2>2, MergeBegins
  <2> HIDE DEF q
  <2>4. /\ Goes(q, o.repo) /\ o.kind \in Kinds /\ o.repo.head = q.head
        /\ o.repo = q \/ (o.kind = "ok" /\ o.repo.op = "none")
    BY <1>5, <2>1, <2>3, CreateCommitOutcome DEF Goes, q
  <2>5. Goes(r, o.repo) /\ Unturned(r, o.repo)
    <3>1. Len(r.commits) \in Nat /\ Len(q.commits) \in Nat /\ Len(o.repo.commits) \in Nat
      BY <2>3, <2>4 DEF Goes, WellFormed, IsHistory
    <3>2. Grown(r, o.repo)
      BY <2>3, <2>4, <3>1 DEF Goes, Grown
    <3> QED
      BY <2>2, <2>3, <2>4, <3>2 DEF Goes, Unturned, QuietRepository
  <2> QED
    BY <1>5, <2>4, <2>5 DEF Outcome
<1>6. CASE AsExpected(r, branch) /\ o \in stops
  <2>1. PICK C \in clashes, s \in BOOLEAN : o = Result(Merging(r, source, C, s), "conflicted")
    <3> HIDE DEF clashes
    <3> QED
      BY <1>6
  <2>2. C \in SUBSET Paths /\ QuietRepository(r)
    BY <1>6 DEF AsExpected
  <2>3. Goes(r, Merging(r, source, C, s)) /\ Unturned(r, Merging(r, source, C, s))
    BY <2>2, MergeBegins
  <2>4. o.repo = Merging(r, source, C, s) /\ o.kind = "conflicted"
    BY <2>1 DEF Result
  <2> QED
    BY <1>6, <2>3, <2>4 DEF Outcome, Kinds
<1> HIDE DEF stops
<1> QED
  BY <1>1, <1>2, <1>3, <1>4, <1>5, <1>6

(* git's answer is judged by the repository it leaves.                      *)
Answered(r, a) ==
  /\ Goes(r, a.repo)
  /\ Judged(a) = "error" => Unturned(r, a.repo)

(* What the engine judges of git's answer is an outcome.                    *)
LEMMA JudgedOutcome ==
  ASSUME NEW r, NEW a, Answered(r, a), NEW o, o.repo = a.repo, o.kind = Judged(a)
  PROVE  Outcome(r, o)
<1>1. Judged(a) \in Kinds
  BY DEF Judged, Kinds
<1> QED
  BY <1>1 DEF Answered, Outcome

(* The same for an operation that runs git once.                            *)
LEMMA SequencedOutcome ==
  ASSUME NEW r, NEW A, \A a \in A : Answered(r, a), NEW o \in Sequenced(A)
  PROVE  Outcome(r, o)
<1>1. PICK a \in A : o = Result(a.repo, Judged(a))
  BY DEF Sequenced
<1>2. o.repo = a.repo /\ o.kind = Judged(a)
  BY <1>1 DEF Result
<1> QED
  BY <1>1, <1>2, JudgedOutcome

(* git has said no, or nothing to commit, and has left everything as it was. *)
LEMMA AnsweredAsItWas ==
  ASSUME NEW r, WellFormed(r), NEW a, a.repo = r
  PROVE  Answered(r, a)
  BY Stays DEF Answered

(* A rebase that was under way when git went on with it.                    *)
LEMMA AnsweredReplay ==
  ASSUME NEW r, WellFormed(r), r.op = "rebase", NEW s, Adds(r, s), NEW a \in GitReplays(s)
  PROVE  Answered(r, a)
<1>1. Replayed(s, a)
  BY GitReplaysEffect DEF Adds, SameTask
<1>2. WellFormed(a.repo) /\ Grown(r, a.repo)
  <2>1. Len(r.commits) \in Nat /\ Len(s.commits) \in Nat /\ Len(a.repo.commits) \in Nat
    BY <1>1 DEF Adds, Replayed, WellFormed, IsHistory
  <2> QED
    BY <1>1, <2>1 DEF Adds, Replayed, Grown
<1>3. CASE SameTask(s, a.repo)
  BY <1>2, <1>3 DEF Answered, Goes, Unturned, Adds, SameTask
<1>4. CASE a.repo.op = "none" /\ a.repo.head = s.orig /\ a.says = "done"
  <2>1. Judged(a) = "ok"
    BY <1>4 DEF Judged
  <2> QED
    BY <1>2, <1>4, <2>1 DEF Answered, Goes, Adds, SameTask
<1> QED
  BY <1>1, <1>3, <1>4 DEF Replayed

(* A rebase begins: HEAD is detached at the commit it goes onto.            *)
LEMMA AnsweredRebase ==
  ASSUME NEW r, WellFormed(r), NEW branch, AsExpected(r, branch), NEW onto \in DOMAIN r.commits,
         NEW todo \in Seq(DOMAIN r.commits), NEW a \in GitRebase(r, onto, todo)
  PROVE  Answered(r, a)
<1> DEFINE s == [r EXCEPT !.op = "rebase", !.orig = r.head, !.from = r.at,
                          !.head = Detached, !.at = onto, !.todo = todo]
<1>1. a = Answer(r, "said") \/ a \in GitReplays(s)
  BY DEF GitRebase
<1>2. CASE a = Answer(r, "said")
  BY <1>2, AnsweredAsItWas DEF Answer
<1>3. CASE a \in GitReplays(s)
  <2>1. /\ DOMAIN s = DOMAIN r /\ s.op = "rebase" /\ s.orig = r.head /\ s.from = r.at
        /\ s.head = Detached /\ s.at = onto /\ s.todo = todo /\ s.theirs = r.theirs
        /\ s.tip = r.tip /\ s.commits = r.commits /\ s.inHand = r.inHand
        /\ s.conflicts = r.conflicts /\ s.staged = r.staged /\ s.dirty = r.dirty
    BY DEF WellFormed
  <2>2. r.op = "none" /\ r.head \in Branches /\ ~r.inHand /\ r.theirs = Nobody
    BY DEF AsExpected, QuietRepository, ExpectedBranch, WellFormed, Sequencers
  <2> HIDE DEF s
  <2>3. WellFormed(s)
    BY <2>1, <2>2 DEF WellFormed, Operations, Sequencers
  <2>4. Replayed(s, a)
    BY <1>3, <2>1, <2>3, GitReplaysEffect
  <2>5. WellFormed(a.repo) /\ Grown(r, a.repo)
    BY <2>1, <2>4 DEF Replayed, Grown
  <2>6. CASE SameTask(s, a.repo)
    BY <2>1, <2>2, <2>5, <2>6 DEF Answered, Goes, Unturned, SameTask
  <2>7. CASE a.repo.op = "none" /\ a.repo.head = s.orig /\ a.says = "done"
    <3>1. Judged(a) = "ok"
      BY <2>7 DEF Judged
    <3> QED
      BY <2>1, <2>5, <2>7, <3>1 DEF Answered, Goes
  <2> QED
    BY <2>4, <2>6, <2>7 DEF Replayed
<1> QED
  BY <1>1, <1>2, <1>3

(* A rebase, whether it is replayed, refused or only moves the branch.      *)
LEMMA RebaseOutcome ==
  ASSUME NEW r, WellFormed(r), NEW upstream \in DOMAIN r.commits, NEW branch,
         NEW o \in Rebase(r, upstream, branch)
  PROVE  Outcome(r, o) /\ (o.repo = r \/ AsExpected(r, branch))
<1> DEFINE single == {c \in Range(RebaseTodo(r, upstream)) : ~IsMergeCommit(r, c)}
           told(A, a) == [Result(a.repo, Judged(a)) EXCEPT
                            !.left = A,
                            !.already = IF a.says = "timeout" \/ a.repo = r THEN {} ELSE A]
           few == {X \in SUBSET single : Cardinality(X) <= 1}
<1>1. CASE ~AsExpected(r, branch)
  <2>1. o \in Refused(r)
    BY <1>1 DEF Rebase, AsExpected
  <2> QED
    BY <2>1, RefusedOutcome
<1>2. CASE AsExpected(r, branch)
  <2>1. \/ o = Result(r, "ok")
        \/ \E A \in few : \E a \in GitRebase(r, upstream, Ordered(single \ A)) : o = told(A, a)
    BY <1>2, Zenon DEF Rebase, AsExpected
  <2>2. CASE o = Result(r, "ok")
    BY <2>2, Stays DEF Outcome, Result, Kinds
  <2>3. ASSUME NEW A \in few, NEW a \in GitRebase(r, upstream, Ordered(single \ A)), o = told(A, a)
        PROVE  Outcome(r, o)
    <3>1. single \subseteq DOMAIN r.commits
      <4> DEFINE mine == {c \in DOMAIN r.commits :
                            c \in AncestorsOf(r, r.at) /\ c \notin AncestorsOf(r, upstream)}
      <4>1. RebaseTodo(r, upstream) = Ordered(mine)
        BY DEF RebaseTodo
      <4>2. mine \in SUBSET DOMAIN r.commits
        OBVIOUS
      <4> HIDE DEF mine
      <4>3. Ordered(mine) \in Seq(DOMAIN r.commits)
        BY <4>2, TodoNamesCommits
      <4> QED
        BY <4>1, <4>3 DEF Range
    <3> HIDE DEF single
    <3>2. Ordered(single \ A) \in Seq(DOMAIN r.commits)
      <4>1. single \ A \in SUBSET DOMAIN r.commits
        BY <3>1
      <4> QED
        BY <4>1, TodoNamesCommits
    <3>3. Answered(r, a)
      BY <1>2, <3>2, AnsweredRebase
    <3>4. o.repo = a.repo /\ o.kind = Judged(a)
      BY <2>3 DEF Result
    <3> QED
      BY <3>3, <3>4, JudgedOutcome
  <2> HIDE DEF told, few
  <2> QED
    BY <1>2, <2>1, <2>2, <2>3
<1> QED
  BY <1>1, <1>2

(* A rebase along a plan.                                                   *)
LEMMA RebaseInteractiveOutcome ==
  ASSUME NEW r, WellFormed(r), NEW upstream \in DOMAIN r.commits, NEW branch,
         NEW plan \in Seq(DOMAIN r.commits), NEW o \in RebaseInteractive(r, upstream, plan, branch)
  PROVE  Outcome(r, o) /\ (o.repo = r \/ AsExpected(r, branch))
<1>1. o \in Refused(r) \/ (AsExpected(r, branch) /\ o \in Sequenced(GitRebase(r, upstream, plan)))
  BY DEF RebaseInteractive, AsExpected
<1>2. CASE o \in Refused(r)
  BY <1>2, RefusedOutcome
<1>3. CASE AsExpected(r, branch) /\ o \in Sequenced(GitRebase(r, upstream, plan))
  <2>1. \A a \in GitRebase(r, upstream, plan) : Answered(r, a)
    BY <1>3, AnsweredRebase
  <2> QED
    BY <1>3, <2>1, SequencedOutcome
<1> QED
  BY <1>1, <1>2, <1>3

(* One commit is replayed: done, or stopped at its conflicts or as empty.   *)
LEMMA PickStops ==
  ASSUME NEW r, WellFormed(r), QuietRepository(r), NEW op \in {"cherry_pick", "revert"},
         NEW c \in DOMAIN r.commits, NEW C \in SUBSET Paths, NEW s \in BOOLEAN
  PROVE  Goes(r, GitHolds(r, op, c, C, s)) /\ GitHolds(r, op, c, C, s).op # "none"
<1> DEFINE q == GitHolds(r, op, c, C, s)
<1>1. /\ DOMAIN q = DOMAIN r /\ q.op = op /\ q.todo = <<c>> /\ q.inHand = TRUE
      /\ q.conflicts = C /\ q.staged = s /\ q.head = r.head /\ q.at = r.at /\ q.tip = r.tip
      /\ q.commits = r.commits /\ q.orig = r.orig /\ q.from = r.from
      /\ q.theirs = r.theirs /\ q.dirty = r.dirty
  BY DEF WellFormed, GitHolds
<1> HIDE DEF q
<1>2. <<c>> \in Seq(DOMAIN r.commits) /\ <<c>> # <<>>
  BY OneOrTwo
<1>3. r.theirs = Nobody /\ op # "none" /\ op # "rebase" /\ op # "merge"
  BY DEF QuietRepository, WellFormed
<1>4. WellFormed(q)
  BY <1>1, <1>2, <1>3 DEF WellFormed, Operations, Sequencers
<1>5. Grown(r, q)
  BY <1>1 DEF Grown, WellFormed, IsHistory
<1> QED
  BY <1>1, <1>3, <1>4, <1>5 DEF Goes, q

(* git's cherry-pick and revert of one commit.                              *)
LEMMA AnsweredPick ==
  ASSUME NEW r, WellFormed(r), QuietRepository(r), NEW op \in {"cherry_pick", "revert"},
         NEW c \in DOMAIN r.commits, NEW a \in GitPickOne(r, op, c)
  PROVE  Answered(r, a)
<1> DEFINE of == IF op = "revert" THEN Own(r) ELSE r.commits[c].of
           stop(C, s) == GitHolds(r, op, c, C, s)
           clashes == (SUBSET Paths) \ {{}}
           stops == {Answer(stop(C, s), "said") : C \in clashes, s \in BOOLEAN}
<1>1. \/ a = Answer(r, "said") \/ a = Answer(r, "timeout")
      \/ a = Answer(NewCommit(r, <<r.at>>, of), "done")
      \/ a = Answer(stop({}, FALSE), "empty")
      \/ a \in stops
  <2>1. GitPickOne(r, op, c) =
          IF r.staged \/ IsMergeCommit(r, c) THEN {Answer(r, "said")}
          ELSE {Answer(NewCommit(r, <<r.at>>, of), "done"),
                Answer(stop({}, FALSE), "empty"), Answer(r, "said"), Answer(r, "timeout")} \cup stops
    BY DEF GitPickOne
  <2> HIDE DEF stop, stops, of
  <2> QED
    BY <2>1
<1>2. CASE a = Answer(r, "said") \/ a = Answer(r, "timeout")
  BY <1>2, AnsweredAsItWas DEF Answer
<1>3. CASE a = Answer(NewCommit(r, <<r.at>>, of), "done")
  <2>1. r.at \in DOMAIN r.commits
    BY DEF WellFormed
  <2>2. <<r.at>> \in Seq(DOMAIN r.commits) /\ of \in SUBSET Nat
    BY <2>1, OneOrTwo, ChangesOf
  <2> HIDE DEF of
  <2>3. Adds(r, NewCommit(r, <<r.at>>, of))
    BY <2>2, NewCommitEffect
  <2> QED
    BY <1>3, <2>3, AddsGoes DEF Answered, Answer
<1>4. ASSUME NEW C \in SUBSET Paths, NEW s \in BOOLEAN, NEW says \in {"said", "empty"},
             a = Answer(stop(C, s), says)
      PROVE  Answered(r, a)
  <2>1. Goes(r, stop(C, s)) /\ stop(C, s).op # "none"
    BY PickStops
  <2>2. a.repo = stop(C, s) /\ a.says = says
    BY <1>4 DEF Answer
  <2> HIDE DEF stop
  <2>3. Judged(a) # "error"
    BY <2>1, <2>2 DEF Judged
  <2> QED
    BY <2>1, <2>2, <2>3 DEF Answered
<1>5. CASE a = Answer(stop({}, FALSE), "empty")
  <2>1. {} \in SUBSET Paths /\ FALSE \in BOOLEAN
    OBVIOUS
  <2> HIDE DEF stop
  <2> QED
    BY <1>4, <1>5, <2>1
<1>6. CASE a \in stops
  <2> HIDE DEF stop
  <2>1. PICK C \in clashes, s \in BOOLEAN : a = Answer(stop(C, s), "said")
    <3> HIDE DEF clashes
    <3> QED
      BY <1>6
  <2>2. C \in SUBSET Paths
    OBVIOUS
  <2> QED
    BY <1>4, <2>1, <2>2
<1> HIDE DEF stop, stops, of
<1> QED
  BY <1>1, <1>2, <1>3, <1>5, <1>6

(* A cherry-pick or a revert as the engine runs it.                         *)
LEMMA PickOneOutcome ==
  ASSUME NEW r, WellFormed(r), NEW op \in {"cherry_pick", "revert"}, NEW c \in DOMAIN r.commits,
         NEW branch, NEW o \in PickOne(r, op, c, branch)
  PROVE  Outcome(r, o) /\ (o.repo = r \/ AsExpected(r, branch))
<1>1. o \in Refused(r) \/ (AsExpected(r, branch) /\ o \in Sequenced(GitPickOne(r, op, c)))
  BY DEF PickOne, AsExpected
<1>2. CASE o \in Refused(r)
  BY <1>2, RefusedOutcome
<1>3. CASE AsExpected(r, branch) /\ o \in Sequenced(GitPickOne(r, op, c))
  <2>1. \A a \in GitPickOne(r, op, c) : Answered(r, a)
    BY <1>3, AnsweredPick DEF AsExpected
  <2> QED
    BY <1>3, <2>1, SequencedOutcome
<1> QED
  BY <1>1, <1>2, <1>3

(* The first of a list and the rest of it.                                  *)
LEMMA HeadAndTail ==
  ASSUME NEW S, NEW q \in Seq(S), q # <<>>
  PROVE  Head(q) \in S /\ Tail(q) \in Seq(S)
OBVIOUS

(* The commit in hand is taken off the list.                                *)
LEMMA HandEmptied ==
  ASSUME NEW r, WellFormed(r), r.inHand
  PROVE  /\ Adds(r, [r EXCEPT !.todo = Tail(@), !.inHand = FALSE])
         /\ Head(r.todo) \in DOMAIN r.commits
<1> DEFINE rest == [r EXCEPT !.todo = Tail(r.todo), !.inHand = FALSE]
<1>1. rest = [r EXCEPT !.todo = Tail(@), !.inHand = FALSE]
  BY DEF WellFormed
<1>2. /\ r.todo \in Seq(DOMAIN r.commits) /\ r.todo # <<>> /\ IsHistory(r.commits)
      /\ r.staged \in BOOLEAN
  BY DEF WellFormed
<1>3. Tail(r.todo) \in Seq(DOMAIN r.commits) /\ Head(r.todo) \in DOMAIN r.commits
  BY <1>2, HeadAndTail
<1>4. /\ DOMAIN rest = DOMAIN r /\ rest.commits = r.commits /\ rest.todo = Tail(r.todo)
      /\ rest.inHand = FALSE /\ rest.staged = r.staged /\ rest.at = r.at /\ rest.tip = r.tip
      /\ SameTask(r, rest) /\ rest.conflicts = r.conflicts /\ rest.dirty = r.dirty
  BY DEF WellFormed, SameTask
<1> HIDE DEF rest
<1>5. Adds(r, rest)
  BY <1>2, <1>3, <1>4, GrowsSoundly
<1> QED
  BY <1>1, <1>3, <1>5

(* A commit of what is in hand goes on top of HEAD.                         *)
LEMMA ReplayedCommit ==
  ASSUME NEW r, WellFormed(r), NEW of \in SUBSET Nat
  PROVE  Adds(r, NewCommit(r, <<r.at>>, of))
<1>1. r.at \in DOMAIN r.commits
  BY DEF WellFormed
<1>2. <<r.at>> \in Seq(DOMAIN r.commits)
  BY <1>1, OneOrTwo
<1> QED
  BY <1>2, NewCommitEffect

(* An operation that is over: nothing is under way, on the same branch.     *)
LEMMA OverAndDone ==
  ASSUME NEW r, WellFormed(r), NEW s, Adds(r, s)
  PROVE  /\ Goes(r, Cleaned(s)) /\ Cleaned(s).op = "none" /\ Cleaned(s).head = r.head
         /\ Cleaned(s).at = s.at
<1>1. /\ WellFormed(Cleaned(s)) /\ Grown(s, Cleaned(s))
      /\ Cleaned(s).op = "none" /\ Cleaned(s).head = s.head /\ Cleaned(s).at = s.at
      /\ Cleaned(s).commits = s.commits /\ Cleaned(s).tip = s.tip
  BY CleanedEffect DEF Adds
<1> QED
  BY <1>1 DEF Goes, Grown, Adds, SameTask

(* git ends the operation and cleans up after it.                           *)
LEMMA AnsweredOver ==
  ASSUME NEW r, WellFormed(r), NEW s, Adds(r, s), NEW a, a = Answer(Cleaned(s), "done")
  PROVE  Answered(r, a)
<1>1. Goes(r, Cleaned(s)) /\ Cleaned(s).op = "none"
  BY OverAndDone
<1>2. a.repo = Cleaned(s) /\ a.says = "done"
  BY DEF Answer
<1>3. Judged(a) = "ok"
  BY <1>1, <1>2 DEF Judged
<1> QED
  BY <1>1, <1>2, <1>3 DEF Answered

(* git's --continue of the three operations.                                *)
LEMMA AnsweredContinue ==
  ASSUME NEW r, WellFormed(r), r.op \in Sequencers, NEW a \in GitContinue(r)
  PROVE  Answered(r, a)
<1> DEFINE of == IF r.op = "revert" THEN Own(r)
                 ELSE IF r.inHand THEN r.commits[Head(r.todo)].of ELSE {}
           rest == IF r.inHand THEN [r EXCEPT !.todo = Tail(@), !.inHand = FALSE] ELSE r
<1>1. Adds(r, rest) /\ rest.commits = r.commits /\ rest.at = r.at
  <2>1. r.inHand => Adds(r, [r EXCEPT !.todo = Tail(@), !.inHand = FALSE])
    BY HandEmptied
  <2>2. Adds(r, r)
    BY Stays
  <2> QED
    BY <2>1, <2>2 DEF WellFormed
<1>2. of \in SUBSET Nat
  BY HandEmptied, ChangesOf DEF WellFormed
<1>3. \/ a = Answer(r, "said") \/ a = Answer(r, "empty")
      \/ r.op = "rebase" /\ a \in GitReplays(IF r.staged THEN NewCommit(rest, <<r.at>>, of) ELSE rest)
      \/ a = Answer(Cleaned(NewCommit(r, <<r.at>>, of)), "done")
  <2>1. a \in CASE r.op = "rebase" /\ r.dirty -> {Answer(r, "said")}
                [] r.op = "rebase" /\ ~r.dirty ->
                     GitReplays(IF r.staged THEN NewCommit(rest, <<r.at>>, of) ELSE rest)
                [] OTHER ->
                     IF r.staged THEN {Answer(Cleaned(NewCommit(r, <<r.at>>, of)), "done")}
                     ELSE {Answer(r, "empty")}
    BY Zenon DEF GitContinue
  <2> HIDE DEF of, rest
  <2> QED
    BY <2>1
<1> HIDE DEF of, rest
<1>4. CASE a = Answer(r, "said") \/ a = Answer(r, "empty")
  BY <1>4, AnsweredAsItWas DEF Answer
<1>5. CASE r.op = "rebase" /\ a \in GitReplays(IF r.staged THEN NewCommit(rest, <<r.at>>, of) ELSE rest)
  <2> DEFINE s == IF r.staged THEN NewCommit(rest, <<r.at>>, of) ELSE rest
  <2>1. Adds(rest, NewCommit(rest, <<rest.at>>, of))
    BY <1>1, <1>2, ReplayedCommit DEF Adds
  <2>2. Adds(r, s)
    BY <1>1, <2>1, AddsAndAdds
  <2> HIDE DEF s
  <2> QED
    BY <1>5, <2>2, AnsweredReplay DEF s
<1>6. CASE a = Answer(Cleaned(NewCommit(r, <<r.at>>, of)), "done")
  <2>1. Adds(r, NewCommit(r, <<r.at>>, of))
    BY <1>2, ReplayedCommit
  <2> QED
    BY <1>6, <2>1, AnsweredOver
<1> QED
  BY <1>3, <1>4, <1>5, <1>6

(* Continuing, with the engine's checks before it and its judgement after.  *)
LEMMA ContinueOutcome ==
  ASSUME NEW r, WellFormed(r), NEW o \in Continue(r)
  PROVE  Outcome(r, o) /\ (o.repo = r \/ r.op \in Sequencers)
<1>1. \/ o \in Refused(r) \/ o = Result(r, "empty")
      \/ r.op \in Sequencers /\ o \in Sequenced(GitContinue(r))
  BY DEF Continue
<1>2. CASE o \in Refused(r)
  BY <1>2, RefusedOutcome
<1>3. CASE o = Result(r, "empty")
  BY <1>3, Stays DEF Outcome, Result, Kinds
<1>4. CASE r.op \in Sequencers /\ o \in Sequenced(GitContinue(r))
  <2>1. \A a \in GitContinue(r) : Answered(r, a)
    BY <1>4, AnsweredContinue
  <2> QED
    BY <1>4, <2>1, SequencedOutcome
<1> QED
  BY <1>1, <1>2, <1>3, <1>4

(* Keeping a commit that has become empty.                                  *)
LEMMA KeepEmptyOutcome ==
  ASSUME NEW r, WellFormed(r), NEW o \in KeepEmpty(r)
  PROVE  Outcome(r, o) /\ (o.repo = r \/ r.op \in Sequencers)
<1> DEFINE of == IF r.op = "revert" THEN Own(r) ELSE r.commits[Head(r.todo)].of
           rest == [r EXCEPT !.todo = Tail(@), !.inHand = FALSE]
           kept == NewCommit(rest, <<r.at>>, of)
<1>1. \/ o \in Refused(r)
      \/ /\ r.op \in Sequencers /\ r.inHand
         /\ \/ o = Result(Cleaned(kept), "ok")
            \/ r.op = "rebase" /\ o = Result(kept, "conflicted")
            \/ r.op = "rebase" /\ o \in Sequenced(GitReplays(kept))
  <2>1. o \in IF r.op \notin Sequencers \/ r.conflicts # {} \/ r.staged \/ ~r.inHand THEN Refused(r)
              ELSE CASE r.op # "rebase" -> {Result(Cleaned(kept), "ok")}
                     [] r.op = "rebase" /\ r.dirty -> {Result(kept, "conflicted")}
                     [] OTHER -> Sequenced(GitReplays(kept))
    BY Zenon DEF KeepEmpty
  <2> HIDE DEF kept
  <2> QED
    BY <2>1
<1>2. CASE o \in Refused(r)
  BY <1>2, RefusedOutcome
<1>3. CASE r.op \in Sequencers /\ r.inHand
  <2>1. Adds(r, rest) /\ rest.at = r.at
    BY <1>3, HandEmptied DEF WellFormed
  <2>2. of \in SUBSET Nat
    BY <1>3, HandEmptied, ChangesOf DEF WellFormed
  <2> HIDE DEF of, rest
  <2>3. Adds(rest, NewCommit(rest, <<rest.at>>, of))
    BY <2>1, <2>2, ReplayedCommit DEF Adds
  <2>4. Adds(r, kept)
    BY <2>1, <2>3, AddsAndAdds
  <2> HIDE DEF kept
  <2>5. CASE o = Result(Cleaned(kept), "ok")
    BY <1>3, <2>4, <2>5, OverAndDone DEF Outcome, Result, Kinds
  <2>6. CASE o = Result(kept, "conflicted")
    BY <1>3, <2>4, <2>6, AddsGoes DEF Outcome, Result, Kinds
  <2>7. CASE r.op = "rebase" /\ o \in Sequenced(GitReplays(kept))
    <3>1. \A a \in GitReplays(kept) : Answered(r, a)
      BY <2>4, <2>7, AnsweredReplay
    <3> QED
      BY <1>3, <2>7, <3>1, SequencedOutcome
  <2> QED
    BY <1>1, <1>2, <2>5, <2>6, <2>7
<1> HIDE DEF kept
<1> QED
  BY <1>1, <1>2, <1>3

(* The files are reset: no conflict, and the index is HEAD's.               *)
LEMMA FilesReset ==
  ASSUME NEW r, WellFormed(r)
  PROVE  LET reset == [r EXCEPT !.conflicts = {}, !.staged = FALSE]
         IN  Adds(r, reset) /\ reset.at = r.at
<1> DEFINE reset == [r EXCEPT !.conflicts = {}, !.staged = FALSE]
<1>1. /\ DOMAIN reset = DOMAIN r /\ SameTask(r, reset) /\ reset.at = r.at /\ reset.tip = r.tip
      /\ reset.commits = r.commits /\ reset.todo = r.todo /\ reset.inHand = r.inHand
      /\ reset.conflicts = {} /\ reset.staged = FALSE /\ reset.dirty = r.dirty
  BY DEF WellFormed, SameTask
<1>2. {} \in SUBSET Paths /\ FALSE \in BOOLEAN /\ r.dirty \in BOOLEAN
  BY DEF WellFormed
<1> HIDE DEF reset
<1>3. Adds(r, reset)
  BY <1>1, <1>2, FilesChange
<1> QED
  BY <1>1, <1>3 DEF reset

(* git's --skip of the three operations.                                    *)
LEMMA AnsweredSkip ==
  ASSUME NEW r, WellFormed(r), r.op \in Sequencers, NEW a \in GitSkip(r)
  PROVE  Answered(r, a)
<1> DEFINE reset == [r EXCEPT !.conflicts = {}, !.staged = FALSE]
           list == IF r.inHand THEN Tail(r.todo) ELSE r.todo
           s == [reset EXCEPT !.dirty = FALSE, !.inHand = FALSE, !.todo = list]
<1>1. Adds(r, reset)
  BY FilesReset
<1>2. \/ a = Answer(Cleaned(reset), "done")
      \/ r.op = "rebase" /\ a \in GitReplays(s)
  <2>1. [reset EXCEPT !.dirty = FALSE, !.inHand = FALSE, !.todo = IF r.inHand THEN Tail(@) ELSE @] = s
    BY DEF WellFormed
  <2> HIDE DEF s
  <2>2. a \in IF r.op # "rebase" THEN {Answer(Cleaned(reset), "done")} ELSE GitReplays(s)
    BY <2>1, Zenon DEF GitSkip
  <2> HIDE DEF reset
  <2> QED
    BY <2>2
<1>3. CASE a = Answer(Cleaned(reset), "done")
  <2> HIDE DEF reset
  <2> QED
    BY <1>1, <1>3, AnsweredOver
<1>4. CASE r.op = "rebase" /\ a \in GitReplays(s)
  <2>1. list \in Seq(DOMAIN r.commits)
    BY HeadAndTail DEF WellFormed
  <2>2. /\ DOMAIN s = DOMAIN r /\ SameTask(r, s) /\ s.at = r.at /\ s.tip = r.tip
        /\ s.commits = r.commits /\ s.todo = list /\ s.inHand = FALSE
        /\ s.conflicts = {} /\ s.staged = FALSE /\ s.dirty = FALSE
    BY DEF WellFormed, SameTask
  <2> HIDE DEF s, list
  <2>3. WellFormed(s)
    BY <2>1, <2>2 DEF WellFormed, SameTask
  <2>4. Adds(r, s)
    BY <2>2, <2>3 DEF Adds, Grown, WellFormed, IsHistory
  <2> QED
    BY <1>4, <2>4, AnsweredReplay
<1> HIDE DEF reset, s
<1> QED
  BY <1>2, <1>3, <1>4

(* Skipping, with the engine's checks before it and its judgement after.    *)
LEMMA SkipOutcome ==
  ASSUME NEW r, WellFormed(r), NEW o \in Skip(r)
  PROVE  Outcome(r, o) /\ (o.repo = r \/ r.op \in Sequencers)
<1>1. o \in Refused(r) \/ (r.op \in Sequencers /\ o \in Sequenced(GitSkip(r)))
  BY DEF Skip
<1>2. CASE o \in Refused(r)
  BY <1>2, RefusedOutcome
<1>3. CASE r.op \in Sequencers /\ o \in Sequenced(GitSkip(r))
  <2>1. \A a \in GitSkip(r) : Answered(r, a)
    BY <1>3, AnsweredSkip
  <2> QED
    BY <1>3, <2>1, SequencedOutcome
<1> QED
  BY <1>1, <1>2, <1>3

(* A rebase given up leaves HEAD, and its branch, where they were.          *)
LEMMA GitAbortEffect ==
  ASSUME NEW r, WellFormed(r), r.op \in Sequencers
  PROVE  Goes(r, GitAbort(r))
<1> DEFINE reset == [r EXCEPT !.conflicts = {}, !.staged = FALSE]
           s == [reset EXCEPT !.dirty = FALSE, !.head = r.orig, !.at = r.from,
                              !.tip[r.orig] = r.from]
<1>1. CASE r.op # "rebase"
  <2>1. GitAbort(r) = Cleaned(reset)
    BY <1>1 DEF GitAbort
  <2>2. Adds(r, reset)
    BY FilesReset
  <2> HIDE DEF reset
  <2> QED
    BY <2>1, <2>2, OverAndDone
<1>2. CASE r.op = "rebase"
  <2>1. GitAbort(r) = Cleaned(s)
    BY <1>2 DEF GitAbort
  <2>2. /\ DOMAIN s = DOMAIN r /\ s.head = r.orig /\ s.at = r.from
        /\ s.tip = [r.tip EXCEPT ![r.orig] = r.from] /\ s.commits = r.commits /\ s.op = r.op
        /\ s.theirs = r.theirs /\ s.orig = r.orig /\ s.from = r.from /\ s.todo = r.todo
        /\ s.inHand = r.inHand /\ s.conflicts = {} /\ s.staged = FALSE /\ s.dirty = FALSE
    BY DEF WellFormed
  <2>3. r.orig \in Branches /\ r.from \in DOMAIN r.commits /\ Nobody \notin DOMAIN r.commits
    BY <1>2 DEF WellFormed, IsHistory, Nobody
  <2>4. /\ s.tip \in [Branches -> {Nobody} \cup DOMAIN s.commits] /\ s.tip[r.orig] = r.from
        /\ \A b \in Branches : r.tip[b] # Nobody => s.tip[b] # Nobody
    BY <2>2, <2>3 DEF WellFormed
  <2> HIDE DEF s
  <2>5. WellFormed(s)
    BY <2>2, <2>3, <2>4 DEF WellFormed
  <2>6. /\ WellFormed(Cleaned(s)) /\ Cleaned(s).op = "none" /\ Cleaned(s).head = s.head
        /\ Cleaned(s).commits = s.commits /\ Cleaned(s).tip = s.tip
    BY <2>5, CleanedEffect
  <2>7. Grown(r, Cleaned(s))
    BY <2>2, <2>4, <2>6 DEF Grown, WellFormed, IsHistory
  <2> QED
    BY <1>2, <2>1, <2>2, <2>6, <2>7 DEF Goes
<1> QED
  BY <1>1, <1>2

(* A merge given up leaves HEAD where it is.                                *)
LEMMA AbortOutcome ==
  ASSUME NEW r, WellFormed(r), NEW o \in Abort(r)
  PROVE  Outcome(r, o) /\ (r.op = "merge" => o.repo.at = r.at)
<1>1. \/ o \in Refused(r) \/ o = Result(r, "ok")
      \/ r.op = "merge" /\ o = Result(AbortMerge(r), "ok")
      \/ r.op \in Sequencers /\ o = Result(GitAbort(r), "ok")
  BY DEF Abort, WellFormed, Operations
<1>2. CASE o \in Refused(r)
  BY <1>2, RefusedOutcome
<1>3. CASE o = Result(r, "ok")
  BY <1>3, Stays DEF Outcome, Result, Kinds
<1>4. CASE r.op = "merge" /\ o = Result(AbortMerge(r), "ok")
  <2> DEFINE reset == [r EXCEPT !.conflicts = {}, !.staged = FALSE]
  <2>1. Adds(r, reset) /\ reset.at = r.at
    BY FilesReset
  <2>2. AbortMerge(r) = Cleaned(reset)
    BY DEF AbortMerge
  <2> HIDE DEF reset
  <2>3. Goes(r, Cleaned(reset)) /\ Cleaned(reset).at = reset.at
    BY <2>1, OverAndDone
  <2>4. o.repo = Cleaned(reset) /\ o.kind = "ok"
    BY <1>4, <2>2 DEF Result
  <2> QED
    BY <2>1, <2>3, <2>4 DEF Outcome, Kinds
<1>5. CASE r.op \in Sequencers /\ o = Result(GitAbort(r), "ok")
  <2>1. o.repo = GitAbort(r) /\ o.kind = "ok" /\ r.op # "merge"
    BY <1>5 DEF Result, Sequencers
  <2> QED
    BY <1>5, <2>1, GitAbortEffect DEF Outcome, Kinds
<1> QED
  BY <1>1, <1>2, <1>3, <1>4, <1>5

(* The files of a repository are these.                                     *)
WithFiles(r, C, s, d) == [r EXCEPT !.conflicts = C, !.staged = s, !.dirty = d]

(* Changing one or two of the three is to change all of them.               *)
LEMMA FieldsKept ==
  ASSUME NEW r, WellFormed(r)
  PROVE  /\ r.conflicts \in SUBSET Paths /\ r.staged \in BOOLEAN /\ r.dirty \in BOOLEAN
         /\ \A C, s : [r EXCEPT !.conflicts = C, !.staged = s] = WithFiles(r, C, s, r.dirty)
         /\ \A s, d : [r EXCEPT !.staged = s, !.dirty = d] = WithFiles(r, r.conflicts, s, d)
         /\ \A s : [r EXCEPT !.staged = s] = WithFiles(r, r.conflicts, s, r.dirty)
         /\ \A d : [r EXCEPT !.dirty = d] = WithFiles(r, r.conflicts, r.staged, d)
  BY DEF WellFormed, WithFiles

(* Such a change keeps what is under way and where HEAD is.                 *)
LEMMA WithFilesEffect ==
  ASSUME NEW r, WellFormed(r), NEW C \in SUBSET Paths, NEW s \in BOOLEAN, NEW d \in BOOLEAN
  PROVE  Adds(r, WithFiles(r, C, s, d)) /\ WithFiles(r, C, s, d).at = r.at
<1> DEFINE q == WithFiles(r, C, s, d)
<1>1. /\ DOMAIN q = DOMAIN r /\ SameTask(r, q) /\ q.at = r.at /\ q.tip = r.tip
      /\ q.commits = r.commits /\ q.todo = r.todo /\ q.inHand = r.inHand
      /\ q.conflicts = C /\ q.staged = s /\ q.dirty = d
  BY DEF WellFormed, SameTask, WithFiles
<1> HIDE DEF q
<1>2. Adds(r, q)
  BY <1>1, FilesChange
<1> QED
  BY <1>1, <1>2 DEF q

(* What is done to files leaves HEAD, the branches and the operation alone. *)
FilesOnly(r, o) == Outcome(r, o) /\ Unturned(r, o.repo) /\ o.repo.at = r.at

(* The outcome of writing the index and the files.                          *)
LEMMA FilesOutcome ==
  ASSUME NEW r, WellFormed(r), NEW C \in SUBSET Paths, NEW s \in BOOLEAN, NEW d \in BOOLEAN,
         NEW o \in {Result(WithFiles(r, C, s, d), "ok")}
  PROVE  FilesOnly(r, o)
<1>1. o.repo = WithFiles(r, C, s, d) /\ o.kind = "ok"
  BY DEF Result
<1> QED
  BY <1>1, WithFilesEffect, AddsGoes DEF FilesOnly, Outcome, Kinds

(* HEAD goes to a commit, with the index and the files or without them.     *)
LEMMA ResetOutcome ==
  ASSUME NEW r, WellFormed(r), NEW c \in DOMAIN r.commits, NEW kind \in {"soft", "mixed", "hard"},
         NEW branch, NEW o \in ResetTo(r, c, kind, branch)
  PROVE  Outcome(r, o) /\ (o.repo = r \/ AsExpected(r, branch))
<1> DEFINE moved == MoveTo(r, c)
<1>1. Adds(r, moved)
  BY MoveToEffect
<1>2. o \in Refused(r) \/
      (AsExpected(r, branch) /\
        \/ o = Result([moved EXCEPT !.staged = TRUE], "ok")
        \/ o = Result([moved EXCEPT !.staged = FALSE, !.dirty = TRUE], "ok")
        \/ o = Result([moved EXCEPT !.staged = FALSE, !.dirty = FALSE], "ok"))
  BY DEF ResetTo, AsExpected
<1> HIDE DEF moved
<1>3. CASE o \in Refused(r)
  BY <1>3, RefusedOutcome
<1>4. CASE o \notin Refused(r)
  <2>1. WellFormed(moved)
    BY <1>1 DEF Adds
  <2>2. /\ moved.conflicts \in SUBSET Paths /\ moved.dirty \in BOOLEAN
        /\ [moved EXCEPT !.staged = TRUE] = WithFiles(moved, moved.conflicts, TRUE, moved.dirty)
        /\ \A d : [moved EXCEPT !.staged = FALSE, !.dirty = d]
                  = WithFiles(moved, moved.conflicts, FALSE, d)
    BY <2>1, FieldsKept
  <2>3. \E s \in BOOLEAN, d \in BOOLEAN : o = Result(WithFiles(moved, moved.conflicts, s, d), "ok")
    <3>1. TRUE \in BOOLEAN /\ FALSE \in BOOLEAN
      OBVIOUS
    <3>2. CASE o = Result([moved EXCEPT !.staged = TRUE], "ok")
      BY <2>2, <3>1, <3>2, Zenon
    <3>3. ASSUME NEW d \in BOOLEAN, o = Result([moved EXCEPT !.staged = FALSE, !.dirty = d], "ok")
          PROVE  \E s \in BOOLEAN : o = Result(WithFiles(moved, moved.conflicts, s, d), "ok")
      BY <2>2, <3>1, <3>3, Zenon
    <3> QED
      BY <1>2, <1>4, <3>1, <3>2, <3>3
  <2>4. PICK s \in BOOLEAN, d \in BOOLEAN : o = Result(WithFiles(moved, moved.conflicts, s, d), "ok")
    BY <2>3
  <2>7. o.repo = WithFiles(moved, moved.conflicts, s, d) /\ o.kind = "ok"
    BY <2>4 DEF Result
  <2>5. Adds(moved, o.repo)
    <3>1. Adds(moved, WithFiles(moved, moved.conflicts, s, d))
      BY <2>1, <2>2, WithFilesEffect
    <3> QED
      BY <2>7, <3>1
  <2>6. Adds(r, o.repo)
    BY <1>1, <2>5, AddsAndAdds
  <2> QED
    BY <1>2, <1>4, <2>7, <2>6, AddsGoes DEF Outcome, Kinds
<1> QED
  BY <1>3, <1>4

(* A new branch is made at HEAD, and HEAD put on it.                        *)
LEMMA CreateBranchOutcome ==
  ASSUME NEW r, WellFormed(r), NEW b \in Branches, NEW o \in CreateBranch(r, b)
  PROVE  /\ WellFormed(o.repo) /\ Grown(r, o.repo) /\ o.kind \in Kinds
         /\ o.repo.at = r.at /\ o.repo.op = r.op /\ o.repo.orig = r.orig
         /\ o.repo = r \/ (r.tip[b] = Nobody /\ o.repo.head = b /\ o.kind = "ok")
<1> DEFINE q == [r EXCEPT !.tip[b] = r.at, !.head = b]
<1>1. o \in Refused(r) \/ (r.tip[b] = Nobody /\ o = Result(q, "ok"))
  BY DEF CreateBranch
<1>2. CASE o \in Refused(r)
  BY <1>2, RefusedOutcome DEF Outcome, Goes
<1>3. CASE r.tip[b] = Nobody /\ o = Result(q, "ok")
  <2>1. /\ DOMAIN q = DOMAIN r /\ q.head = b /\ q.at = r.at /\ q.tip = [r.tip EXCEPT ![b] = r.at]
        /\ q.commits = r.commits /\ q.op = r.op /\ q.theirs = r.theirs /\ q.orig = r.orig
        /\ q.from = r.from /\ q.todo = r.todo /\ q.inHand = r.inHand
        /\ q.conflicts = r.conflicts /\ q.staged = r.staged /\ q.dirty = r.dirty
    BY DEF WellFormed
  <2>2. /\ q.tip \in [Branches -> {Nobody} \cup DOMAIN r.commits] /\ q.tip[b] = r.at
        /\ \A x \in Branches : r.tip[x] # Nobody => q.tip[x] # Nobody
    BY <1>3, <2>1 DEF WellFormed
  <2>3. o.repo = q /\ o.kind = "ok"
    BY <1>3 DEF Result
  <2> HIDE DEF q
  <2>4. WellFormed(q)
    BY <2>1, <2>2 DEF WellFormed
  <2>5. Grown(r, q)
    BY <2>1, <2>2 DEF Grown, WellFormed, IsHistory
  <2> QED
    BY <1>3, <2>1, <2>3, <2>4, <2>5 DEF Kinds
<1> QED
  BY <1>1, <1>2, <1>3

(* HEAD is put on another branch; under a rebase it is not.                 *)
LEMMA CheckoutBranchOutcome ==
  ASSUME NEW r, WellFormed(r), NEW b \in Branches, NEW o \in CheckoutBranch(r, b)
  PROVE  /\ WellFormed(o.repo) /\ Grown(r, o.repo) /\ o.kind \in Kinds
         /\ o.repo.op = r.op
         /\ o.repo = r \/ (r.op # "rebase" /\ o.repo.head = b /\ o.kind = "ok")
<1> DEFINE q == [r EXCEPT !.head = b, !.at = r.tip[b]]
<1>1. \/ o \in Refused(r)
      \/ r.op \notin Sequencers /\ r.tip[b] # Nobody /\ o = Result(q, "ok")
  BY DEF CheckoutBranch
<1>2. CASE o \in Refused(r)
  BY <1>2, RefusedOutcome DEF Outcome, Goes
<1>3. CASE r.op \notin Sequencers /\ r.tip[b] # Nobody /\ o = Result(q, "ok")
  <2>1. /\ DOMAIN q = DOMAIN r /\ q.head = b /\ q.at = r.tip[b] /\ q.tip = r.tip
        /\ q.commits = r.commits /\ q.op = r.op /\ q.theirs = r.theirs /\ q.orig = r.orig
        /\ q.from = r.from /\ q.todo = r.todo /\ q.inHand = r.inHand
        /\ q.conflicts = r.conflicts /\ q.staged = r.staged /\ q.dirty = r.dirty
    BY DEF WellFormed
  <2>2. o.repo = q /\ o.kind = "ok"
    BY <1>3 DEF Result
  <2> HIDE DEF q
  <2>3. r.tip[b] \in DOMAIN r.commits
    BY <1>3 DEF WellFormed
  <2>4. WellFormed(q)
    BY <2>1, <2>3 DEF WellFormed
  <2>5. Grown(r, q)
    BY <2>1 DEF Grown, WellFormed, IsHistory
  <2> QED
    BY <1>3, <2>1, <2>2, <2>4, <2>5 DEF Kinds, Sequencers
<1> QED
  BY <1>1, <1>2, <1>3

(* A branch HEAD is not on is deleted.                                      *)
LEMMA DeleteBranchOutcome ==
  ASSUME NEW r, WellFormed(r), NEW b \in Branches, NEW o \in DeleteBranch(r, b)
  PROVE  /\ WellFormed(o.repo) /\ o.kind \in Kinds /\ SameTask(r, o.repo)
         /\ o.repo.at = r.at /\ o.repo.commits = r.commits
         /\ \A x \in Branches \ {b} : o.repo.tip[x] = r.tip[x]
<1> DEFINE q == [r EXCEPT !.tip[b] = Nobody]
<1>1. o \in Refused(r) \/ (r.head # b /\ o = Result(q, "ok"))
  BY DEF DeleteBranch
<1>2. CASE o \in Refused(r)
  BY <1>2, RefusedOutcome DEF Outcome, Goes, SameTask
<1>3. CASE r.head # b /\ o = Result(q, "ok")
  <2>1. /\ DOMAIN q = DOMAIN r /\ q.tip = [r.tip EXCEPT ![b] = Nobody] /\ SameTask(r, q)
        /\ q.at = r.at /\ q.commits = r.commits /\ q.todo = r.todo /\ q.inHand = r.inHand
        /\ q.conflicts = r.conflicts /\ q.staged = r.staged /\ q.dirty = r.dirty
    BY DEF WellFormed, SameTask
  <2>2. /\ q.tip \in [Branches -> {Nobody} \cup DOMAIN r.commits]
        /\ \A x \in Branches \ {b} : q.tip[x] = r.tip[x]
    BY <2>1 DEF WellFormed
  <2>3. o.repo = q /\ o.kind = "ok"
    BY <1>3 DEF Result
  <2> HIDE DEF q
  <2>4. WellFormed(q)
    BY <1>3, <2>1, <2>2 DEF WellFormed, SameTask
  <2> QED
    BY <2>1, <2>2, <2>3, <2>4 DEF Kinds
<1> QED
  BY <1>1, <1>2, <1>3


(* Staging a path, which also settles its conflict.                         *)
LEMMA StageFileOutcome ==
  ASSUME NEW r, WellFormed(r), NEW p, NEW o \in StageFile(r, p)
  PROVE  FilesOnly(r, o)
<1>1. CASE p \in r.conflicts
  <2>1. PICK s \in {r.staged, TRUE} : o = Result(WithFiles(r, r.conflicts \ {p}, s, r.dirty), "ok")
    BY <1>1 DEF StageFile, WithFiles, WellFormed
  <2>2. s \in BOOLEAN /\ r.dirty \in BOOLEAN /\ r.conflicts \ {p} \in SUBSET Paths
    BY FieldsKept
  <2> QED
    BY <2>1, <2>2, FieldsKept, FilesOutcome
<1>2. CASE p \notin r.conflicts
  <2> DEFINE staged == r.staged \/ r.dirty
  <2>1. PICK d \in {r.dirty, FALSE} : o = Result([r EXCEPT !.staged = staged, !.dirty = d], "ok")
    BY <1>2 DEF StageFile
  <2>2. d \in BOOLEAN /\ staged \in BOOLEAN /\ r.conflicts \in SUBSET Paths
    BY FieldsKept
  <2> HIDE DEF staged
  <2>3. [r EXCEPT !.staged = staged, !.dirty = d] = WithFiles(r, r.conflicts, staged, d)
    BY DEF WithFiles, WellFormed
  <2>4. o \in {Result(WithFiles(r, r.conflicts, staged, d), "ok")}
    BY <2>1, <2>3, Zenon
  <2> QED
    BY <2>2, <2>4, FilesOutcome
<1> QED
  BY <1>1, <1>2

(* Unstaging.                                                               *)
LEMMA UnstageFileOutcome ==
  ASSUME NEW r, WellFormed(r), NEW o \in UnstageFile(r)
  PROVE  FilesOnly(r, o)
<1>1. PICK s \in {r.staged, FALSE} : o = Result(WithFiles(r, r.conflicts, s, r.dirty \/ r.staged), "ok")
  BY DEF UnstageFile, WithFiles, WellFormed
<1>2. s \in BOOLEAN /\ (r.dirty \/ r.staged) \in BOOLEAN
  BY FieldsKept
<1> QED
  BY <1>1, <1>2, FieldsKept, FilesOutcome

(* Discarding a working file.                                               *)
LEMMA DiscardFileOutcome ==
  ASSUME NEW r, WellFormed(r), NEW o \in DiscardFile(r)
  PROVE  FilesOnly(r, o)
<1>1. PICK d \in {r.dirty, FALSE} : o = Result(WithFiles(r, r.conflicts, r.staged, d), "ok")
  BY DEF DiscardFile, WithFiles, WellFormed
<1>2. d \in BOOLEAN
  BY FieldsKept
<1> QED
  BY <1>1, <1>2, FieldsKept, FilesOutcome

(* Settling a conflict with a side or line by line.                         *)
LEMMA ResolveConflictOutcome ==
  ASSUME NEW r, WellFormed(r), NEW p, NEW side \in {"ours", "theirs", "lines"},
         NEW o \in ResolveConflict(r, p, side)
  PROVE  FilesOnly(r, o)
<1>1. CASE p \notin r.conflicts
  <2>1. o \in Refused(r)
    BY <1>1 DEF ResolveConflict
  <2> QED
    BY <2>1, RefusedOutcome, Stays DEF FilesOnly
<1>2. CASE p \in r.conflicts
  <2> DEFINE put == CASE side = "ours" -> {r.staged} [] side = "theirs" -> {TRUE}
                      [] side = "lines" -> {r.staged, TRUE}
  <2>1. PICK s \in put : o = Result(WithFiles(r, r.conflicts \ {p}, s, r.dirty), "ok")
    BY <1>2 DEF ResolveConflict, WithFiles, WellFormed
  <2>2. s \in BOOLEAN /\ r.conflicts \ {p} \in SUBSET Paths
    BY FieldsKept
  <2> QED
    BY <2>1, <2>2, FieldsKept, FilesOutcome
<1> QED
  BY <1>1, <1>2

-------------------------------------------------------------------------------
(* Ancestors.                                                               *)

(* A set of numbers has a least one: of the segments up to its members one  *)
(* contains no other, since finite sets are well founded.                   *)
LEMMA LeastNumber ==
  ASSUME NEW S \in SUBSET Nat, S # {}
  PROVE  \E n \in S : \A k \in S : n <= k
<1> DEFINE R == StrictSubsetOrdering(Nat)
           segments == {0..n : n \in S}
<1>1. IsWellFoundedOn(R, FiniteSubsetsOf(Nat))
  BY FS_StrictSubsetOrderingWellFounded
<1>2. ASSUME NEW n \in S PROVE 0..n \in FiniteSubsetsOf(Nat)
  <2>1. n \in Int /\ 0 \in Int /\ 0..n \subseteq Nat
    OBVIOUS
  <2>2. IsFiniteSet(0..n)
    BY <2>1, FS_Interval
  <2> QED
    BY <2>1, <2>2 DEF FiniteSubsetsOf
<1>3. segments \subseteq FiniteSubsetsOf(Nat) /\ segments # {}
  BY <1>2
<1>4. PICK x \in segments : \A y \in segments : <<y, x>> \notin R
  <2> HIDE DEF R, segments
  <2> QED
    BY <1>1, <1>3, WFMin
<1>5. PICK n \in S : x = 0..n
  BY <1>4
<1>6. ASSUME NEW k \in S, k < n PROVE FALSE
  <2>1. 0..k \subseteq 0..n /\ n \in 0..n /\ n \notin 0..k
    BY <1>6
  <2>2. <<0..k, 0..n>> \in R
    BY <2>1 DEF StrictSubsetOrdering
  <2> QED
    BY <1>4, <1>5, <2>2
<1> QED
  BY <1>6

(* A set of commits that has the parents of its members too.                *)
Closed(commits, X) == \A x \in X : Range(commits[x].parents) \subseteq X

(* What each such set with the commit c in it has.                          *)
Below(commits, c) ==
  {y \in DOMAIN commits :
     \A X \in SUBSET DOMAIN commits : c \in X /\ Closed(commits, X) => y \in X}

(* A commit's parents are commits, with smaller numbers.                    *)
LEMMA ParentsAreSmaller ==
  ASSUME NEW commits, IsHistory(commits), NEW c \in DOMAIN commits, NEW p \in Range(commits[c].parents)
  PROVE  p \in DOMAIN commits /\ p < c
<1>1. DOMAIN commits = 1..Len(commits) /\ Len(commits) \in Nat /\ p \in 1..(c - 1)
  BY DEF IsHistory
<1> QED
  BY <1>1

(* Below a commit is the commit itself, and with each its parents.          *)
LEMMA BelowIsClosed ==
  ASSUME NEW commits, IsHistory(commits), NEW c \in DOMAIN commits
  PROVE  c \in Below(commits, c) /\ Closed(commits, Below(commits, c))
<1>1. c \in Below(commits, c)
  BY DEF Below
<1>2. ASSUME NEW x \in Below(commits, c), NEW p \in Range(commits[x].parents)
      PROVE  p \in Below(commits, c)
  <2>1. x \in DOMAIN commits
    BY DEF Below
  <2>2. p \in DOMAIN commits
    BY <2>1, ParentsAreSmaller
  <2>3. ASSUME NEW X \in SUBSET DOMAIN commits, c \in X, Closed(commits, X) PROVE p \in X
    <3>1. x \in X
      BY <2>3 DEF Below
    <3> QED
      BY <2>3, <3>1 DEF Closed
  <2> QED
    BY <2>2, <2>3 DEF Below
<1> QED
  BY <1>1, <1>2 DEF Closed

(* What is below a parent is below its child.                               *)
LEMMA BelowParent ==
  ASSUME NEW commits, IsHistory(commits), NEW c \in DOMAIN commits, NEW p \in Range(commits[c].parents)
  PROVE  Below(commits, p) \subseteq Below(commits, c)
<1>1. ASSUME NEW y \in Below(commits, p), NEW X \in SUBSET DOMAIN commits, c \in X, Closed(commits, X)
      PROVE  y \in X
  <2>1. p \in X
    BY <1>1 DEF Closed
  <2> QED
    BY <1>1, <2>1 DEF Below
<1> QED
  BY <1>1 DEF Below

(* Below a commit are itself and what is below its parents.                 *)
LEMMA BelowUnfolds ==
  ASSUME NEW commits, IsHistory(commits), NEW c \in DOMAIN commits
  PROVE  Below(commits, c) = {c} \cup UNION {Below(commits, y) : y \in Range(commits[c].parents)}
<1> DEFINE Z == {c} \cup UNION {Below(commits, y) : y \in Range(commits[c].parents)}
<1>1. Z \subseteq Below(commits, c)
  BY BelowIsClosed, BelowParent
<1>2. Z \in SUBSET DOMAIN commits
  BY DEF Below
<1>3. ASSUME NEW x \in Z, NEW p \in Range(commits[x].parents)
      PROVE  p \in Z
  <2>1. CASE x = c
    <3>1. p \in Below(commits, p)
      BY <1>3, <2>1, ParentsAreSmaller, BelowIsClosed
    <3> QED
      BY <1>3, <2>1, <3>1
  <2>2. CASE \E y \in Range(commits[c].parents) : x \in Below(commits, y)
    <3>1. PICK y \in Range(commits[c].parents) : x \in Below(commits, y)
      BY <2>2
    <3>2. Closed(commits, Below(commits, y))
      BY ParentsAreSmaller, BelowIsClosed
    <3>3. p \in Below(commits, y)
      BY <1>3, <3>1, <3>2 DEF Closed
    <3> QED
      BY <3>3
  <2> QED
    BY <2>1, <2>2
<1>4. Closed(commits, Z)
  <2> HIDE DEF Z
  <2> QED
    BY <1>3 DEF Closed
<1>5. Below(commits, c) \subseteq Z
  <2>1. c \in Z
    OBVIOUS
  <2> HIDE DEF Z
  <2> QED
    BY <1>2, <1>4, <2>1 DEF Below
<1> QED
  BY <1>1, <1>5

(* The recursion is well defined: what is below is the one solution.        *)
LEMMA AncestorsAreBelow ==
  ASSUME NEW r, WellFormed(r), NEW c \in DOMAIN r.commits
  PROVE  AncestorsOf(r, c) = Below(r.commits, c)
<1> DEFINE D == DOMAIN r.commits
           solves(g) == g = [x \in D |-> {x} \cup UNION {g[y] : y \in Range(r.commits[x].parents)}]
           f == [x \in D |-> Below(r.commits, x)]
           anc == CHOOSE g : solves(g)
<1>1. IsHistory(r.commits)
  BY DEF WellFormed
<1>2. solves(f)
  <2>1. ASSUME NEW x \in D
        PROVE  f[x] = {x} \cup UNION {f[y] : y \in Range(r.commits[x].parents)}
    <3>1. \A y \in Range(r.commits[x].parents) : f[y] = Below(r.commits, y)
      BY <1>1, ParentsAreSmaller
    <3> QED
      BY <1>1, <3>1, BelowUnfolds
  <2> QED
    BY <2>1
<1>3. solves(anc)
  <2> HIDE DEF f, solves
  <2> QED
    BY <1>2
<1>4. ASSUME NEW g, solves(g), NEW x \in D, g[x] # f[x] PROVE FALSE
  <2> DEFINE S == {y \in D : g[y] # f[y]}
  <2>1. S \in SUBSET Nat /\ S # {}
    <3>1. \A C \in SUBSET D : C \in SUBSET Nat
      BY <1>1, CommitsAreFinite
    <3> HIDE DEF f
    <3> QED
      BY <1>4, <3>1
  <2>2. PICK m \in S : \A k \in S : m <= k
    <3> HIDE DEF S
    <3> QED
      BY <2>1, LeastNumber
  <2>3. ASSUME NEW y \in Range(r.commits[m].parents) PROVE g[y] = f[y]
    <3>1. y \in D /\ y < m
      BY <1>1, ParentsAreSmaller
    <3>2. y \in Nat /\ m \in Nat
      BY <1>1, <3>1 DEF IsHistory
    <3> QED
      BY <2>2, <3>1, <3>2
  <2>4. g[m] = {m} \cup UNION {g[y] : y \in Range(r.commits[m].parents)}
    BY <1>4
  <2>5. f[m] = {m} \cup UNION {f[y] : y \in Range(r.commits[m].parents)}
    <3> HIDE DEF f
    <3> QED
      BY <1>2
  <2>6. {g[y] : y \in Range(r.commits[m].parents)} = {f[y] : y \in Range(r.commits[m].parents)}
    <3> HIDE DEF f
    <3> QED
      BY <2>3
  <2> HIDE DEF f
  <2> QED
    BY <2>4, <2>5, <2>6
<1>5. anc[c] = f[c]
  <2> HIDE DEF anc, f, solves
  <2> QED
    BY <1>3, <1>4
<1>6. AncestorsOf(r, c) = anc[c]
  BY DEF AncestorsOf
<1> QED
  BY <1>5, <1>6

-------------------------------------------------------------------------------
(* The changes that commits hold.                                           *)

HeldAt(commits, c) == UNION {commits[x].of : x \in Below(commits, c)}

(* A history that goes on.                                                  *)
Longer(commits, more) ==
  DOMAIN commits \subseteq DOMAIN more /\ \A c \in DOMAIN commits : more[c] = commits[c]

(* HEAD holds the changes of what is below its commit.                      *)
LEMMA HoldsBelow ==
  ASSUME NEW r, WellFormed(r)
  PROVE  Holds(r) = HeldAt(r.commits, r.at)
<1>1. r.at \in DOMAIN r.commits
  BY DEF WellFormed
<1> QED
  BY <1>1, AncestorsAreBelow DEF Holds, HeldAt

(* A commit holds its own changes and those of its parents.                 *)
LEMMA HeldUnfolds ==
  ASSUME NEW commits, IsHistory(commits), NEW c \in DOMAIN commits
  PROVE  HeldAt(commits, c) =
           commits[c].of \cup UNION {HeldAt(commits, p) : p \in Range(commits[c].parents)}
<1>1. Below(commits, c) = {c} \cup UNION {Below(commits, y) : y \in Range(commits[c].parents)}
  BY BelowUnfolds
<1> QED
  BY <1>1 DEF HeldAt

(* In a longer history a commit holds at least what it held.                *)
LEMMA HeldInLonger ==
  ASSUME NEW commits, NEW more, IsHistory(commits), IsHistory(more), Longer(commits, more),
         NEW c \in DOMAIN commits
  PROVE  HeldAt(commits, c) \subseteq HeldAt(more, c)
<1>1. ASSUME NEW y \in Below(commits, c) PROVE y \in Below(more, c)
  <2>1. y \in DOMAIN commits /\ y \in DOMAIN more
    BY DEF Below, Longer
  <2>2. ASSUME NEW X \in SUBSET DOMAIN more, c \in X, Closed(more, X) PROVE y \in X
    <3> DEFINE Z == X \cap DOMAIN commits
    <3>1. ASSUME NEW x \in Z PROVE Range(commits[x].parents) \subseteq Z
      <4>1. more[x] = commits[x]
        BY DEF Longer
      <4>2. Range(commits[x].parents) \subseteq X
        BY <2>2, <4>1 DEF Closed
      <4>3. Range(commits[x].parents) \subseteq DOMAIN commits
        BY ParentsAreSmaller
      <4> QED
        BY <4>2, <4>3
    <3>2. Closed(commits, Z) /\ Z \in SUBSET DOMAIN commits /\ c \in Z
      BY <2>2, <3>1 DEF Closed
    <3> QED
      BY <3>2 DEF Below
  <2> QED
    BY <2>1, <2>2 DEF Below
<1>2. \A y \in Below(commits, c) : more[y] = commits[y]
  BY DEF Below, Longer
<1> QED
  BY <1>1, <1>2 DEF HeldAt

(* A history with one more commit.                                          *)
LEMMA AppendedIsLonger ==
  ASSUME NEW commits, IsHistory(commits), NEW new
  PROVE  /\ Longer(commits, Append(commits, new))
         /\ Append(commits, new)[Len(commits) + 1] = new
BY DEF IsHistory, Longer

(* A new commit at HEAD holds its changes, and what its parents held.       *)
LEMMA NewCommitHolds ==
  ASSUME NEW r, WellFormed(r), NEW parents \in Seq(DOMAIN r.commits), NEW of \in SUBSET Nat
  PROVE  LET q == NewCommit(r, parents, of)
         IN  /\ Longer(r.commits, q.commits)
             /\ of \subseteq Holds(q)
             /\ \A p \in Range(parents) : HeldAt(r.commits, p) \subseteq Holds(q)
<1> DEFINE new == [parents |-> parents, of |-> of]
           more == Append(r.commits, new)
           q == NewCommit(r, parents, of)
           n == Len(r.commits) + 1
<1>1. q.commits = more /\ q.at = n
  BY DEF NewCommit, MoveTo, WellFormed
<1>2. WellFormed(q)
  BY NewCommitEffect DEF Adds
<1> HIDE DEF q
<1>3. IsHistory(r.commits) /\ IsHistory(more) /\ n \in DOMAIN more
  BY <1>1, <1>2 DEF WellFormed
<1>4. Longer(r.commits, more) /\ more[n] = new
  BY <1>3, AppendedIsLonger
<1>5. Holds(q) = more[n].of \cup UNION {HeldAt(more, p) : p \in Range(more[n].parents)}
  <2> HIDE DEF more, n
  <2> QED
    BY <1>1, <1>2, <1>3, HoldsBelow, HeldUnfolds
<1>6. ASSUME NEW p \in Range(parents) PROVE HeldAt(r.commits, p) \subseteq Holds(q)
  <2>1. p \in DOMAIN r.commits
    BY DEF Range
  <2>2. HeldAt(r.commits, p) \subseteq HeldAt(more, p)
    <3> HIDE DEF more
    <3> QED
      BY <1>3, <1>4, <2>1, HeldInLonger
  <2>3. more[n].parents = parents
    BY <1>4
  <2> HIDE DEF more, n
  <2> QED
    BY <1>5, <2>2, <2>3
<1>7. of \subseteq Holds(q)
  <2>1. more[n].of = of
    BY <1>4
  <2> HIDE DEF more, n
  <2> QED
    BY <1>5, <2>1
<1> QED
  BY <1>1, <1>4, <1>6, <1>7 DEF q

(* Copies of commits hold the changes of them all, and what is below them.  *)
LEMMA CopiesHold ==
  ASSUME NEW commits, IsHistory(commits), NEW at \in DOMAIN commits, NEW n \in Nat \ {0},
         NEW changes \in [1..n -> SUBSET Nat]
  PROVE  LET more == commits \o Copies(commits, at, n, changes)
         IN  /\ Longer(commits, more)
             /\ \A i \in 1..n : changes[i] \subseteq HeldAt(more, Len(commits) + n)
             /\ HeldAt(commits, at) \subseteq HeldAt(more, Len(commits) + n)
<1> DEFINE last == Len(commits)
           base(i) == IF i = 1 THEN at ELSE last + i - 1
           copy(i) == [parents |-> <<base(i)>>, of |-> changes[i]]
           copies == [i \in 1..n |-> copy(i)]
           more == commits \o copies
<1>1. commits \in Seq(Commits) /\ last \in Nat /\ DOMAIN commits = 1..last
  BY DEF IsHistory
<1>2. IsHistory(more) /\ DOMAIN commits \subseteq DOMAIN more /\ last + n \in DOMAIN more
  <2>1. more = commits \o Copies(commits, at, n, changes)
    BY DEF Copies
  <2> HIDE DEF more
  <2> QED
    BY <2>1, CopiesMakeHistory
<1>3. copies \in Seq(Commits) /\ Len(copies) = n
  <2>1. ASSUME NEW i \in 1..n PROVE copy(i) \in Commits
    <3>1. <<base(i)>> \in Seq(Nat)
      BY <1>1
    <3> HIDE DEF base
    <3> QED
      BY <3>1 DEF Commits
  <2> HIDE DEF copy
  <2> QED
    BY <2>1
<1>4. /\ DOMAIN more = 1..(last + n)
      /\ \A c \in 1..last : more[c] = commits[c]
      /\ \A i \in 1..n : more[last + i] = copy(i)
  <2>1. \A i \in 1..n : copies[i] = copy(i)
    OBVIOUS
  <2> HIDE DEF copy
  <2>2. /\ DOMAIN more = 1..(last + n)
        /\ \A c \in 1..last : more[c] = commits[c]
        /\ \A i \in 1..n : more[last + i] = copies[i]
    <3> HIDE DEF copies
    <3> QED
      BY <1>1, <1>3
  <2> QED
    BY <2>1, <2>2
<1> HIDE DEF more
<1>5. Longer(commits, more)
  BY <1>1, <1>4 DEF Longer
<1>6. ASSUME NEW i \in 1..n
      PROVE  more[last + i].of = changes[i] /\ Range(more[last + i].parents) = {base(i)}
  <2>1. Range(<<base(i)>>) = {base(i)}
    BY DEF Range
  <2>2. copy(i).of = changes[i] /\ copy(i).parents = <<base(i)>>
    OBVIOUS
  <2> HIDE DEF copy, base
  <2> QED
    BY <1>4, <2>1, <2>2
<1> DEFINE Z == Below(more, last + n)
<1>7. last + n \in Z /\ Closed(more, Z)
  BY <1>2, BelowIsClosed
<1> HIDE DEF Z, base
<1>8. ASSUME NEW i \in 1..n, last + i \notin Z PROVE FALSE
  <2> DEFINE S == {j \in 0..(n - 1) : last + (n - j) \notin Z}
  <2>1. n - i \in S
    <3>1. n - i \in 0..(n - 1) /\ last + (n - (n - i)) = last + i
      BY <1>1
    <3>2. last + (n - (n - i)) \notin Z
      BY <1>8, <3>1
    <3> QED
      BY <3>1, <3>2
  <2>2. S \in SUBSET Nat /\ S # {}
    <3>1. S \subseteq 0..(n - 1)
      OBVIOUS
    <3> HIDE DEF S
    <3> QED
      BY <2>1, <3>1
  <2>3. PICK m \in S : \A k \in S : m <= k
    <3> HIDE DEF S
    <3> QED
      BY <2>2, LeastNumber
  <2>4. m \in 0..(n - 1) /\ last + (n - m) \notin Z
    OBVIOUS
  <2>5. m # 0
    BY <1>1, <1>7, <2>4
  <2>6. m - 1 \in 0..(n - 1) /\ m - 1 \notin S
    <3>1. m - 1 \in 0..(n - 1) /\ ~(m <= m - 1)
      BY <2>4, <2>5
    <3> HIDE DEF S
    <3> QED
      BY <2>3, <3>1
  <2>7. last + (n - (m - 1)) \in Z
    BY <2>6
  <2> DEFINE k == n - (m - 1)
  <2>8. k \in 1..n /\ k # 1 /\ last + k - 1 = last + (n - m)
    BY <1>1, <2>4, <2>5
  <2>9. Range(more[last + k].parents) = {last + k - 1}
    <3> HIDE DEF k
    <3> QED
      BY <1>6, <2>8 DEF base
  <2>10. last + k \in Z
    BY <2>7
  <2>11. last + k - 1 \in Z
    <3> HIDE DEF k
    <3> QED
      BY <1>7, <2>9, <2>10 DEF Closed
  <2> HIDE DEF k, S
  <2> QED
    BY <2>4, <2>8, <2>11
<1>9. ASSUME NEW i \in 1..n PROVE changes[i] \subseteq HeldAt(more, last + n)
  <2>1. last + i \in Below(more, last + n)
    BY <1>8 DEF Z
  <2> QED
    BY <1>6, <2>1 DEF HeldAt
<1>10. HeldAt(commits, at) \subseteq HeldAt(more, last + n)
  <2>1. 1 \in 1..n /\ base(1) = at
    BY DEF base
  <2>2. last + 1 \in Z /\ Range(more[last + 1].parents) = {at}
    BY <1>6, <1>8, <2>1
  <2>3. at \in Z
    BY <1>7, <2>2 DEF Closed
  <2>4. HeldAt(more, at) \subseteq HeldAt(more, last + n)
    <3>1. Below(more, at) \subseteq Below(more, last + n)
      BY <1>2, <1>7, <2>3 DEF Below, Z
    <3> QED
      BY <3>1 DEF HeldAt
  <2>5. HeldAt(commits, at) \subseteq HeldAt(more, at)
    BY <1>2, <1>5, HeldInLonger
  <2> QED
    BY <2>4, <2>5
<1>11. more = commits \o Copies(commits, at, n, changes)
  BY DEF more, Copies, base
<1> QED
  BY <1>5, <1>9, <1>10, <1>11

-------------------------------------------------------------------------------
(* What a rebase brings over.                                               *)

(* The changes of the commits still in the list.                            *)
Pending(r) == UNION {r.commits[c].of : c \in Range(r.todo)}
Bears(r) == Holds(r) \cup Pending(r)

(* What HEAD and the list held, they hold or, when the rebase is over, HEAD *)
(* holds alone.                                                             *)
Brings(r, q) ==
  /\ Longer(r.commits, q.commits)
  /\ Bears(r) \subseteq IF q.op = "rebase" THEN Bears(q) ELSE Holds(q)

(* HEAD and the commits alone tell what is held.                            *)
LEMMA HoldsAlike ==
  ASSUME NEW r, NEW q, WellFormed(r), WellFormed(q), q.commits = r.commits, q.at = r.at
  PROVE  Holds(q) = Holds(r) /\ Longer(r.commits, q.commits)
BY HoldsBelow DEF Longer

(* In a longer history the list has the same changes.                       *)
LEMMA PendingInLonger ==
  ASSUME NEW r, NEW q, WellFormed(r), Longer(r.commits, q.commits), q.todo = r.todo
  PROVE  Pending(q) = Pending(r)
<1>1. \A c \in Range(r.todo) : q.commits[c] = r.commits[c]
  BY DEF Longer, WellFormed, Range
<1> QED
  BY <1>1 DEF Pending

(* A repository that has the same list brings it all over.                  *)
LEMMA SameListBrings ==
  ASSUME NEW r, NEW q, WellFormed(r), Longer(r.commits, q.commits), Holds(r) \subseteq Holds(q),
         q.todo = r.todo, q.op = "rebase"
  PROVE  Brings(r, q)
BY PendingInLonger DEF Brings, Bears

(* The list is what is copied and what is left.                             *)
LEMMA PendingSplits ==
  ASSUME NEW r, WellFormed(r), NEW n \in 0..Len(r.todo), NEW x \in Pending(r)
  PROVE  \/ \E i \in 1..n : x \in r.commits[r.todo[i]].of
         \/ \E c \in Range(SubSeq(r.todo, n + 1, Len(r.todo))) : x \in r.commits[c].of
<1> DEFINE q == r.todo
           rest == SubSeq(q, n + 1, Len(q))
<1>1. q \in Seq(DOMAIN r.commits) /\ Len(q) \in Nat /\ DOMAIN q = 1..Len(q)
  BY DEF WellFormed
<1>2. PICK j \in 1..Len(q) : x \in r.commits[q[j]].of
  BY <1>1 DEF Pending, Range
<1>3. CASE j > n
  <2>1. DOMAIN rest = 1..(Len(q) - n) /\ \A i \in 1..(Len(q) - n) : rest[i] = q[n + i]
    <3> HIDE DEF q
    <3> QED
      BY <1>1
  <2>2. j - n \in 1..(Len(q) - n) /\ n + (j - n) = j
    BY <1>1, <1>3
  <2>3. rest[j - n] = q[j] /\ j - n \in DOMAIN rest
    <3> HIDE DEF q, rest
    <3> QED
      BY <2>1, <2>2
  <2>4. q[j] \in Range(rest)
    <3> HIDE DEF q, rest
    <3> QED
      BY <2>3 DEF Range
  <2> QED
    BY <1>2, <2>4
<1>4. CASE j <= n
  <2>1. j \in 1..n
    BY <1>1, <1>4
  <2> QED
    BY <1>2, <2>1
<1> QED
  BY <1>1, <1>3, <1>4

(* The first commits of the list are copied.                                *)
LEMMA GitPicksBrings ==
  ASSUME NEW r, WellFormed(r), NEW n \in 0..Len(r.todo)
  PROVE  LET q == GitPicks(r, n)
         IN  /\ Longer(r.commits, q.commits)
             /\ Bears(r) \subseteq Bears(q)
             /\ n = Len(r.todo) => Bears(r) \subseteq Holds(q)
<1> DEFINE last == Len(r.commits)
           list == SubSeq(r.todo, n + 1, Len(r.todo))
           changes == [i \in 1..n |-> r.commits[r.todo[i]].of]
           copies == Copies(r.commits, r.at, n, changes)
           more == r.commits \o copies
           rest == [r EXCEPT !.todo = list, !.inHand = FALSE]
           s == [rest EXCEPT !.commits = more, !.staged = FALSE]
           q == GitPicks(r, n)
<1>1. /\ IsHistory(r.commits) /\ r.at \in DOMAIN r.commits /\ r.todo \in Seq(DOMAIN r.commits)
      /\ n \in Nat /\ Len(r.todo) \in Nat
  BY DEF WellFormed
<1>2. ASSUME NEW i \in 1..n PROVE r.commits[r.todo[i]].of \in SUBSET Nat
  <2>1. r.todo[i] \in DOMAIN r.commits
    BY <1>1
  <2> QED
    BY <2>1, ChangesOf
<1>3. changes \in [1..n -> SUBSET Nat]
  BY <1>2
<1>4. WellFormed(q)
  BY GitPicksEffect DEF Adds
<1>5. q.todo = list /\ q.commits = (IF n = 0 THEN r.commits ELSE more)
      /\ q.at = (IF n = 0 THEN r.at ELSE last + n)
  <2>1. \A i \in 1..n : changes[i] = r.commits[r.todo[i]].of
    OBVIOUS
  <2>2. copies = [i \in 1..n |-> [parents |-> <<IF i = 1 THEN r.at ELSE last + i - 1>>,
                                  of |-> r.commits[r.todo[i]].of]]
    BY <2>1 DEF Copies
  <2> HIDE DEF copies
  <2>3. rest.commits = r.commits
    BY DEF WellFormed
  <2>4. q = IF n = 0 THEN rest ELSE MoveTo(s, last + n)
    BY <2>2, <2>3 DEF GitPicks, WellFormed
  <2>5. MoveTo(s, last + n).todo = list /\ MoveTo(s, last + n).commits = more
        /\ MoveTo(s, last + n).at = last + n
    BY DEF MoveTo, WellFormed
  <2>6. rest.todo = list /\ rest.at = r.at
    BY DEF WellFormed
  <2> HIDE DEF q, rest, s, list, more
  <2> QED
    BY <2>3, <2>4, <2>5, <2>6
<1> HIDE DEF q
<1>6. /\ Longer(r.commits, q.commits) /\ Holds(r) \subseteq Holds(q)
      /\ \A i \in 1..n : r.commits[r.todo[i]].of \subseteq Holds(q)
  <2>1. CASE n = 0
    <3>1. q.commits = r.commits /\ q.at = r.at
      BY <1>5, <2>1
    <3> QED
      BY <1>4, <2>1, <3>1, HoldsAlike
  <2>2. CASE n # 0
    <3>1. n \in Nat \ {0} /\ q.commits = more /\ q.at = last + n
      BY <1>1, <1>5, <2>2
    <3>2. /\ Longer(r.commits, more)
          /\ \A i \in 1..n : changes[i] \subseteq HeldAt(more, last + n)
          /\ HeldAt(r.commits, r.at) \subseteq HeldAt(more, last + n)
      <4> HIDE DEF changes
      <4> QED
        BY <1>1, <1>3, <3>1, CopiesHold
    <3>3. Holds(q) = HeldAt(more, last + n) /\ Holds(r) = HeldAt(r.commits, r.at)
      <4> HIDE DEF more
      <4> QED
        BY <1>4, <3>1, HoldsBelow
    <3>4. \A i \in 1..n : changes[i] = r.commits[r.todo[i]].of
      OBVIOUS
    <3> HIDE DEF more, changes
    <3> QED
      BY <3>1, <3>2, <3>3, <3>4
  <2> QED
    BY <2>1, <2>2
<1>7. ASSUME NEW x \in Pending(r) PROVE x \in Holds(q) \/ (x \in Pending(q) /\ n # Len(r.todo))
  <2>1. CASE \E i \in 1..n : x \in r.commits[r.todo[i]].of
    BY <1>6, <2>1
  <2>2. CASE \E c \in Range(list) : x \in r.commits[c].of
    <3>1. PICK c \in Range(list) : x \in r.commits[c].of
      BY <2>2
    <3>2. list \in Seq(DOMAIN r.commits) /\ c \in DOMAIN r.commits
      <4>1. list \in Seq(DOMAIN r.commits)
        BY <1>1, RestOfList
      <4> HIDE DEF list
      <4> QED
        BY <3>1, <4>1 DEF Range
    <3>3. q.commits[c] = r.commits[c]
      BY <1>6, <3>2 DEF Longer
    <3>4. x \in Pending(q)
      BY <1>5, <3>1, <3>3 DEF Pending
    <3>5. ASSUME n = Len(r.todo) PROVE FALSE
      <4>1. Len(list) = 0
        BY <1>1, <3>5
      <4>2. DOMAIN list = {}
        <5> HIDE DEF list
        <5> QED
          BY <3>2, <4>1
      <4> QED
        BY <3>1, <4>2 DEF Range
    <3> QED
      BY <3>4, <3>5
  <2> QED
    BY <2>1, <2>2, PendingSplits
<1> QED
  BY <1>6, <1>7 DEF Bears, q

(* Wherever a replay stops, ends or is cut off, what the list held is       *)
(* brought over or still in the list.                                       *)
LEMMA GitReplaysBrings ==
  ASSUME NEW r, WellFormed(r), r.op = "rebase", NEW a \in GitReplays(r)
  PROVE  Brings(r, a.repo)
<1> DEFINE q == a.repo
           before == 0..(Len(r.todo) - 1)
<1>1. Len(r.todo) \in Nat /\ WellFormed(q)
  BY GitReplaysEffect DEF WellFormed, Replayed
<1>2. ASSUME NEW n \in before PROVE n \in 0..Len(r.todo)
  BY <1>1
<1>3. ASSUME NEW n \in before, NEW says, a = Answer(GitPicks(r, n), says)
      PROVE  Brings(r, q)
  <2>1. q = GitPicks(r, n)
    BY <1>3 DEF Answer
  <2>2. q.op = "rebase"
    BY <1>2, <2>1, GitPicksEffect DEF Adds, SameTask
  <2> QED
    BY <1>2, <2>1, <2>2, GitPicksBrings DEF Brings
<1>4. ASSUME NEW n \in before, NEW C, NEW s, NEW says, a = Answer(GitStops(r, n, C, s), says)
      PROVE  Brings(r, q)
  <2> DEFINE p == GitPicks(r, n)
  <2>1. WellFormed(p) /\ p.op = "rebase"
    BY <1>2, GitPicksEffect DEF Adds, SameTask
  <2>2. Longer(r.commits, p.commits) /\ Bears(r) \subseteq Bears(p)
    BY <1>2, GitPicksBrings
  <2>3. q = [p EXCEPT !.inHand = TRUE, !.conflicts = C, !.staged = s]
    BY <1>4 DEF Answer, GitStops
  <2> HIDE DEF p, q
  <2>4. q.commits = p.commits /\ q.at = p.at /\ q.todo = p.todo /\ q.op = "rebase"
    BY <2>1, <2>3 DEF WellFormed
  <2>5. Bears(q) = Bears(p)
    BY <1>1, <2>1, <2>4, HoldsAlike DEF Bears, Pending
  <2> QED
    BY <2>2, <2>4, <2>5 DEF Brings
<1>5. CASE a = GitRebaseEnds(r)
  <2> DEFINE p == GitPicks(r, Len(r.todo))
             s == [p EXCEPT !.head = r.orig, !.tip[r.orig] = p.at]
  <2>1. Len(r.todo) \in 0..Len(r.todo)
    BY <1>1
  <2>2. WellFormed(p) /\ p.op = "rebase"
    BY <2>1, GitPicksEffect DEF Adds, SameTask
  <2>3. Longer(r.commits, p.commits) /\ Bears(r) \subseteq Bears(p) /\ Bears(r) \subseteq Holds(p)
    BY <2>1, GitPicksBrings
  <2>4. q = p \/ q = Cleaned(s)
    BY <1>5 DEF GitRebaseEnds, Answer
  <2> SUFFICES Brings(r, q)
    OBVIOUS
  <2> HIDE DEF p, q
  <2>5. CASE q = p
    BY <2>2, <2>3, <2>5 DEF Brings
  <2>6. CASE q = Cleaned(s)
    <3>1. q.commits = p.commits /\ q.at = p.at /\ q.op = "none"
      BY <2>2, <2>6 DEF Cleaned, WellFormed
    <3>2. Holds(q) = Holds(p)
      BY <1>1, <2>2, <3>1, HoldsAlike
    <3> QED
      BY <2>3, <3>1, <3>2 DEF Brings
  <2> QED
    BY <2>4, <2>5, <2>6
<1>6. \/ \E n \in before, C \in SUBSET Paths, s \in BOOLEAN, says \in {"said", "empty"} :
           a = Answer(GitStops(r, n, C, s), says)
      \/ \E n \in before, says \in {"said", "timeout"} : a = Answer(GitPicks(r, n), says)
      \/ a = GitRebaseEnds(r)
  BY WaysOfReplay
<1> QED
  BY <1>3, <1>4, <1>5, <1>6

(* Where HEAD and the list are what they were, nothing is missing.          *)
LEMMA NothingMoves ==
  ASSUME NEW r, NEW q, WellFormed(r), WellFormed(q), r.op = "rebase",
         q.commits = r.commits, q.at = r.at, q.todo = r.todo, q.op = r.op
  PROVE  Brings(r, q)
BY HoldsAlike, SameListBrings

(* One step after another.                                                  *)
LEMMA BringsOn ==
  ASSUME NEW r, NEW s, NEW q, Brings(r, s), s.op = "rebase", Brings(s, q)
  PROVE  Brings(r, q)
BY DEF Brings, Longer

(* A commit on top of HEAD.                                                 *)
LEMMA CommitBrings ==
  ASSUME NEW r, WellFormed(r), r.op = "rebase", NEW of \in SUBSET Nat
  PROVE  LET q == NewCommit(r, <<r.at>>, of) IN Brings(r, q) /\ of \subseteq Holds(q)
<1> DEFINE q == NewCommit(r, <<r.at>>, of)
<1>1. r.at \in DOMAIN r.commits
  BY DEF WellFormed
<1>2. <<r.at>> \in Seq(DOMAIN r.commits) /\ r.at \in Range(<<r.at>>)
  <2>1. DOMAIN <<r.at>> = {1} /\ <<r.at>>[1] = r.at
    OBVIOUS
  <2> QED
    BY <1>1, <2>1, OneOrTwo DEF Range
<1>3. q.todo = r.todo /\ q.op = "rebase"
  BY <1>2, NewCommitEffect DEF Adds, SameTask
<1>4. /\ Longer(r.commits, q.commits) /\ of \subseteq Holds(q)
      /\ HeldAt(r.commits, r.at) \subseteq Holds(q)
  BY <1>2, NewCommitHolds
<1> HIDE DEF q
<1>5. Holds(r) \subseteq Holds(q)
  BY <1>4, HoldsBelow
<1> QED
  BY <1>3, <1>4, <1>5, SameListBrings DEF q

(* Amending HEAD's commit keeps its changes and its parents.                *)
LEMMA AmendBrings ==
  ASSUME NEW r, WellFormed(r), r.op = "rebase"
  PROVE  Brings(r, NewCommit(r, r.commits[r.at].parents, r.commits[r.at].of))
<1> DEFINE parents == r.commits[r.at].parents
           of == r.commits[r.at].of
           q == NewCommit(r, parents, of)
<1>1. r.at \in DOMAIN r.commits /\ IsHistory(r.commits)
  BY DEF WellFormed
<1>2. parents \in Seq(DOMAIN r.commits) /\ of \in SUBSET Nat
  BY <1>1, ChangesOf
<1>3. q.todo = r.todo /\ q.op = "rebase"
  <2> HIDE DEF parents, of
  <2> QED
    BY <1>2, NewCommitEffect DEF Adds, SameTask
<1>4. /\ Longer(r.commits, q.commits) /\ of \subseteq Holds(q)
      /\ \A p \in Range(parents) : HeldAt(r.commits, p) \subseteq Holds(q)
  <2> HIDE DEF parents, of
  <2> QED
    BY <1>2, NewCommitHolds
<1> HIDE DEF q
<1>5. HeldAt(r.commits, r.at) = of \cup UNION {HeldAt(r.commits, p) : p \in Range(parents)}
  BY <1>1, HeldUnfolds
<1>6. Holds(r) \subseteq Holds(q)
  <2> HIDE DEF parents, of
  <2> QED
    BY <1>4, <1>5, HoldsBelow
<1> QED
  BY <1>3, <1>4, <1>6, SameListBrings DEF q

(* `create_commit` under a rebase.                                          *)
LEMMA CreateCommitBrings ==
  ASSUME NEW r, WellFormed(r), r.op = "rebase", NEW amend \in BOOLEAN, NEW o \in CreateCommit(r, amend)
  PROVE  Brings(r, o.repo)
<1> DEFINE amended == NewCommit(r, r.commits[r.at].parents, r.commits[r.at].of)
           added == NewCommit(r, <<r.at>>, Own(r))
<1>1. r.theirs = Nobody
  BY DEF WellFormed
<1>2. o \in Refused(r) \/ o = Result(amended, "ok") \/ o = Result(added, "ok")
  BY <1>1 DEF CreateCommit
<1>3. o.repo = r \/ o.repo = amended \/ o.repo = added
  <2> HIDE DEF amended, added
  <2> QED
    BY <1>2 DEF Refused, Result
<1>4. Own(r) \in SUBSET Nat
  BY ChangesOf DEF WellFormed
<1> QED
  BY <1>3, <1>4, NothingMoves, CommitBrings, AmendBrings

(* Without the commit in hand the list has all but its changes.             *)
LEMMA HandHolds ==
  ASSUME NEW r, WellFormed(r), r.op = "rebase", r.inHand, NEW q, WellFormed(q),
         q.commits = r.commits, q.at = r.at, q.op = "rebase", q.todo = Tail(r.todo)
  PROVE  Longer(r.commits, q.commits) /\ Bears(r) \subseteq Bears(q) \cup r.commits[Head(r.todo)].of
<1> DEFINE todo == r.todo
<1>1. todo \in Seq(DOMAIN r.commits) /\ todo # <<>>
  BY DEF WellFormed
<1>2. Range(todo) \subseteq {Head(todo)} \cup Range(Tail(todo))
  <2> HIDE DEF todo
  <2>1. ASSUME NEW i \in 1..Len(todo), i # 1 PROVE todo[i] \in Range(Tail(todo))
    <3>1. i - 1 \in DOMAIN Tail(todo) /\ Tail(todo)[i - 1] = todo[i]
      BY <1>1, <2>1
    <3> QED
      BY <3>1 DEF Range
  <2>2. DOMAIN todo = 1..Len(todo) /\ todo[1] = Head(todo)
    BY <1>1
  <2> QED
    BY <2>1, <2>2 DEF Range
<1>3. Holds(q) = Holds(r) /\ Longer(r.commits, q.commits)
  BY HoldsAlike
<1>4. Pending(r) \subseteq Pending(q) \cup r.commits[Head(r.todo)].of
  BY <1>2 DEF Pending
<1> QED
  BY <1>3, <1>4 DEF Bears

(* The commit in hand is made, of its changes.                              *)
LEMMA HandBrings ==
  ASSUME NEW r, WellFormed(r), r.op = "rebase", r.inHand
  PROVE  LET rest == [r EXCEPT !.todo = Tail(@), !.inHand = FALSE]
             q == NewCommit(rest, <<r.at>>, r.commits[Head(r.todo)].of)
         IN  Adds(r, q) /\ Brings(r, q)
<1> DEFINE rest == [r EXCEPT !.todo = Tail(@), !.inHand = FALSE]
           of == r.commits[Head(r.todo)].of
           q == NewCommit(rest, <<rest.at>>, of)
<1>1. Adds(r, rest) /\ of \in SUBSET Nat
  BY HandEmptied, ChangesOf
<1>2. rest.commits = r.commits /\ rest.at = r.at /\ rest.op = "rebase" /\ rest.todo = Tail(r.todo)
  BY DEF WellFormed
<1> HIDE DEF rest
<1>3. Longer(r.commits, rest.commits) /\ Bears(r) \subseteq Bears(rest) \cup of
  BY <1>1, <1>2, HandHolds DEF Adds
<1> HIDE DEF of
<1>4. Brings(rest, q) /\ of \subseteq Holds(q)
  BY <1>1, <1>2, CommitBrings DEF Adds
<1>5. Adds(rest, q)
  BY <1>1, ReplayedCommit DEF Adds
<1>6. Adds(r, q)
  BY <1>1, <1>5, AddsAndAdds
<1>7. q.op = "rebase"
  BY <1>2, <1>5 DEF Adds, SameTask
<1> HIDE DEF q
<1>8. Brings(r, q)
  BY <1>3, <1>4, <1>7 DEF Brings, Longer, Bears
<1>9. q = NewCommit(rest, <<r.at>>, of)
  BY <1>2 DEF q
<1> QED
  BY <1>6, <1>8, <1>9 DEF rest, of

(* What git's answers leave is what the engine returns.                     *)
LEMMA SequencedLeaves ==
  ASSUME NEW A, NEW o \in Sequenced(A)
  PROVE  \E a \in A : o.repo = a.repo
BY DEF Sequenced, Result

(* A replay that goes on from where all is still there.                     *)
LEMMA ReplayBrings ==
  ASSUME NEW r, NEW s, Brings(r, s), WellFormed(s), s.op = "rebase",
         NEW o \in Sequenced(GitReplays(s))
  PROVE  Brings(r, o.repo)
<1>1. PICK a \in GitReplays(s) : o.repo = a.repo
  BY SequencedLeaves
<1> QED
  BY <1>1, GitReplaysBrings, BringsOn

(* Continuing a rebase: what is staged becomes the commit in hand; one that *)
(* would leave nothing is put to the user, not dropped.                     *)
LEMMA ContinueBrings ==
  ASSUME NEW r, WellFormed(r), r.op = "rebase", NEW o \in Continue(r)
  PROVE  Brings(r, o.repo)
<1> DEFINE of == IF r.inHand THEN r.commits[Head(r.todo)].of ELSE {}
           rest == IF r.inHand THEN [r EXCEPT !.todo = Tail(@), !.inHand = FALSE] ELSE r
           s == NewCommit(rest, <<r.at>>, of)
<1>1. o.repo = r \/ o \in Sequenced(GitReplays(s)) \/ o \in Sequenced({Answer(r, "said")})
  <2>1. \/ o \in Refused(r) \/ o = Result(r, "empty")
        \/ r.staged /\ o \in Sequenced(GitContinue(r))
    BY DEF Continue
  <2>2. r.staged => GitContinue(r) = IF r.dirty THEN {Answer(r, "said")} ELSE GitReplays(s)
    BY Zenon DEF GitContinue
  <2> HIDE DEF s
  <2> QED
    BY <2>1, <2>2 DEF Refused, Result
<1>2. CASE o.repo = r
  BY <1>2, NothingMoves
<1>3. CASE o \in Sequenced({Answer(r, "said")})
  <2>1. PICK a \in {Answer(r, "said")} : o.repo = a.repo
    BY <1>3, SequencedLeaves
  <2>2. o.repo = r
    BY <2>1 DEF Answer
  <2> QED
    BY <2>2, NothingMoves
<1>4. CASE o \in Sequenced(GitReplays(s))
  <2>1. Adds(r, s) /\ Brings(r, s)
    <3>1. CASE r.inHand
      BY <3>1, HandBrings
    <3>2. CASE ~r.inHand
      <4>1. s = NewCommit(r, <<r.at>>, {}) /\ {} \in SUBSET Nat
        BY <3>2
      <4> HIDE DEF s
      <4> QED
        BY <4>1, ReplayedCommit, CommitBrings
    <3> QED
      BY <3>1, <3>2
  <2> HIDE DEF s
  <2> QED
    BY <1>4, <2>1, ReplayBrings DEF Adds, SameTask
<1> QED
  BY <1>1, <1>2, <1>3, <1>4

(* Keeping an empty commit makes it.                                        *)
LEMMA KeepBrings ==
  ASSUME NEW r, WellFormed(r), r.op = "rebase", NEW o \in KeepEmpty(r)
  PROVE  Brings(r, o.repo)
<1> DEFINE rest == [r EXCEPT !.todo = Tail(@), !.inHand = FALSE]
           kept == NewCommit(rest, <<r.at>>, r.commits[Head(r.todo)].of)
<1>1. \/ o \in Refused(r)
      \/ r.inHand /\ (o = Result(kept, "conflicted") \/ o \in Sequenced(GitReplays(kept)))
  BY Zenon DEF KeepEmpty
<1>2. r.inHand => Adds(r, kept) /\ Brings(r, kept)
  BY HandBrings
<1> HIDE DEF kept
<1>3. CASE o \in Refused(r)
  BY <1>3, NothingMoves DEF Refused, Result
<1>4. CASE r.inHand /\ o = Result(kept, "conflicted")
  BY <1>2, <1>4 DEF Result
<1>5. CASE r.inHand /\ o \in Sequenced(GitReplays(kept))
  BY <1>2, <1>5, ReplayBrings DEF Adds, SameTask
<1> QED
  BY <1>1, <1>3, <1>4, <1>5

(* What is left when the user gives the commit in hand up.                  *)
GivenUp(r, q) == IF r.inHand /\ q # r THEN r.commits[Head(r.todo)].of ELSE {}

(* HEAD and the list, or HEAD alone when the rebase is over.                *)
Safe(q) == IF q.op = "rebase" THEN Bears(q) ELSE Holds(q)

(* Skipping drops the commit in hand and nothing else.                      *)
LEMMA SkipBrings ==
  ASSUME NEW r, WellFormed(r), r.op = "rebase", NEW o \in Skip(r)
  PROVE  Bears(r) \ GivenUp(r, o.repo) \subseteq Safe(o.repo)
<1> DEFINE reset == [r EXCEPT !.conflicts = {}, !.staged = FALSE]
           list == IF r.inHand THEN Tail(r.todo) ELSE r.todo
           s == [reset EXCEPT !.dirty = FALSE, !.inHand = FALSE, !.todo = list]
<1>1. PICK a \in GitReplays(s) : o.repo = a.repo
  <2>1. o \in Sequenced(GitSkip(r))
    BY DEF Skip, Sequencers
  <2>2. GitSkip(r) = GitReplays(s)
    <3>1. [reset EXCEPT !.dirty = FALSE, !.inHand = FALSE, !.todo = IF r.inHand THEN Tail(@) ELSE @] = s
      BY DEF WellFormed
    <3> HIDE DEF s
    <3> QED
      BY <3>1, Zenon DEF GitSkip
  <2> HIDE DEF s
  <2> QED
    BY <2>1, <2>2, SequencedLeaves
<1>2. /\ DOMAIN s = DOMAIN r /\ SameTask(r, s) /\ s.at = r.at /\ s.tip = r.tip
      /\ s.commits = r.commits /\ s.todo = list /\ s.inHand = FALSE
      /\ s.conflicts = {} /\ s.staged = FALSE /\ s.dirty = FALSE
  BY DEF WellFormed, SameTask
<1>3. list \in Seq(DOMAIN r.commits)
  BY HeadAndTail DEF WellFormed
<1> HIDE DEF s
<1>4. WellFormed(s) /\ s.op = "rebase"
  <2> HIDE DEF list
  <2> QED
    BY <1>2, <1>3 DEF WellFormed, SameTask
<1>5. Bears(s) \subseteq Safe(o.repo)
  BY <1>1, <1>4, GitReplaysBrings DEF Brings, Safe
<1>6. CASE r.inHand /\ o.repo # r
  <2>1. Bears(r) \subseteq Bears(s) \cup r.commits[Head(r.todo)].of
    BY <1>2, <1>4, <1>6, HandHolds
  <2> QED
    BY <1>5, <1>6, <2>1 DEF GivenUp
<1>7. CASE o.repo = r
  BY <1>7 DEF Safe
<1>8. CASE ~r.inHand
  <2>1. s.todo = r.todo
    BY <1>2, <1>8
  <2>2. Brings(r, s)
    BY <1>2, <1>4, <2>1, NothingMoves
  <2> QED
    BY <1>4, <1>5, <2>2 DEF Brings
<1> QED
  BY <1>6, <1>7, <1>8

(* A rebase begins with all the commits of its list to bring over.          *)
LEMMA GitRebaseBrings ==
  ASSUME NEW r, WellFormed(r), NEW branch, AsExpected(r, branch), NEW onto \in DOMAIN r.commits,
         NEW todo \in Seq(DOMAIN r.commits), NEW a \in GitRebase(r, onto, todo), a.repo # r
  PROVE  UNION {r.commits[c].of : c \in Range(todo)} \subseteq Safe(a.repo)
<1> DEFINE s == [r EXCEPT !.op = "rebase", !.orig = r.head, !.from = r.at,
                          !.head = Detached, !.at = onto, !.todo = todo]
<1>1. a \in GitReplays(s)
  BY DEF GitRebase, Answer
<1>2. /\ DOMAIN s = DOMAIN r /\ s.op = "rebase" /\ s.orig = r.head /\ s.from = r.at
      /\ s.head = Detached /\ s.at = onto /\ s.todo = todo /\ s.theirs = r.theirs
      /\ s.tip = r.tip /\ s.commits = r.commits /\ s.inHand = r.inHand
      /\ s.conflicts = r.conflicts /\ s.staged = r.staged /\ s.dirty = r.dirty
  BY DEF WellFormed
<1>3. r.op = "none" /\ r.head \in Branches /\ ~r.inHand /\ r.theirs = Nobody
  BY DEF AsExpected, QuietRepository, ExpectedBranch, WellFormed, Sequencers
<1> HIDE DEF s
<1>4. WellFormed(s)
  BY <1>2, <1>3 DEF WellFormed, Operations, Sequencers
<1>5. Brings(s, a.repo)
  BY <1>1, <1>2, <1>4, GitReplaysBrings
<1>6. Pending(s) = UNION {r.commits[c].of : c \in Range(todo)}
  BY <1>2 DEF Pending
<1> QED
  BY <1>5, <1>6 DEF Brings, Bears, Safe

(* The list of a rebase is of commits that exist.                           *)
LEMMA TodoIsOfCommits ==
  ASSUME NEW r, WellFormed(r), NEW upstream
  PROVE  Range(RebaseTodo(r, upstream)) \subseteq DOMAIN r.commits
<1> DEFINE mine == {c \in DOMAIN r.commits :
                      c \in AncestorsOf(r, r.at) /\ c \notin AncestorsOf(r, upstream)}
<1>1. RebaseTodo(r, upstream) = Ordered(mine) /\ mine \in SUBSET DOMAIN r.commits
  BY DEF RebaseTodo
<1> HIDE DEF mine
<1>2. Ordered(mine) \in Seq(DOMAIN r.commits)
  BY <1>1, TodoNamesCommits
<1> QED
  BY <1>1, <1>2 DEF Range

(* `rebase` brings over the changes of all commits it copies, but those of  *)
(* the commits it reports as already applied.                               *)
LEMMA RebaseBrings ==
  ASSUME NEW r, WellFormed(r), NEW upstream \in DOMAIN r.commits, NEW branch,
         NEW o \in Rebase(r, upstream, branch), o.repo # r
  PROVE  LET changes(C) == UNION {r.commits[c].of : c \in C}
             single == {c \in Range(RebaseTodo(r, upstream)) : ~IsMergeCommit(r, c)}
         IN  changes(single) \ changes(o.left) \subseteq Safe(o.repo)
<1> DEFINE changes(C) == UNION {r.commits[c].of : c \in C}
           single == {c \in Range(RebaseTodo(r, upstream)) : ~IsMergeCommit(r, c)}
           told(A, a) == [Result(a.repo, Judged(a)) EXCEPT
                            !.left = A,
                            !.already = IF a.says = "timeout" \/ a.repo = r THEN {} ELSE A]
           few == {X \in SUBSET single : Cardinality(X) <= 1}
<1>1. AsExpected(r, branch)
  <2>1. ~AsExpected(r, branch) => o \in Refused(r)
    BY DEF Rebase, AsExpected
  <2> QED
    BY <2>1 DEF Refused, Result
<1>2. \/ o = Result(r, "ok")
      \/ \E A \in few : \E a \in GitRebase(r, upstream, Ordered(single \ A)) : o = told(A, a)
  BY <1>1, Zenon DEF Rebase, AsExpected
<1>3. PICK A \in few : \E a \in GitRebase(r, upstream, Ordered(single \ A)) : o = told(A, a)
  <2> HIDE DEF few, told
  <2> QED
    BY <1>2 DEF Result
<1>4. PICK a \in GitRebase(r, upstream, Ordered(single \ A)) : o = told(A, a)
  BY <1>3
<1>5. o.repo = a.repo /\ o.left = A
  BY <1>4 DEF Result
<1>6. single \ A \in SUBSET DOMAIN r.commits
  BY TodoIsOfCommits
<1> HIDE DEF single, few, told
<1>7. Ordered(single \ A) \in Seq(DOMAIN r.commits) /\ single \ A \subseteq Range(Ordered(single \ A))
  <2>1. IsFiniteSet(single \ A) /\ single \ A \in SUBSET Nat
    BY <1>6, CommitsAreFinite DEF WellFormed
  <2> QED
    BY <1>6, <2>1, TodoNamesCommits, OrderedHasAll
<1>8. changes(Range(Ordered(single \ A))) \subseteq Safe(o.repo)
  BY <1>1, <1>5, <1>7, GitRebaseBrings
<1>9. changes(single) \ changes(A) \subseteq changes(single \ A)
  OBVIOUS
<1>10. changes(single \ A) \subseteq changes(Range(Ordered(single \ A)))
  BY <1>7
<1>11. changes(single) \ changes(o.left) \subseteq Safe(o.repo)
  <2> HIDE DEF changes
  <2> QED
    BY <1>5, <1>8, <1>9, <1>10
<1> QED
  BY <1>11 DEF single

(* `rebase_interactive` brings over those of the plan.                      *)
LEMMA PlanBrings ==
  ASSUME NEW r, WellFormed(r), NEW upstream \in DOMAIN r.commits, NEW branch,
         NEW plan \in Seq(DOMAIN r.commits), NEW o \in RebaseInteractive(r, upstream, plan, branch),
         o.repo # r
  PROVE  UNION {r.commits[c].of : c \in Range(plan)} \subseteq Safe(o.repo)
<1>1. AsExpected(r, branch) /\ o \in Sequenced(GitRebase(r, upstream, plan))
  BY DEF RebaseInteractive, AsExpected, Refused, Result
<1>2. PICK a \in GitRebase(r, upstream, plan) : o.repo = a.repo
  BY <1>1, SequencedLeaves
<1> QED
  BY <1>1, <1>2, GitRebaseBrings

-------------------------------------------------------------------------------
(* The window.                                                              *)

JobKinds ==
  {"merge", "pull_merge", "fast_forward", "rebase", "plan", "pick", "reset", "continue", "skip",
   "keep", "abort", "commit", "amend", "branch", "checkout", "delete", "stage", "unstage",
   "discard", "resolve"}
Pulling == {"pull_merge", "fast_forward"}

(* A job whose arguments are there, in a repository that has these commits. *)
IsJob(j, r) ==
  /\ j.kind \in JobKinds
  /\ j.kind \in {"merge", "rebase", "plan", "checkout"} => j.source \in Branches
  /\ j.kind = "delete" => j.source \in Sources
  /\ j.kind = "branch" => j.source = NewName
  /\ j.kind \in Pulling => j.of \in DOMAIN Upstream
  /\ j.kind = "plan" => j.keep \in Seq(DOMAIN r.commits)
  /\ j.kind \in {"pick", "reset"} => j.commit \in DOMAIN Past
  /\ j.kind = "pick" => j.op \in {"cherry_pick", "revert"}
  /\ j.kind = "reset" => j.how \in {"soft", "mixed", "hard"}
  /\ j.kind = "resolve" => j.side \in {"ours", "theirs", "lines"}

(* One that is neither a checkout nor a pull.                               *)
Plain(j, r) == IsJob(j, r) /\ j.kind \notin Pulling \cup {"checkout"}

(* A dialog.                                                                *)
IsFrame(f, r) ==
  /\ f.what \in {"ask", "note", "box"}
  /\ f.emits \in BOOLEAN
  /\ f.emits => f.reloads \in BOOLEAN
  /\ f.what = "ask" => Plain(f.job, r)

Shape(w) ==
  /\ DOMAIN w = {"active", "queue", "flag", "view", "branch", "locked", "panel"}
  /\ DOMAIN w.view = {"op", "conflicts", "stop"}
  /\ w.queue \in Seq(Range(w.queue))
  /\ w.flag \in BOOLEAN /\ w.locked \in BOOLEAN
  /\ w.view.op \in Operations /\ w.view.conflicts \subseteq Paths

(* HEAD is away from branch b, and no job but a checkout leads back to it.  *)
Away(r, b) ==
  /\ r.head # b
  /\ r.op = "rebase" => r.orig # b
  /\ b = NewName => r.tip[b] # Nobody

(* The pull of one branch, merged while the window showed another.          *)
Astray(j) == j.kind \in Pulling /\ j.of # j.branch /\ j.branch # Detached

(* What a job on its way needs of the repository.                           *)
Fits(j, r) == IsJob(j, r) /\ (Astray(j) => Away(r, j.branch))

ChecksOutNow(w, e) == w.active.kind = "checkout" /\ e = NoEnd

(* The jobs on their way.  A checkout is one only when it runs, on the      *)
(* repository as the window showed it, and no pull waits behind it that was *)
(* submitted for another branch.                                            *)
JobsFit(r, w, e) ==
  /\ \A j \in Range(w.queue) : Fits(j, r) /\ j.kind # "checkout"
  /\ w.active # NoJob => IsJob(w.active, r)
  /\ w.active # NoJob /\ e = NoEnd => Fits(w.active, r)
  /\ ChecksOutNow(w, e) => /\ r.op = "none" /\ w.branch = r.head
                           /\ \A j \in Range(w.queue) : ~Astray(j)

EndFits(w, e) ==
  e # NoEnd => w.active # NoJob /\ e.kind \in Kinds /\ e.conflicts \subseteq Paths

RepoFits(r) ==
  /\ WellFormed(r)
  /\ Len(Past) <= Len(r.commits)
  /\ r.op = "rebase" => r.head \in {Detached, NewName}

Core(r, w, e) ==
  /\ RepoFits(r) /\ Shape(w) /\ EndFits(w, e) /\ JobsFit(r, w, e)
  /\ w.branch = NewName => r.tip[NewName] # Nobody

DialogsFit(r, st) ==
  /\ st \in Seq(Range(st))
  /\ \A f \in Range(st) : IsFrame(f, r)

Emitting(st) == \E f \in Range(st) : f.emits

(* What the window shows once nothing runs, waits or is being reported.     *)
Truth(w, r) == w.view = Looks(r) /\ ~w.locked /\ ~w.flag
Told(r, w, st) == ~Busy(w) => Emitting(st) \/ Truth(w, r)

(* The branch the window shows is HEAD's, or it is about to look again.     *)
ReportDue(w, e) == e # NoEnd /\ e.kind # "error" /\ w.active.kind \in Reloading
Redeems(st) == \E f \in Range(st) : f.emits /\ f.reloads
Known(r, w) == (r.op = "none" \/ r.head # Detached) => w.branch = r.head
Followed(r, w, e, st) == Known(r, w) \/ w.flag \/ ReportDue(w, e) \/ Redeems(st)

(* The inductive invariant.                                                 *)
IInv ==
  /\ Core(repo, win, ended)
  /\ DialogsFit(repo, stack)
  /\ Told(repo, win, stack)
  /\ Followed(repo, win, ended, stack)
  /\ fetching \in BOOLEAN
  /\ count \in 0..MaxJobs

-------------------------------------------------------------------------------
(* What a job does.                                                         *)

(* What the jobs that wait rely on is still there.                          *)
Later(r, q) ==
  /\ DOMAIN r.commits \subseteq DOMAIN q.commits
  /\ r.tip[NewName] # Nobody => q.tip[NewName] # Nobody

(* HEAD has not moved under a merge, or to the commit that joins its sides. *)
Joins(r, q) ==
  r.op = "merge" /\ q.at # r.at => q.commits[q.at].parents = <<r.at, r.theirs>>

(* A job has run on r, with this outcome.                                   *)
Ran(job, r, out) ==
  /\ RepoFits(out.repo) /\ Later(r, out.repo) /\ out.kind \in Kinds
  /\ job.kind \notin Reloading \/ out.kind = "error" => Unturned(r, out.repo)
  /\ job.kind # "checkout" => \A b : b # Detached /\ Away(r, b) => Away(out.repo, b)
  /\ Joins(r, out.repo)
  /\ job.kind \in Pulling => out.repo = r \/ AsExpected(r, job.branch)

(* The commits there were at the start are there.                           *)
LEMMA PastIsThere ==
  ASSUME NEW r, RepoFits(r)
  PROVE  DOMAIN Past \subseteq DOMAIN r.commits
<1>1. DOMAIN Past = 1..Len(Past) /\ Len(Past) \in Nat
  BY SequencerAssumption DEF IsHistory
<1>2. DOMAIN r.commits = 1..Len(r.commits) /\ Len(r.commits) \in Nat
  BY DEF RepoFits, WellFormed, IsHistory
<1> QED
  BY <1>1, <1>2 DEF RepoFits

(* A history that has grown.                                                *)
LEMMA GrownIsLater ==
  ASSUME NEW r, WellFormed(r), NEW q, WellFormed(q), Grown(r, q)
  PROVE  Later(r, q)
<1>1. /\ DOMAIN r.commits = 1..Len(r.commits) /\ Len(r.commits) \in Nat
      /\ DOMAIN q.commits = 1..Len(q.commits) /\ Len(q.commits) \in Nat
  BY DEF WellFormed, IsHistory
<1>2. NewName \in Branches
  BY HistoryAssumption
<1> QED
  BY <1>1, <1>2 DEF Grown, Later

(* An operation that goes well leaves a repository the window can have.     *)
LEMMA GoesFits ==
  ASSUME NEW r, RepoFits(r), NEW q, Goes(r, q)
  PROVE  /\ RepoFits(q) /\ Later(r, q)
         /\ \A b : b # Detached /\ Away(r, b) => Away(q, b)
<1>1. Later(r, q)
  BY GrownIsLater DEF Goes, RepoFits
<1>2. Len(Past) <= Len(q.commits)
  <2>1. Len(Past) \in Nat /\ Len(r.commits) \in Nat /\ Len(q.commits) \in Nat
    BY SequencerAssumption DEF Goes, RepoFits, WellFormed, IsHistory
  <2> QED
    BY <2>1 DEF Goes, Grown, RepoFits
<1>3. RepoFits(q)
  BY <1>2 DEF RepoFits, Goes
<1>4. ASSUME NEW b, b # Detached, Away(r, b) PROVE Away(q, b)
  BY <1>1, <1>4 DEF Away, Goes, Later
<1> QED
  BY <1>1, <1>3, <1>4

(* The outcome of an operation, as the window uses it.                      *)
LEMMA RanByOutcome ==
  ASSUME NEW r, RepoFits(r), NEW job, NEW o, Outcome(r, o),
         job.kind \notin Reloading => Unturned(r, o.repo),
         Joins(r, o.repo),
         job.kind \in Pulling => o.repo = r \/ AsExpected(r, job.branch)
  PROVE  Ran(job, r, o)
BY GoesFits DEF Ran, Outcome

(* An operation that asks for a quiet repository leaves a merge alone.      *)
LEMMA QuietJoins ==
  ASSUME NEW r, NEW q, NEW branch, q = r \/ AsExpected(r, branch)
  PROVE  Joins(r, q)
BY DEF Joins, AsExpected, QuietRepository

(* A job that was refused.                                                  *)
LEMMA RanRefused ==
  ASSUME NEW r, RepoFits(r), NEW job, NEW o \in Refused(r)
  PROVE  Ran(job, r, o)
<1>1. Outcome(r, o) /\ o.repo = r /\ Unturned(r, r)
  BY RefusedOutcome, Stays DEF RepoFits
<1> QED
  BY <1>1, RanByOutcome DEF Joins

(* The merges and the pulls.                                                *)
LEMMA MergeRuns ==
  ASSUME NEW r, RepoFits(r), NEW job, IsJob(job, r), job.kind \in Pulling \cup {"merge"},
         NEW out \in Work(job, r)
  PROVE  Ran(job, r, out)
<1>1. WellFormed(r)
  BY DEF RepoFits
<1>2. ASSUME NEW target \in DOMAIN r.commits,
             \/ out \in Merge(r, target, job.branch) \/ out \in FastForward(r, target, job.branch)
      PROVE  Ran(job, r, out)
  <2>1. /\ Outcome(r, out) /\ Unturned(r, out.repo)
        /\ out.repo = r \/ AsExpected(r, job.branch)
    BY <1>1, <1>2, MergeOutcome, FastForwardOutcome
  <2>2. Joins(r, out.repo)
    BY <2>1, QuietJoins
  <2> QED
    BY <2>1, <2>2, RanByOutcome
<1>3. CASE job.kind = "merge"
  <2>1. \/ out \in Refused(r)
        \/ r.tip[job.source] # Nobody /\ out \in Merge(r, r.tip[job.source], job.branch)
    BY <1>3 DEF Work
  <2>2. r.tip[job.source] # Nobody => r.tip[job.source] \in DOMAIN r.commits
    BY <1>1, <1>3 DEF IsJob, WellFormed
  <2> QED
    BY <1>2, <2>1, <2>2, RanRefused
<1>4. CASE job.kind \in Pulling
  <2>1. \/ out \in Merge(r, Upstream[job.of], job.branch)
        \/ out \in FastForward(r, Upstream[job.of], job.branch)
    BY <1>4 DEF Work, Pulling
  <2>2. Upstream[job.of] \in DOMAIN Past
    BY <1>4, SequencerAssumption DEF IsJob
  <2>3. Upstream[job.of] \in DOMAIN r.commits
    BY <2>2, PastIsThere
  <2> QED
    BY <1>2, <2>1, <2>3
<1> QED
  BY <1>3, <1>4

(* The rebases, the picks and the resets.                                   *)
LEMMA ReplayRuns ==
  ASSUME NEW r, RepoFits(r), NEW job, IsJob(job, r),
         job.kind \in {"rebase", "plan", "pick", "reset"}, NEW out \in Work(job, r)
  PROVE  Ran(job, r, out)
<1>1. WellFormed(r)
  BY DEF RepoFits
<1>2. ASSUME Outcome(r, out), out.repo = r \/ AsExpected(r, job.branch)
      PROVE  Ran(job, r, out)
  <2>1. job.kind \in Reloading /\ job.kind \notin Pulling
    BY DEF Reloading, Pulling
  <2>2. Joins(r, out.repo)
    BY <1>2, QuietJoins
  <2> QED
    BY <1>2, <2>1, <2>2, RanByOutcome
<1>3. CASE job.kind = "rebase"
  <2>1. \/ out \in Refused(r)
        \/ r.tip[job.source] # Nobody /\ out \in Rebase(r, r.tip[job.source], job.branch)
    BY <1>3 DEF Work
  <2>2. r.tip[job.source] # Nobody => r.tip[job.source] \in DOMAIN r.commits
    BY <1>1, <1>3 DEF IsJob, WellFormed
  <2>3. CASE r.tip[job.source] # Nobody /\ out \in Rebase(r, r.tip[job.source], job.branch)
    BY <1>1, <1>2, <2>2, <2>3, RebaseOutcome
  <2> QED
    BY <2>1, <2>3, RanRefused
<1>4. CASE job.kind = "plan"
  <2>1. \/ out \in Refused(r)
        \/ /\ r.tip[job.source] # Nobody
           /\ out \in RebaseInteractive(r, r.tip[job.source], job.keep, job.branch)
    BY <1>4 DEF Work
  <2>2. /\ r.tip[job.source] # Nobody => r.tip[job.source] \in DOMAIN r.commits
        /\ job.keep \in Seq(DOMAIN r.commits)
    BY <1>1, <1>4 DEF IsJob, WellFormed
  <2>3. CASE /\ r.tip[job.source] # Nobody
             /\ out \in RebaseInteractive(r, r.tip[job.source], job.keep, job.branch)
    BY <1>1, <1>2, <2>2, <2>3, RebaseInteractiveOutcome
  <2> QED
    BY <2>1, <2>3, RanRefused
<1>5. CASE job.kind = "pick"
  <2>1. out \in PickOne(r, job.op, job.commit, job.branch)
    BY <1>5 DEF Work
  <2>2. job.commit \in DOMAIN r.commits /\ job.op \in {"cherry_pick", "revert"}
    BY <1>5, PastIsThere DEF IsJob
  <2> QED
    BY <1>1, <1>2, <2>1, <2>2, PickOneOutcome
<1>6. CASE job.kind = "reset"
  <2>1. out \in ResetTo(r, job.commit, job.how, job.branch)
    BY <1>6 DEF Work
  <2>2. job.commit \in DOMAIN r.commits /\ job.how \in {"soft", "mixed", "hard"}
    BY <1>6, PastIsThere DEF IsJob
  <2> QED
    BY <1>1, <1>2, <2>1, <2>2, ResetOutcome
<1> QED
  BY <1>3, <1>4, <1>5, <1>6

(* The ways on from a stop.                                                 *)
LEMMA WayOnRuns ==
  ASSUME NEW r, RepoFits(r), NEW job,
         job.kind \in {"continue", "skip", "keep", "abort", "commit", "amend"},
         NEW out \in Work(job, r)
  PROVE  Ran(job, r, out)
<1>1. WellFormed(r)
  BY DEF RepoFits
<1>2. ASSUME Outcome(r, out), Joins(r, out.repo)
      PROVE  Ran(job, r, out)
  <2>1. job.kind \in Reloading /\ job.kind \notin Pulling
    BY DEF Reloading, Pulling
  <2> QED
    BY <1>2, <2>1, RanByOutcome
<1>3. CASE job.kind \in {"continue", "skip", "keep"}
  <2>1. out \in Continue(r) \/ out \in Skip(r) \/ out \in KeepEmpty(r)
    BY <1>3 DEF Work
  <2>2. Outcome(r, out) /\ (out.repo = r \/ r.op \in Sequencers)
    BY <1>1, <2>1, ContinueOutcome, SkipOutcome, KeepEmptyOutcome
  <2>3. Joins(r, out.repo)
    BY <2>2 DEF Joins, Sequencers
  <2> QED
    BY <1>2, <2>2, <2>3
<1>4. CASE job.kind = "abort"
  <2>1. out \in Abort(r)
    BY <1>4 DEF Work
  <2>2. Outcome(r, out) /\ Joins(r, out.repo)
    BY <1>1, <2>1, AbortOutcome DEF Joins
  <2> QED
    BY <1>2, <2>2
<1>5. CASE job.kind \in {"commit", "amend"}
  <2>1. out \in CreateCommit(r, FALSE) \/ out \in CreateCommit(r, TRUE)
    BY <1>5 DEF Work
  <2>2. TRUE \in BOOLEAN /\ FALSE \in BOOLEAN
    OBVIOUS
  <2>3. Outcome(r, out) /\ Joins(r, out.repo)
    BY <1>1, <2>1, <2>2, CommitOutcome, CreateCommitOutcome DEF Joins
  <2> QED
    BY <1>2, <2>3
<1> QED
  BY <1>3, <1>4, <1>5

(* The branches: made, checked out over nothing, deleted.                   *)
LEMMA BranchRuns ==
  ASSUME NEW r, RepoFits(r), NEW job, IsJob(job, r), job.kind \in {"branch", "checkout", "delete"},
         job.kind = "checkout" => r.op = "none", NEW out \in Work(job, r)
  PROVE  Ran(job, r, out)
<1> DEFINE q == out.repo
           b == job.source
<1>1. /\ WellFormed(r) /\ job.kind \in Reloading /\ job.kind \notin Pulling
      /\ NewName \in Branches /\ Sources \subseteq Branches /\ NewName \notin Sources
      /\ NewName # Detached
  BY SequencerAssumption, HistoryAssumption DEF RepoFits, Reloading, Pulling
<1>2. Len(Past) \in Nat /\ Len(r.commits) \in Nat
  BY <1>1, SequencerAssumption DEF WellFormed, IsHistory
<1>3. CASE job.kind = "branch"
  <2>1. out \in CreateBranch(r, NewName)
    BY <1>3 DEF Work, IsJob
  <2>2. /\ WellFormed(q) /\ Grown(r, q) /\ out.kind \in Kinds
        /\ q.at = r.at /\ q.op = r.op /\ q.orig = r.orig
        /\ q = r \/ (r.tip[NewName] = Nobody /\ q.head = NewName /\ out.kind = "ok")
    BY <1>1, <2>1, CreateBranchOutcome
  <2>3. Later(r, q) /\ Len(q.commits) \in Nat
    <3>1. Later(r, q)
      BY <1>1, <2>2, GrownIsLater
    <3>2. Len(q.commits) \in Nat
      BY <2>2 DEF WellFormed, IsHistory
    <3> QED
      BY <3>1, <3>2
  <2> HIDE DEF q
  <2>4. RepoFits(q)
    BY <1>2, <2>2, <2>3 DEF RepoFits, Grown
  <2>5. ASSUME NEW x, x # Detached, Away(r, x) PROVE Away(q, x)
    BY <2>2, <2>3, <2>5 DEF Away, Later
  <2>6. out.kind = "error" => Unturned(r, q)
    BY <1>1, <2>2, Stays
  <2> QED
    BY <1>1, <2>2, <2>3, <2>4, <2>5, <2>6 DEF Ran, Joins, q
<1>4. CASE job.kind = "checkout"
  <2>1. out \in CheckoutBranch(r, b) /\ b \in Branches
    BY <1>4 DEF Work, IsJob
  <2>2. /\ WellFormed(q) /\ Grown(r, q) /\ out.kind \in Kinds /\ q.op = r.op
        /\ q = r \/ (r.op # "rebase" /\ q.head = b /\ out.kind = "ok")
    BY <1>1, <2>1, CheckoutBranchOutcome
  <2>3. Later(r, q) /\ Len(q.commits) \in Nat
    <3>1. Later(r, q)
      BY <1>1, <2>2, GrownIsLater
    <3>2. Len(q.commits) \in Nat
      BY <2>2 DEF WellFormed, IsHistory
    <3> QED
      BY <3>1, <3>2
  <2> HIDE DEF q
  <2>4. RepoFits(q)
    BY <1>2, <1>4, <2>2, <2>3 DEF RepoFits, Grown
  <2>5. out.kind = "error" => Unturned(r, q)
    BY <1>1, <2>2, Stays
  <2> QED
    BY <1>1, <1>4, <2>2, <2>3, <2>4, <2>5 DEF Ran, Joins, q
<1>5. CASE job.kind = "delete"
  <2>1. out \in DeleteBranch(r, b) /\ b \in Sources
    BY <1>5 DEF Work, IsJob
  <2>2. b \in Branches /\ NewName \in Branches \ {b}
    BY <1>1, <2>1
  <2>3. /\ WellFormed(q) /\ out.kind \in Kinds /\ SameTask(r, q)
        /\ q.at = r.at /\ q.commits = r.commits
        /\ \A x \in Branches \ {b} : q.tip[x] = r.tip[x]
    BY <1>1, <2>1, <2>2, DeleteBranchOutcome
  <2> HIDE DEF q
  <2>4. RepoFits(q) /\ Later(r, q)
    BY <2>2, <2>3 DEF RepoFits, Later, SameTask
  <2>5. ASSUME NEW x, x # Detached, Away(r, x) PROVE Away(q, x)
    BY <2>3, <2>4, <2>5 DEF Away, Later, SameTask
  <2>6. Unturned(r, q)
    BY <2>3 DEF Unturned, SameTask
  <2> QED
    BY <1>1, <1>5, <2>3, <2>4, <2>5, <2>6 DEF Ran, Joins, q
<1> QED
  BY <1>3, <1>4, <1>5

(* The work panel and the conflict panel.                                   *)
LEMMA FilesRun ==
  ASSUME NEW r, RepoFits(r), NEW job, IsJob(job, r),
         job.kind \in {"stage", "unstage", "discard", "resolve"}, NEW out \in Work(job, r)
  PROVE  Ran(job, r, out)
<1>1. WellFormed(r) /\ job.kind \notin Pulling
  BY DEF RepoFits, Pulling
<1>2. FilesOnly(r, out)
  <2>1. CASE job.kind = "stage"
    BY <1>1, <2>1, StageFileOutcome DEF Work
  <2>2. CASE job.kind = "unstage"
    BY <1>1, <2>2, UnstageFileOutcome DEF Work
  <2>3. CASE job.kind = "discard"
    BY <1>1, <2>3, DiscardFileOutcome DEF Work
  <2>4. CASE job.kind = "resolve"
    <3>1. out \in ResolveConflict(r, job.path, job.side)
      BY <2>4 DEF Work
    <3>2. job.side \in {"ours", "theirs", "lines"}
      BY <2>4 DEF IsJob
    <3> QED
      BY <1>1, <3>1, <3>2, ResolveConflictOutcome
  <2> QED
    BY <2>1, <2>2, <2>3, <2>4
<1>3. Outcome(r, out) /\ Unturned(r, out.repo) /\ Joins(r, out.repo)
  BY <1>2 DEF FilesOnly, Joins
<1> QED
  BY <1>1, <1>3, RanByOutcome

(* Whatever the job.                                                        *)
LEMMA WorkRuns ==
  ASSUME NEW r, RepoFits(r), NEW job, IsJob(job, r), job.kind = "checkout" => r.op = "none",
         NEW out \in Work(job, r) \cup Refused(r)
  PROVE  Ran(job, r, out)
<1>1. CASE out \in Refused(r)
  BY <1>1, RanRefused
<1>2. CASE out \in Work(job, r)
  <2>1. \/ job.kind \in Pulling \cup {"merge"}
        \/ job.kind \in {"rebase", "plan", "pick", "reset"}
        \/ job.kind \in {"continue", "skip", "keep", "abort", "commit", "amend"}
        \/ job.kind \in {"branch", "checkout", "delete"}
        \/ job.kind \in {"stage", "unstage", "discard", "resolve"}
    BY DEF IsJob, JobKinds, Pulling
  <2> QED
    BY <1>2, <2>1, MergeRuns, ReplayRuns, WayOnRuns, BranchRuns, FilesRun
<1> QED
  BY <1>1, <1>2

-------------------------------------------------------------------------------
(* The repository has changed; the jobs on their way still fit.             *)

(* A job's arguments are still there.                                       *)
LEMMA JobStays ==
  ASSUME NEW r, NEW q, Later(r, q), NEW j, IsJob(j, r)
  PROVE  IsJob(j, q)
<1>1. j.kind = "plan" => j.keep \in Seq(DOMAIN q.commits)
  <2>1. ASSUME j.kind = "plan" PROVE j.keep \in Seq(DOMAIN r.commits)
    BY <2>1 DEF IsJob
  <2> QED
    BY <2>1, ListOfMore DEF Later
<1> QED
  BY <1>1 DEF IsJob

(* So are those of what the dialogs ask for.                                *)
LEMMA DialogsStay ==
  ASSUME NEW r, NEW q, Later(r, q), NEW st, DialogsFit(r, st)
  PROVE  DialogsFit(q, st)
<1>1. ASSUME NEW f, IsFrame(f, r) PROVE IsFrame(f, q)
  BY <1>1, JobStays DEF IsFrame, Plain
<1> QED
  BY <1>1 DEF DialogsFit

(* The job at work has ended, its signal is on its way.                     *)
LEMMA CoreRan ==
  ASSUME NEW r, NEW w, Core(r, w, NoEnd), w.active # NoJob, NEW out, Ran(w.active, r, out),
         NEW e, e # NoEnd, e.kind = out.kind, e.conflicts = out.repo.conflicts
  PROVE  Core(out.repo, w, e)
<1> DEFINE q == out.repo
<1>1. RepoFits(q) /\ Later(r, q) /\ out.kind \in Kinds
  BY DEF Ran
<1>2. EndFits(w, e)
  BY <1>1 DEF EndFits, RepoFits, WellFormed
<1>3. IsJob(w.active, q)
  BY <1>1, JobStays DEF Core, JobsFit
<1>4. ASSUME NEW j \in Range(w.queue)
      PROVE  Fits(j, q) /\ j.kind # "checkout"
  <2>1. Fits(j, r) /\ j.kind # "checkout"
    BY <1>4 DEF Core, JobsFit
  <2>2. IsJob(j, q)
    BY <1>1, <2>1, JobStays DEF Fits
  <2>3. CASE w.active.kind = "checkout"
    <3>1. ~Astray(j)
      BY <1>4, <2>3 DEF Core, JobsFit, ChecksOutNow
    <3> QED
      BY <2>1, <2>2, <3>1 DEF Fits
  <2>4. CASE w.active.kind # "checkout"
    <3>1. Astray(j) => Away(r, j.branch) /\ j.branch # Detached
      BY <2>1 DEF Fits, Astray
    <3> QED
      BY <2>1, <2>2, <2>4, <3>1 DEF Fits, Ran
  <2> QED
    BY <2>3, <2>4
<1>5. JobsFit(q, w, e)
  BY <1>3, <1>4 DEF JobsFit, ChecksOutNow
<1>6. w.branch = NewName => q.tip[NewName] # Nobody
  BY <1>1 DEF Core, Later
<1> HIDE DEF q
<1> QED
  BY <1>1, <1>2, <1>5, <1>6 DEF Core, q

(* What the window knows of the branch is still so, or it will look again.  *)
LEMMA KnownRan ==
  ASSUME NEW r, NEW w, NEW st, Followed(r, w, NoEnd, st), NEW out, Ran(w.active, r, out),
         NEW e, e # NoEnd, e.kind = out.kind
  PROVE  Followed(out.repo, w, e, st)
<1>1. Known(r, w) \/ w.flag \/ Redeems(st)
  BY DEF Followed, ReportDue
<1>2. ReportDue(w, e) \/ Unturned(r, out.repo)
  BY DEF Ran, ReportDue
<1>3. Unturned(r, out.repo) /\ Known(r, w) => Known(out.repo, w)
  BY DEF Unturned, Known
<1> QED
  BY <1>1, <1>2, <1>3 DEF Followed

(* The job at work ends.                                                    *)
LEMMA JobEndsKeeps ==
  ASSUME IInv, win.active # NoJob, NEW out \in Work(win.active, repo) \cup Refused(repo), JobEnds(out)
  PROVE  IInv' /\ Ran(win.active, repo, out)
<1>1. /\ ended = NoEnd /\ repo' = out.repo /\ ended'.kind = out.kind
      /\ ended'.conflicts = out.repo.conflicts /\ win' = win /\ stack' = stack
      /\ fetching' = fetching /\ count' = count
  BY DEF JobEnds
<1>2. Core(repo, win, NoEnd)
  BY <1>1 DEF IInv
<1>3. IsJob(win.active, repo) /\ (win.active.kind = "checkout" => repo.op = "none") /\ RepoFits(repo)
  BY <1>2 DEF Core, JobsFit, ChecksOutNow
<1>4. Ran(win.active, repo, out)
  BY <1>3, WorkRuns
<1>5. ended' # NoEnd
  <2>1. out.kind \in Kinds
    BY <1>4 DEF Ran
  <2> QED
    BY <1>1, <2>1 DEF Kinds, NoEnd
<1>6. Core(repo', win, ended')
  BY <1>1, <1>2, <1>4, <1>5, CoreRan
<1>7. Followed(repo', win, ended', stack)
  BY <1>1, <1>4, <1>5, KnownRan DEF IInv
<1>8. DialogsFit(repo', stack)
  BY <1>1, <1>4, DialogsStay DEF IInv, Ran
<1>9. Told(repo', win, stack)
  BY DEF Told, Busy
<1> QED
  BY <1>1, <1>4, <1>6, <1>7, <1>8, <1>9 DEF IInv

(* The user's editor changes no more than the files.                        *)
LEMMA EditsKeep ==
  ASSUME IInv, Edits
  PROVE  IInv' /\ repo'.at = repo.at
<1>1. /\ repo' = [repo EXCEPT !.dirty = TRUE] /\ win' = win /\ ended' = ended /\ stack' = stack
      /\ fetching' = fetching /\ count' = count
  BY DEF Edits
<1>2. WellFormed(repo) /\ RepoFits(repo)
  BY DEF IInv, Core, RepoFits
<1>3. /\ repo' = WithFiles(repo, repo.conflicts, repo.staged, TRUE)
      /\ repo.conflicts \in SUBSET Paths /\ repo.staged \in BOOLEAN /\ TRUE \in BOOLEAN
  BY <1>1, <1>2, FieldsKept
<1>4. Adds(repo, repo') /\ repo'.at = repo.at
  BY <1>2, <1>3, WithFilesEffect
<1>5. /\ RepoFits(repo') /\ Later(repo, repo')
      /\ \A b : b # Detached /\ Away(repo, b) => Away(repo', b)
  BY <1>2, <1>4, AddsGoes, GoesFits
<1>6. Looks(repo') = Looks(repo)
  BY <1>1, <1>2 DEF Looks, WellFormed
<1>7. repo'.op = repo.op /\ repo'.head = repo.head
  BY <1>4 DEF Adds, SameTask
<1>8. JobsFit(repo', win, ended)
  <2>1. ASSUME NEW j, IsJob(j, repo) PROVE IsJob(j, repo')
    BY <1>5, <2>1, JobStays
  <2>2. ASSUME NEW j, Fits(j, repo) PROVE Fits(j, repo')
    BY <1>5, <2>1, <2>2 DEF Fits, Astray
  <2> QED
    BY <1>7, <2>1, <2>2 DEF IInv, Core, JobsFit
<1>9. Core(repo', win, ended)
  BY <1>5, <1>8 DEF IInv, Core, Later
<1>10. DialogsFit(repo', stack)
  BY <1>5, DialogsStay DEF IInv
<1>11. Told(repo', win, stack)
  BY <1>6 DEF IInv, Told, Truth
<1>12. Followed(repo', win, ended, stack)
  BY <1>7 DEF IInv, Followed, Known
<1> QED
  BY <1>1, <1>4, <1>9, <1>10, <1>11, <1>12 DEF IInv

-------------------------------------------------------------------------------
(* The window's own steps.                                                  *)

(* The window w becomes v, the jobs J having been submitted: none is made   *)
(* up, one at most starts, and a reload that is due stays due until the     *)
(* branch has been looked at.                                               *)
Turns(r, J, w, v) ==
  /\ Shape(v)
  /\ Range(v.queue) \subseteq Range(w.queue) \cup J
  /\ \/ v.active = w.active
     \/ w.active = NoJob /\ v.active \in Range(w.queue) \cup J
  /\ v.branch \in {w.branch, r.head}
  /\ w.flag => v.flag \/ v.branch = r.head

(* What a step that only touches what is shown leaves alone.                *)
SameQueue(w, v) ==
  v.active = w.active /\ v.queue = w.queue /\ v.flag = w.flag /\ v.branch = w.branch

(* A step that leaves the queue, the flag and the branch alone.             *)
LEMMA SameQueueTurns ==
  ASSUME NEW r, NEW J, NEW w, NEW v, Shape(v), SameQueue(w, v)
  PROVE  Turns(r, J, w, v) /\ Busy(v) = Busy(w)
BY DEF Turns, SameQueue, Busy

(* One step after another.                                                  *)
LEMMA TurnsOn ==
  ASSUME NEW r, NEW J, NEW w, NEW v, NEW u, Turns(r, J, w, v), Turns(r, J, v, u)
  PROVE  Turns(r, J, w, u)
BY DEF Turns

(* A list with one more, and a list without its first.                      *)
LEMMA QueueLists ==
  ASSUME NEW q, q \in Seq(Range(q)), NEW j
  PROVE  /\ Append(q, j) \in Seq(Range(Append(q, j))) /\ Append(q, j) # <<>>
         /\ Range(Append(q, j)) \subseteq Range(q) \cup {j}
         /\ q # <<>> => /\ Head(q) \in Range(q)
                        /\ Tail(q) \in Seq(Range(Tail(q)))
                        /\ Range(Tail(q)) \subseteq Range(q)
                        /\ \A x \in Range(q) : x = Head(q) \/ x \in Range(Tail(q))
<1>1. Len(q) \in Nat /\ DOMAIN q = 1..Len(q)
  OBVIOUS
<1>2. /\ DOMAIN Append(q, j) = 1..(Len(q) + 1) /\ Len(Append(q, j)) = Len(q) + 1
      /\ \A i \in 1..Len(q) : Append(q, j)[i] = q[i]
      /\ Append(q, j)[Len(q) + 1] = j
  BY <1>1
<1>3. Append(q, j) \in Seq(Range(q) \cup {j})
  OBVIOUS
<1>4. Range(Append(q, j)) \subseteq Range(q) \cup {j} /\ Append(q, j) \in Seq(Range(Append(q, j)))
  BY <1>1, <1>2, <1>3 DEF Range
<1>5. Append(q, j) # <<>>
  <2>1. 1 \in DOMAIN Append(q, j)
    BY <1>1, <1>2
  <2>2. 1 \notin DOMAIN <<>>
    OBVIOUS
  <2> QED
    BY <2>1, <2>2, Zenon
<1>6. ASSUME q # <<>>
      PROVE  /\ Head(q) \in Range(q)
             /\ Tail(q) \in Seq(Range(Tail(q)))
             /\ Range(Tail(q)) \subseteq Range(q)
             /\ \A x \in Range(q) : x = Head(q) \/ x \in Range(Tail(q))
  <2>1. /\ Head(q) = q[1] /\ 1 \in DOMAIN q
        /\ Tail(q) \in Seq(Range(q)) /\ Len(Tail(q)) = Len(q) - 1
        /\ DOMAIN Tail(q) = 1..(Len(q) - 1)
        /\ \A i \in 1..(Len(q) - 1) : Tail(q)[i] = q[i + 1] /\ i + 1 \in DOMAIN q
    BY <1>1, <1>6
  <2>2. Range(Tail(q)) \subseteq Range(q) /\ Tail(q) \in Seq(Range(Tail(q)))
    <3> DEFINE t == Tail(q)
    <3>1. t \in Seq(Range(q)) /\ \A i \in DOMAIN t : t[i] = q[i + 1] /\ i + 1 \in DOMAIN q
      BY <2>1
    <3> HIDE DEF t
    <3>2. Range(t) \subseteq Range(q)
      BY <3>1 DEF Range
    <3>3. \A i \in DOMAIN t : t[i] \in Range(t)
      BY DEF Range
    <3>4. t \in Seq(Range(t))
      BY <3>1, <3>3
    <3> QED
      BY <3>2, <3>4 DEF t
  <2>3. Head(q) \in Range(q)
    BY <2>1 DEF Range
  <2>4. ASSUME NEW i \in DOMAIN q, i # 1 PROVE q[i] \in Range(Tail(q))
    <3>1. i - 1 \in 1..(Len(q) - 1) /\ (i - 1) + 1 = i
      BY <1>1, <2>4
    <3> QED
      BY <2>1, <3>1 DEF Range
  <2> QED
    BY <2>1, <2>2, <2>3, <2>4 DEF Range
<1> QED
  BY <1>4, <1>5, <1>6

(* `_start_next_if_idle`.                                                   *)
LEMMA StartNextTurns ==
  ASSUME NEW r, NEW J, NEW w, Shape(w), NoJob \notin Range(w.queue)
  PROVE  /\ Turns(r, J, w, StartNext(w))
         /\ StartNext(w).flag = w.flag /\ StartNext(w).branch = w.branch
         /\ Busy(w) => StartNext(w).active # NoJob
         /\ ~Busy(w) => StartNext(w) = w
<1>1. CASE w.active # NoJob \/ w.queue = <<>>
  <2>1. StartNext(w) = w
    BY <1>1 DEF StartNext
  <2> QED
    BY <1>1, <2>1 DEF Turns, Busy
<1>2. CASE w.active = NoJob /\ w.queue # <<>>
  <2> DEFINE v == [w EXCEPT !.active = Head(w.queue), !.queue = Tail(w.queue)]
  <2>1. StartNext(w) = v
    BY <1>2 DEF StartNext
  <2>2. /\ DOMAIN v = DOMAIN w /\ v.active = Head(w.queue) /\ v.queue = Tail(w.queue)
        /\ v.flag = w.flag /\ v.view = w.view /\ v.branch = w.branch /\ v.locked = w.locked
    BY DEF Shape
  <2>3. /\ Head(w.queue) \in Range(w.queue)
        /\ Tail(w.queue) \in Seq(Range(Tail(w.queue))) /\ Range(Tail(w.queue)) \subseteq Range(w.queue)
    BY <1>2, QueueLists DEF Shape
  <2> HIDE DEF v
  <2>4. Shape(v)
    BY <2>2, <2>3 DEF Shape
  <2> QED
    BY <1>2, <2>1, <2>2, <2>3, <2>4 DEF Turns, Busy
<1> QED
  BY <1>1, <1>2

(* `submit`: the queue is busy afterwards.                                  *)
LEMMA SubmittedTurns ==
  ASSUME NEW r, NEW J, NEW w, Shape(w), NoJob \notin Range(w.queue), NEW job \in J, job # NoJob
  PROVE  /\ Turns(r, J, w, Submitted(w, job)) /\ Busy(Submitted(w, job))
         /\ Submitted(w, job).branch = w.branch
<1> DEFINE v == [w EXCEPT !.queue = Append(w.queue, job)]
<1>1. Submitted(w, job) = StartNext(v)
  BY DEF Submitted, Shape
<1>2. /\ DOMAIN v = DOMAIN w /\ v.active = w.active /\ v.queue = Append(w.queue, job)
      /\ v.flag = w.flag /\ v.view = w.view /\ v.branch = w.branch /\ v.locked = w.locked
  BY DEF Shape
<1>3. /\ Append(w.queue, job) \in Seq(Range(Append(w.queue, job))) /\ Append(w.queue, job) # <<>>
      /\ Range(Append(w.queue, job)) \subseteq Range(w.queue) \cup {job}
  BY QueueLists DEF Shape
<1> HIDE DEF v
<1>4. Shape(v) /\ Turns(r, J, w, v) /\ Busy(v) /\ NoJob \notin Range(v.queue)
  BY <1>2, <1>3 DEF Shape, Turns, Busy
<1>5. /\ Turns(r, J, v, StartNext(v)) /\ StartNext(v).active # NoJob /\ StartNext(v).branch = v.branch
  BY <1>4, StartNextTurns
<1>6. Turns(r, J, w, StartNext(v))
  BY <1>4, <1>5, TurnsOn
<1> QED
  BY <1>1, <1>2, <1>5, <1>6 DEF Busy

(* `_apply_operation_state`.                                                *)
LEMMA AppliedTurns ==
  ASSUME NEW r, NEW J, NEW w, Shape(w)
  PROVE  /\ Turns(r, J, w, Applied(w)) /\ SameQueue(w, Applied(w)) /\ Busy(Applied(w)) = Busy(w)
         /\ Applied(w).view = w.view /\ Applied(w).locked = Busy(w)
<1> DEFINE v == Applied(w)
<1>1. /\ DOMAIN v = DOMAIN w /\ SameQueue(w, v) /\ v.view = w.view /\ v.locked = Busy(w)
  BY DEF Applied, Shape, SameQueue
<1> HIDE DEF v
<1>2. Busy(w) \in BOOLEAN
  BY DEF Busy
<1>3. Shape(v)
  BY <1>1, <1>2 DEF Shape, SameQueue
<1> QED
  BY <1>1, <1>3, SameQueueTurns DEF v

(* The view is replaced.                                                    *)
LEMMA ViewedTurns ==
  ASSUME NEW r, NEW J, NEW w, Shape(w), NEW view, DOMAIN view = {"op", "conflicts", "stop"},
         view.op \in Operations, view.conflicts \subseteq Paths
  PROVE  /\ Shape([w EXCEPT !.view = view]) /\ SameQueue(w, [w EXCEPT !.view = view])
         /\ [w EXCEPT !.view = view].view = view
<1> DEFINE v == [w EXCEPT !.view = view]
<1>1. DOMAIN v = DOMAIN w /\ SameQueue(w, v) /\ v.view = view /\ v.locked = w.locked
  BY DEF Shape, SameQueue
<1> HIDE DEF v
<1>2. Shape(v)
  BY <1>1 DEF Shape, SameQueue
<1> QED
  BY <1>1, <1>2 DEF v

(* What there is to see of a repository.                                    *)
LEMMA LooksLike ==
  ASSUME NEW r, WellFormed(r)
  PROVE  /\ DOMAIN Looks(r) = {"op", "conflicts", "stop"}
         /\ Looks(r).op \in Operations /\ Looks(r).conflicts \subseteq Paths
BY DEF Looks, WellFormed

(* `_sync_operation_state`.                                                 *)
LEMMA SyncedTurns ==
  ASSUME NEW r, WellFormed(r), NEW J, NEW w, Shape(w)
  PROVE  /\ Turns(r, J, w, Synced(w, r)) /\ SameQueue(w, Synced(w, r))
         /\ Busy(Synced(w, r)) = Busy(w)
         /\ Synced(w, r).view = Looks(r) /\ Synced(w, r).locked = Busy(w)
<1> DEFINE v == [w EXCEPT !.view = Looks(r)]
<1>1. Shape(v) /\ SameQueue(w, v) /\ v.view = Looks(r)
  BY LooksLike, ViewedTurns
<1>2. Synced(w, r) = Applied(v)
  BY DEF Synced
<1> HIDE DEF v
<1>3. /\ SameQueue(v, Applied(v)) /\ Applied(v).view = v.view /\ Applied(v).locked = Busy(v)
      /\ Shape(Applied(v))
  BY <1>1, AppliedTurns DEF Turns
<1>4. SameQueue(w, Applied(v)) /\ Busy(v) = Busy(w)
  BY <1>1, <1>3 DEF SameQueue, Busy
<1> QED
  BY <1>1, <1>2, <1>3, <1>4, SameQueueTurns

(* `open_repository`: the branch is looked at, and a flag of an idle queue  *)
(* is let fall.                                                             *)
LEMMA ReopenedTurns ==
  ASSUME NEW r, WellFormed(r), NEW J, NEW w, Shape(w)
  PROVE  /\ Turns(r, J, w, Reopened(w, r)) /\ Busy(Reopened(w, r)) = Busy(w)
         /\ ~Busy(w) => Truth(Reopened(w, r), r)
         /\ Reopened(w, r).branch = r.head
<1> DEFINE v == [w EXCEPT !.branch = r.head, !.flag = w.flag /\ Busy(w)]
<1>1. /\ DOMAIN v = DOMAIN w /\ v.branch = r.head /\ v.flag = (w.flag /\ Busy(w))
      /\ v.active = w.active /\ v.queue = w.queue /\ v.view = w.view /\ v.locked = w.locked
  BY DEF Shape
<1>2. Reopened(w, r) = Synced(v, r)
  BY DEF Reopened
<1> HIDE DEF v
<1>3. Busy(w) \in BOOLEAN /\ Busy(v) = Busy(w)
  BY <1>1 DEF Busy
<1>4. Shape(v)
  BY <1>1, <1>3 DEF Shape
<1>5. /\ Turns(r, J, v, Synced(v, r)) /\ SameQueue(v, Synced(v, r))
      /\ Busy(Synced(v, r)) = Busy(v)
      /\ Synced(v, r).view = Looks(r) /\ Synced(v, r).locked = Busy(v)
  BY <1>4, SyncedTurns
<1>6. Turns(r, J, w, v)
  BY <1>1, <1>4 DEF Turns
<1>7. Turns(r, J, w, Synced(v, r))
  BY <1>5, <1>6, TurnsOn
<1> QED
  BY <1>1, <1>2, <1>3, <1>5, <1>7 DEF Truth, SameQueue

(* The reload flag is set, or left.                                         *)
LEMMA FlaggedTurns ==
  ASSUME NEW r, NEW J, NEW w, Shape(w), NEW reloads \in BOOLEAN
  PROVE  /\ Turns(r, J, w, Flagged(w, reloads)) /\ Busy(Flagged(w, reloads)) = Busy(w)
         /\ Flagged(w, reloads).queue = w.queue
         /\ w.flag \/ reloads => Flagged(w, reloads).flag
<1> DEFINE v == Flagged(w, reloads)
<1>1. /\ DOMAIN v = DOMAIN w /\ v.flag = (w.flag \/ reloads) /\ v.active = w.active
      /\ v.queue = w.queue /\ v.view = w.view /\ v.branch = w.branch /\ v.locked = w.locked
  BY DEF Flagged, Shape
<1> HIDE DEF v
<1>2. (w.flag \/ reloads) \in BOOLEAN
  BY DEF Shape
<1>3. Shape(v)
  BY <1>1, <1>2 DEF Shape
<1>4. Busy(v) = Busy(w)
  BY <1>1 DEF Busy
<1> QED
  BY <1>1, <1>3, <1>4 DEF Turns, v

(* After its emission the queue goes on, or the window looks again.         *)
LEMMA AfterSlotsTurns ==
  ASSUME NEW r, WellFormed(r), NEW J, NEW w, Shape(w), NoJob \notin Range(w.queue)
  PROVE  /\ Turns(r, J, w, AfterSlots(w, r))
         /\ Busy(AfterSlots(w, r)) \/ Truth(AfterSlots(w, r), r)
<1> DEFINE v == StartNext(w)
           plain == [v EXCEPT !.flag = FALSE]
<1>1. Turns(r, J, w, v)
  BY StartNextTurns
<1>2. \/ Busy(v) /\ AfterSlots(w, r) = v
      \/ ~Busy(v) /\ v.flag /\ AfterSlots(w, r) = Reopened(plain, r)
      \/ ~Busy(v) /\ ~v.flag /\ AfterSlots(w, r) = Synced(v, r)
  BY DEF AfterSlots
<1> HIDE DEF v
<1>3. Shape(v)
  BY <1>1 DEF Turns
<1>4. CASE Busy(v) /\ AfterSlots(w, r) = v
  BY <1>1, <1>4
<1>5. CASE ~Busy(v) /\ v.flag /\ AfterSlots(w, r) = Reopened(plain, r)
  <2>1. /\ DOMAIN plain = DOMAIN v /\ plain.flag = FALSE /\ plain.active = v.active
        /\ plain.queue = v.queue /\ plain.view = v.view /\ plain.branch = v.branch
        /\ plain.locked = v.locked
    BY <1>3 DEF Shape
  <2> HIDE DEF plain
  <2>2. Shape(plain)
    BY <1>3, <2>1 DEF Shape
  <2>3. ~Busy(plain)
    BY <1>5, <2>1 DEF Busy
  <2>4. /\ Turns(r, J, plain, Reopened(plain, r)) /\ Truth(Reopened(plain, r), r)
        /\ Reopened(plain, r).branch = r.head
    BY <2>2, <2>3, ReopenedTurns
  <2>5. Turns(r, J, v, Reopened(plain, r))
    BY <2>1, <2>4 DEF Turns
  <2>6. Turns(r, J, w, Reopened(plain, r))
    BY <1>1, <2>5, TurnsOn
  <2> QED
    BY <1>5, <2>4, <2>6
<1>6. CASE ~Busy(v) /\ ~v.flag /\ AfterSlots(w, r) = Synced(v, r)
  <2>1. /\ Turns(r, J, v, Synced(v, r)) /\ SameQueue(v, Synced(v, r))
        /\ Synced(v, r).view = Looks(r) /\ Synced(v, r).locked = Busy(v)
    BY <1>3, SyncedTurns
  <2>2. Turns(r, J, w, Synced(v, r))
    BY <1>1, <2>1, TurnsOn
  <2> QED
    BY <1>6, <2>1, <2>2 DEF Truth, SameQueue
<1> QED
  BY <1>2, <1>4, <1>5, <1>6

(* No job of the queue is none.                                             *)
LEMMA QueueOfJobs ==
  ASSUME NEW r, NEW w, NEW e, Core(r, w, e)
  PROVE  Shape(w) /\ NoJob \notin Range(w.queue) /\ WellFormed(r)
<1>1. ASSUME NEW j, IsJob(j, r) PROVE j # NoJob
  BY <1>1 DEF IsJob, JobKinds, NoJob
<1> QED
  BY <1>1 DEF Core, RepoFits, JobsFit, Fits

(* Jobs that may be submitted: they fit, and no pull astray waits behind a  *)
(* checkout.                                                                *)
Welcome(r, w, e, J) ==
  \A j \in J : /\ Fits(j, r) /\ j.kind # "checkout"
               /\ ChecksOutNow(w, e) => ~Astray(j)

(* The repository being as it was, the window's steps keep what holds of    *)
(* it.                                                                      *)
LEMMA CoreTurns ==
  ASSUME NEW r, NEW w, NEW e, Core(r, w, e), NEW J, NEW v, Turns(r, J, w, v), Welcome(r, w, e, J)
  PROVE  /\ Core(r, v, e)
         /\ Known(r, w) \/ w.flag => Known(r, v) \/ v.flag
         /\ ReportDue(w, e) => ReportDue(v, e)
<1>1. /\ RepoFits(r) /\ EndFits(w, e) /\ JobsFit(r, w, e)
      /\ w.branch = NewName => r.tip[NewName] # Nobody
  BY DEF Core
<1>2. e # NoEnd => v.active = w.active /\ w.active # NoJob
  BY <1>1 DEF EndFits, Turns
<1>3. EndFits(v, e)
  BY <1>1, <1>2 DEF EndFits
<1>0. \A j \in J : /\ Fits(j, r) /\ j.kind # "checkout"
                   /\ ChecksOutNow(w, e) => ~Astray(j)
  BY Zenon DEF Welcome
<1>4. \A j \in Range(w.queue) \cup J : Fits(j, r) /\ j.kind # "checkout"
  BY <1>1, <1>0 DEF JobsFit
<1>5. v.branch = NewName => r.tip[NewName] # Nobody
  <2>1. NewName \in Branches /\ NewName # Detached
    BY SequencerAssumption, HistoryAssumption
  <2>2. r.head = NewName => r.tip[NewName] # Nobody
    BY <1>1, <2>1 DEF RepoFits, WellFormed, IsHistory, Nobody
  <2> QED
    BY <1>1, <2>2 DEF Turns
<1>6. JobsFit(r, v, e)
  <2>1. \A j \in Range(v.queue) : Fits(j, r) /\ j.kind # "checkout"
    BY <1>4 DEF Turns
  <2>2. v.active # NoJob => IsJob(v.active, r) /\ (e = NoEnd => Fits(v.active, r))
    BY <1>1, <1>4 DEF Turns, JobsFit, Fits
  <2>3. ASSUME ChecksOutNow(v, e)
        PROVE  /\ r.op = "none" /\ v.branch = r.head
               /\ \A j \in Range(v.queue) : ~Astray(j)
    <3>1. v.active = w.active
      BY <1>4, <2>3 DEF Turns, ChecksOutNow
    <3>2. ChecksOutNow(w, e)
      BY <2>3, <3>1 DEF ChecksOutNow
    <3> QED
      BY <1>1, <1>0, <3>2 DEF JobsFit, Turns
  <2> QED
    BY <2>1, <2>2, <2>3 DEF JobsFit
<1>7. Core(r, v, e)
  BY <1>1, <1>3, <1>5, <1>6 DEF Core, Turns
<1>8. Known(r, w) \/ w.flag => Known(r, v) \/ v.flag
  BY DEF Known, Turns
<1>9. ReportDue(w, e) => ReportDue(v, e)
  BY <1>2 DEF ReportDue
<1> QED
  BY <1>7, <1>8, <1>9

(* A job that is neither a checkout nor a pull fits wherever its arguments  *)
(* are.                                                                     *)
LEMMA PlainFits ==
  ASSUME NEW r, NEW j, Plain(j, r)
  PROVE  /\ Fits(j, r) /\ j.kind # "checkout" /\ ~Astray(j) /\ j # NoJob
         /\ \A w, e : Welcome(r, w, e, {j})
BY DEF Plain, Fits, Astray, IsJob, JobKinds, NoJob, Welcome

-------------------------------------------------------------------------------
(* The user's actions.                                                      *)

(* The window's steps under the dialogs that are open.                      *)
LEMMA WindowKeeps ==
  ASSUME IInv, NEW J,
         Welcome(repo, win, ended, J),
         Turns(repo, J, win, win'),
         Busy(win') \/ (~Busy(win) /\ (Truth(win, repo) => Truth(win', repo))),
         repo' = repo, ended' = ended, stack' = stack,
         fetching' \in BOOLEAN, count' \in 0..MaxJobs
  PROVE  IInv'
<1>1. /\ Core(repo, win', ended)
      /\ Known(repo, win) \/ win.flag => Known(repo, win') \/ win'.flag
      /\ ReportDue(win, ended) => ReportDue(win', ended)
  BY CoreTurns DEF IInv
<1>2. Followed(repo, win', ended, stack)
  BY <1>1 DEF IInv, Followed
<1>3. Told(repo, win', stack)
  BY DEF IInv, Told
<1> QED
  BY <1>1, <1>2, <1>3 DEF IInv

(* One more job.                                                            *)
LEMMA OneMore ==
  ASSUME IInv, MaySubmit
  PROVE  count + 1 \in 0..MaxJobs
<1>1. count \in 0..MaxJobs /\ MaxJobs \in Nat /\ count < MaxJobs
  BY HistoryAssumption DEF IInv, MaySubmit
<1> QED
  BY <1>1

(* A plain job is submitted.                                                *)
LEMMA SubmitsKeep ==
  ASSUME IInv, NEW job, Plain(job, repo), Submits(job)
  PROVE  IInv'
<1>1. /\ win' = Submitted(win, job) /\ count' = count + 1 /\ MaySubmit
      /\ repo' = repo /\ ended' = ended /\ stack' = stack /\ fetching' = fetching
  BY DEF Submits, Quietly
<1>2. Welcome(repo, win, ended, {job}) /\ job # NoJob
  BY PlainFits
<1>3. Shape(win) /\ NoJob \notin Range(win.queue)
  BY QueueOfJobs DEF IInv
<1>4. Turns(repo, {job}, win, win') /\ Busy(win')
  BY <1>1, <1>2, <1>3, SubmittedTurns
<1>5. count' \in 0..MaxJobs /\ fetching' \in BOOLEAN
  BY <1>1, OneMore DEF IInv
<1> QED
  BY <1>1, <1>2, <1>4, <1>5, WindowKeeps

(* A dialog is opened over the others.                                      *)
LEMMA StackLists ==
  ASSUME NEW f, NEW st, st \in Seq(Range(st))
  PROVE  /\ <<f>> \o st \in Seq(Range(<<f>> \o st)) /\ Range(<<f>> \o st) = Range(st) \cup {f}
<1> DEFINE q == <<f>> \o st
<1>1. Len(st) \in Nat /\ DOMAIN st = 1..Len(st)
  OBVIOUS
<1>2. /\ q \in Seq(Range(st) \cup {f}) /\ DOMAIN q = 1..(Len(st) + 1)
      /\ q[1] = f /\ \A i \in 1..Len(st) : q[i + 1] = st[i]
  BY <1>1
<1>3. \A i \in DOMAIN q : i = 1 \/ (i - 1 \in DOMAIN st /\ q[i] = st[i - 1])
  <2>1. ASSUME NEW i \in DOMAIN q, i # 1 PROVE i - 1 \in DOMAIN st /\ q[i] = st[i - 1]
    <3>1. i - 1 \in 1..Len(st) /\ (i - 1) + 1 = i
      BY <1>1, <1>2, <2>1
    <3> QED
      BY <1>1, <1>2, <3>1
  <2> QED
    BY <2>1
<1>4. \A i \in DOMAIN st : i + 1 \in DOMAIN q /\ q[i + 1] = st[i]
  BY <1>1, <1>2
<1>5. 1 \in DOMAIN q /\ q[1] = f
  BY <1>1, <1>2
<1> HIDE DEF q
<1>6. Range(q) = Range(st) \cup {f}
  <2>1. Range(q) \subseteq Range(st) \cup {f}
    BY <1>3, <1>5 DEF Range
  <2>2. Range(st) \subseteq Range(q) /\ f \in Range(q)
    BY <1>4, <1>5 DEF Range
  <2> QED
    BY <2>1, <2>2
<1>7. q \in Seq(Range(q))
  BY <1>2, <1>6
<1> QED
  BY <1>6, <1>7 DEF q

(* A dialog that only asks is opened.                                       *)
LEMMA OpensKeep ==
  ASSUME IInv, NEW f, IsFrame(f, repo), ~f.emits, stack' = <<f>> \o stack,
         repo' = repo, win' = win, ended' = ended, fetching' \in BOOLEAN, count' = count
  PROVE  IInv'
<1>1. stack' \in Seq(Range(stack')) /\ Range(stack') = Range(stack) \cup {f}
  BY StackLists DEF IInv, DialogsFit
<1>2. DialogsFit(repo, stack')
  BY <1>1 DEF IInv, DialogsFit
<1>3. /\ Emitting(stack) => Emitting(stack')
      /\ Redeems(stack) => Redeems(stack')
  BY <1>1 DEF Emitting, Redeems
<1>4. Told(repo, win, stack') /\ Followed(repo, win, ended, stack')
  BY <1>3 DEF IInv, Told, Followed
<1> QED
  BY <1>2, <1>4 DEF IInv

(* A question for a plain job.                                              *)
LEMMA AsksKeep ==
  ASSUME IInv, NEW job, Plain(job, repo), Asks(job)
  PROVE  IInv'
<1> DEFINE f == [what |-> "ask", job |-> job, emits |-> FALSE]
<1>1. IsFrame(f, repo) /\ ~f.emits
  BY DEF IsFrame
<1>2. /\ stack' = <<f>> \o stack /\ repo' = repo /\ win' = win /\ ended' = ended
      /\ fetching' = fetching /\ count' = count
  BY DEF Asks, Quietly
<1> HIDE DEF f
<1> QED
  BY <1>1, <1>2, OpensKeep DEF IInv

(* A job is submitted and the reload flag set with it, as by `_start_merge` *)
(* and `_finish_pull`.                                                      *)
LEMMA FlagsKeep ==
  ASSUME IInv, NEW job, Fits(job, repo), job.kind # "checkout",
         ChecksOutNow(win, ended) => ~Astray(job),
         MaySubmit, win' = [Submitted(win, job) EXCEPT !.flag = TRUE], count' = count + 1,
         repo' = repo, ended' = ended, stack' = stack, fetching' \in BOOLEAN
  PROVE  IInv'
<1> DEFINE w == Submitted(win, job)
<1>1. job # NoJob
  BY DEF Fits, IsJob, JobKinds, NoJob
<1>2. Shape(win) /\ NoJob \notin Range(win.queue)
  BY QueueOfJobs DEF IInv
<1>3. Turns(repo, {job}, win, w) /\ Busy(w)
  BY <1>1, <1>2, SubmittedTurns
<1>4. win' = [w EXCEPT !.flag = TRUE]
  OBVIOUS
<1> HIDE DEF w
<1>5. /\ DOMAIN win' = DOMAIN w /\ win'.flag = TRUE /\ win'.active = w.active
      /\ win'.queue = w.queue /\ win'.view = w.view /\ win'.branch = w.branch
      /\ win'.locked = w.locked
  BY <1>3, <1>4 DEF Turns, Shape
<1>6. Shape(win')
  BY <1>3, <1>5 DEF Turns, Shape
<1>7. Turns(repo, {job}, win, win') /\ Busy(win')
  BY <1>3, <1>5, <1>6 DEF Turns, Busy
<1>8. Welcome(repo, win, ended, {job})
  BY DEF Welcome
<1>9. count' \in 0..MaxJobs
  BY OneMore
<1>10. repo' = repo /\ ended' = ended /\ stack' = stack /\ fetching' \in BOOLEAN
  OBVIOUS
<1> QED
  BY <1>7, <1>8, <1>9, <1>10, WindowKeeps

(* A merge is asked for: the job is queued and the flag is set.             *)
LEMMA StartsMergeKeeps ==
  ASSUME IInv, NEW b \in Sources, StartsMerge(b)
  PROVE  IInv'
<1> DEFINE job == [kind |-> "merge", source |-> b, branch |-> win.branch]
<1>1. /\ win' = [Submitted(win, job) EXCEPT !.flag = TRUE] /\ count' = count + 1 /\ MaySubmit
      /\ repo' = repo /\ ended' = ended /\ stack' = stack /\ fetching' = fetching
  BY DEF StartsMerge, Quietly
<1>2. Plain(job, repo)
  BY HistoryAssumption DEF Plain, IsJob, JobKinds, Pulling
<1> HIDE DEF job
<1>3. Fits(job, repo) /\ job.kind # "checkout" /\ ~Astray(job)
  BY <1>2, PlainFits
<1>4. fetching' \in BOOLEAN
  BY <1>1 DEF IInv
<1> QED
  BY <1>1, <1>3, <1>4, FlagsKeep

(* The checkout, which finds the queue idle and the window up to date.      *)
LEMMA ChecksOutKeeps ==
  ASSUME IInv, NEW b \in Sources, ChecksOut(b)
  PROVE  IInv'
<1> DEFINE job == [kind |-> "checkout", source |-> b]
<1>1. /\ stack = <<>> /\ win.view.op = "none" /\ ~Busy(win)
      /\ win' = Submitted(win, job) /\ count' = count + 1 /\ MaySubmit
      /\ repo' = repo /\ ended' = ended /\ stack' = stack /\ fetching' = fetching
  BY DEF ChecksOut, Submits, Quietly, UserFree, BusyWithHistory
<1>2. win.active = NoJob /\ win.queue = <<>> /\ ended = NoEnd
  BY <1>1 DEF Busy, IInv, Core, EndFits
<1>3. ~Emitting(stack) /\ ~Redeems(stack)
  BY <1>1 DEF Emitting, Redeems, Range
<1>4. Truth(win, repo) /\ repo.op = "none"
  <2>1. Truth(win, repo)
    BY <1>1, <1>3 DEF IInv, Told
  <2> QED
    BY <1>1, <2>1 DEF Truth, Looks
<1>5. win.branch = repo.head
  <2>1. Known(repo, win)
    BY <1>2, <1>3, <1>4 DEF IInv, Followed, ReportDue, Truth
  <2> QED
    BY <1>4, <2>1 DEF Known
<1>6. Shape(win)
  BY DEF IInv, Core
<1>7. /\ DOMAIN win' = DOMAIN win /\ win'.active = job /\ win'.queue = <<>>
      /\ win'.flag = win.flag /\ win'.view = win.view /\ win'.branch = win.branch
      /\ win'.locked = win.locked
  <2> DEFINE v == [win EXCEPT !.queue = <<job>>]
  <2>1. win' = StartNext(v)
    BY <1>1, <1>2, <1>6 DEF Submitted, Shape
  <2>2. /\ DOMAIN v = DOMAIN win /\ v.active = NoJob /\ v.queue = <<job>>
        /\ v.flag = win.flag /\ v.view = win.view /\ v.branch = win.branch /\ v.locked = win.locked
    BY <1>2, <1>6 DEF Shape
  <2> HIDE DEF v
  <2>3. Head(<<job>>) = job /\ Tail(<<job>>) = <<>> /\ <<job>> # <<>>
    OBVIOUS
  <2>4. win' = [v EXCEPT !.active = job, !.queue = <<>>]
    BY <2>1, <2>2, <2>3 DEF StartNext
  <2> QED
    BY <1>6, <2>2, <2>4 DEF Shape
<1>8. IsJob(job, repo) /\ ~Astray(job) /\ job # NoJob
  BY HistoryAssumption DEF IsJob, JobKinds, Astray, Pulling, NoJob
<1> HIDE DEF job
<1>9. Shape(win') /\ Range(win'.queue) = {}
  <2>1. <<>> \in Seq({}) /\ Range(<<>>) = {}
    BY DEF Range
  <2> QED
    BY <1>6, <1>7, <2>1 DEF Shape
<1>10. JobsFit(repo, win', ended)
  BY <1>4, <1>5, <1>7, <1>8, <1>9 DEF JobsFit, Fits
<1>11. Core(repo, win', ended)
  BY <1>2, <1>7, <1>9, <1>10 DEF IInv, Core, EndFits
<1>12. Followed(repo, win', ended, stack)
  BY <1>5, <1>7 DEF Followed, Known
<1>13. Told(repo, win', stack)
  BY <1>7, <1>8 DEF Told, Busy
<1>14. count' \in 0..MaxJobs /\ fetching' \in BOOLEAN
  BY <1>1, OneMore DEF IInv
<1> QED
  BY <1>1, <1>11, <1>12, <1>13, <1>14 DEF IInv

(* The menus, the banner and the panels: a plain job asked for or submitted. *)
LEMMA MenusKeep ==
  ASSUME IInv, NEW b \in Sources, StartsRebase(b) \/ ConfirmsDelete(b)
  PROVE  IInv'
<1> DEFINE rebase == [kind |-> "rebase", source |-> b, branch |-> win.branch]
           delete == [kind |-> "delete", source |-> b]
<1>1. Asks(rebase) \/ Asks(delete)
  BY DEF StartsRebase, ConfirmsDelete
<1>2. Plain(rebase, repo) /\ Plain(delete, repo)
  BY HistoryAssumption DEF Plain, IsJob, JobKinds, Pulling
<1> HIDE DEF rebase, delete
<1> QED
  BY <1>1, <1>2, AsksKeep

(* The plan names commits that are there.                                   *)
LEMMA StartsPlanKeeps ==
  ASSUME IInv, NEW b \in Sources, StartsPlan(b)
  PROVE  IInv'
<1> DEFINE steps == RebaseTodo(repo, repo.tip[b])
           keep(drop) == Ordered(Range(steps) \ drop)
           job(drop) == [kind |-> "plan", source |-> b, branch |-> win.branch, at |-> repo.at,
                         keep |-> keep(drop)]
<1>1. PICK drop \in SUBSET Range(steps) : Asks(job(drop))
  BY DEF StartsPlan
<1>2. WellFormed(repo)
  BY DEF IInv, Core, RepoFits
<1>3. steps \in Seq(DOMAIN repo.commits)
  BY <1>2, TodoNamesCommits DEF RebaseTodo
<1>4. keep(drop) \in Seq(DOMAIN repo.commits)
  <2> HIDE DEF steps
  <2>1. Range(steps) \ drop \in SUBSET DOMAIN repo.commits
    BY <1>3 DEF Range
  <2> QED
    BY <1>2, <2>1, TodoNamesCommits
<1> HIDE DEF keep
<1>5. Plain(job(drop), repo)
  BY <1>4, HistoryAssumption DEF Plain, IsJob, JobKinds, Pulling
<1> HIDE DEF job
<1> QED
  BY <1>1, <1>5, AsksKeep

(* The actions of the history list's menu.                                  *)
LEMMA CommitMenuKeeps ==
  ASSUME IInv, NEW c \in Picked,
         \/ \E op \in {"cherry_pick", "revert"} : StartsPick(op, c)
         \/ \E how \in {"soft", "mixed", "hard"} : StartsReset(how, c)
  PROVE  IInv'
<1>0. c \in DOMAIN Past
  BY HistoryAssumption
<1>1. ASSUME NEW op \in {"cherry_pick", "revert"}, StartsPick(op, c) PROVE IInv'
  <2> DEFINE job == [kind |-> "pick", op |-> op, commit |-> c, branch |-> win.branch]
  <2>1. Submits(job)
    BY <1>1 DEF StartsPick
  <2>2. Plain(job, repo)
    BY <1>0 DEF Plain, IsJob, JobKinds, Pulling
  <2> HIDE DEF job
  <2> QED
    BY <2>1, <2>2, SubmitsKeep
<1>2. ASSUME NEW how \in {"soft", "mixed", "hard"}, StartsReset(how, c) PROVE IInv'
  <2> DEFINE job == [kind |-> "reset", how |-> how, commit |-> c, branch |-> win.branch]
  <2>1. Asks(job)
    BY <1>2 DEF StartsReset
  <2>2. Plain(job, repo)
    BY <1>0 DEF Plain, IsJob, JobKinds, Pulling
  <2> HIDE DEF job
  <2> QED
    BY <2>1, <2>2, AsksKeep
<1> QED
  BY <1>1, <1>2

(* The banner, the commit panel, the work panel.                            *)
LEMMA ContinuesKeeps ==
  ASSUME IInv, Continues
  PROVE  IInv'
<1> DEFINE job == [kind |-> "continue"]
           w == Submitted(win, job)
<1>1. /\ win' = Applied(w) /\ count' = count + 1 /\ MaySubmit
      /\ repo' = repo /\ ended' = ended /\ stack' = stack /\ fetching' = fetching
  BY DEF Continues, Quietly
<1>2. Plain(job, repo)
  BY DEF Plain, IsJob, JobKinds, Pulling
<1> HIDE DEF job
<1>3. Welcome(repo, win, ended, {job}) /\ job # NoJob
  BY <1>2, PlainFits
<1>4. Shape(win) /\ NoJob \notin Range(win.queue)
  BY QueueOfJobs DEF IInv
<1>5. Turns(repo, {job}, win, w) /\ Busy(w)
  BY <1>3, <1>4, SubmittedTurns
<1> HIDE DEF w
<1>6. Turns(repo, {job}, w, Applied(w)) /\ Busy(Applied(w))
  BY <1>5, AppliedTurns DEF Turns
<1>7. Turns(repo, {job}, win, win') /\ Busy(win')
  BY <1>1, <1>5, <1>6, TurnsOn
<1>8. count' \in 0..MaxJobs /\ fetching' \in BOOLEAN
  BY <1>1, OneMore DEF IInv
<1> QED
  BY <1>1, <1>3, <1>7, <1>8, WindowKeeps

(* The banner's buttons ask before they act.                                *)
LEMMA BannerKeeps ==
  ASSUME IInv, AsksToSkip \/ AsksToAbort
  PROVE  IInv'
<1> DEFINE skip == [kind |-> "skip", about |-> win.view.stop]
           abort == [kind |-> "abort"]
<1>1. Asks(skip) \/ Asks(abort)
  BY DEF AsksToSkip, AsksToAbort
<1>2. Plain(skip, repo) /\ Plain(abort, repo)
  BY DEF Plain, IsJob, JobKinds, Pulling
<1> HIDE DEF skip, abort
<1> QED
  BY <1>1, <1>2, AsksKeep

(* A commit is queued, an amendment is asked about first.                   *)
LEMMA CommitRequestedKeeps ==
  ASSUME IInv, NEW amend \in BOOLEAN, CommitRequested(amend)
  PROVE  IInv'
<1> DEFINE amended == [kind |-> "amend", at |-> repo.at]
           plain == [kind |-> "commit"]
<1>1. Asks(amended) \/ Submits(plain)
  BY DEF CommitRequested
<1>2. Plain(amended, repo) /\ Plain(plain, repo)
  BY DEF Plain, IsJob, JobKinds, Pulling
<1> HIDE DEF amended, plain
<1> QED
  BY <1>1, <1>2, AsksKeep, SubmitsKeep

(* The jobs of the file list, and a new branch.                             *)
LEMMA PanelsKeep ==
  ASSUME IInv, NewBranch \/ Unstages \/ Discards
               \/ \E p \in Paths \cup {"other"} : Stages(p)
  PROVE  IInv'
<1>1. ASSUME NEW p, Stages(p) PROVE IInv'
  <2> DEFINE job == [kind |-> "stage", path |-> p]
  <2>1. Submits(job)
    BY <1>1 DEF Stages
  <2>2. Plain(job, repo)
    BY DEF Plain, IsJob, JobKinds, Pulling
  <2> HIDE DEF job
  <2> QED
    BY <2>1, <2>2, SubmitsKeep
<1>2. CASE NewBranch
  <2> DEFINE job == [kind |-> "branch", source |-> NewName]
  <2>1. Submits(job)
    BY <1>2 DEF NewBranch
  <2>2. Plain(job, repo)
    BY DEF Plain, IsJob, JobKinds, Pulling
  <2> HIDE DEF job
  <2> QED
    BY <2>1, <2>2, SubmitsKeep
<1>3. CASE Unstages
  <2> DEFINE job == [kind |-> "unstage"]
  <2>1. Submits(job)
    BY <1>3 DEF Unstages
  <2>2. Plain(job, repo)
    BY DEF Plain, IsJob, JobKinds, Pulling
  <2> HIDE DEF job
  <2> QED
    BY <2>1, <2>2, SubmitsKeep
<1>4. CASE Discards
  <2> DEFINE job == [kind |-> "discard"]
  <2>1. Asks(job)
    BY <1>4 DEF Discards
  <2>2. Plain(job, repo)
    BY DEF Plain, IsJob, JobKinds, Pulling
  <2> HIDE DEF job
  <2> QED
    BY <2>1, <2>2, AsksKeep
<1> QED
  BY <1>1, <1>2, <1>3, <1>4

(* The conflict panel is filled or emptied.                                 *)
LEMMA PanelTurns ==
  ASSUME NEW r, NEW J, NEW w, Shape(w), NEW panel
  PROVE  /\ Turns(r, J, w, [w EXCEPT !.panel = panel])
         /\ SameQueue(w, [w EXCEPT !.panel = panel])
         /\ Busy([w EXCEPT !.panel = panel]) = Busy(w)
         /\ Truth(w, r) => Truth([w EXCEPT !.panel = panel], r)
<1> DEFINE v == [w EXCEPT !.panel = panel]
<1>1. DOMAIN v = DOMAIN w /\ SameQueue(w, v) /\ v.view = w.view /\ v.locked = w.locked
  BY DEF Shape, SameQueue
<1> HIDE DEF v
<1>2. Shape(v)
  BY <1>1 DEF Shape, SameQueue
<1>3. Truth(w, r) => Truth(v, r)
  BY <1>1 DEF Truth, SameQueue
<1> QED
  BY <1>1, <1>2, <1>3, SameQueueTurns DEF v

(* The conflict panel is filled.                                            *)
LEMMA DetailReadyKeeps ==
  ASSUME IInv, NEW p, DetailReady(p)
  PROVE  IInv'
<1> DEFINE panel == [path |-> p, seen |-> Conflict(repo)]
<1>1. /\ win' = [win EXCEPT !.panel = panel] /\ count' = count
      /\ repo' = repo /\ ended' = ended /\ stack' = stack /\ fetching' = fetching
  BY DEF DetailReady, Quietly
<1> HIDE DEF panel
<1>2. Shape(win)
  BY DEF IInv, Core
<1>3. /\ Turns(repo, {}, win, win') /\ Busy(win') = Busy(win)
      /\ Truth(win, repo) => Truth(win', repo)
  BY <1>1, <1>2, PanelTurns
<1>4. Welcome(repo, win, ended, {})
  BY DEF Welcome
<1>5. count' \in 0..MaxJobs /\ fetching' \in BOOLEAN
  BY <1>1 DEF IInv
<1>6. Busy(win') \/ (~Busy(win) /\ (Truth(win, repo) => Truth(win', repo)))
  BY <1>3
<1> QED
  BY <1>1, <1>3, <1>4, <1>5, <1>6, WindowKeeps

(* A side is chosen, at once or after a question.                           *)
LEMMA ResolvesKeeps ==
  ASSUME IInv, NEW side \in {"ours", "theirs", "lines"}, NEW edited \in BOOLEAN,
         Resolves(side, edited)
  PROVE  IInv'
<1> DEFINE job == [kind |-> "resolve", path |-> win.panel.path, side |-> side,
                   seen |-> win.panel.seen]
           f == [what |-> "ask", job |-> job, emits |-> FALSE]
           w == [win EXCEPT !.panel = NoPanel]
<1>1. /\ repo' = repo /\ ended' = ended /\ fetching' = fetching /\ stack = <<>> /\ MaySubmit
      /\ \/ stack' = <<f>> /\ win' = w /\ count' = count
         \/ win' = Submitted(w, job) /\ count' = count + 1 /\ stack' = stack
  BY DEF Resolves, Quietly, UserFree
<1>2. Plain(job, repo)
  BY DEF Plain, IsJob, JobKinds, Pulling
<1>3. IsFrame(f, repo) /\ ~f.emits
  BY <1>2 DEF IsFrame
<1> HIDE DEF job, f
<1>4. Shape(win) /\ NoJob \notin Range(win.queue)
  BY QueueOfJobs DEF IInv
<1>5. /\ Turns(repo, {job}, win, w) /\ Turns(repo, {}, win, w) /\ SameQueue(win, w)
      /\ Busy(w) = Busy(win)
      /\ Truth(win, repo) => Truth(w, repo)
  BY <1>4, PanelTurns
<1> HIDE DEF w
<1>6. CASE stack' = <<f>> /\ win' = w /\ count' = count
  <2>1. /\ Core(repo, w, ended)
        /\ Known(repo, win) \/ win.flag => Known(repo, w) \/ w.flag
        /\ ReportDue(win, ended) => ReportDue(w, ended)
    <3>1. Welcome(repo, win, ended, {})
      BY DEF Welcome
    <3> QED
      BY <1>5, <3>1, CoreTurns DEF IInv
  <2>2. ~Emitting(stack) /\ ~Redeems(stack)
    BY <1>1 DEF Emitting, Redeems, Range
  <2>3. Told(repo, w, stack') /\ Followed(repo, w, ended, stack')
    BY <1>5, <2>1, <2>2 DEF IInv, Told, Followed
  <2>4. DialogsFit(repo, stack')
    <3>1. Range(<<f>>) = {f} /\ <<f>> \in Seq({f})
      BY DEF Range
    <3> QED
      BY <1>3, <1>6, <3>1 DEF DialogsFit
  <2> QED
    BY <1>1, <1>6, <2>1, <2>3, <2>4 DEF IInv
<1>7. CASE win' = Submitted(w, job) /\ count' = count + 1 /\ stack' = stack
  <2>1. Welcome(repo, win, ended, {job}) /\ job # NoJob
    BY <1>2, PlainFits
  <2>2. Shape(w) /\ NoJob \notin Range(w.queue)
    BY <1>4, <1>5 DEF Turns, SameQueue
  <2>3. Turns(repo, {job}, w, win') /\ Busy(win')
    BY <1>7, <2>1, <2>2, SubmittedTurns
  <2>4. Turns(repo, {job}, win, win')
    BY <1>5, <2>3, TurnsOn
  <2>5. count' \in 0..MaxJobs /\ fetching' \in BOOLEAN
    BY <1>1, <1>7, OneMore DEF IInv
  <2> QED
    BY <1>1, <1>7, <2>1, <2>3, <2>4, <2>5, WindowKeeps
<1> QED
  BY <1>1, <1>6, <1>7

(* The window reads the repository anew.                                    *)
LEMMA ReloadsKeeps ==
  ASSUME IInv, Reloads
  PROVE  IInv'
<1>1. /\ win' = Reopened(win, repo) /\ count' = count
      /\ repo' = repo /\ ended' = ended /\ stack' = stack /\ fetching' = fetching
  BY DEF Reloads, Quietly
<1>2. Shape(win) /\ WellFormed(repo)
  BY QueueOfJobs DEF IInv
<1>3. /\ Turns(repo, {}, win, win') /\ Busy(win') = Busy(win)
      /\ ~Busy(win) => Truth(win', repo)
  BY <1>1, <1>2, ReopenedTurns
<1>4. Welcome(repo, win, ended, {})
  BY DEF Welcome
<1>5. count' \in 0..MaxJobs /\ fetching' \in BOOLEAN
  BY <1>1 DEF IInv
<1>6. Busy(win') \/ (~Busy(win) /\ (Truth(win, repo) => Truth(win', repo)))
  BY <1>3
<1> QED
  BY <1>1, <1>3, <1>4, <1>5, <1>6, WindowKeeps

(* Pull: the fetch begins, fails, or ends and the merge is submitted.       *)
LEMMA PullsKeeps ==
  ASSUME IInv, Pulls \/ PullFails
  PROVE  IInv'
<1>1. CASE Pulls
  <2>1. /\ repo' = repo /\ win' = win /\ ended' = ended /\ stack' = stack /\ count' = count
        /\ fetching' \in BOOLEAN
    BY <1>1 DEF Pulls
  <2> QED
    BY <2>1 DEF IInv
<1>2. CASE PullFails
  <2> DEFINE f == [what |-> "note", emits |-> FALSE]
  <2>1. /\ repo' = repo /\ win' = win /\ ended' = ended /\ stack' = <<f>> \o stack /\ count' = count
        /\ fetching' \in BOOLEAN
    BY <1>2 DEF PullFails
  <2>2. IsFrame(f, repo) /\ ~f.emits
    BY DEF IsFrame
  <2> HIDE DEF f
  <2> QED
    BY <2>1, <2>2, OpensKeep
<1> QED
  BY <1>1, <1>2

(* The merge is for the branch the window shows, which need not be HEAD's:  *)
(* then HEAD is away from it, and stays away until the merge is refused.    *)
LEMMA FinishPullKeeps ==
  ASSUME IInv, FinishPull
  PROVE  IInv'
<1> DEFINE ff == repo.at \in AncestorsOf(repo, Upstream[repo.head])
           job == [kind |-> IF ff THEN "fast_forward" ELSE "pull_merge",
                   of |-> repo.head, branch |-> win.branch]
<1>1. /\ repo' = repo /\ ended' = ended /\ stack' = stack /\ fetching' \in BOOLEAN
      /\ \/ win' = Reopened(win, repo) /\ count' = count
         \/ /\ repo.head \in DOMAIN Upstream /\ MaySubmit
            /\ win' = [Submitted(win, job) EXCEPT !.flag = TRUE] /\ count' = count + 1
  BY DEF FinishPull
<1>2. Shape(win) /\ WellFormed(repo)
  BY QueueOfJobs DEF IInv
<1>3. CASE win' = Reopened(win, repo) /\ count' = count
  <2>1. /\ Turns(repo, {}, win, win') /\ Busy(win') = Busy(win)
        /\ ~Busy(win) => Truth(win', repo)
    BY <1>2, <1>3, ReopenedTurns
  <2>2. Welcome(repo, win, ended, {})
    BY DEF Welcome
  <2>3. count' \in 0..MaxJobs
    BY <1>3 DEF IInv
  <2>4. Busy(win') \/ (~Busy(win) /\ (Truth(win, repo) => Truth(win', repo)))
    BY <2>1
  <2> QED
    BY <1>1, <2>1, <2>2, <2>3, <2>4, WindowKeeps
<1>4. CASE /\ repo.head \in DOMAIN Upstream /\ MaySubmit
           /\ win' = [Submitted(win, job) EXCEPT !.flag = TRUE] /\ count' = count + 1
  <2>1. job.kind \in Pulling /\ job.of = repo.head /\ job.branch = win.branch
    BY DEF Pulling
  <2> HIDE DEF job
  <2>2. job.kind \in JobKinds /\ job.kind # "checkout" /\ IsJob(job, repo)
    BY <1>4, <2>1 DEF IsJob, Pulling, JobKinds
  <2>3. Astray(job) => Away(repo, job.branch)
    <3>1. repo.op # "rebase"
      <4>1. repo.head \in Branches /\ repo.head # NewName /\ repo.head # Detached
        BY <1>4, SequencerAssumption, HistoryAssumption
      <4> QED
        BY <4>1 DEF IInv, Core, RepoFits
    <3>2. win.branch = NewName => repo.tip[NewName] # Nobody
      BY DEF IInv, Core
    <3> QED
      BY <2>1, <3>1, <3>2 DEF Astray, Away
  <2>4. Fits(job, repo)
    BY <2>2, <2>3 DEF Fits
  <2>5. ChecksOutNow(win, ended) => ~Astray(job)
    BY <2>1 DEF IInv, Core, JobsFit, Astray
  <2> QED
    BY <1>1, <1>4, <2>2, <2>4, <2>5, FlagsKeep
<1> QED
  BY <1>1, <1>3, <1>4

-------------------------------------------------------------------------------
(* The dialogs.                                                             *)

(* The innermost dialog is closed, after the window's step to w.            *)
LEMMA LetGoKeeps ==
  ASSUME IInv, stack # <<>>, NEW J, Welcome(repo, win, ended, J), NEW w, Turns(repo, J, win, w),
         Busy(w) \/ (~Busy(win) /\ (Truth(win, repo) => Truth(w, repo))),
         win' = LetGo(Top, w), stack' = Tail(stack),
         repo' = repo, ended' = ended, fetching' = fetching, count' \in 0..MaxJobs
  PROVE  IInv'
<1> DEFINE f == Top
<1>1. /\ f \in Range(stack) /\ stack' \in Seq(Range(stack'))
      /\ Range(stack') \subseteq Range(stack)
      /\ \A g \in Range(stack) : g = f \/ g \in Range(stack')
  BY QueueLists DEF IInv, DialogsFit, Top
<1>2. IsFrame(f, repo) /\ DialogsFit(repo, stack')
  BY <1>1 DEF IInv, DialogsFit
<1>3. win' = LetGo(f, w)
  OBVIOUS
<1> HIDE DEF f
<1>4. /\ Core(repo, w, ended)
      /\ Known(repo, win) \/ win.flag => Known(repo, w) \/ w.flag
      /\ ReportDue(win, ended) => ReportDue(w, ended)
  BY CoreTurns DEF IInv
<1>5. Shape(w) /\ NoJob \notin Range(w.queue) /\ WellFormed(repo)
  BY <1>4, QueueOfJobs
<1>6. CASE f.emits
  <2> DEFINE u == Flagged(w, f.reloads)
             a == AfterSlots(u, repo)
  <2>1. win' = a /\ f.reloads \in BOOLEAN
    BY <1>2, <1>3, <1>6 DEF LetGo, IsFrame
  <2>2. /\ Turns(repo, {}, w, u) /\ u.queue = w.queue /\ (w.flag \/ f.reloads => u.flag)
    BY <1>5, <2>1, FlaggedTurns
  <2> HIDE DEF u
  <2>3. Shape(u) /\ NoJob \notin Range(u.queue)
    BY <1>5, <2>2 DEF Turns
  <2>4. Turns(repo, {}, u, a) /\ (Busy(a) \/ Truth(a, repo))
    BY <1>5, <2>3, AfterSlotsTurns
  <2> HIDE DEF a
  <2>5. Turns(repo, {}, w, a)
    BY <2>2, <2>4, TurnsOn
  <2>6. Welcome(repo, w, ended, {})
    BY DEF Welcome
  <2>7. /\ Core(repo, a, ended)
        /\ Known(repo, w) \/ w.flag => Known(repo, a) \/ a.flag
        /\ ReportDue(w, ended) => ReportDue(a, ended)
    BY <1>4, <2>5, <2>6, CoreTurns
  <2>8. f.reloads => Known(repo, a) \/ a.flag
    BY <2>2, <2>4 DEF Turns, Known
  <2>9. Redeems(stack) => f.reloads \/ Redeems(stack')
    BY <1>1 DEF Redeems
  <2>10. Followed(repo, a, ended, stack')
    BY <1>4, <2>7, <2>8, <2>9 DEF IInv, Followed
  <2>11. Told(repo, a, stack')
    BY <2>4 DEF Told
  <2> QED
    BY <1>2, <2>1, <2>7, <2>10, <2>11 DEF IInv
<1>7. CASE ~f.emits
  <2>1. win' = w
    BY <1>3, <1>7 DEF LetGo
  <2>2. /\ Emitting(stack) => Emitting(stack')
        /\ Redeems(stack) => Redeems(stack')
    BY <1>1, <1>7 DEF Emitting, Redeems
  <2>3. Told(repo, w, stack') /\ Followed(repo, w, ended, stack')
    BY <1>4, <2>2 DEF IInv, Told, Followed
  <2> QED
    BY <1>2, <1>4, <2>1, <2>3 DEF IInv
<1> QED
  BY <1>6, <1>7

(* What the innermost dialog asks for.                                      *)
LEMMA TopIsFrame ==
  ASSUME IInv, stack # <<>>
  PROVE  IsFrame(Top, repo)
BY QueueLists DEF IInv, DialogsFit, Top

(* The dialog on top ends and the code under it goes on.                    *)
LEMMA ClosesKeeps ==
  ASSUME IInv, Closes
  PROVE  IInv'
<1>1. /\ stack # <<>> /\ win' = LetGo(Top, win) /\ stack' = Tail(stack)
      /\ repo' = repo /\ ended' = ended /\ fetching' = fetching /\ count' = count
  BY DEF Closes, Quietly
<1>2. Turns(repo, {}, win, win)
  BY DEF Turns, IInv, Core
<1>3. Welcome(repo, win, ended, {})
  BY DEF Welcome
<1>4. count' \in 0..MaxJobs
  BY <1>1 DEF IInv
<1> QED
  BY <1>1, <1>2, <1>3, <1>4, LetGoKeeps

(* A plain job is submitted from a dialog, and the banner locked.           *)
LEMMA SubmittedFromDialog ==
  ASSUME IInv, NEW job, Plain(job, repo)
  PROVE  LET w == Submitted(win, job)
         IN  /\ Welcome(repo, win, ended, {job})
             /\ Turns(repo, {job}, win, w) /\ Busy(w)
             /\ Turns(repo, {job}, win, Applied(w)) /\ Busy(Applied(w))
             /\ LET v == [w EXCEPT !.view.conflicts = {}]
                IN  Turns(repo, {job}, win, Applied(v)) /\ Busy(Applied(v))
<1> DEFINE w == Submitted(win, job)
           view == [w.view EXCEPT !.conflicts = {}]
           v == [w EXCEPT !.view.conflicts = {}]
<1>1. Welcome(repo, win, ended, {job}) /\ job # NoJob
  BY PlainFits
<1>2. Shape(win) /\ NoJob \notin Range(win.queue)
  BY QueueOfJobs DEF IInv
<1>3. Turns(repo, {job}, win, w) /\ Busy(w)
  BY <1>1, <1>2, SubmittedTurns
<1> HIDE DEF w
<1>4. Shape(w)
  BY <1>3 DEF Turns
<1>5. Turns(repo, {job}, w, Applied(w)) /\ Busy(Applied(w))
  BY <1>3, <1>4, AppliedTurns
<1>6. v = [w EXCEPT !.view = view]
  BY <1>4 DEF Shape
<1>7. DOMAIN view = {"op", "conflicts", "stop"} /\ view.op \in Operations /\ view.conflicts \subseteq Paths
  BY <1>4 DEF Shape
<1> HIDE DEF view
<1>8. Shape(v) /\ SameQueue(w, v)
  BY <1>4, <1>6, <1>7, ViewedTurns
<1> HIDE DEF v
<1>9. Turns(repo, {job}, w, v) /\ Busy(v)
  BY <1>3, <1>8, SameQueueTurns
<1>10. Turns(repo, {job}, v, Applied(v)) /\ Busy(Applied(v))
  BY <1>8, <1>9, AppliedTurns
<1>11. Turns(repo, {job}, win, Applied(w)) /\ Turns(repo, {job}, win, Applied(v))
  BY <1>3, <1>5, <1>9, <1>10, TurnsOn
<1> QED
  BY <1>1, <1>3, <1>5, <1>10, <1>11 DEF v, w

(* The box of a commit that would be empty: it is dropped, or kept.         *)
LEMMA ChoosesKeeps ==
  ASSUME IInv, NEW kind \in {"skip", "keep"}, Chooses(kind)
  PROVE  IInv'
<1> DEFINE job == IF kind = "skip" THEN [kind |-> "skip", about |-> Top.stop] ELSE [kind |-> "keep"]
           w == Applied(Submitted(win, job))
<1>1. /\ stack # <<>> /\ win' = LetGo(Top, w) /\ stack' = Tail(stack) /\ MaySubmit
      /\ repo' = repo /\ ended' = ended /\ fetching' = fetching /\ count' = count + 1
  BY DEF Chooses, Quietly
<1>2. Plain(job, repo)
  BY DEF Plain, IsJob, JobKinds, Pulling
<1> HIDE DEF job
<1>3. /\ Welcome(repo, win, ended, {job}) /\ Turns(repo, {job}, win, w) /\ Busy(w)
  BY <1>2, SubmittedFromDialog
<1> HIDE DEF w
<1>4. count' \in 0..MaxJobs
  BY <1>1, OneMore
<1> QED
  BY <1>1, <1>3, <1>4, LetGoKeeps

(* A confirmation is given.                                                 *)
LEMMA ConfirmsKeeps ==
  ASSUME IInv, Confirms
  PROVE  IInv'
<1> DEFINE job == Top.job
           s == Submitted(win, job)
           w == CASE job.kind = "skip"  -> Applied(s)
                  [] job.kind = "abort" -> Applied([s EXCEPT !.view.conflicts = {}])
                  [] OTHER              -> s
<1>1. /\ stack # <<>> /\ Top.what = "ask" /\ win' = LetGo(Top, w) /\ stack' = Tail(stack) /\ MaySubmit
      /\ repo' = repo /\ ended' = ended /\ fetching' = fetching /\ count' = count + 1
  BY DEF Confirms, Quietly
<1>2. Plain(job, repo)
  BY <1>1, TopIsFrame DEF IsFrame
<1>3. w = s \/ w = Applied(s) \/ w = Applied([s EXCEPT !.view.conflicts = {}])
  <2> HIDE DEF s
  <2> QED
    OBVIOUS
<1> HIDE DEF w, job
<1>4. /\ Welcome(repo, win, ended, {job}) /\ Turns(repo, {job}, win, w) /\ Busy(w)
  BY <1>2, <1>3, SubmittedFromDialog
<1>5. count' \in 0..MaxJobs
  BY <1>1, OneMore
<1> QED
  BY <1>1, <1>4, <1>5, LetGoKeeps

(* It is declined.                                                          *)
LEMMA DeclinesKeeps ==
  ASSUME IInv, Declines
  PROVE  IInv'
<1> DEFINE w == IF Top.job.kind = "resolve" THEN Synced(win, repo) ELSE win
<1>1. /\ stack # <<>> /\ win' = LetGo(Top, w) /\ stack' = Tail(stack)
      /\ repo' = repo /\ ended' = ended /\ fetching' = fetching /\ count' = count
  BY DEF Declines, Quietly
<1>2. w = win \/ w = Synced(win, repo)
  OBVIOUS
<1> HIDE DEF w
<1>3. Shape(win) /\ WellFormed(repo)
  BY QueueOfJobs DEF IInv
<1>4. /\ Turns(repo, {}, win, win)
      /\ Turns(repo, {}, win, Synced(win, repo)) /\ SameQueue(win, Synced(win, repo))
      /\ Synced(win, repo).view = Looks(repo) /\ Synced(win, repo).locked = Busy(win)
      /\ Busy(Synced(win, repo)) = Busy(win)
  BY <1>3, SyncedTurns DEF Turns
<1>5. Turns(repo, {}, win, w)
  BY <1>2, <1>4
<1>6. Busy(w) \/ (~Busy(win) /\ (Truth(win, repo) => Truth(w, repo)))
  BY <1>2, <1>4 DEF Truth, SameQueue
<1>7. Welcome(repo, win, ended, {})
  BY DEF Welcome
<1>8. count' \in 0..MaxJobs
  BY <1>1 DEF IInv
<1> QED
  BY <1>1, <1>5, <1>6, <1>7, <1>8, LetGoKeeps

(* The question about aborting takes the place of the box, and holds up the *)
(* same emission.                                                           *)
LEMMA ChoosesAbortKeeps ==
  ASSUME IInv, ChoosesAbort
  PROVE  IInv'
<1> DEFINE f == [what |-> "ask", job |-> [kind |-> "abort"], emits |-> Top.emits, reloads |-> Top.reloads]
           rest == Tail(stack)
<1>1. /\ stack # <<>> /\ win' = win /\ stack' = <<f>> \o rest
      /\ repo' = repo /\ ended' = ended /\ fetching' = fetching /\ count' = count
  BY DEF ChoosesAbort, Quietly
<1>2. IsFrame(f, repo) /\ f.emits = Top.emits /\ f.reloads = Top.reloads
  BY <1>1, TopIsFrame DEF IsFrame, Plain, IsJob, JobKinds, Pulling
<1> HIDE DEF f
<1>3. /\ rest \in Seq(Range(rest)) /\ Range(rest) \subseteq Range(stack)
      /\ \A g \in Range(stack) : g = Top \/ g \in Range(rest)
  BY <1>1, QueueLists DEF IInv, DialogsFit, Top
<1> HIDE DEF rest
<1>4. stack' \in Seq(Range(stack')) /\ Range(stack') = Range(rest) \cup {f}
  BY <1>1, <1>3, StackLists
<1>5. DialogsFit(repo, stack')
  BY <1>2, <1>3, <1>4 DEF IInv, DialogsFit
<1>6. /\ Emitting(stack) => Emitting(stack')
      /\ Redeems(stack) => Redeems(stack')
  BY <1>2, <1>3, <1>4 DEF Emitting, Redeems
<1>7. Told(repo, win, stack') /\ Followed(repo, win, ended, stack')
  BY <1>6 DEF IInv, Told, Followed
<1> QED
  BY <1>1, <1>5, <1>7 DEF IInv

-------------------------------------------------------------------------------
(* The signal of a job that has ended.                                      *)

(* The queue is idle for a moment.                                          *)
LEMMA Delivered ==
  ASSUME NEW r, NEW w, NEW e, Core(r, w, e), NEW v, v = [w EXCEPT !.active = NoJob]
  PROVE  /\ Core(r, v, NoEnd) /\ v.flag = w.flag /\ v.branch = w.branch
         /\ Known(r, w) = Known(r, v)
<1>1. Shape(w)
  BY DEF Core
<1>2. /\ DOMAIN v = DOMAIN w /\ v.active = NoJob /\ v.queue = w.queue /\ v.flag = w.flag
      /\ v.view = w.view /\ v.branch = w.branch /\ v.locked = w.locked
  BY <1>1 DEF Shape
<1>3. Shape(v)
  BY <1>1, <1>2 DEF Shape
<1>4. JobsFit(r, v, NoEnd) /\ EndFits(v, NoEnd)
  BY <1>2 DEF Core, JobsFit, EndFits, ChecksOutNow, NoJob
<1> QED
  BY <1>2, <1>3, <1>4 DEF Core, Known

(* The writer's answer is delivered: its dialog, its flag and the next job. *)
LEMMA OnDoneKeeps ==
  ASSUME IInv, OnDone
  PROVE  IInv'
<1> DEFINE job == win.active
           w == [win EXCEPT !.active = NoJob]
           reloads == job.kind \in Reloading /\ ended.kind # "error"
           note == [what |-> "note", emits |-> TRUE, reloads |-> reloads]
           box == [what |-> "box", emits |-> TRUE, reloads |-> reloads, stop |-> ended.stop]
           clashes == [Looks(repo) EXCEPT !.conflicts = ended.conflicts]
           nothing == [Looks(repo) EXCEPT !.conflicts = {}]
<1>1. /\ ended # NoEnd /\ ended' = NoEnd /\ repo' = repo /\ fetching' = fetching /\ count' = count
      /\ \/ win' = Applied([w EXCEPT !.view = clashes]) /\ stack' = <<note>> \o stack
         \/ win' = Applied([w EXCEPT !.view = nothing]) /\ stack' = <<box>> \o stack
         \/ win' = w /\ stack' = <<note>> \o stack
         \/ win' = AfterSlots(Flagged(w, reloads), repo) /\ stack' = stack
  BY DEF OnDone
<1>2. /\ Core(repo, w, NoEnd) /\ w.flag = win.flag /\ Known(repo, win) = Known(repo, w)
  BY Delivered DEF IInv
<1>3. ReportDue(win, ended) => reloads
  BY DEF ReportDue
<1>4. reloads \in BOOLEAN
  OBVIOUS
<1>5. /\ IsFrame(note, repo) /\ note.emits /\ note.reloads = reloads
      /\ IsFrame(box, repo) /\ box.emits /\ box.reloads = reloads
  BY <1>4 DEF IsFrame
<1>6. /\ DOMAIN clashes = {"op", "conflicts", "stop"} /\ clashes.op \in Operations
      /\ clashes.conflicts \subseteq Paths
      /\ DOMAIN nothing = {"op", "conflicts", "stop"} /\ nothing.op \in Operations
      /\ nothing.conflicts \subseteq Paths
  <2>1. WellFormed(repo) /\ ended.conflicts \subseteq Paths
    BY <1>1 DEF IInv, Core, RepoFits, EndFits
  <2> QED
    BY <2>1 DEF Looks, WellFormed
<1> HIDE DEF w, reloads, note, box, clashes, nothing
<1>7. Shape(w) /\ NoJob \notin Range(w.queue) /\ WellFormed(repo)
  BY <1>2, QueueOfJobs
<1>8. ASSUME NEW f, IsFrame(f, repo), f.emits, f.reloads = reloads, stack' = <<f>> \o stack,
             Turns(repo, {}, w, win')
      PROVE  IInv'
  <2>1. stack' \in Seq(Range(stack')) /\ Range(stack') = Range(stack) \cup {f}
    BY <1>8, StackLists DEF IInv, DialogsFit
  <2>2. DialogsFit(repo, stack')
    BY <1>8, <2>1 DEF IInv, DialogsFit
  <2>3. Emitting(stack') /\ (reloads => Redeems(stack')) /\ (Redeems(stack) => Redeems(stack'))
    BY <1>8, <2>1 DEF Emitting, Redeems
  <2>4. Welcome(repo, w, NoEnd, {})
    BY DEF Welcome
  <2>5. /\ Core(repo, win', NoEnd)
        /\ Known(repo, w) \/ w.flag => Known(repo, win') \/ win'.flag
    BY <1>2, <1>8, <2>4, CoreTurns
  <2>6. Followed(repo, win', NoEnd, stack')
    BY <1>2, <1>3, <2>3, <2>5 DEF IInv, Followed
  <2>7. Told(repo, win', stack')
    BY <2>3 DEF Told
  <2> QED
    BY <1>1, <2>2, <2>5, <2>6, <2>7 DEF IInv
<1>9. ASSUME NEW view, win' = Applied([w EXCEPT !.view = view]), DOMAIN view = {"op", "conflicts", "stop"},
             view.op \in Operations, view.conflicts \subseteq Paths
      PROVE  Turns(repo, {}, w, win')
  <2> DEFINE v == [w EXCEPT !.view = view]
  <2>1. Shape(v) /\ SameQueue(w, v)
    BY <1>7, <1>9, ViewedTurns
  <2>2. win' = Applied(v)
    BY <1>9
  <2> HIDE DEF v
  <2>3. Turns(repo, {}, w, v) /\ Turns(repo, {}, v, win')
    BY <2>1, <2>2, SameQueueTurns, AppliedTurns
  <2> QED
    BY <2>3, TurnsOn
<1>10. CASE win' = Applied([w EXCEPT !.view = clashes]) /\ stack' = <<note>> \o stack
  <2>1. Turns(repo, {}, w, win')
    BY <1>6, <1>9, <1>10
  <2> QED
    BY <1>5, <1>8, <1>10, <2>1
<1>11. CASE win' = Applied([w EXCEPT !.view = nothing]) /\ stack' = <<box>> \o stack
  <2>1. Turns(repo, {}, w, win')
    BY <1>6, <1>9, <1>11
  <2> QED
    BY <1>5, <1>8, <1>11, <2>1
<1>12. CASE win' = w /\ stack' = <<note>> \o stack
  <2>1. Turns(repo, {}, w, win')
    BY <1>7, <1>12 DEF Turns
  <2> QED
    BY <1>5, <1>8, <1>12, <2>1
<1>13. CASE win' = AfterSlots(Flagged(w, reloads), repo) /\ stack' = stack
  <2> DEFINE u == Flagged(w, reloads)
             a == AfterSlots(u, repo)
  <2>1. win' = a
    BY <1>13
  <2>2. /\ Turns(repo, {}, w, u) /\ u.queue = w.queue /\ (w.flag \/ reloads => u.flag)
    BY <1>4, <1>7, FlaggedTurns DEF reloads
  <2> HIDE DEF u
  <2>3. Shape(u) /\ NoJob \notin Range(u.queue)
    BY <1>7, <2>2 DEF Turns
  <2>4. Turns(repo, {}, u, a) /\ (Busy(a) \/ Truth(a, repo))
    BY <1>7, <2>3, AfterSlotsTurns
  <2> HIDE DEF a
  <2>5. Turns(repo, {}, w, a)
    BY <2>2, <2>4, TurnsOn
  <2>6. Welcome(repo, w, NoEnd, {})
    BY DEF Welcome
  <2>7. /\ Core(repo, a, NoEnd)
        /\ Known(repo, w) \/ w.flag => Known(repo, a) \/ a.flag
    BY <1>2, <2>5, <2>6, CoreTurns
  <2>8. reloads => Known(repo, a) \/ a.flag
    BY <2>2, <2>4 DEF Turns, Known
  <2>9. Followed(repo, a, NoEnd, stack)
    BY <1>2, <1>3, <2>7, <2>8 DEF IInv, Followed
  <2>10. Told(repo, a, stack)
    BY <2>4 DEF Told
  <2> QED
    BY <1>1, <1>13, <2>1, <2>7, <2>9, <2>10 DEF IInv
<1> QED
  BY <1>1, <1>10, <1>11, <1>12, <1>13

-------------------------------------------------------------------------------
(* The window opens.                                                        *)
LEMMA InitKeeps ==
  ASSUME Init
  PROVE  IInv
<1>1. /\ repo \in Starts /\ ended = NoEnd /\ stack = <<>> /\ fetching = FALSE /\ count = 0
      /\ DOMAIN win = {"active", "queue", "flag", "view", "branch", "locked", "panel"}
      /\ win.active = NoJob /\ win.queue = <<>> /\ win.flag = FALSE /\ win.view = Looks(repo)
      /\ win.branch = repo.head /\ win.locked = FALSE
  BY DEF Init
<1>2. /\ WellFormed(repo) /\ RepoFits(repo)
  BY <1>1, HistoryAssumption DEF RepoFits
<1>3. /\ DOMAIN win.view = {"op", "conflicts", "stop"} /\ win.view.op \in Operations
      /\ win.view.conflicts \subseteq Paths
  BY <1>1, <1>2, LooksLike
<1>4. <<>> \in Seq(Range(<<>>)) /\ Range(<<>>) = {}
  BY DEF Range
<1>5. Shape(win)
  BY <1>1, <1>3, <1>4 DEF Shape
<1>6. JobsFit(repo, win, ended) /\ EndFits(win, ended)
  BY <1>1, <1>4 DEF JobsFit, EndFits, ChecksOutNow, NoJob
<1>7. repo.head = NewName => repo.tip[NewName] # Nobody
  <2>1. NewName # Detached
    BY SequencerAssumption, HistoryAssumption
  <2> QED
    BY <1>2, <2>1 DEF WellFormed, IsHistory, Nobody
<1>8. Core(repo, win, ended)
  BY <1>1, <1>2, <1>5, <1>6, <1>7 DEF Core
<1>9. DialogsFit(repo, stack)
  BY <1>1, <1>4 DEF DialogsFit
<1>10. Told(repo, win, stack) /\ Followed(repo, win, ended, stack)
  BY <1>1 DEF Told, Truth, Followed, Known
<1>11. fetching \in BOOLEAN /\ count \in 0..MaxJobs
  <2>1. MaxJobs \in Nat
    BY HistoryAssumption
  <2>2. 0 \in 0..MaxJobs
    BY <2>1
  <2> QED
    BY <1>1, <2>2
<1> QED
  BY <1>8, <1>9, <1>10, <1>11 DEF IInv

(* Every step keeps the invariant.                                          *)
LEMMA NextKeeps ==
  ASSUME IInv, [Next]_vars
  PROVE  IInv'
<1>1. CASE UserActs
  <2>1. ASSUME NEW b \in Sources,
               \/ StartsMerge(b) \/ ChecksOut(b) \/ ConfirmsDelete(b)
               \/ StartsRebase(b) \/ StartsPlan(b)
        PROVE  IInv'
    BY <2>1, StartsMergeKeeps, ChecksOutKeeps, MenusKeep, StartsPlanKeeps
  <2>2. ASSUME NEW c \in Picked,
               \/ \E op \in {"cherry_pick", "revert"} : StartsPick(op, c)
               \/ \E how \in {"soft", "mixed", "hard"} : StartsReset(how, c)
        PROVE  IInv'
    BY <2>2, CommitMenuKeeps
  <2>3. CASE Continues
    BY <2>3, ContinuesKeeps
  <2>4. CASE AsksToSkip \/ AsksToAbort
    BY <2>4, BannerKeeps
  <2>5. CASE \E amend \in BOOLEAN : CommitRequested(amend)
    BY <2>5, CommitRequestedKeeps
  <2>6. CASE NewBranch \/ Unstages \/ Discards \/ \E p \in Paths \cup {"other"} : Stages(p)
    BY <2>6, PanelsKeep
  <2>7. CASE \E side \in {"ours", "theirs", "lines"}, edited \in BOOLEAN : Resolves(side, edited)
    BY <2>7, ResolvesKeeps
  <2>8. CASE Reloads
    BY <2>8, ReloadsKeeps
  <2>9. CASE Edits
    BY <2>9, EditsKeep
  <2>10. CASE Pulls
    BY <2>10, PullsKeeps
  <2> QED
    BY <1>1, <2>1, <2>2, <2>3, <2>4, <2>5, <2>6, <2>7, <2>8, <2>9, <2>10 DEF UserActs
<1>2. CASE DialogCloses
  BY <1>2, ClosesKeeps, ChoosesAbortKeeps, ConfirmsKeeps, DeclinesKeeps, ChoosesKeeps DEF DialogCloses
<1>3. CASE PullFails
  BY <1>3, PullsKeeps
<1>4. CASE FinishPull
  BY <1>4, FinishPullKeeps
<1>5. CASE \E p \in Paths : DetailReady(p)
  BY <1>5, DetailReadyKeeps
<1>6. CASE \E out \in IF win.active = NoJob THEN {} ELSE Work(win.active, repo) \cup Refused(repo) :
             JobEnds(out)
  <2>1. win.active # NoJob
    BY <1>6
  <2>2. PICK out \in Work(win.active, repo) \cup Refused(repo) : JobEnds(out)
    BY <1>6, <2>1
  <2> QED
    BY <2>1, <2>2, JobEndsKeeps
<1>7. CASE OnDone
  BY <1>7, OnDoneKeeps
<1>8. CASE UNCHANGED vars
  BY <1>8 DEF vars, IInv
<1> QED
  BY <1>1, <1>2, <1>3, <1>4, <1>5, <1>6, <1>7, <1>8 DEF Next

-------------------------------------------------------------------------------
(* The theorems.                                                            *)

(* Only jobs and the user's editor change the repository.                   *)
LEMMA OnlyJobsChange ==
  ASSUME [Next]_vars
  PROVE  \/ Edits
         \/ repo' = repo /\ owed' = owed /\ lost' = lost
         \/ /\ win.active # NoJob
            /\ \E out \in Work(win.active, repo) \cup Refused(repo) : JobEnds(out)
<1>1. CASE UserActs
  BY <1>1 DEF UserActs, StartsMerge, ChecksOut, ConfirmsDelete, StartsRebase, StartsPlan,
     StartsPick, StartsReset, Continues, AsksToSkip, AsksToAbort, CommitRequested, NewBranch,
     Stages, Unstages, Discards, Resolves, Reloads, Pulls, Submits, Asks, Quietly
<1>2. CASE DialogCloses
  BY <1>2 DEF DialogCloses, Closes, ChoosesAbort, Confirms, Declines, Chooses, Quietly
<1>3. CASE PullFails \/ FinishPull \/ OnDone \/ UNCHANGED vars \/ \E p \in Paths : DetailReady(p)
  BY <1>3 DEF PullFails, FinishPull, OnDone, vars, DetailReady, Quietly
<1>4. CASE \E out \in IF win.active = NoJob THEN {} ELSE Work(win.active, repo) \cup Refused(repo) :
             JobEnds(out)
  BY <1>4
<1> QED
  BY <1>1, <1>2, <1>3, <1>4 DEF Next

(* A step leaves HEAD where it is, or a job has ended.                      *)
LEMMA OnlyJobsMoveHead ==
  ASSUME IInv, [Next]_vars
  PROVE  \/ repo'.at = repo.at
         \/ /\ win.active # NoJob
            /\ \E out \in Work(win.active, repo) \cup Refused(repo) : JobEnds(out)
BY EditsKeep, OnlyJobsChange

(* The inductive invariant: no reference and no list of the repository      *)
(* dangles, each job on its way finds what it names (a checkout, when it    *)
(* runs, the repository the window showed), and what the window shows is    *)
(* what there is, or is about to be read again.                             *)
THEOREM HistoryInvariant == Spec => []IInv
<1>1. Init => IInv
  BY InitKeeps
<1>2. IInv /\ [Next]_vars => IInv'
  BY NextKeeps
<1> QED
  BY <1>1, <1>2, PTL DEF Spec

(* Every variable has its type, and the repository is one git can be in.    *)
THEOREM TypeCorrect == Spec => []TypeOK
<1>1. ASSUME IInv PROVE TypeOK
  <2>1. /\ WellFormed(repo) /\ Shape(win) /\ EndFits(win, ended)
        /\ fetching \in BOOLEAN /\ count \in 0..MaxJobs
    BY <1>1 DEF IInv, Core, RepoFits
  <2>2. \A i \in DOMAIN stack : stack[i].what \in {"ask", "note", "box"}
    <3>1. \A i \in DOMAIN stack : IsFrame(stack[i], repo)
      BY <1>1 DEF IInv, DialogsFit, Range
    <3> QED
      BY <3>1 DEF IsFrame
  <2> QED
    BY <2>1, <2>2 DEF TypeOK, Shape, EndFits
<1> QED
  BY <1>1, HistoryInvariant, PTL

(* When the writes are done and reported, the window shows the operation    *)
(* under way, its conflicts and the branch as they are, with live buttons.  *)
THEOREM ViewTellsTheTruth == Spec => []ViewIsTrue
<1>1. ASSUME IInv PROVE ViewIsTrue
  <2>1. ASSUME stack = <<>>, ~Busy(win)
        PROVE  /\ Truth(win, repo)
               /\ repo.op = "none" => win.branch = repo.head
    <3>1. ~Emitting(stack) /\ ~Redeems(stack)
      BY <2>1 DEF Emitting, Redeems, Range
    <3>2. Truth(win, repo)
      BY <1>1, <2>1, <3>1 DEF IInv, Told
    <3>3. ~ReportDue(win, ended)
      BY <1>1, <2>1 DEF IInv, Core, EndFits, ReportDue, Busy
    <3>4. Known(repo, win)
      BY <1>1, <3>1, <3>2, <3>3 DEF IInv, Followed, Truth
    <3> QED
      BY <3>2, <3>4 DEF Known
  <2> QED
    BY <2>1 DEF ViewIsTrue, Truth
<1> QED
  BY <1>1, HistoryInvariant, PTL

(* Nothing moves HEAD under a merge but the commit that joins the two sides *)
(* the merge was started on (`fast_forward`, `merge`, `rebase`, `reset_to`  *)
(* and the picks ask for a quiet repository; a checkout runs in one).       *)
THEOREM MergeIsConcluded == Spec => MergeCommitJoins
<1>1. ASSUME IInv, [Next]_vars, repo.op = "merge", repo'.at # repo.at
      PROVE  repo'.commits[repo'.at].parents = <<repo.at, repo.theirs>>
  <2>1. PICK out \in Work(win.active, repo) \cup Refused(repo) : JobEnds(out) /\ win.active # NoJob
    BY <1>1, OnlyJobsMoveHead
  <2>2. Ran(win.active, repo, out) /\ repo' = out.repo
    BY <1>1, <2>1, JobEndsKeeps DEF JobEnds
  <2> QED
    BY <1>1, <2>2 DEF Ran, Joins
<1> QED
  BY <1>1, HistoryInvariant, PTL DEF Spec, MergeCommitJoins

(* A pull brings a branch's upstream to that branch alone: submitted for a  *)
(* branch the window no longer shows, it is refused, since HEAD stays away  *)
(* from the one it was submitted under (`_expected_branch`).                *)
THEOREM PullStaysAtHome == Spec => PullIntoItsOwn
<1>1. ASSUME IInv, [Next]_vars, Runs({"fast_forward", "pull_merge"}), repo'.at # repo.at
      PROVE  repo.head = win.active.of
  <2>1. PICK out \in Work(win.active, repo) \cup Refused(repo) : JobEnds(out) /\ win.active # NoJob
    BY <1>1, OnlyJobsMoveHead
  <2>2. Ran(win.active, repo, out) /\ repo' = out.repo
    BY <1>1, <2>1, JobEndsKeeps DEF JobEnds
  <2>3. win.active.kind \in Pulling /\ ended = NoEnd
    BY <1>1 DEF Runs, Pulling
  <2>4. repo.head = win.active.branch /\ repo.head # Detached
    BY <1>1, <2>2, <2>3 DEF Ran, AsExpected, ExpectedBranch
  <2>5. Fits(win.active, repo)
    BY <1>1, <2>1, <2>3 DEF IInv, Core, JobsFit
  <2> QED
    BY <2>3, <2>4, <2>5 DEF Fits, Astray, Away
<1> QED
  BY <1>1, HistoryInvariant, PTL DEF Spec, PullIntoItsOwn

-------------------------------------------------------------------------------
(* The commit in hand.                                                      *)

(* The jobs that put a commit in git's hand or take it out of it; all the   *)
(* others leave it there or end the operation.                              *)
Replays == {"rebase", "plan", "pick", "continue", "skip", "keep"}
Replaying(j) == j.kind \in Replays

(* When a commit is in hand, it is this one.                                *)
InHand(r, c) == r.inHand => r.todo[1] = c

(* The commit in hand, if there is one now, was there before.               *)
Held(r, q) ==
  /\ q.inHand => r.inHand /\ q.todo = r.todo
  /\ q.op \in Sequencers => r.op \in Sequencers

(* Nothing is in hand when no sequencer is under way.                       *)
LEMMA HeldWhenOver ==
  ASSUME NEW r, NEW q, WellFormed(q), q.op \notin Sequencers
  PROVE  Held(r, q)
BY DEF Held, WellFormed

(* A refused job.                                                           *)
LEMMA HeldRefused ==
  ASSUME NEW r, NEW o \in Refused(r)
  PROVE  Held(r, o.repo) /\ o.kind # "empty"
BY DEF Held, Refused, Result

(* A fast-forward leaves what is under way as it is.                        *)
LEMMA HeldFastForward ==
  ASSUME NEW r, WellFormed(r), NEW target \in DOMAIN r.commits, NEW branch,
         NEW o \in FastForward(r, target, branch)
  PROVE  Held(r, o.repo) /\ o.kind # "empty"
<1>1. \/ o \in Refused(r) \/ o = Result(r, "ok") \/ o = Result(MoveTo(r, target), "ok")
  BY DEF FastForward
<1>2. CASE o \in Refused(r)
  BY <1>2, HeldRefused
<1>3. CASE o = Result(r, "ok")
  BY <1>3 DEF Held, Result
<1>4. CASE o = Result(MoveTo(r, target), "ok")
  <2>1. /\ MoveTo(r, target).todo = r.todo /\ MoveTo(r, target).inHand = r.inHand
        /\ MoveTo(r, target).op = r.op
    BY MoveToEffect DEF Adds, SameTask
  <2>2. o.repo = MoveTo(r, target) /\ o.kind = "ok"
    BY <1>4 DEF Result
  <2> QED
    BY <2>1, <2>2 DEF Held
<1> QED
  BY <1>1, <1>2, <1>3, <1>4

(* A commit leaves the sequencer alone, or concludes a merge.               *)
LEMMA HeldCommit ==
  ASSUME NEW r, WellFormed(r), NEW amend \in BOOLEAN, NEW o \in CreateCommit(r, amend)
  PROVE  Held(r, o.repo) /\ o.kind # "empty"
<1> DEFINE joined == NewCommit(r, <<r.at, r.theirs>>, Own(r))
           amended == NewCommit(r, r.commits[r.at].parents, r.commits[r.at].of)
           added == NewCommit(r, <<r.at>>, Own(r))
<1>1. \/ o \in Refused(r)
      \/ o = Result(amended, "ok") \/ o = Result(added, "ok")
      \/ r.theirs # Nobody /\ o = Result(Cleaned(joined), "ok")
  BY DEF CreateCommit
<1>2. CASE o \in Refused(r)
  BY <1>2, HeldRefused
<1>3. r.at \in DOMAIN r.commits /\ Own(r) \in SUBSET Nat
      /\ r.commits[r.at].parents \in Seq(DOMAIN r.commits) /\ r.commits[r.at].of \in SUBSET Nat
  BY ChangesOf DEF WellFormed
<1>4. ASSUME NEW parents \in Seq(DOMAIN r.commits), NEW of \in SUBSET Nat,
             o = Result(NewCommit(r, parents, of), "ok")
      PROVE  Held(r, o.repo) /\ o.kind # "empty"
  <2>1. /\ NewCommit(r, parents, of).todo = r.todo /\ NewCommit(r, parents, of).inHand = r.inHand
        /\ NewCommit(r, parents, of).op = r.op
    BY NewCommitEffect DEF Adds, SameTask
  <2>2. o.repo = NewCommit(r, parents, of) /\ o.kind = "ok"
    BY <1>4 DEF Result
  <2> QED
    BY <2>1, <2>2 DEF Held
<1>5. <<r.at>> \in Seq(DOMAIN r.commits)
  BY <1>3, OneOrTwo
<1>6. CASE r.theirs # Nobody /\ o = Result(Cleaned(joined), "ok")
  <2>1. r.theirs \in DOMAIN r.commits
    BY <1>6 DEF WellFormed
  <2>2. <<r.at, r.theirs>> \in Seq(DOMAIN r.commits)
    BY <1>3, <2>1, OneOrTwo
  <2>3. WellFormed(joined)
    BY <1>3, <2>2, NewCommitEffect DEF Adds
  <2>4. o.repo = Cleaned(joined) /\ o.kind = "ok"
    BY <1>6 DEF Result
  <2> HIDE DEF joined
  <2>5. WellFormed(o.repo) /\ o.repo.op = "none"
    BY <2>3, <2>4, CleanedEffect
  <2> QED
    BY <2>4, <2>5, HeldWhenOver DEF Sequencers
<1> QED
  BY <1>1, <1>2, <1>3, <1>4, <1>5, <1>6

(* A merge runs when nothing is under way, and none of its own is a         *)
(* sequencer.                                                               *)
LEMMA HeldMerge ==
  ASSUME NEW r, WellFormed(r), NEW source \in DOMAIN r.commits, NEW branch,
         NEW o \in Merge(r, source, branch)
  PROVE  Held(r, o.repo) /\ o.kind # "empty"
<1> DEFINE begun == Merging(r, source, {}, TRUE)
           clashes == (SUBSET Paths) \ {{}}
           stops == {Result(Merging(r, source, C, s), "conflicted") : C \in clashes, s \in BOOLEAN}
<1>1. \/ o \in Refused(r)
      \/ o = Result(r, "ok")
      \/ o \in FastForward(r, source, branch)
      \/ QuietRepository(r) /\ o \in Merged(r, source)
  <2>1. CASE ~QuietRepository(r) \/ ~ExpectedBranch(r, branch)
    BY <2>1 DEF Merge
  <2>2. CASE QuietRepository(r) /\ ExpectedBranch(r, branch) /\ source \in AncestorsOf(r, r.at)
    BY <2>2 DEF Merge
  <2>3. CASE QuietRepository(r) /\ ExpectedBranch(r, branch) /\ source \notin AncestorsOf(r, r.at)
    BY <2>3 DEF Merge
  <2> QED
    BY <2>1, <2>2, <2>3
<1>2. CASE o \in Refused(r)
  BY <1>2, HeldRefused
<1>3. CASE o = Result(r, "ok")
  BY <1>3 DEF Held, Result
<1>4. CASE o \in FastForward(r, source, branch)
  BY <1>4, HeldFastForward
<1>5. CASE QuietRepository(r) /\ o \in Merged(r, source)
  <2>1. o \in CreateCommit(begun, FALSE) \/ o \in stops
    <3>1. Merged(r, source) = CreateCommit(begun, FALSE) \cup stops
      BY DEF Merged
    <3> HIDE DEF stops
    <3> QED
      BY <1>5, <3>1
  <2>2. {} \in SUBSET Paths /\ TRUE \in BOOLEAN /\ FALSE \in BOOLEAN
    OBVIOUS
  <2>3. CASE o \in CreateCommit(begun, FALSE)
    <3>1. WellFormed(begun) /\ begun.op = "merge"
      BY <1>5, <2>2, MergeBegins DEF Goes
    <3> HIDE DEF begun
    <3>2. Held(begun, o.repo) /\ o.kind # "empty" /\ WellFormed(o.repo)
      BY <2>2, <2>3, <3>1, HeldCommit, CreateCommitOutcome DEF Goes
    <3> QED
      BY <3>1, <3>2, HeldWhenOver DEF Held, Sequencers
  <2>4. CASE o \in stops
    <3>1. PICK C \in clashes, s \in BOOLEAN : o = Result(Merging(r, source, C, s), "conflicted")
      <4> HIDE DEF clashes
      <4> QED
        BY <2>4
    <3>2. C \in SUBSET Paths
      BY <3>1 DEF clashes
    <3>3. WellFormed(Merging(r, source, C, s)) /\ Merging(r, source, C, s).op = "merge"
      BY <1>5, <3>2, MergeBegins DEF Goes
    <3>4. o.repo = Merging(r, source, C, s) /\ o.kind = "conflicted"
      BY <3>1 DEF Result
    <3> QED
      BY <3>3, <3>4, HeldWhenOver DEF Sequencers
  <2> HIDE DEF stops
  <2> QED
    BY <2>1, <2>3, <2>4
<1> QED
  BY <1>1, <1>2, <1>3, <1>4, <1>5

(* A reset runs when nothing is under way.                                  *)
LEMMA HeldReset ==
  ASSUME NEW r, WellFormed(r), NEW c \in DOMAIN r.commits, NEW kind \in {"soft", "mixed", "hard"},
         NEW branch, NEW o \in ResetTo(r, c, kind, branch)
  PROVE  Held(r, o.repo) /\ o.kind # "empty"
<1> DEFINE moved == MoveTo(r, c)
<1>1. WellFormed(moved) /\ moved.op = r.op
  BY MoveToEffect DEF Adds, SameTask
<1>2. o \in Refused(r) \/
      (QuietRepository(r) /\
        \/ o = Result([moved EXCEPT !.staged = TRUE], "ok")
        \/ o = Result([moved EXCEPT !.staged = FALSE, !.dirty = TRUE], "ok")
        \/ o = Result([moved EXCEPT !.staged = FALSE, !.dirty = FALSE], "ok"))
  BY DEF ResetTo
<1> HIDE DEF moved
<1>3. CASE o \in Refused(r)
  BY <1>3, HeldRefused
<1>4. CASE o \notin Refused(r)
  <2>1. o.repo.op = "none" /\ o.kind = "ok"
    <3>1. /\ [moved EXCEPT !.staged = TRUE].op = moved.op
          /\ [moved EXCEPT !.staged = FALSE, !.dirty = TRUE].op = moved.op
          /\ [moved EXCEPT !.staged = FALSE, !.dirty = FALSE].op = moved.op
      BY <1>1 DEF WellFormed
    <3>2. \A q : Result(q, "ok").repo = q /\ Result(q, "ok").kind = "ok"
      BY DEF Result
    <3>3. o.repo.op = moved.op /\ o.kind = "ok"
      BY <1>2, <1>4, <3>1, <3>2, Zenon
    <3> QED
      BY <1>1, <1>2, <1>4, <3>3 DEF QuietRepository
  <2>2. WellFormed(o.repo)
    BY ResetOutcome DEF Outcome, Goes
  <2> QED
    BY <2>1, <2>2, HeldWhenOver DEF Sequencers
<1> QED
  BY <1>3, <1>4

(* Nothing is under way after an abort, if it was not refused.              *)
LEMMA HeldAbort ==
  ASSUME NEW r, WellFormed(r), NEW o \in Abort(r)
  PROVE  Held(r, o.repo) /\ o.kind # "empty"
<1>1. \/ o \in Refused(r) \/ o = Result(r, "ok")
      \/ o = Result(AbortMerge(r), "ok") \/ o = Result(GitAbort(r), "ok")
  BY DEF Abort, WellFormed, Operations
<1>2. CASE o \in Refused(r)
  BY <1>2, HeldRefused
<1>3. CASE o = Result(r, "ok")
  BY <1>3 DEF Held, Result
<1>4. CASE o = Result(AbortMerge(r), "ok") \/ o = Result(GitAbort(r), "ok")
  <2>1. \A x : DOMAIN x = DOMAIN r => Cleaned(x).op = "none"
    BY DEF Cleaned, WellFormed
  <2>2. AbortMerge(r).op = "none" /\ GitAbort(r).op = "none"
    BY <2>1 DEF AbortMerge, GitAbort
  <2>3. o.repo.op = "none" /\ o.kind = "ok"
    BY <1>4, <2>2 DEF Result
  <2>4. WellFormed(o.repo)
    BY AbortOutcome DEF Outcome, Goes
  <2> QED
    BY <2>3, <2>4, HeldWhenOver DEF Sequencers
<1> QED
  BY <1>1, <1>2, <1>3, <1>4

(* Nothing but files and other branches has changed; HEAD may be elsewhere, *)
(* but not under a sequencer.                                               *)
LeavesTask(r, q) ==
  /\ q.todo = r.todo /\ q.inHand = r.inHand /\ q.op = r.op /\ q.commits = r.commits
  /\ r.op \in Sequencers => q.at = r.at

(* Branches and files are no concern of the sequencer's.                    *)
LEMMA LeavesElsewhere ==
  ASSUME NEW r, WellFormed(r), NEW o, NEW b, NEW p, NEW side \in {"ours", "theirs", "lines"},
         \/ o \in CreateBranch(r, b) \/ o \in CheckoutBranch(r, b) \/ o \in DeleteBranch(r, b)
         \/ o \in StageFile(r, p) \/ o \in UnstageFile(r) \/ o \in DiscardFile(r)
         \/ o \in ResolveConflict(r, p, side)
  PROVE  LeavesTask(r, o.repo) /\ o.kind # "empty"
<1>1. ASSUME NEW q, LeavesTask(r, q), o = Result(q, "ok")
      PROVE  LeavesTask(r, o.repo) /\ o.kind # "empty"
  BY <1>1 DEF Result
<1>2. \A C, s, d : LeavesTask(r, WithFiles(r, C, s, d))
  BY DEF WithFiles, WellFormed, LeavesTask
<1>3. /\ \A t, h : LeavesTask(r, [r EXCEPT !.tip[b] = t, !.head = h])
      /\ \A t : LeavesTask(r, [r EXCEPT !.tip[b] = t])
      /\ r.op \notin Sequencers => \A h, a : LeavesTask(r, [r EXCEPT !.head = h, !.at = a])
  BY DEF WellFormed, LeavesTask
<1>4. ASSUME o \in Refused(r) PROVE LeavesTask(r, o.repo) /\ o.kind # "empty"
  BY <1>4 DEF Refused, Result, LeavesTask
<1>5. CASE o \in CreateBranch(r, b) \/ o \in CheckoutBranch(r, b) \/ o \in DeleteBranch(r, b)
  <2>1. \/ o \in Refused(r)
        \/ o = Result([r EXCEPT !.tip[b] = r.at, !.head = b], "ok")
        \/ r.op \notin Sequencers /\ o = Result([r EXCEPT !.head = b, !.at = r.tip[b]], "ok")
        \/ o = Result([r EXCEPT !.tip[b] = Nobody], "ok")
    BY <1>5 DEF CreateBranch, CheckoutBranch, DeleteBranch
  <2> QED
    BY <1>1, <1>3, <1>4, <2>1
<1>6. ASSUME NEW C, NEW s, NEW d, o = Result(WithFiles(r, C, s, d), "ok")
      PROVE  LeavesTask(r, o.repo) /\ o.kind # "empty"
  BY <1>1, <1>2, <1>6
<1>7. CASE o \in StageFile(r, p)
  <2>1. CASE p \in r.conflicts
    <3>1. PICK s \in {r.staged, TRUE} : o = Result(WithFiles(r, r.conflicts \ {p}, s, r.dirty), "ok")
      BY <1>7, <2>1 DEF StageFile, WithFiles, WellFormed
    <3> QED
      BY <1>6, <3>1
  <2>2. CASE p \notin r.conflicts
    <3> DEFINE staged == r.staged \/ r.dirty
    <3>1. PICK d \in {r.dirty, FALSE} : o = Result([r EXCEPT !.staged = staged, !.dirty = d], "ok")
      BY <1>7, <2>2 DEF StageFile
    <3> HIDE DEF staged
    <3>2. [r EXCEPT !.staged = staged, !.dirty = d] = WithFiles(r, r.conflicts, staged, d)
      BY DEF WithFiles, WellFormed
    <3> QED
      BY <1>6, <3>1, <3>2
  <2> QED
    BY <2>1, <2>2
<1>8. CASE o \in UnstageFile(r)
  <2>1. PICK s \in {r.staged, FALSE} : o = Result(WithFiles(r, r.conflicts, s, r.dirty \/ r.staged), "ok")
    BY <1>8 DEF UnstageFile, WithFiles, WellFormed
  <2> QED
    BY <1>6, <2>1
<1>9. CASE o \in DiscardFile(r)
  <2>1. PICK d \in {r.dirty, FALSE} : o = Result(WithFiles(r, r.conflicts, r.staged, d), "ok")
    BY <1>9 DEF DiscardFile, WithFiles, WellFormed
  <2> QED
    BY <1>6, <2>1
<1>10. CASE o \in ResolveConflict(r, p, side)
  <2>1. CASE p \notin r.conflicts
    <3>1. o \in Refused(r)
      BY <1>10, <2>1 DEF ResolveConflict
    <3> QED
      BY <1>4, <3>1
  <2>2. CASE p \in r.conflicts
    <3> DEFINE put == CASE side = "ours" -> {r.staged} [] side = "theirs" -> {TRUE}
                        [] side = "lines" -> {r.staged, TRUE}
    <3>1. PICK s \in put : o = Result(WithFiles(r, r.conflicts \ {p}, s, r.dirty), "ok")
      BY <1>10, <2>2 DEF ResolveConflict, WithFiles, WellFormed
    <3> QED
      BY <1>6, <3>1
  <2> QED
    BY <2>1, <2>2
<1> QED
  BY <1>5, <1>7, <1>8, <1>9, <1>10

(* They leave the commit in hand.                                           *)
LEMMA HeldElsewhere ==
  ASSUME NEW r, WellFormed(r), NEW o, NEW b, NEW p, NEW side \in {"ours", "theirs", "lines"},
         \/ o \in CreateBranch(r, b) \/ o \in CheckoutBranch(r, b) \/ o \in DeleteBranch(r, b)
         \/ o \in StageFile(r, p) \/ o \in UnstageFile(r) \/ o \in DiscardFile(r)
         \/ o \in ResolveConflict(r, p, side)
  PROVE  Held(r, o.repo) /\ o.kind # "empty"
BY LeavesElsewhere DEF LeavesTask, Held

(* Whatever the job that does not replay commits.                           *)
LEMMA OthersHold ==
  ASSUME NEW r, RepoFits(r), NEW job, IsJob(job, r), ~Replaying(job),
         NEW o \in Work(job, r) \cup Refused(r)
  PROVE  Held(r, o.repo) /\ o.kind # "empty"
<1>1. WellFormed(r)
  BY DEF RepoFits
<1>2. CASE o \in Refused(r)
  BY <1>2, HeldRefused
<1>3. CASE o \in Work(job, r) /\ job.kind = "merge"
  <2>1. \/ o \in Refused(r)
        \/ r.tip[job.source] # Nobody /\ o \in Merge(r, r.tip[job.source], job.branch)
    BY <1>3 DEF Work
  <2>2. r.tip[job.source] # Nobody => r.tip[job.source] \in DOMAIN r.commits
    BY <1>1, <1>3 DEF IsJob, WellFormed
  <2> QED
    BY <1>1, <2>1, <2>2, HeldRefused, HeldMerge
<1>4. CASE o \in Work(job, r) /\ job.kind \in Pulling
  <2>1. \/ o \in Merge(r, Upstream[job.of], job.branch)
        \/ o \in FastForward(r, Upstream[job.of], job.branch)
    BY <1>4 DEF Work, Pulling
  <2>2. Upstream[job.of] \in DOMAIN Past
    BY <1>4, SequencerAssumption DEF IsJob
  <2>3. Upstream[job.of] \in DOMAIN r.commits
    BY <2>2, PastIsThere
  <2> QED
    BY <1>1, <2>1, <2>3, HeldMerge, HeldFastForward
<1>5. CASE o \in Work(job, r) /\ job.kind = "reset"
  <2>1. o \in ResetTo(r, job.commit, job.how, job.branch)
    BY <1>5 DEF Work
  <2>2. job.commit \in DOMAIN r.commits /\ job.how \in {"soft", "mixed", "hard"}
    BY <1>5, PastIsThere DEF IsJob
  <2> QED
    BY <1>1, <2>1, <2>2, HeldReset
<1>6. CASE o \in Work(job, r) /\ job.kind \in {"abort", "commit", "amend"}
  <2>1. o \in Abort(r) \/ o \in CreateCommit(r, FALSE) \/ o \in CreateCommit(r, TRUE)
    BY <1>6 DEF Work
  <2>2. TRUE \in BOOLEAN /\ FALSE \in BOOLEAN
    OBVIOUS
  <2> QED
    BY <1>1, <2>1, <2>2, HeldAbort, HeldCommit
<1>7. CASE o \in Work(job, r) /\ job.kind \in {"branch", "checkout", "delete", "stage", "unstage",
                                              "discard", "resolve"}
  <2>1. \/ o \in CreateBranch(r, job.source) \/ o \in CheckoutBranch(r, job.source)
        \/ o \in DeleteBranch(r, job.source)
        \/ o \in StageFile(r, job.path) \/ o \in UnstageFile(r) \/ o \in DiscardFile(r)
        \/ job.kind = "resolve" /\ o \in ResolveConflict(r, job.path, job.side)
    BY <1>7 DEF Work
  <2>2. job.kind = "resolve" => job.side \in {"ours", "theirs", "lines"}
    BY DEF IsJob
  <2> QED
    BY <1>1, <2>1, <2>2, HeldElsewhere
<1> QED
  BY <1>2, <1>3, <1>4, <1>5, <1>6, <1>7 DEF IsJob, JobKinds, Replaying, Replays, Pulling

-------------------------------------------------------------------------------
(* At most one job that replays commits is on its way, or one dialog that   *)
(* may lead to one.                                                         *)
Prompts(f) == f.what = "box" \/ (f.what = "ask" /\ Replaying(f.job))

Alone(q) == \A i, k \in DOMAIN q : Replaying(q[i]) /\ Replaying(q[k]) => i = k
AlonePrompt(st) == \A i, k \in DOMAIN st : Prompts(st[i]) /\ Prompts(st[k]) => i = k

Queued(q) == \E j \in Range(q) : Replaying(j)
OnItsWay(w) == Replaying(w.active) \/ Queued(w.queue)
Single(w) == Alone(w.queue) /\ ~(Replaying(w.active) /\ Queued(w.queue))

(* Under a sequencer the buttons are locked while one is on its way; when   *)
(* they are not, the commit the window shows is the one in hand.            *)
Guarded(r, w) ==
  w.view.op \in Sequencers => /\ OnItsWay(w) => w.locked
                              /\ ~w.locked => InHand(r, w.view.stop)

(* What is to be skipped is the commit in hand.                             *)
AboutHand(r, j) == j.kind = "skip" => InHand(r, j.about)

JobsAboutHand(r, w, e) ==
  /\ \A j \in Range(w.queue) : AboutHand(r, j)
  /\ e = NoEnd => AboutHand(r, w.active)

(* A dialog names the commit in hand, or starts a rebase where no sequencer *)
(* is under way.                                                            *)
PromptFits(r, w, f) ==
  /\ f.what = "box" => InHand(r, f.stop)
  /\ f.what = "ask" =>
       /\ AboutHand(r, f.job)
       /\ Replaying(f.job) /\ f.job.kind # "skip" =>
            r.op \notin Sequencers /\ w.view.op \notin Sequencers

PromptsFit(r, w, st) ==
  /\ AlonePrompt(st)
  /\ \A f \in Range(st) : PromptFits(r, w, f)
  /\ OnItsWay(w) => \A f \in Range(st) : ~Prompts(f)

(* What the job that has ended tells of the commit in hand.                 *)
EndTells(r, w, e) ==
  e # NoEnd => /\ InHand(r, e.stop)
               /\ e.kind = "empty" => Replaying(w.active)

(* The inductive invariant that skipping needs, besides IInv.               *)
HandInv ==
  /\ Single(win) /\ Guarded(repo, win)
  /\ JobsAboutHand(repo, win, ended) /\ EndTells(repo, win, ended)
  /\ PromptsFit(repo, win, stack)

-------------------------------------------------------------------------------
(* Lists with one more or without their first.                              *)

(* Of jobs, at the end.                                                     *)
LEMMA AloneInQueue ==
  ASSUME NEW q, q \in Seq(Range(q)), Alone(q), NEW j
  PROVE  /\ ~(Replaying(j) /\ Queued(q)) => Alone(Append(q, j))
         /\ Queued(Append(q, j)) => Queued(q) \/ Replaying(j)
         /\ q # <<>> => /\ Alone(Tail(q))
                        /\ Queued(Tail(q)) => Queued(q) /\ ~Replaying(Head(q))
                        /\ Replaying(Head(q)) => Queued(q)
<1>1. Len(q) \in Nat /\ DOMAIN q = 1..Len(q)
  OBVIOUS
<1> DEFINE a == Append(q, j)
<1>2. /\ DOMAIN a = 1..(Len(q) + 1)
      /\ \A i \in 1..Len(q) : a[i] = q[i]
      /\ a[Len(q) + 1] = j
  BY <1>1
<1> HIDE DEF a
<1>3. ASSUME ~(Replaying(j) /\ Queued(q)) PROVE Alone(a)
  <2>1. \A i \in 1..Len(q) : Replaying(q[i]) => Queued(q)
    BY <1>1 DEF Queued, Range
  <2> QED
    BY <1>1, <1>2, <1>3, <2>1 DEF Alone
<1>4. Queued(a) => Queued(q) \/ Replaying(j)
  BY <1>1, <1>2 DEF Queued, Range
<1>5. ASSUME q # <<>>
      PROVE  /\ Alone(Tail(q))
             /\ Queued(Tail(q)) => Queued(q) /\ ~Replaying(Head(q))
             /\ Replaying(Head(q)) => Queued(q)
  <2> DEFINE t == Tail(q)
  <2>1. /\ Head(q) = q[1] /\ 1 \in DOMAIN q
        /\ DOMAIN t = 1..(Len(q) - 1)
        /\ \A i \in 1..(Len(q) - 1) : t[i] = q[i + 1] /\ i + 1 \in DOMAIN q
    BY <1>1, <1>5
  <2> HIDE DEF t
  <2>2. Alone(t)
    BY <1>1, <2>1 DEF Alone
  <2>3. ASSUME Queued(t) PROVE Queued(q) /\ ~Replaying(Head(q))
    <3>1. PICK i \in DOMAIN t : Replaying(t[i])
      BY <2>3 DEF Queued, Range
    <3>2. i + 1 \in DOMAIN q /\ Replaying(q[i + 1]) /\ i + 1 # 1
      BY <1>1, <2>1, <3>1
    <3> QED
      BY <2>1, <3>2 DEF Queued, Range, Alone
  <2>4. Replaying(Head(q)) => Queued(q)
    BY <2>1 DEF Queued, Range
  <2> QED
    BY <2>2, <2>3, <2>4 DEF t
<1> QED
  BY <1>3, <1>4, <1>5 DEF a

(* Of dialogs, on top.                                                      *)
LEMMA AloneInStack ==
  ASSUME NEW st, st \in Seq(Range(st)), AlonePrompt(st), NEW f
  PROVE  /\ ~Prompts(f) \/ (\A g \in Range(st) : ~Prompts(g)) => AlonePrompt(<<f>> \o st)
         /\ st # <<>> => /\ AlonePrompt(Tail(st))
                         /\ Prompts(Head(st)) => \A g \in Range(Tail(st)) : ~Prompts(g)
<1>1. Len(st) \in Nat /\ DOMAIN st = 1..Len(st)
  OBVIOUS
<1> DEFINE a == <<f>> \o st
<1>2. /\ DOMAIN a = 1..(Len(st) + 1)
      /\ a[1] = f /\ \A i \in 1..Len(st) : a[i + 1] = st[i]
  BY <1>1
<1>3. \A i \in DOMAIN a : i = 1 \/ (i - 1 \in DOMAIN st /\ a[i] = st[i - 1])
  <2>1. ASSUME NEW i \in DOMAIN a, i # 1 PROVE i - 1 \in DOMAIN st /\ a[i] = st[i - 1]
    <3>1. i - 1 \in 1..Len(st) /\ (i - 1) + 1 = i
      BY <1>1, <1>2, <2>1
    <3> QED
      BY <1>1, <1>2, <3>1
  <2> QED
    BY <2>1
<1> HIDE DEF a
<1>4. ASSUME ~Prompts(f) \/ \A g \in Range(st) : ~Prompts(g) PROVE AlonePrompt(a)
  <2> SUFFICES ASSUME NEW i \in DOMAIN a, NEW k \in DOMAIN a, Prompts(a[i]), Prompts(a[k])
               PROVE  i = k
    BY DEF AlonePrompt
  <2>1. \A m \in DOMAIN st : st[m] \in Range(st)
    BY DEF Range
  <2>2. i \in Nat /\ k \in Nat
    BY <1>1, <1>2
  <2>3. CASE ~Prompts(f)
    <3>1. /\ i - 1 \in DOMAIN st /\ Prompts(st[i - 1])
          /\ k - 1 \in DOMAIN st /\ Prompts(st[k - 1])
      BY <1>2, <1>3, <2>3
    <3>2. i - 1 = k - 1
      BY <3>1 DEF AlonePrompt
    <3> QED
      BY <2>2, <3>2
  <2>4. CASE \A g \in Range(st) : ~Prompts(g)
    BY <1>3, <2>1, <2>4
  <2> QED
    BY <1>4, <2>3, <2>4
<1>5. ASSUME st # <<>>
      PROVE  /\ AlonePrompt(Tail(st))
             /\ Prompts(Head(st)) => \A g \in Range(Tail(st)) : ~Prompts(g)
  <2> DEFINE t == Tail(st)
  <2>1. /\ Head(st) = st[1] /\ 1 \in DOMAIN st
        /\ DOMAIN t = 1..(Len(st) - 1)
        /\ \A i \in 1..(Len(st) - 1) : t[i] = st[i + 1] /\ i + 1 \in DOMAIN st
    BY <1>1, <1>5
  <2> HIDE DEF t
  <2>2. AlonePrompt(t)
    BY <1>1, <2>1 DEF AlonePrompt
  <2>3. ASSUME NEW g \in Range(t), Prompts(g), Prompts(Head(st)) PROVE FALSE
    <3>1. PICK i \in DOMAIN t : g = t[i]
      BY <2>3 DEF Range
    <3>2. i + 1 \in DOMAIN st /\ Prompts(st[i + 1]) /\ i + 1 # 1
      BY <1>1, <2>1, <2>3, <3>1
    <3> QED
      BY <2>1, <2>3, <3>2 DEF AlonePrompt
  <2> QED
    BY <2>2, <2>3 DEF t
<1> QED
  BY <1>4, <1>5 DEF a

-------------------------------------------------------------------------------
(* The window's steps.                                                      *)

(* One that puts no such job on its way keeps the window guarded.           *)
Steady(r, w, v) ==
  /\ Single(w) => Single(v)
  /\ OnItsWay(v) => OnItsWay(w)
  /\ Guarded(r, w) => Guarded(r, v)
  /\ v.view.op \in {w.view.op, r.op}

(* The same jobs are on their way.                                          *)
SameJobs(w, v) == v.active = w.active /\ v.queue = w.queue

(* The absence of a job is none. *)
LEMMA NoJobReplays == ~Replaying(NoJob) /\ \A r : AboutHand(r, NoJob)
BY DEF Replaying, Replays, NoJob, AboutHand

(* What is shown and the buttons are left alone.                            *)
LEMMA SameJobsSteady ==
  ASSUME NEW r, NEW w, NEW v, SameJobs(w, v), v.view = w.view, v.locked = w.locked
  PROVE  Steady(r, w, v)
BY DEF Steady, SameJobs, Single, OnItsWay, Guarded

(* One step after another.                                                  *)
LEMMA SteadyOn ==
  ASSUME NEW r, NEW w, NEW v, NEW u, Steady(r, w, v), Steady(r, v, u)
  PROVE  Steady(r, w, u)
BY DEF Steady

(* `_start_next_if_idle`.                                                   *)
LEMMA StartNextSteady ==
  ASSUME NEW r, NEW w, Shape(w)
  PROVE  /\ Single(w) => Steady(r, w, StartNext(w))
         /\ StartNext(w).view = w.view /\ StartNext(w).locked = w.locked
<1>1. CASE w.active # NoJob \/ w.queue = <<>>
  BY <1>1 DEF StartNext, Steady
<1>2. CASE w.active = NoJob /\ w.queue # <<>>
  <2> DEFINE v == StartNext(w)
  <2>1. /\ v.active = Head(w.queue) /\ v.queue = Tail(w.queue)
        /\ v.view = w.view /\ v.locked = w.locked
    BY <1>2 DEF StartNext, Shape
  <2> HIDE DEF v
  <2>2. ASSUME Single(w) PROVE Steady(r, w, v)
    <3>1. /\ Alone(Tail(w.queue))
          /\ Queued(Tail(w.queue)) => Queued(w.queue) /\ ~Replaying(Head(w.queue))
          /\ Replaying(Head(w.queue)) => Queued(w.queue)
      BY <1>2, <2>2, AloneInQueue DEF Shape, Single
    <3>2. OnItsWay(v) => OnItsWay(w)
      BY <2>1, <3>1 DEF OnItsWay
    <3> QED
      BY <2>1, <3>1, <3>2 DEF Steady, Single, Guarded
  <2> QED
    BY <2>1, <2>2 DEF v
<1> QED
  BY <1>1, <1>2

(* `submit`: a job that replays no commits changes nothing of this; one     *)
(* that does is the only one, if none was on its way.                       *)
LEMMA SubmittedHand ==
  ASSUME NEW r, NEW w, Shape(w), Single(w), NEW job
  PROVE  /\ Submitted(w, job).view = w.view /\ Submitted(w, job).locked = w.locked
         /\ ~Replaying(job) => Steady(r, w, Submitted(w, job))
         /\ ~OnItsWay(w) => Single(Submitted(w, job))
<1> DEFINE v == [w EXCEPT !.queue = Append(w.queue, job)]
<1>1. Submitted(w, job) = StartNext(v)
  BY DEF Submitted, Shape
<1>2. /\ DOMAIN v = DOMAIN w /\ v.active = w.active /\ v.queue = Append(w.queue, job)
      /\ v.flag = w.flag /\ v.view = w.view /\ v.branch = w.branch /\ v.locked = w.locked
  BY DEF Shape
<1> HIDE DEF v
<1>3. /\ ~(Replaying(job) /\ Queued(w.queue)) => Alone(v.queue)
      /\ Queued(v.queue) => Queued(w.queue) \/ Replaying(job)
  BY <1>2, AloneInQueue DEF Shape, Single
<1>4. Shape(v)
  BY <1>2, QueueLists DEF Shape
<1>5. /\ Single(v) => Steady(r, v, StartNext(v))
      /\ StartNext(v).view = v.view /\ StartNext(v).locked = v.locked
  BY <1>4, StartNextSteady
<1>6. ASSUME ~Replaying(job) PROVE Steady(r, w, StartNext(v))
  <2>1. Single(v) /\ (OnItsWay(v) => OnItsWay(w))
    BY <1>2, <1>3, <1>6 DEF Single, OnItsWay
  <2>2. Steady(r, w, v)
    BY <1>2, <2>1 DEF Steady, Guarded
  <2> QED
    BY <1>5, <2>1, <2>2, SteadyOn
<1>7. ASSUME ~OnItsWay(w) PROVE Single(StartNext(v))
  <2>1. Single(v)
    BY <1>2, <1>3, <1>7 DEF Single, OnItsWay
  <2> QED
    BY <1>5, <2>1 DEF Steady
<1> QED
  BY <1>1, <1>2, <1>5, <1>6, <1>7

(* `_apply_operation_state` of a busy queue locks the buttons.              *)
LEMMA AppliedGuards ==
  ASSUME NEW r, NEW w, Shape(w), Busy(w)
  PROVE  Guarded(r, Applied(w)) /\ (Single(w) => Single(Applied(w)))
         /\ Applied(w).view = w.view /\ SameJobs(w, Applied(w))
<1>1. SameQueue(w, Applied(w)) /\ Applied(w).locked /\ Applied(w).view = w.view
  BY AppliedTurns
<1> QED
  BY <1>1 DEF Guarded, Single, SameQueue, SameJobs

(* What has just been looked at is the commit in hand.                      *)
LEMMA LookedAt ==
  ASSUME NEW r, NEW w, NEW v, SameJobs(w, v), v.view.op = r.op, v.view.stop = Looks(r).stop,
         v.locked = Busy(w)
  PROVE  Steady(r, w, v) /\ Guarded(r, v)
<1>1. OnItsWay(w) => Busy(w)
  BY NoJobReplays DEF OnItsWay, Busy, Queued, Range
<1>2. InHand(r, v.view.stop)
  BY DEF InHand, Looks
<1>3. Guarded(r, v)
  BY <1>1, <1>2 DEF Guarded, SameJobs, OnItsWay
<1> QED
  BY <1>3 DEF Steady, SameJobs, Single, OnItsWay

(* `_sync_operation_state`.                                                 *)
LEMMA SyncedSteady ==
  ASSUME NEW r, WellFormed(r), NEW w, Shape(w)
  PROVE  Steady(r, w, Synced(w, r))
<1>1. /\ SameQueue(w, Synced(w, r))
      /\ Synced(w, r).view = Looks(r) /\ Synced(w, r).locked = Busy(w)
  BY SyncedTurns
<1>2. SameJobs(w, Synced(w, r)) /\ Looks(r).op = r.op
  BY <1>1 DEF SameQueue, SameJobs, Looks
<1> QED
  BY <1>1, <1>2, LookedAt

(* `open_repository`.                                                       *)
LEMMA ReopenedSteady ==
  ASSUME NEW r, WellFormed(r), NEW w, Shape(w)
  PROVE  Steady(r, w, Reopened(w, r))
<1> DEFINE v == [w EXCEPT !.branch = r.head, !.flag = w.flag /\ Busy(w)]
<1>1. /\ DOMAIN v = DOMAIN w /\ v.branch = r.head /\ v.flag = (w.flag /\ Busy(w))
      /\ v.active = w.active /\ v.queue = w.queue /\ v.view = w.view /\ v.locked = w.locked
  BY DEF Shape
<1>2. Reopened(w, r) = Synced(v, r)
  BY DEF Reopened
<1> HIDE DEF v
<1>3. (w.flag /\ Busy(w)) \in BOOLEAN
  BY DEF Busy
<1>4. Shape(v)
  BY <1>1, <1>3 DEF Shape
<1>5. Steady(r, w, v) /\ Steady(r, v, Synced(v, r))
  BY <1>1, <1>4, SameJobsSteady, SyncedSteady DEF SameJobs
<1> QED
  BY <1>2, <1>5, SteadyOn

(* After its emission the queue goes on, or the window looks again.         *)
LEMMA AfterSlotsSteady ==
  ASSUME NEW r, WellFormed(r), NEW w, Shape(w), NoJob \notin Range(w.queue), Single(w)
  PROVE  Steady(r, w, AfterSlots(w, r))
<1> DEFINE v == StartNext(w)
           plain == [v EXCEPT !.flag = FALSE]
<1>1. Shape(v) /\ Steady(r, w, v)
  BY StartNextTurns, StartNextSteady DEF Turns
<1>2. \/ AfterSlots(w, r) = v \/ AfterSlots(w, r) = Reopened(plain, r) \/ AfterSlots(w, r) = Synced(v, r)
  BY DEF AfterSlots
<1> HIDE DEF v
<1>3. /\ DOMAIN plain = DOMAIN v /\ plain.flag = FALSE /\ plain.active = v.active
      /\ plain.queue = v.queue /\ plain.view = v.view /\ plain.branch = v.branch
      /\ plain.locked = v.locked
  BY <1>1 DEF Shape
<1> HIDE DEF plain
<1>4. Shape(plain) /\ Steady(r, v, plain)
  BY <1>1, <1>3, SameJobsSteady DEF Shape, SameJobs
<1>5. Steady(r, plain, Reopened(plain, r)) /\ Steady(r, v, Synced(v, r))
  BY <1>1, <1>4, ReopenedSteady, SyncedSteady
<1>6. Steady(r, w, plain)
  BY <1>1, <1>4, SteadyOn
<1>7. Steady(r, w, Reopened(plain, r)) /\ Steady(r, w, Synced(v, r))
  BY <1>1, <1>5, <1>6, SteadyOn
<1> QED
  BY <1>1, <1>2, <1>7

(* The reload flag is set, or left.                                         *)
LEMMA FlaggedSteady ==
  ASSUME NEW r, NEW w, Shape(w), NEW reloads \in BOOLEAN
  PROVE  /\ Steady(r, w, Flagged(w, reloads)) /\ Shape(Flagged(w, reloads))
         /\ SameJobs(w, Flagged(w, reloads))
<1>1. /\ SameJobs(w, Flagged(w, reloads)) /\ Flagged(w, reloads).view = w.view
      /\ Flagged(w, reloads).locked = w.locked
  BY DEF Flagged, Shape, SameJobs
<1> QED
  BY <1>1, SameJobsSteady, FlaggedTurns DEF Turns

-------------------------------------------------------------------------------
(* Every step keeps what skipping needs.                                    *)

(* Dialogs that lead to no such job fit anywhere.                           *)
LEMMA NoPromptsFit ==
  ASSUME NEW r, NEW w, NEW st, \A f \in Range(st) : ~Prompts(f)
  PROVE  PromptsFit(r, w, st)
<1>1. AlonePrompt(st)
  BY DEF AlonePrompt, Range
<1>2. ASSUME NEW f, ~Prompts(f) PROVE PromptFits(r, w, f)
  BY <1>2 DEF Prompts, PromptFits, AboutHand, Replaying, Replays
<1> QED
  BY <1>1, <1>2 DEF PromptsFit

(* The dialogs still fit the window.                                        *)
LEMMA PromptsSteady ==
  ASSUME NEW r, NEW w, NEW v, NEW st, PromptsFit(r, w, st), Steady(r, w, v)
  PROVE  PromptsFit(r, v, st)
<1>1. ASSUME NEW f, PromptFits(r, w, f) PROVE PromptFits(r, v, f)
  BY <1>1 DEF PromptFits, Steady
<1> QED
  BY <1>1 DEF PromptsFit, Steady

(* The jobs on their way are about the commit in hand as long as those      *)
(* submitted are.                                                           *)
LEMMA HandTurns ==
  ASSUME NEW r, NEW w, NEW e, EndFits(w, e), JobsAboutHand(r, w, e), EndTells(r, w, e),
         NEW J, NEW v, Turns(r, J, w, v), \A j \in J : AboutHand(r, j)
  PROVE  JobsAboutHand(r, v, e) /\ EndTells(r, v, e)
<1>1. e # NoEnd => v.active = w.active
  BY DEF EndFits, Turns
<1>2. \A j \in Range(w.queue) \cup J : AboutHand(r, j)
  BY DEF JobsAboutHand
<1>3. Range(v.queue) \subseteq Range(w.queue) \cup J
      /\ (v.active = w.active \/ v.active \in Range(w.queue) \cup J)
  BY DEF Turns
<1>4. JobsAboutHand(r, v, e)
  BY <1>2, <1>3 DEF JobsAboutHand
<1> QED
  BY <1>1, <1>4 DEF EndTells

(* The window's steps under the dialogs.                                    *)
LEMMA WindowHand ==
  ASSUME IInv, HandInv, NEW J, Turns(repo, J, win, win'), \A j \in J : AboutHand(repo, j),
         Single(win'), Guarded(repo, win'), PromptsFit(repo, win', stack'),
         repo' = repo, ended' = ended
  PROVE  HandInv'
<1>1. JobsAboutHand(repo, win', ended) /\ EndTells(repo, win', ended)
  BY HandTurns DEF IInv, Core, HandInv
<1> QED
  BY <1>1 DEF HandInv

(* A step that leaves the repository alone and adds no replaying job.       *)
LEMMA SteadyHand ==
  ASSUME IInv, HandInv, NEW J, Turns(repo, J, win, win'), \A j \in J : ~Replaying(j),
         Steady(repo, win, win'), stack' = stack, repo' = repo, ended' = ended
  PROVE  HandInv'
<1>1. \A j \in J : AboutHand(repo, j)
  BY DEF AboutHand, Replaying, Replays
<1>2. Single(win') /\ Guarded(repo, win')
  BY DEF HandInv, Steady
<1>3. PromptsFit(repo, win', stack')
  BY PromptsSteady DEF HandInv
<1> QED
  BY <1>1, <1>2, <1>3, WindowHand

(* A dialog that leads to no such job is opened.                            *)
LEMMA OpensHand ==
  ASSUME IInv, HandInv, NEW f, ~Prompts(f), stack' = <<f>> \o stack,
         repo' = repo, win' = win, ended' = ended
  PROVE  HandInv'
<1>1. stack \in Seq(Range(stack)) /\ PromptsFit(repo, win, stack)
  BY DEF IInv, DialogsFit, HandInv
<1>2. Range(stack') = Range(stack) \cup {f}
  BY <1>1, StackLists
<1>3. AlonePrompt(stack')
  BY <1>1, AloneInStack DEF PromptsFit
<1>4. PromptFits(repo, win, f)
  BY DEF Prompts, PromptFits, AboutHand, Replaying, Replays
<1>5. PromptsFit(repo, win, stack')
  BY <1>1, <1>2, <1>3, <1>4 DEF PromptsFit
<1> QED
  BY <1>5 DEF HandInv

(* The only dialog is one that may lead to such a job, and fits.            *)
LEMMA AsksHand ==
  ASSUME IInv, HandInv, UserFree, ~OnItsWay(win), NEW job, Asks(job),
         AboutHand(repo, job),
         Replaying(job) /\ job.kind # "skip" =>
           repo.op \notin Sequencers /\ win.view.op \notin Sequencers
  PROVE  HandInv'
<1> DEFINE f == [what |-> "ask", job |-> job, emits |-> FALSE]
<1>1. stack' = <<f>> \o stack /\ repo' = repo /\ win' = win /\ ended' = ended /\ stack = <<>>
  BY DEF Asks, Quietly, UserFree
<1>2. PromptFits(repo, win, f)
  BY DEF PromptFits
<1> HIDE DEF f
<1>3. stack \in Seq(Range(stack)) /\ Range(stack) = {}
  BY <1>1 DEF Range
<1>4. Range(stack') = {f}
  <2>1. stack \in Seq(Range(stack))
    BY <1>3
  <2>2. Range(stack') = Range(stack) \cup {f}
    BY <1>1, <2>1, StackLists
  <2> QED
    BY <1>3, <2>2
<1>5. AlonePrompt(stack')
  <2>1. AlonePrompt(stack)
    BY DEF HandInv, PromptsFit
  <2> QED
    BY <1>1, <1>3, <2>1, AloneInStack
<1>6. PromptsFit(repo, win, stack')
  BY <1>2, <1>4, <1>5 DEF PromptsFit
<1> QED
  BY <1>1, <1>6 DEF HandInv

(* A job that replays no commits is submitted, with the reload flag or      *)
(* without.                                                                 *)
LEMMA SubmitsHand ==
  ASSUME IInv, HandInv, NEW job, ~Replaying(job), job # NoJob,
         win' = Submitted(win, job) \/ win' = [Submitted(win, job) EXCEPT !.flag = TRUE],
         stack' = stack, repo' = repo, ended' = ended
  PROVE  HandInv'
<1> DEFINE w == Submitted(win, job)
<1>1. Shape(win) /\ NoJob \notin Range(win.queue)
  BY QueueOfJobs DEF IInv
<1>2. Turns(repo, {job}, win, w)
  BY <1>1, SubmittedTurns
<1>3. Steady(repo, win, w)
  BY <1>1, SubmittedHand DEF HandInv
<1> HIDE DEF w
<1>4. CASE win' = w
  BY <1>2, <1>3, <1>4, SteadyHand
<1>5. CASE win' = [w EXCEPT !.flag = TRUE]
  <2>1. /\ DOMAIN win' = DOMAIN w /\ win'.flag = TRUE /\ win'.active = w.active
        /\ win'.queue = w.queue /\ win'.view = w.view /\ win'.branch = w.branch
        /\ win'.locked = w.locked
    BY <1>2, <1>5 DEF Turns, Shape
  <2>2. Turns(repo, {job}, win, win')
    BY <1>2, <2>1 DEF Turns, Shape
  <2>3. Steady(repo, w, win')
    BY <2>1, SameJobsSteady DEF SameJobs
  <2>4. Steady(repo, win, win')
    BY <1>3, <2>3, SteadyOn
  <2> QED
    BY <2>2, <2>4, SteadyHand
<1> QED
  BY <1>4, <1>5 DEF w

(* The menus: but for the pick and the two rebases, nothing replays.        *)
LEMMA MenusHand ==
  ASSUME IInv, HandInv, NEW b,
         StartsMerge(b) \/ ChecksOut(b) \/ ConfirmsDelete(b) \/ StartsRebase(b) \/ StartsPlan(b)
  PROVE  HandInv'
<1>1. CASE StartsMerge(b)
  <2> DEFINE job == [kind |-> "merge", source |-> b, branch |-> win.branch]
  <2>1. /\ win' = [Submitted(win, job) EXCEPT !.flag = TRUE]
        /\ repo' = repo /\ ended' = ended /\ stack' = stack
    BY <1>1 DEF StartsMerge, Quietly
  <2>2. ~Replaying(job) /\ job # NoJob
    BY DEF Replaying, Replays, NoJob
  <2> HIDE DEF job
  <2> QED
    BY <2>1, <2>2, SubmitsHand
<1>2. CASE ChecksOut(b)
  <2> DEFINE job == [kind |-> "checkout", source |-> b]
  <2>1. /\ win' = Submitted(win, job)
        /\ repo' = repo /\ ended' = ended /\ stack' = stack
    BY <1>2 DEF ChecksOut, Submits, Quietly
  <2>2. ~Replaying(job) /\ job # NoJob
    BY DEF Replaying, Replays, NoJob
  <2> HIDE DEF job
  <2> QED
    BY <2>1, <2>2, SubmitsHand
<1>3. CASE ConfirmsDelete(b)
  <2> DEFINE f == [what |-> "ask", job |-> [kind |-> "delete", source |-> b], emits |-> FALSE]
  <2>1. stack' = <<f>> \o stack /\ repo' = repo /\ win' = win /\ ended' = ended
    BY <1>3 DEF ConfirmsDelete, Asks, Quietly
  <2>2. ~Prompts(f)
    BY DEF Prompts, Replaying, Replays
  <2> HIDE DEF f
  <2> QED
    BY <2>1, <2>2, OpensHand
<1>4. ASSUME NEW job, job.kind \in {"rebase", "plan"}, UserFree, ~BusyWithHistory, Asks(job)
      PROVE  HandInv'
  <2>1. win.view.op = "none" /\ ~Busy(win)
    BY <1>4 DEF BusyWithHistory
  <2>2. ~OnItsWay(win)
    BY <2>1, NoJobReplays DEF OnItsWay, Busy, Queued, Range
  <2>3. repo.op = "none"
    <3>1. ~Emitting(stack)
      BY <1>4 DEF UserFree, Emitting, Range
    <3>2. Truth(win, repo)
      BY <2>1, <3>1 DEF IInv, Told
    <3> QED
      BY <2>1, <3>2 DEF Truth, Looks
  <2>4. AboutHand(repo, job)
    BY <1>4 DEF AboutHand
  <2> QED
    BY <1>4, <2>1, <2>2, <2>3, <2>4, AsksHand DEF Sequencers
<1>5. CASE StartsRebase(b)
  <2>1. /\ UserFree /\ ~BusyWithHistory
        /\ Asks([kind |-> "rebase", source |-> b, branch |-> win.branch])
    BY <1>5 DEF StartsRebase
  <2> QED
    BY <1>4, <2>1
<1>6. CASE StartsPlan(b)
  <2> DEFINE steps == RebaseTodo(repo, repo.tip[b])
  <2>1. PICK drop \in SUBSET Range(steps) :
               Asks([kind |-> "plan", source |-> b, branch |-> win.branch, at |-> repo.at,
                     keep |-> Ordered(Range(steps) \ drop)])
    BY <1>6 DEF StartsPlan
  <2>2. UserFree /\ ~BusyWithHistory
    BY <1>6 DEF StartsPlan
  <2> QED
    BY <1>4, <2>1, <2>2
<1> QED
  BY <1>1, <1>2, <1>3, <1>5, <1>6

(* A pick is submitted where nothing is under way.                          *)
LEMMA PickHand ==
  ASSUME IInv, HandInv, NEW op, NEW c, StartsPick(op, c)
  PROVE  HandInv'
<1> DEFINE job == [kind |-> "pick", op |-> op, commit |-> c, branch |-> win.branch]
<1>1. /\ win' = Submitted(win, job) /\ stack = <<>> /\ stack' = stack
      /\ repo' = repo /\ ended' = ended /\ win.view.op = "none" /\ ~Busy(win)
  BY DEF StartsPick, Submits, Quietly, UserFree, BusyWithHistory
<1>2. AboutHand(repo, job) /\ job # NoJob
  BY DEF AboutHand, NoJob
<1> HIDE DEF job
<1>3. Shape(win) /\ NoJob \notin Range(win.queue)
  BY QueueOfJobs DEF IInv
<1>4. ~OnItsWay(win)
  BY <1>1, NoJobReplays DEF OnItsWay, Busy, Queued, Range
<1>5. Turns(repo, {job}, win, win')
  BY <1>1, <1>2, <1>3, SubmittedTurns
<1>6. Single(win') /\ win'.view = win.view
  BY <1>1, <1>3, <1>4, SubmittedHand DEF HandInv
<1>7. Guarded(repo, win')
  BY <1>1, <1>6 DEF Guarded, Sequencers
<1>8. PromptsFit(repo, win', stack')
  BY <1>1, NoPromptsFit DEF Range
<1> QED
  BY <1>1, <1>2, <1>5, <1>6, <1>7, <1>8, WindowHand

(* The banner: going on, and the question about skipping, which names the   *)
(* commit the window shows.                                                 *)
LEMMA BannerHand ==
  ASSUME IInv, HandInv, Continues \/ AsksToSkip \/ AsksToAbort
  PROVE  HandInv'
<1>1. Shape(win) /\ NoJob \notin Range(win.queue)
  BY QueueOfJobs DEF IInv
<1>2. CASE Continues
  <2> DEFINE job == [kind |-> "continue"]
             w == Submitted(win, job)
  <2>1. /\ win' = Applied(w) /\ stack = <<>> /\ stack' = stack /\ repo' = repo /\ ended' = ended
        /\ ~win.locked /\ win.view.op \in Sequencers
    BY <1>2 DEF Continues, Quietly, UserFree
  <2>2. AboutHand(repo, job) /\ job # NoJob
    BY DEF AboutHand, NoJob
  <2> HIDE DEF job
  <2>3. ~OnItsWay(win)
    BY <2>1 DEF HandInv, Guarded
  <2>4. Turns(repo, {job}, win, w) /\ Busy(w) /\ Single(w)
    BY <1>1, <2>2, <2>3, SubmittedTurns, SubmittedHand DEF HandInv
  <2> HIDE DEF w
  <2>5. Turns(repo, {job}, w, Applied(w)) /\ Guarded(repo, Applied(w)) /\ Single(Applied(w))
    BY <2>4, AppliedTurns, AppliedGuards DEF Turns
  <2>6. Turns(repo, {job}, win, win')
    BY <2>1, <2>4, <2>5, TurnsOn
  <2>7. PromptsFit(repo, win', stack')
    BY <2>1, NoPromptsFit DEF Range
  <2> QED
    BY <2>1, <2>2, <2>5, <2>6, <2>7, WindowHand
<1>3. CASE AsksToSkip
  <2> DEFINE job == [kind |-> "skip", about |-> win.view.stop]
  <2>1. UserFree /\ ~win.locked /\ win.view.op \in Sequencers /\ Asks(job)
    BY <1>3 DEF AsksToSkip
  <2>2. ~OnItsWay(win) /\ InHand(repo, win.view.stop)
    BY <2>1 DEF HandInv, Guarded
  <2>3. AboutHand(repo, job) /\ job.kind = "skip"
    BY <2>2 DEF AboutHand
  <2> HIDE DEF job
  <2> QED
    BY <2>1, <2>2, <2>3, AsksHand
<1>4. CASE AsksToAbort
  <2> DEFINE f == [what |-> "ask", job |-> [kind |-> "abort"], emits |-> FALSE]
  <2>1. stack' = <<f>> \o stack /\ repo' = repo /\ win' = win /\ ended' = ended
    BY <1>4 DEF AsksToAbort, Asks, Quietly
  <2>2. ~Prompts(f)
    BY DEF Prompts, Replaying, Replays
  <2> HIDE DEF f
  <2> QED
    BY <2>1, <2>2, OpensHand
<1> QED
  BY <1>2, <1>3, <1>4

(* What else the user submits or is asked about replays nothing.            *)
LEMMA OthersHand ==
  ASSUME IInv, HandInv, NEW job, ~Replaying(job), job # NoJob, Submits(job) \/ Asks(job)
  PROVE  HandInv'
<1>1. CASE Submits(job)
  BY <1>1, SubmitsHand DEF Submits, Quietly
<1>2. CASE Asks(job)
  <2> DEFINE f == [what |-> "ask", job |-> job, emits |-> FALSE]
  <2>1. stack' = <<f>> \o stack /\ repo' = repo /\ win' = win /\ ended' = ended
    BY <1>2 DEF Asks, Quietly
  <2>2. ~Prompts(f)
    BY DEF Prompts
  <2> HIDE DEF f
  <2> QED
    BY <2>1, <2>2, OpensHand
<1> QED
  BY <1>1, <1>2

(* The jobs and dialogs the panels start replay no commit.                  *)
LEMMA PanelsHand ==
  ASSUME IInv, HandInv,
         \/ \E how, c : StartsReset(how, c)
         \/ \E amend : CommitRequested(amend)
         \/ NewBranch \/ Unstages \/ Discards \/ \E p : Stages(p)
  PROVE  HandInv'
<1> DEFINE plain(j) == j.kind \in {"reset", "amend", "commit", "branch", "unstage", "discard", "stage"}
<1>1. ASSUME NEW job, plain(job), Submits(job) \/ Asks(job) PROVE HandInv'
  <2>1. ~Replaying(job) /\ job # NoJob
    BY <1>1 DEF Replaying, Replays, NoJob
  <2> QED
    BY <1>1, <2>1, OthersHand
<1>2. \E job : plain(job) /\ (Submits(job) \/ Asks(job))
  <2>1. CASE \E how, c : StartsReset(how, c)
    BY <2>1 DEF StartsReset
  <2>2. CASE \E amend : CommitRequested(amend)
    <3>1. \/ Asks([kind |-> "amend", at |-> repo.at]) \/ Submits([kind |-> "commit"])
      BY <2>2 DEF CommitRequested
    <3> QED
      BY <3>1
  <2>3. CASE NewBranch
    BY <2>3 DEF NewBranch
  <2>4. CASE Unstages
    BY <2>4 DEF Unstages
  <2>5. CASE Discards
    BY <2>5 DEF Discards
  <2>6. CASE \E p : Stages(p)
    BY <2>6 DEF Stages
  <2> QED
    BY <2>1, <2>2, <2>3, <2>4, <2>5, <2>6
<1> QED
  BY <1>1, <1>2

(* The conflict panel.                                                      *)
LEMMA PanelHand ==
  ASSUME NEW r, NEW w, Shape(w), NEW panel
  PROVE  Steady(r, w, [w EXCEPT !.panel = panel])
BY SameJobsSteady DEF Shape, SameJobs

(* Every step of the conflict panel keeps what skipping needs.              *)
LEMMA ConflictsHand ==
  ASSUME IInv, HandInv,
         \/ \E p : DetailReady(p)
         \/ \E side, edited : Resolves(side, edited)
  PROVE  HandInv'
<1>1. Shape(win) /\ NoJob \notin Range(win.queue)
  BY QueueOfJobs DEF IInv
<1>2. CASE \E p : DetailReady(p)
  <2>1. PICK p : DetailReady(p)
    BY <1>2
  <2> DEFINE panel == [path |-> p, seen |-> Conflict(repo)]
  <2>2. /\ win' = [win EXCEPT !.panel = panel]
        /\ repo' = repo /\ ended' = ended /\ stack' = stack
    BY <2>1 DEF DetailReady, Quietly
  <2> HIDE DEF panel
  <2>3. Turns(repo, {}, win, win') /\ Steady(repo, win, win')
    BY <1>1, <2>2, PanelTurns, PanelHand
  <2> QED
    BY <2>2, <2>3, SteadyHand
<1>3. CASE \E side, edited : Resolves(side, edited)
  <2>1. PICK side, edited : Resolves(side, edited)
    BY <1>3
  <2> DEFINE job == [kind |-> "resolve", path |-> win.panel.path, side |-> side,
                     seen |-> win.panel.seen]
             f == [what |-> "ask", job |-> job, emits |-> FALSE]
             w == [win EXCEPT !.panel = NoPanel]
  <2>2. /\ repo' = repo /\ ended' = ended /\ stack = <<>>
        /\ \/ stack' = <<f>> /\ win' = w
           \/ win' = Submitted(w, job) /\ stack' = stack
    BY <2>1 DEF Resolves, Quietly, UserFree
  <2>3. ~Replaying(job) /\ job # NoJob
    BY DEF Replaying, Replays, NoJob
  <2>4. ~Prompts(f)
    BY <2>3 DEF Prompts
  <2> HIDE DEF job, f
  <2>5. Turns(repo, {job}, win, w) /\ SameQueue(win, w) /\ Steady(repo, win, w)
    BY <1>1, PanelTurns, PanelHand
  <2> HIDE DEF w
  <2>6. Shape(w) /\ NoJob \notin Range(w.queue) /\ Single(w)
    BY <1>1, <2>5 DEF Turns, SameQueue, Steady, HandInv
  <2>7. \A j \in {job} : AboutHand(repo, j)
    BY <2>3 DEF AboutHand, Replaying, Replays
  <2>8. CASE stack' = <<f>> /\ win' = w
    <3>1. Range(stack') = {f}
      BY <2>8 DEF Range
    <3>2. PromptsFit(repo, win', stack')
      BY <2>4, <3>1, NoPromptsFit
    <3>3. Single(win') /\ Guarded(repo, win')
      BY <2>5, <2>8 DEF HandInv, Steady
    <3> QED
      BY <2>2, <2>5, <2>7, <2>8, <3>2, <3>3, WindowHand
  <2>9. CASE win' = Submitted(w, job) /\ stack' = stack
    <3>1. Turns(repo, {job}, w, win') /\ Steady(repo, w, win')
      BY <2>3, <2>6, <2>9, SubmittedTurns, SubmittedHand
    <3>2. Turns(repo, {job}, win, win') /\ Steady(repo, win, win')
      BY <2>5, <3>1, TurnsOn, SteadyOn
    <3> QED
      BY <2>2, <2>3, <2>9, <3>2, SteadyHand
  <2> QED
    BY <2>2, <2>8, <2>9
<1> QED
  BY <1>2, <1>3

(* The window looks again, the user edits, and pulls.                       *)
LEMMA LookingHand ==
  ASSUME IInv, HandInv, Reloads \/ Edits \/ Pulls \/ PullFails \/ FinishPull
  PROVE  HandInv'
<1>1. Shape(win) /\ WellFormed(repo)
  BY QueueOfJobs DEF IInv
<1>2. CASE win' = Reopened(win, repo) /\ repo' = repo /\ ended' = ended /\ stack' = stack
  <2>1. Turns(repo, {}, win, win') /\ Steady(repo, win, win')
    BY <1>1, <1>2, ReopenedTurns, ReopenedSteady
  <2> QED
    BY <1>2, <2>1, SteadyHand
<1>3. CASE Reloads
  BY <1>2, <1>3 DEF Reloads, Quietly
<1>4. CASE Edits
  <2>1. /\ repo' = [repo EXCEPT !.dirty = TRUE] /\ win' = win /\ ended' = ended /\ stack' = stack
    BY <1>4 DEF Edits
  <2>2. repo'.inHand = repo.inHand /\ repo'.todo = repo.todo /\ repo'.op = repo.op
    BY <1>1, <2>1 DEF WellFormed
  <2>3. \A c : InHand(repo, c) => InHand(repo', c)
    BY <2>2 DEF InHand
  <2>4. \A j : AboutHand(repo, j) => AboutHand(repo', j)
    BY <2>3 DEF AboutHand
  <2>5. ASSUME NEW f, PromptFits(repo, win, f) PROVE PromptFits(repo', win, f)
    BY <2>2, <2>3, <2>4, <2>5 DEF PromptFits
  <2>6. PromptsFit(repo', win, stack)
    BY <2>5 DEF HandInv, PromptsFit
  <2>7. Guarded(repo', win) /\ JobsAboutHand(repo', win, ended) /\ EndTells(repo', win, ended)
    BY <2>3, <2>4 DEF HandInv, Guarded, JobsAboutHand, EndTells
  <2> QED
    BY <2>1, <2>6, <2>7 DEF HandInv
<1>5. CASE Pulls
  <2>1. repo' = repo /\ win' = win /\ ended' = ended /\ stack' = stack
    BY <1>5 DEF Pulls
  <2> QED
    BY <2>1 DEF HandInv
<1>6. CASE PullFails
  <2> DEFINE f == [what |-> "note", emits |-> FALSE]
  <2>1. repo' = repo /\ win' = win /\ ended' = ended /\ stack' = <<f>> \o stack
    BY <1>6 DEF PullFails
  <2>2. ~Prompts(f)
    BY DEF Prompts
  <2> HIDE DEF f
  <2> QED
    BY <2>1, <2>2, OpensHand
<1>7. CASE FinishPull
  <2> DEFINE ff == repo.at \in AncestorsOf(repo, Upstream[repo.head])
             job == [kind |-> IF ff THEN "fast_forward" ELSE "pull_merge",
                     of |-> repo.head, branch |-> win.branch]
  <2>1. /\ repo' = repo /\ ended' = ended /\ stack' = stack
        /\ \/ win' = Reopened(win, repo)
           \/ win' = [Submitted(win, job) EXCEPT !.flag = TRUE]
    BY <1>7 DEF FinishPull
  <2>2. ~Replaying(job) /\ job # NoJob
    BY DEF Replaying, Replays, NoJob
  <2> HIDE DEF job
  <2> QED
    BY <1>2, <2>1, <2>2, SubmitsHand
<1> QED
  BY <1>3, <1>4, <1>5, <1>6, <1>7

-------------------------------------------------------------------------------
(* The dialogs.                                                             *)

(* The innermost dialog, and those under it.                                *)
LEMMA TopPrompt ==
  ASSUME IInv, HandInv, stack # <<>>
  PROVE  /\ PromptFits(repo, win, Top) /\ IsFrame(Top, repo)
         /\ PromptsFit(repo, win, Tail(stack))
         /\ Prompts(Top) => ~OnItsWay(win) /\ \A g \in Range(Tail(stack)) : ~Prompts(g)
         /\ Tail(stack) \in Seq(Range(Tail(stack)))
<1>1. stack \in Seq(Range(stack)) /\ PromptsFit(repo, win, stack)
  BY DEF IInv, DialogsFit, HandInv
<1>2. /\ Top \in Range(stack) /\ Range(Tail(stack)) \subseteq Range(stack)
      /\ Tail(stack) \in Seq(Range(Tail(stack)))
  BY <1>1, QueueLists DEF Top
<1>3. /\ AlonePrompt(Tail(stack))
      /\ Prompts(Top) => \A g \in Range(Tail(stack)) : ~Prompts(g)
  BY <1>1, AloneInStack DEF Top, PromptsFit
<1>4. PromptsFit(repo, win, Tail(stack))
  BY <1>1, <1>2, <1>3 DEF PromptsFit
<1> QED
  BY <1>1, <1>2, <1>3, <1>4, TopIsFrame DEF PromptsFit

(* It is closed after the window's step to w, and its emission goes on.     *)
LEMMA LetGoHand ==
  ASSUME IInv, HandInv, stack # <<>>, NEW J, NoJob \notin J, \A j \in J : AboutHand(repo, j),
         NEW w, Turns(repo, J, win, w), Single(w), Guarded(repo, w),
         PromptsFit(repo, w, Tail(stack)),
         win' = LetGo(Top, w), stack' = Tail(stack), repo' = repo, ended' = ended
  PROVE  HandInv'
<1> DEFINE f == Top
<1>1. /\ win' = IF f.emits THEN AfterSlots(Flagged(w, f.reloads), repo) ELSE w
      /\ f.emits \in BOOLEAN /\ (f.emits => f.reloads \in BOOLEAN)
  BY TopIsFrame DEF LetGo, IsFrame
<1> HIDE DEF f
<1>2. Shape(w) /\ NoJob \notin Range(w.queue) /\ WellFormed(repo)
  BY QueueOfJobs DEF IInv, Turns
<1>3. Turns(repo, J, w, win') /\ Steady(repo, w, win')
  <2>1. CASE f.emits
    <3> DEFINE u == Flagged(w, f.reloads)
    <3>1. Turns(repo, J, w, u) /\ Steady(repo, w, u) /\ Shape(u) /\ SameJobs(w, u)
      BY <1>1, <1>2, <2>1, FlaggedTurns, FlaggedSteady
    <3>2. win' = AfterSlots(u, repo)
      BY <1>1, <2>1
    <3> HIDE DEF u
    <3>3. Turns(repo, J, u, win') /\ Steady(repo, u, win')
      BY <1>2, <3>1, <3>2, AfterSlotsTurns, AfterSlotsSteady DEF SameJobs, Steady
    <3> QED
      BY <3>1, <3>3, TurnsOn, SteadyOn
  <2>2. CASE ~f.emits
    BY <1>1, <1>2, <2>2 DEF Turns, Steady
  <2> QED
    BY <2>1, <2>2
<1>4. Turns(repo, J, win, win')
  BY <1>3, TurnsOn
<1>5. Single(win') /\ Guarded(repo, win')
  BY <1>3 DEF Steady
<1>6. PromptsFit(repo, win', stack')
  BY <1>3, PromptsSteady
<1> QED
  BY <1>4, <1>5, <1>6, WindowHand

(* Such a job is submitted from the dialog on top, which led to it.         *)
LEMMA PromptedHand ==
  ASSUME IInv, HandInv, stack # <<>>, Prompts(Top), NEW job, Replaying(job), job # NoJob,
         AboutHand(repo, job), IsJob(job, repo),
         NEW w, \/ w = Applied(Submitted(win, job))
                \/ w = Submitted(win, job) /\ win.view.op \notin Sequencers,
         win' = LetGo(Top, w), stack' = Tail(stack), repo' = repo, ended' = ended
  PROVE  HandInv'
<1> DEFINE s == Submitted(win, job)
<1>1. Shape(win) /\ NoJob \notin Range(win.queue)
  BY QueueOfJobs DEF IInv
<1>2. ~OnItsWay(win) /\ \A g \in Range(Tail(stack)) : ~Prompts(g)
  BY TopPrompt
<1>3. /\ Turns(repo, {job}, win, s) /\ Busy(s) /\ Single(s) /\ s.view = win.view
  BY <1>1, <1>2, SubmittedTurns, SubmittedHand DEF HandInv
<1> HIDE DEF s
<1>4. Turns(repo, {job}, win, w) /\ Single(w) /\ Guarded(repo, w)
  <2>1. CASE w = Applied(s)
    <3>1. Turns(repo, {job}, s, w) /\ Single(w) /\ Guarded(repo, w)
      BY <1>3, <2>1, AppliedTurns, AppliedGuards DEF Turns
    <3> QED
      BY <1>3, <3>1, TurnsOn
  <2>2. CASE w = s /\ win.view.op \notin Sequencers
    BY <1>3, <2>2 DEF Guarded
  <2> QED
    BY <2>1, <2>2 DEF s
<1>5. PromptsFit(repo, w, Tail(stack))
  BY <1>2, NoPromptsFit
<1> QED
  BY <1>4, <1>5, LetGoHand

(* The dialogs end: told, chosen from, confirmed, declined.                 *)
LEMMA DialogsHand ==
  ASSUME IInv, HandInv, DialogCloses
  PROVE  HandInv'
<1>1. Shape(win) /\ NoJob \notin Range(win.queue) /\ WellFormed(repo)
  BY QueueOfJobs DEF IInv
<1>2. Single(win) /\ Guarded(repo, win)
  BY DEF HandInv
<1>3. ASSUME NEW J, NoJob \notin J, \A j \in J : ~Replaying(j), stack # <<>>,
             NEW w, Turns(repo, J, win, w), Steady(repo, win, w),
             win' = LetGo(Top, w), stack' = Tail(stack), repo' = repo, ended' = ended
      PROVE  HandInv'
  <2>1. \A j \in J : AboutHand(repo, j)
    BY <1>3 DEF AboutHand, Replaying, Replays
  <2>2. Single(w) /\ Guarded(repo, w)
    BY <1>2, <1>3 DEF Steady
  <2>3. PromptsFit(repo, w, Tail(stack))
    BY <1>3, TopPrompt, PromptsSteady
  <2> QED
    BY <1>3, <2>1, <2>2, <2>3, LetGoHand
<1>4. Turns(repo, {}, win, win) /\ Steady(repo, win, win)
  BY <1>1 DEF Turns, Steady
<1>5. CASE Closes
  <2>1. /\ stack # <<>> /\ win' = LetGo(Top, win) /\ stack' = Tail(stack)
        /\ repo' = repo /\ ended' = ended
    BY <1>5 DEF Closes, Quietly
  <2> QED
    BY <1>3, <1>4, <2>1
<1>6. CASE ChoosesAbort
  <2> DEFINE f == [what |-> "ask", job |-> [kind |-> "abort"],
                   emits |-> Top.emits, reloads |-> Top.reloads]
             rest == Tail(stack)
  <2>1. /\ stack # <<>> /\ win' = win /\ stack' = <<f>> \o rest
        /\ repo' = repo /\ ended' = ended
    BY <1>6 DEF ChoosesAbort, Quietly
  <2>2. PromptsFit(repo, win, rest) /\ rest \in Seq(Range(rest))
    BY <2>1, TopPrompt
  <2>3. ~Prompts(f)
    BY DEF Prompts, Replaying, Replays
  <2>4. PromptFits(repo, win, f)
    BY <2>3 DEF Prompts, PromptFits, AboutHand, Replaying, Replays
  <2> HIDE DEF f, rest
  <2>5. Range(stack') = Range(rest) \cup {f}
    BY <2>1, <2>2, StackLists
  <2>6. AlonePrompt(stack')
    BY <2>1, <2>2, <2>3, AloneInStack DEF PromptsFit
  <2>7. PromptsFit(repo, win, stack')
    BY <2>2, <2>3, <2>4, <2>5, <2>6 DEF PromptsFit
  <2> QED
    BY <2>1, <2>7 DEF HandInv
<1>7. CASE Confirms
  <2> DEFINE job == Top.job
             s == Submitted(win, job)
             v == [s EXCEPT !.view.conflicts = {}]
             w == CASE job.kind = "skip"  -> Applied(s)
                    [] job.kind = "abort" -> Applied(v)
                    [] OTHER              -> s
  <2>1. /\ stack # <<>> /\ Top.what = "ask" /\ win' = LetGo(Top, w) /\ stack' = Tail(stack)
        /\ repo' = repo /\ ended' = ended
    BY <1>7 DEF Confirms, Quietly
  <2>2. /\ IsJob(job, repo) /\ job # NoJob /\ AboutHand(repo, job)
        /\ Replaying(job) /\ job.kind # "skip" => win.view.op \notin Sequencers
    <3>1. PromptFits(repo, win, Top) /\ IsFrame(Top, repo)
      BY <2>1, TopPrompt
    <3> QED
      BY <2>1, <3>1, PlainFits DEF IsFrame, Plain, PromptFits
  <2>3. w = s \/ w = Applied(s) \/ w = Applied(v)
    <3> HIDE DEF s, v
    <3> QED
      OBVIOUS
  <2>4. /\ job.kind = "skip" => w = Applied(s)
        /\ job.kind \notin {"skip", "abort"} => w = s
    <3> HIDE DEF s, v
    <3> QED
      OBVIOUS
  <2> HIDE DEF w
  <2>5. CASE Replaying(job)
    <3>1. Prompts(Top)
      BY <2>1, <2>5 DEF Prompts
    <3>2. job.kind # "abort"
      BY <2>5 DEF Replaying, Replays
    <3>3. w = Applied(s) \/ (w = s /\ win.view.op \notin Sequencers)
      BY <2>2, <2>4, <2>5, <3>2
    <3> HIDE DEF job
    <3> QED
      BY <2>1, <2>2, <2>5, <3>1, <3>3, PromptedHand
  <2>6. CASE ~Replaying(job)
    <3> HIDE DEF job
    <3>1. Turns(repo, {job}, win, s) /\ Busy(s) /\ Steady(repo, win, s)
      BY <1>1, <1>2, <2>2, <2>6, SubmittedTurns, SubmittedHand
    <3> HIDE DEF s
    <3>2. Shape(s)
      BY <3>1 DEF Turns
    <3>3. w = Applied(s) \/ w = Applied(v) => Turns(repo, {job}, s, w) /\ Steady(repo, s, w)
      <4> DEFINE view == [s.view EXCEPT !.conflicts = {}]
      <4>1. v = [s EXCEPT !.view = view] /\ view.op = s.view.op /\ view.stop = s.view.stop
        BY <3>2 DEF Shape
      <4>2. DOMAIN view = {"op", "conflicts", "stop"} /\ view.op \in Operations /\ view.conflicts \subseteq Paths
        BY <3>2 DEF Shape
      <4> HIDE DEF view
      <4>3. Shape(v) /\ SameQueue(s, v) /\ v.view = view
        BY <3>2, <4>1, <4>2, ViewedTurns
      <4> HIDE DEF v
      <4>4. Turns(repo, {job}, s, v) /\ Busy(v)
        BY <3>1, <4>3, SameQueueTurns
      <4>5. ASSUME NEW x, Shape(x), SameQueue(s, x), Turns(repo, {job}, s, x), Busy(x),
                   x.view.op = s.view.op
            PROVE  Turns(repo, {job}, s, Applied(x)) /\ Steady(repo, s, Applied(x))
        <5>1. /\ Turns(repo, {job}, x, Applied(x)) /\ Guarded(repo, Applied(x))
              /\ SameJobs(x, Applied(x)) /\ Applied(x).view = x.view
          BY <4>5, AppliedTurns, AppliedGuards
        <5>2. Turns(repo, {job}, s, Applied(x))
          BY <4>5, <5>1, TurnsOn
        <5> QED
          BY <4>5, <5>1, <5>2 DEF Steady, SameJobs, SameQueue, Single, OnItsWay
      <4>6. Turns(repo, {job}, s, s) /\ SameQueue(s, s)
        BY <3>2 DEF Turns, SameQueue
      <4> QED
        BY <3>1, <3>2, <4>1, <4>3, <4>4, <4>5, <4>6
    <3>4. Turns(repo, {job}, win, w) /\ Steady(repo, win, w)
      BY <2>3, <3>1, <3>3, TurnsOn, SteadyOn
    <3> QED
      BY <1>3, <2>1, <2>2, <2>6, <3>4
  <2> QED
    BY <2>5, <2>6
<1>8. CASE Declines
  <2> DEFINE w == IF Top.job.kind = "resolve" THEN Synced(win, repo) ELSE win
  <2>1. /\ stack # <<>> /\ win' = LetGo(Top, w) /\ stack' = Tail(stack)
        /\ repo' = repo /\ ended' = ended
    BY <1>8 DEF Declines, Quietly
  <2>2. Turns(repo, {}, win, w) /\ Steady(repo, win, w)
    BY <1>1, <1>4, SyncedTurns, SyncedSteady
  <2> HIDE DEF w
  <2> QED
    BY <1>3, <2>1, <2>2
<1>9. ASSUME NEW kind \in {"skip", "keep"}, Chooses(kind) PROVE HandInv'
  <2> DEFINE job == IF kind = "skip" THEN [kind |-> "skip", about |-> Top.stop] ELSE [kind |-> "keep"]
             w == Applied(Submitted(win, job))
  <2>1. /\ stack # <<>> /\ Top.what = "box" /\ win' = LetGo(Top, w) /\ stack' = Tail(stack)
        /\ repo' = repo /\ ended' = ended
    BY <1>9 DEF Chooses, Quietly
  <2>2. Replaying(job) /\ job # NoJob /\ IsJob(job, repo)
    BY DEF Replaying, Replays, NoJob, IsJob, JobKinds, Pulling
  <2>3. Prompts(Top) /\ InHand(repo, Top.stop)
    BY <2>1, TopPrompt DEF Prompts, PromptFits
  <2>4. AboutHand(repo, job)
    BY <2>3 DEF AboutHand
  <2> HIDE DEF job
  <2> QED
    BY <2>1, <2>2, <2>3, <2>4, PromptedHand
<1> QED
  BY <1>5, <1>6, <1>7, <1>8, <1>9 DEF DialogCloses

-------------------------------------------------------------------------------
(* The jobs.                                                                *)

(* The job at work ends: if it replays commits it was the only one, and     *)
(* otherwise what was in hand still is.                                     *)
LEMMA JobEndsHand ==
  ASSUME IInv, HandInv, win.active # NoJob, NEW out \in Work(win.active, repo) \cup Refused(repo),
         JobEnds(out)
  PROVE  HandInv'
<1> DEFINE job == win.active
           q == out.repo
<1>1. /\ ended = NoEnd /\ repo' = q /\ ended'.kind = out.kind
      /\ ended'.stop = IF q.inHand THEN q.todo[1] ELSE Nobody
      /\ win' = win /\ stack' = stack
  BY DEF JobEnds
<1>2. IsJob(job, repo) /\ RepoFits(repo)
  BY DEF IInv, Core, JobsFit
<1>3. ended' # NoEnd
  <2>1. Ran(job, repo, out)
    BY JobEndsKeeps
  <2> QED
    BY <1>1, <2>1 DEF Ran, Kinds, NoEnd
<1>4. InHand(q, ended'.stop)
  BY <1>1 DEF InHand
<1>5. CASE Replaying(job)
  <2>1. ~Queued(win.queue) /\ OnItsWay(win)
    BY <1>5 DEF HandInv, Single, OnItsWay
  <2>2. JobsAboutHand(q, win, ended')
    BY <1>3, <2>1 DEF JobsAboutHand, AboutHand, Queued, Replaying, Replays
  <2>3. Guarded(q, win)
    BY <2>1 DEF HandInv, Guarded
  <2>4. PromptsFit(q, win, stack)
    BY <2>1, NoPromptsFit DEF HandInv, PromptsFit
  <2>5. EndTells(q, win, ended')
    BY <1>4, <1>5 DEF EndTells
  <2> HIDE DEF q
  <2> QED
    BY <1>1, <2>2, <2>3, <2>4, <2>5 DEF HandInv
<1>6. CASE ~Replaying(job)
  <2>1. Held(repo, q) /\ out.kind # "empty"
    BY <1>2, <1>6, OthersHold
  <2> HIDE DEF q
  <2>2. \A c : InHand(repo, c) => InHand(q, c)
    BY <2>1 DEF Held, InHand
  <2>3. \A j : AboutHand(repo, j) => AboutHand(q, j)
    BY <2>2 DEF AboutHand
  <2>4. JobsAboutHand(q, win, ended')
    BY <1>3, <2>3 DEF HandInv, JobsAboutHand
  <2>5. Guarded(q, win)
    BY <2>2 DEF HandInv, Guarded
  <2>6. ASSUME NEW f, PromptFits(repo, win, f) PROVE PromptFits(q, win, f)
    BY <2>1, <2>2, <2>3, <2>6 DEF PromptFits, Held
  <2>7. PromptsFit(q, win, stack)
    BY <2>6 DEF HandInv, PromptsFit
  <2>8. EndTells(q, win, ended')
    BY <1>1, <1>4, <2>1 DEF EndTells
  <2> QED
    BY <1>1, <2>4, <2>5, <2>7, <2>8 DEF HandInv
<1> QED
  BY <1>5, <1>6

(* Its answer is delivered.  A box is opened for a commit that would be     *)
(* empty, which only a job that replays commits comes upon.                 *)
LEMMA OnDoneHand ==
  ASSUME IInv, HandInv, OnDone
  PROVE  HandInv'
<1> DEFINE job == win.active
           w == [win EXCEPT !.active = NoJob]
           reloads == job.kind \in Reloading /\ ended.kind # "error"
           note == [what |-> "note", emits |-> TRUE, reloads |-> reloads]
           box == [what |-> "box", emits |-> TRUE, reloads |-> reloads, stop |-> ended.stop]
           clashes == [Looks(repo) EXCEPT !.conflicts = ended.conflicts]
           nothing == [Looks(repo) EXCEPT !.conflicts = {}]
<1>1. /\ ended # NoEnd /\ ended' = NoEnd /\ repo' = repo
      /\ \/ win' = Applied([w EXCEPT !.view = clashes]) /\ stack' = <<note>> \o stack
         \/ /\ win' = Applied([w EXCEPT !.view = nothing]) /\ stack' = <<box>> \o stack
            /\ ended.kind = "empty"
         \/ win' = w /\ stack' = <<note>> \o stack
         \/ win' = AfterSlots(Flagged(w, reloads), repo) /\ stack' = stack
  BY DEF OnDone
<1>2. Core(repo, w, NoEnd)
  BY Delivered DEF IInv
<1>3. Shape(w) /\ NoJob \notin Range(w.queue) /\ WellFormed(repo)
  BY <1>2, QueueOfJobs
<1>4. /\ w.active = NoJob /\ w.queue = win.queue /\ w.view = win.view /\ w.locked = win.locked
  BY DEF IInv, Core, Shape
<1>5. ~Prompts(note) /\ box.what = "box" /\ box.stop = ended.stop /\ reloads \in BOOLEAN
  BY DEF Prompts
<1>6. /\ \A view \in {clashes, nothing} :
           /\ DOMAIN view = {"op", "conflicts", "stop"} /\ view.op \in Operations
           /\ view.conflicts \subseteq Paths
           /\ view.op = repo.op /\ view.stop = Looks(repo).stop
  <2>1. WellFormed(repo) /\ ended.conflicts \subseteq Paths
    BY <1>1 DEF IInv, Core, RepoFits, EndFits
  <2> QED
    BY <2>1 DEF Looks, WellFormed
<1> HIDE DEF w, reloads, note, box, clashes, nothing
<1>7. Steady(repo, win, w) /\ JobsAboutHand(repo, w, NoEnd)
  BY <1>4, NoJobReplays DEF Steady, Single, OnItsWay, Guarded, HandInv, JobsAboutHand
<1>8. ASSUME NEW view \in {clashes, nothing}
      PROVE  /\ Turns(repo, {}, w, Applied([w EXCEPT !.view = view]))
             /\ Steady(repo, w, Applied([w EXCEPT !.view = view]))
  <2> DEFINE v == [w EXCEPT !.view = view]
  <2>1. Shape(v) /\ SameQueue(w, v) /\ v.view = view
    BY <1>3, <1>6, ViewedTurns
  <2> HIDE DEF v
  <2>2. /\ Turns(repo, {}, w, v) /\ Turns(repo, {}, v, Applied(v)) /\ SameQueue(v, Applied(v))
        /\ Applied(v).view = view /\ Applied(v).locked = Busy(v)
    BY <2>1, SameQueueTurns, AppliedTurns
  <2>3. Turns(repo, {}, w, Applied(v))
    BY <2>2, TurnsOn
  <2>4. SameJobs(w, Applied(v)) /\ Busy(v) = Busy(w)
    BY <2>1, <2>2 DEF SameJobs, SameQueue, Busy
  <2>5. Steady(repo, w, Applied(v))
    BY <1>6, <2>2, <2>4, LookedAt
  <2> QED
    BY <2>3, <2>5 DEF v
<1>9. ASSUME Turns(repo, {}, w, win'), Steady(repo, w, win'), PromptsFit(repo, win', stack')
      PROVE  HandInv'
  <2>1. Steady(repo, win, win')
    BY <1>7, <1>9, SteadyOn
  <2>2. Single(win') /\ Guarded(repo, win')
    BY <2>1 DEF Steady, HandInv
  <2>3. JobsAboutHand(repo, win', NoEnd)
    BY <1>2, <1>7, <1>9, HandTurns DEF Core, EndTells
  <2>4. EndTells(repo, win', NoEnd)
    BY DEF EndTells
  <2> QED
    BY <1>1, <1>9, <2>2, <2>3, <2>4 DEF HandInv
<1>10. PromptsFit(repo, w, stack) /\ stack \in Seq(Range(stack))
  BY <1>7, PromptsSteady DEF HandInv, IInv, DialogsFit
<1>11. ASSUME NEW f, stack' = <<f>> \o stack, PromptsFit(repo, win', stack), PromptFits(repo, win', f),
              \/ ~Prompts(f)
              \/ ~OnItsWay(win') /\ \A g \in Range(stack) : ~Prompts(g)
       PROVE  PromptsFit(repo, win', stack')
  <2>1. Range(stack') = Range(stack) \cup {f}
    BY <1>10, <1>11, StackLists
  <2>2. AlonePrompt(stack')
    BY <1>10, <1>11, AloneInStack DEF PromptsFit
  <2> QED
    BY <1>11, <2>1, <2>2 DEF PromptsFit
<1>12. PromptFits(repo, win', note)
  BY <1>5 DEF Prompts, PromptFits, AboutHand, Replaying, Replays
<1>13. CASE win' = Applied([w EXCEPT !.view = clashes]) /\ stack' = <<note>> \o stack
  <2>1. Turns(repo, {}, w, win') /\ Steady(repo, w, win')
    BY <1>8, <1>13
  <2>2. PromptsFit(repo, win', stack)
    BY <1>10, <2>1, PromptsSteady
  <2> QED
    BY <1>5, <1>9, <1>11, <1>12, <1>13, <2>1, <2>2
<1>14. CASE /\ win' = Applied([w EXCEPT !.view = nothing]) /\ stack' = <<box>> \o stack
            /\ ended.kind = "empty"
  <2>1. Turns(repo, {}, w, win') /\ Steady(repo, w, win')
    BY <1>8, <1>14
  <2>2. PromptsFit(repo, win', stack)
    BY <1>10, <2>1, PromptsSteady
  <2>3. Replaying(win.active) /\ InHand(repo, box.stop)
    BY <1>1, <1>5, <1>14 DEF HandInv, EndTells
  <2>4. /\ ~Queued(win.queue) /\ \A g \in Range(stack) : ~Prompts(g)
    BY <2>3 DEF HandInv, Single, PromptsFit, OnItsWay
  <2>5. ~OnItsWay(w)
    BY <1>4, <2>4, NoJobReplays DEF OnItsWay
  <2>6. ~OnItsWay(win')
    BY <2>1, <2>5 DEF Steady
  <2>7. PromptFits(repo, win', box)
    BY <1>5, <2>3 DEF PromptFits
  <2> QED
    BY <1>9, <1>11, <1>14, <2>1, <2>2, <2>4, <2>6, <2>7
<1>15. CASE win' = w /\ stack' = <<note>> \o stack
  <2>1. Turns(repo, {}, w, win') /\ Steady(repo, w, win')
    BY <1>3, <1>15 DEF Turns, Steady
  <2> QED
    BY <1>5, <1>9, <1>10, <1>11, <1>12, <1>15, <2>1
<1>16. CASE win' = AfterSlots(Flagged(w, reloads), repo) /\ stack' = stack
  <2> DEFINE u == Flagged(w, reloads)
  <2>1. Turns(repo, {}, w, u) /\ Steady(repo, w, u) /\ Shape(u) /\ SameJobs(w, u)
    BY <1>3, <1>5, FlaggedTurns, FlaggedSteady
  <2>2. win' = AfterSlots(u, repo)
    BY <1>16
  <2> HIDE DEF u
  <2>3. Single(u)
    BY <1>7, <2>1 DEF Steady, HandInv
  <2>4. Turns(repo, {}, u, win') /\ Steady(repo, u, win')
    BY <1>3, <2>1, <2>2, <2>3, AfterSlotsTurns, AfterSlotsSteady DEF SameJobs
  <2>5. Turns(repo, {}, w, win') /\ Steady(repo, w, win')
    BY <2>1, <2>4, TurnsOn, SteadyOn
  <2>6. PromptsFit(repo, win', stack')
    BY <1>10, <1>16, <2>5, PromptsSteady
  <2> QED
    BY <1>9, <2>5, <2>6
<1> QED
  BY <1>1, <1>13, <1>14, <1>15, <1>16

(* The window opens.                                                        *)
LEMMA InitHand ==
  ASSUME Init
  PROVE  HandInv
<1>1. /\ ended = NoEnd /\ stack = <<>> /\ win.active = NoJob /\ win.queue = <<>>
      /\ win.view = Looks(repo) /\ win.locked = FALSE
  BY DEF Init
<1>2. Range(<<>>) = {} /\ DOMAIN <<>> = {}
  BY DEF Range
<1>3. Single(win) /\ ~OnItsWay(win)
  BY <1>1, <1>2, NoJobReplays DEF Single, Alone, OnItsWay, Queued
<1>4. Guarded(repo, win)
  BY <1>1, <1>3 DEF Guarded, InHand, Looks
<1>5. JobsAboutHand(repo, win, ended) /\ EndTells(repo, win, ended)
  BY <1>1, <1>2, NoJobReplays DEF JobsAboutHand, EndTells
<1>6. PromptsFit(repo, win, stack)
  BY <1>1, <1>2, NoPromptsFit
<1> QED
  BY <1>3, <1>4, <1>5, <1>6 DEF HandInv

(* Every step keeps it.                                                     *)
LEMMA NextHand ==
  ASSUME IInv, HandInv, [Next]_vars
  PROVE  HandInv'
<1>1. CASE UserActs
  <2>1. ASSUME NEW b \in Sources,
               \/ StartsMerge(b) \/ ChecksOut(b) \/ ConfirmsDelete(b)
               \/ StartsRebase(b) \/ StartsPlan(b)
        PROVE  HandInv'
    BY <2>1, MenusHand
  <2>2. ASSUME NEW c \in Picked,
               \/ \E op \in {"cherry_pick", "revert"} : StartsPick(op, c)
               \/ \E how \in {"soft", "mixed", "hard"} : StartsReset(how, c)
        PROVE  HandInv'
    BY <2>2, PickHand, PanelsHand
  <2>3. CASE Continues \/ AsksToSkip \/ AsksToAbort
    BY <2>3, BannerHand
  <2>4. CASE \/ \E amend \in BOOLEAN : CommitRequested(amend)
             \/ NewBranch \/ Unstages \/ Discards \/ \E p \in Paths \cup {"other"} : Stages(p)
    BY <2>4, PanelsHand
  <2>5. CASE \E side \in {"ours", "theirs", "lines"}, edited \in BOOLEAN : Resolves(side, edited)
    BY <2>5, ConflictsHand
  <2>6. CASE Reloads \/ Edits \/ Pulls
    BY <2>6, LookingHand
  <2> QED
    BY <1>1, <2>1, <2>2, <2>3, <2>4, <2>5, <2>6 DEF UserActs
<1>2. CASE DialogCloses
  BY <1>2, DialogsHand
<1>3. CASE PullFails \/ FinishPull
  BY <1>3, LookingHand
<1>4. CASE \E p \in Paths : DetailReady(p)
  BY <1>4, ConflictsHand
<1>5. CASE \E out \in IF win.active = NoJob THEN {} ELSE Work(win.active, repo) \cup Refused(repo) :
             JobEnds(out)
  <2>1. win.active # NoJob
    BY <1>5
  <2>2. PICK out \in Work(win.active, repo) \cup Refused(repo) : JobEnds(out)
    BY <1>5, <2>1
  <2> QED
    BY <2>1, <2>2, JobEndsHand
<1>6. CASE OnDone
  BY <1>6, OnDoneHand
<1>7. CASE UNCHANGED vars
  BY <1>7 DEF vars, HandInv
<1> QED
  BY <1>1, <1>2, <1>3, <1>4, <1>5, <1>6, <1>7 DEF Next

(* At most one job that replays commits, or one dialog that may lead to     *)
(* one, is ever on its way, and what it is about is the commit in hand.     *)
THEOREM HandInvariant == Spec => []HandInv
<1>1. Init => HandInv
  BY InitHand
<1>2. IInv /\ HandInv /\ [Next]_vars => HandInv'
  BY NextHand
<1> QED
  BY <1>1, <1>2, HistoryInvariant, PTL DEF Spec

(* Skipping drops the commit the user was told about, and no other: the     *)
(* buttons are locked from the moment it is submitted until the window has  *)
(* looked again (`_apply_operation_state`), and a box stands for the commit *)
(* its own job stopped at (`_enter_would_be_empty`).                        *)
THEOREM SkipIsAsAsked == Spec => SkippedAsAsked
<1>1. ASSUME HandInv, Runs({"skip"}), NEW c, repo.inHand, repo.todo[1] = c
      PROVE  win.active.about = c
  <2>1. ended = NoEnd /\ win.active.kind = "skip"
    BY <1>1 DEF Runs
  <2> QED
    BY <1>1, <2>1 DEF HandInv, JobsAboutHand, AboutHand, InHand
<1>2. HandInv /\ [Next]_vars =>
        [\A c \in DOMAIN repo.commits :
           /\ Runs({"skip"})
           /\ repo.inHand /\ repo.todo[1] = c
           /\ repo' # repo
           => win.active.about = c]_vars
  BY <1>1
<1> QED
  BY <1>2, HandInvariant, PTL DEF Spec, SkippedAsAsked

-------------------------------------------------------------------------------
(* No commit gets lost.                                                     *)

(* What is owed is in HEAD or in the list.                                  *)
Due(r, o) == o \subseteq IF r.op = "rebase" THEN Bears(r) ELSE {}

OwedInv == Due(repo, owed) /\ lost = {}

(* Under a rebase every job but one that skips or aborts brings over what   *)
(* there is to bring over.                                                  *)
LEMMA OthersBring ==
  ASSUME NEW r, RepoFits(r), r.op = "rebase", NEW job, IsJob(job, r), job.kind \notin {"skip", "abort"},
         NEW o \in Work(job, r)
  PROVE  Brings(r, o.repo)
<1>1. WellFormed(r) /\ RepoFits(r)
  BY DEF RepoFits
<1>2. ASSUME o.repo = r \/ \E branch : AsExpected(r, branch) PROVE Brings(r, o.repo)
  BY <1>1, <1>2, NothingMoves DEF AsExpected, QuietRepository
<1>3. o \in Refused(r) => o.repo = r
  BY DEF Refused, Result
<1>4. CASE job.kind \in {"merge", "rebase", "plan"}
  <2>1. \/ o \in Refused(r)
        \/ /\ r.tip[job.source] # Nobody
           /\ \/ o \in Merge(r, r.tip[job.source], job.branch)
              \/ o \in Rebase(r, r.tip[job.source], job.branch)
              \/ job.kind = "plan" /\ o \in RebaseInteractive(r, r.tip[job.source], job.keep, job.branch)
    BY <1>4 DEF Work
  <2>2. r.tip[job.source] # Nobody => r.tip[job.source] \in DOMAIN r.commits
    BY <1>1, <1>4 DEF IsJob, WellFormed
  <2>3. job.kind = "plan" => job.keep \in Seq(DOMAIN r.commits)
    BY DEF IsJob
  <2> QED
    BY <1>1, <1>2, <1>3, <2>1, <2>2, <2>3, MergeOutcome, RebaseOutcome, RebaseInteractiveOutcome
<1>5. CASE job.kind \in Pulling
  <2>1. \/ o \in Merge(r, Upstream[job.of], job.branch)
        \/ o \in FastForward(r, Upstream[job.of], job.branch)
    BY <1>5 DEF Work, Pulling
  <2>2. Upstream[job.of] \in DOMAIN Past
    BY <1>5, SequencerAssumption DEF IsJob
  <2>3. Upstream[job.of] \in DOMAIN r.commits
    BY <2>2, PastIsThere
  <2> QED
    BY <1>1, <1>2, <2>1, <2>3, MergeOutcome, FastForwardOutcome
<1>6. CASE job.kind \in {"pick", "reset"}
  <2>1. \/ /\ o \in PickOne(r, job.op, job.commit, job.branch)
           /\ job.op \in {"cherry_pick", "revert"}
        \/ /\ o \in ResetTo(r, job.commit, job.how, job.branch)
           /\ job.how \in {"soft", "mixed", "hard"}
    BY <1>6 DEF Work, IsJob
  <2>2. job.commit \in DOMAIN r.commits
    BY <1>6, PastIsThere DEF IsJob
  <2> QED
    BY <1>1, <1>2, <2>1, <2>2, PickOneOutcome, ResetOutcome
<1>7. CASE job.kind \in {"continue", "keep", "commit", "amend"}
  <2>1. \/ o \in Continue(r) \/ o \in KeepEmpty(r)
        \/ o \in CreateCommit(r, FALSE) \/ o \in CreateCommit(r, TRUE)
    BY <1>7 DEF Work
  <2>2. TRUE \in BOOLEAN /\ FALSE \in BOOLEAN
    OBVIOUS
  <2> QED
    BY <1>1, <2>1, <2>2, ContinueBrings, KeepBrings, CreateCommitBrings
<1>8. CASE job.kind \in {"branch", "checkout", "delete", "stage", "unstage", "discard", "resolve"}
  <2>1. \/ o \in CreateBranch(r, job.source) \/ o \in CheckoutBranch(r, job.source)
        \/ o \in DeleteBranch(r, job.source)
        \/ o \in StageFile(r, job.path) \/ o \in UnstageFile(r) \/ o \in DiscardFile(r)
        \/ job.kind = "resolve" /\ o \in ResolveConflict(r, job.path, job.side)
    BY <1>8 DEF Work
  <2>2. job.kind = "resolve" => job.side \in {"ours", "theirs", "lines"}
    BY DEF IsJob
  <2>3. LeavesTask(r, o.repo)
    BY <1>1, <2>1, <2>2, LeavesElsewhere
  <2>4. WellFormed(o.repo)
    <3>1. CASE job.kind = "checkout"
      <4>1. o \in CheckoutBranch(r, job.source) /\ job.source \in Branches
        BY <3>1 DEF Work, IsJob
      <4> QED
        BY <1>1, <4>1, CheckoutBranchOutcome
    <3>2. CASE job.kind # "checkout"
      <4>1. Ran(job, r, o)
        BY <1>1, <1>8, <3>2, BranchRuns, FilesRun
      <4> QED
        BY <4>1 DEF Ran, RepoFits
    <3> QED
      BY <3>1, <3>2
  <2> QED
    BY <1>1, <2>3, <2>4, NothingMoves DEF LeavesTask, Sequencers
<1> QED
  BY <1>4, <1>5, <1>6, <1>7, <1>8 DEF IsJob, JobKinds, Pulling

(* What a job that has run leaves of what is owed: in HEAD, or in the list  *)
(* as long as the rebase is under way.                                      *)
LEMMA OwedIsSafe ==
  ASSUME NEW r, RepoFits(r), NEW job, IsJob(job, r), NEW o \in Work(job, r) \cup Refused(r),
         Due(r, owed)
  PROVE  Owes(job, r, o) \subseteq Safe(o.repo)
<1> DEFINE changes(C) == UNION {r.commits[c].of : c \in C}
           copied == IF job.kind = "plan" THEN Range(job.keep)
                     ELSE {c \in Range(RebaseTodo(r, r.tip[job.source])) : ~IsMergeCommit(r, c)}
           begins == job.kind \in {"rebase", "plan"} /\ r.op = "none" /\ o.repo # r
           skips == job.kind = "skip" /\ o.repo # r /\ r.op = "rebase" /\ r.inHand
           aborts == job.kind = "abort" /\ o.repo # r
<1>1. WellFormed(r)
  BY DEF RepoFits
<1>2. Owes(job, r, o) = CASE begins -> changes(copied) \ changes(o.left)
                          [] skips -> owed \ changes({Head(r.todo)})
                          [] aborts -> {}
                          [] OTHER -> owed
  BY Zenon DEF Owes
<1>3. CASE begins
  <2>1. o \in Work(job, r)
    BY <1>3 DEF Refused, Result
  <2>2. r.tip[job.source] # Nobody /\ r.tip[job.source] \in DOMAIN r.commits
    <3>1. r.tip[job.source] # Nobody
      <4>1. r.tip[job.source] = Nobody => o \in Refused(r)
        BY <1>3, <2>1 DEF Work
      <4>2. o \notin Refused(r)
        BY <1>3 DEF Refused, Result
      <4> QED
        BY <4>1, <4>2
    <3> QED
      BY <1>1, <1>3, <3>1 DEF IsJob, WellFormed
  <2>3. CASE job.kind = "rebase"
    <3>1. o \in Rebase(r, r.tip[job.source], job.branch)
      BY <2>1, <2>2, <2>3 DEF Work
    <3>2. changes(copied) \ changes(o.left) \subseteq Safe(o.repo)
      BY <1>1, <1>3, <2>2, <2>3, <3>1, RebaseBrings
    <3> QED
      BY <1>2, <1>3, <3>2
  <2>4. CASE job.kind = "plan"
    <3>1. o \in RebaseInteractive(r, r.tip[job.source], job.keep, job.branch)
          /\ job.keep \in Seq(DOMAIN r.commits)
      BY <2>1, <2>2, <2>4 DEF Work, IsJob
    <3>2. changes(copied) \subseteq Safe(o.repo)
      BY <1>1, <1>3, <2>2, <2>4, <3>1, PlanBrings
    <3> QED
      BY <1>2, <1>3, <3>2
  <2> QED
    BY <1>3, <2>3, <2>4
<1>4. CASE skips
  <2>1. o \in Skip(r)
    BY <1>4 DEF Work, Refused, Result
  <2>2. Bears(r) \ r.commits[Head(r.todo)].of \subseteq Safe(o.repo)
    BY <1>1, <1>4, <2>1, SkipBrings DEF GivenUp
  <2>3. changes({Head(r.todo)}) = r.commits[Head(r.todo)].of
    OBVIOUS
  <2>4. Owes(job, r, o) = owed \ changes({Head(r.todo)})
    BY <1>2, <1>4
  <2> HIDE DEF changes
  <2> QED
    BY <1>4, <2>2, <2>3, <2>4 DEF Due
<1>5. CASE aborts
  BY <1>2, <1>5
<1>6. CASE ~begins /\ ~skips /\ ~aborts
  <2>1. Owes(job, r, o) = owed
    BY <1>2, <1>6
  <2>2. CASE r.op # "rebase"
    BY <2>1, <2>2 DEF Due
  <2>3. CASE r.op = "rebase"
    <3>1. owed \subseteq Bears(r)
      BY <2>3 DEF Due
    <3>2. CASE o.repo = r
      BY <2>1, <2>3, <3>1, <3>2 DEF Safe
    <3>3. CASE o.repo # r /\ job.kind = "skip"
      <4>1. o \in Skip(r) /\ ~r.inHand
        BY <1>6, <2>3, <3>3 DEF Work, Refused, Result
      <4>2. Bears(r) \subseteq Safe(o.repo)
        BY <1>1, <2>3, <4>1, SkipBrings DEF GivenUp
      <4> QED
        BY <2>1, <3>1, <4>2
    <3>4. CASE o.repo # r /\ job.kind \notin {"skip", "abort"}
      <4>1. o \in Work(job, r)
        BY <3>4 DEF Refused, Result
      <4>2. Bears(r) \subseteq Safe(o.repo)
        BY <2>3, <3>4, <4>1, OthersBring DEF Brings, Safe
      <4> QED
        BY <2>1, <3>1, <4>2
    <3> QED
      BY <1>6, <3>2, <3>3, <3>4
  <2> QED
    BY <2>2, <2>3
<1> QED
  BY <1>3, <1>4, <1>5, <1>6

(* At the start all is owed that the list has.                              *)
LEMMA InitOwed ==
  ASSUME Init
  PROVE  OwedInv
BY DEF Init, OwedInv, Due, Bears, Pending

(* A step that leaves HEAD's commit and the list where they are.            *)
LEMMA EditsOwed ==
  ASSUME IInv, OwedInv, Edits
  PROVE  OwedInv'
<1>1. /\ repo' = [repo EXCEPT !.dirty = TRUE] /\ owed' = owed /\ lost' = lost
  BY DEF Edits
<1>2. WellFormed(repo) /\ WellFormed(repo')
  BY EditsKeep DEF IInv, Core, RepoFits
<1>3. /\ repo'.commits = repo.commits /\ repo'.at = repo.at /\ repo'.todo = repo.todo
      /\ repo'.op = repo.op
  BY <1>1, <1>2 DEF WellFormed
<1>4. Bears(repo') = Bears(repo)
  BY <1>2, <1>3, HoldsAlike DEF Bears, Pending
<1> QED
  BY <1>1, <1>3, <1>4 DEF OwedInv, Due

(* A job that ends.                                                         *)
LEMMA JobEndsOwed ==
  ASSUME IInv, OwedInv, win.active # NoJob,
         NEW out \in Work(win.active, repo) \cup Refused(repo), JobEnds(out)
  PROVE  OwedInv'
<1> DEFINE due == Owes(win.active, repo, out)
<1>1. /\ ended = NoEnd /\ repo' = out.repo
      /\ owed' = IF out.repo.op = "rebase" THEN due ELSE {}
      /\ lost' = IF out.repo.op = "rebase" \/ out.kind = "error" THEN {} ELSE due \ Holds(out.repo)
  BY DEF JobEnds
<1>2. RepoFits(repo) /\ IsJob(win.active, repo)
  BY DEF IInv, Core, JobsFit
<1>3. due \subseteq Safe(out.repo)
  BY <1>2, OwedIsSafe DEF OwedInv
<1> HIDE DEF due
<1>4. lost' = {}
  BY <1>1, <1>3 DEF Safe
<1>5. Due(repo', owed')
  BY <1>1, <1>3 DEF Due, Safe
<1> QED
  BY <1>4, <1>5 DEF OwedInv

(* Every step keeps what is owed within reach.                              *)
LEMMA NextOwed ==
  ASSUME IInv, OwedInv, [Next]_vars
  PROVE  OwedInv'
<1>1. CASE Edits
  BY <1>1, EditsOwed
<1>2. CASE repo' = repo /\ owed' = owed /\ lost' = lost
  BY <1>2 DEF OwedInv
<1>3. CASE /\ win.active # NoJob
           /\ \E out \in Work(win.active, repo) \cup Refused(repo) : JobEnds(out)
  BY <1>3, JobEndsOwed
<1> QED
  BY <1>1, <1>2, <1>3, OnlyJobsChange

(* What a rebase still owes is in HEAD's history or in its list.            *)
THEOREM OwedInvariant == Spec => []OwedInv
<1>1. Init => OwedInv
  BY InitOwed
<1>2. IInv /\ OwedInv /\ [Next]_vars => OwedInv'
  BY NextOwed
<1> QED
  BY <1>1, <1>2, HistoryInvariant, PTL DEF Spec

(* No commit gets lost in a rebase, however often it stops, is continued,   *)
(* skipped or cut off, and whatever is committed meanwhile.                 *)
THEOREM NoCommitIsLost == Spec => []NothingLost
<1>1. OwedInv => NothingLost
  BY DEF OwedInv, NothingLost
<1> QED
  BY <1>1, OwedInvariant, PTL

===============================================================================
