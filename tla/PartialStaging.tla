---------------------------- MODULE PartialStaging ----------------------------
(***************************************************************************)
(* Staging and unstaging some lines of one file                             *)
(* (infrastructure/local_engine.py: file_patch, stage_partial,              *)
(* unstage_partial, _apply_synthesized).                                    *)
(*                                                                         *)
(* A file has three versions: in HEAD, in the index and in the working      *)
(* tree.  HEAD and the working tree stand still here, and the user moves    *)
(* lines between them by way of the index, any number of times.  The diff   *)
(* and the application of a patch are libgit2's.                            *)
(***************************************************************************)
EXTENDS PatchSynthesis, Functions

CONSTANTS
  MaxLines, \* bound on the lines of HEAD and of the working tree together
  Context   \* the lines of context around a change (3 in the program)

ASSUME PartialStagingAssumption == MaxLines \in Nat /\ Context \in Nat \ {0}

VARIABLES
  file,     \* the lines of HEAD and of the working tree, in the order of the diff
  tracked,  \* the sides, of HEAD and the working tree, that have the file
  index     \* the version in the index

stagingVars == <<file, tracked, index>>

(* A line of `file` has its text, which no other line has, its newline, and *)
(* the sides it is on.                                                      *)
TextOf(l) == [text |-> l.text, ends |-> l.ends]
FileLines == [i \in DOMAIN file |-> TextOf(file[i])]

(* The lines of a set, in the order of the diff.                            *)
InOrder(lines) == Picked(FileLines, {i \in DOMAIN file : FileLines[i] \in lines})

Side(s) ==
  [present |-> s \in tracked,
   lines |-> Picked(FileLines, {i \in DOMAIN file : s \in file[i].sides})]

HeadSide == Side("head")
WorkSide == Side("work")

(* The diff of two versions: the lines they share are context, and of a     *)
(* change the deletions come first.                                         *)
Diff(old, new) ==
  LET all == InOrder(Range(old.lines) \cup Range(new.lines))
      Origin(t) == IF t \notin Range(new.lines) THEN "-"
                   ELSE IF t \notin Range(old.lines) THEN "+" ELSE " "
  IN [p \in DOMAIN all |-> [origin |-> Origin(all[p]), line |-> all[p]]]

(* A line has two places, the second for the marker if it needs one.        *)
WithMarkers(lines) ==
  LET Places == {q \in 1..2 * Len(lines) : q % 2 = 1 \/ ~lines[q \div 2].line.ends}
  IN Picked([q \in 1..2 * Len(lines) |->
               IF q % 2 = 1 THEN lines[(q + 1) \div 2]
               ELSE [origin |-> "eofnl", line |-> lines[q \div 2].line]], Places)

(* The hunks of a diff: the changes with their context; two stretches that  *)
(* touch are one hunk.                                                      *)
Near(diff, p) == \E c \in DOMAIN diff : IsChange(diff[c]) /\ p \in c - Context..c + Context
Begins(diff) == {p \in DOMAIN diff : Near(diff, p) /\ (p = 1 \/ ~Near(diff, p - 1))}
EndOf(diff, a) ==
  CHOOSE b \in a..Len(diff) :
    (\A p \in a..b : Near(diff, p)) /\ (b = Len(diff) \/ ~Near(diff, b + 1))

Hunk(diff, a) ==
  LET On(from, to, other) == Cardinality({p \in from..to : diff[p].origin # other})
      Start(other) == On(1, a - 1, other) + (IF On(a, EndOf(diff, a), other) = 0 THEN 0 ELSE 1)
  IN [oldStart |-> Start("+"), newStart |-> Start("-"),
      lines |-> WithMarkers(SubSeq(diff, a, EndOf(diff, a)))]

Hunks(diff) == Picked([a \in DOMAIN diff |-> Hunk(diff, a)], Begins(diff))

(* file_patch: of what is staged (HEAD to index), or of what is not.        *)
FilePatch(staged, ix) ==
  LET old == IF staged THEN HeadSide ELSE ix
      new == IF staged THEN ix ELSE WorkSide
  IN [isNew |-> ~old.present, isDeleted |-> ~new.present, hunks |-> Hunks(Diff(old, new))]

Keys(patch) ==
  UNION {{<<h, i>> : i \in {j \in DOMAIN patch.hunks[h].lines : IsChange(patch.hunks[h].lines[j])}}
           : h \in DOMAIN patch.hunks}

(* A patch line without newline has to carry the marker, or libgit2 takes   *)
(* what follows for the same line.                                          *)
Read(body, other) ==
  Picked([i \in DOMAIN body |-> [text |-> body[i].line.text, ends |-> ~body[i].marked]],
         {i \in DOMAIN body : body[i].op # other})

Failure == [present |-> FALSE, lines |-> <<[text |-> 0, ends |-> TRUE]>>]

(* A hunk goes where its numbers say, on the lines it names, in the index   *)
(* and in what the hunks before it have made of it.                         *)
At(h) == IF h.newStart = 0 THEN 0 ELSE h.newStart - 1

Fits(lines, h, ix) ==
  LET old == Read(h.body, "+")
      from == h.oldStart - (IF old = <<>> THEN 0 ELSE 1)
      Names(text, n) == n + Len(old) <= Len(text) /\ SubSeq(text, n + 1, n + Len(old)) = old
  IN Names(lines, At(h)) /\ Names(ix.lines, from)

ApplyHunk(lines, h, ix) ==
  IF lines = Failure.lines \/ ~Fits(lines, h, ix) THEN Failure.lines
  ELSE SubSeq(lines, 1, At(h)) \o Read(h.body, "-")
         \o SubSeq(lines, At(h) + OldCount(h.body) + 1, Len(lines))

(* Repository.apply(INDEX): the hunks in turn; a header that deletes the    *)
(* file is final.                                                           *)
Apply(patch, ix) ==
  LET applied[n \in 0..Len(patch.hunks)] ==
        IF n = 0 THEN ix.lines ELSE ApplyHunk(applied[n - 1], patch.hunks[n], ix)
      after == applied[Len(patch.hunks)]
  IN IF after = Failure.lines \/ patch.isNew = ix.present THEN Failure
     ELSE IF patch.isDeleted THEN [present |-> FALSE, lines |-> <<>>]
     ELSE [present |-> TRUE, lines |-> after]

(* _apply_synthesized: the index afterwards.  A refusal of synthesize_patch *)
(* and one of libgit2 both leave it as it was.                              *)
Applied(patch, selected, reverse, ix) ==
  LET synthesized == Synthesize(patch, selected, reverse)
  IN IF synthesized.refused THEN ix
     ELSE LET after == Apply(synthesized, ix) IN IF after = Failure THEN ix ELSE after

-----------------------------------------------------------------------------
(* The lines of a file to begin with: each on the sides it may be on, with  *)
(* the deletions of a change before its additions; the last line of a side  *)
(* may lack its newline.                                                    *)
Files ==
  LET Shapes(n) == {f \in [1..n -> {{"head"}, {"work"}, {"head", "work"}}] :
                      \A i \in 1..n - 1 : ~(f[i] = {"work"} /\ f[i + 1] = {"head"})}
      MayLack(f, i) == \A s \in f[i] : \A j \in DOMAIN f : s \in f[j] => j <= i
      Endings(f) == {e \in [DOMAIN f -> BOOLEAN] : \A i \in DOMAIN f : e[i] \/ MayLack(f, i)}
  IN UNION {UNION {{[i \in 1..n |-> [text |-> i, sides |-> f[i], ends |-> e[i]]] : e \in Endings(f)}
                     : f \in Shapes(n)} : n \in 1..MaxLines}

(* A file is unchanged to begin with: the index is as HEAD.                 *)
StagingInit ==
  /\ file \in Files
  /\ tracked \in SUBSET {"head", "work"}
  /\ \A i \in DOMAIN file : file[i].sides \subseteq tracked
  /\ index = HeadSide

(* A line is glued to the one after it.  The file then has other lines than *)
(* `file` says, and the model goes no further.                              *)
Glued(ix) == \E i \in 1..Len(ix.lines) - 1 : ~ix.lines[i].ends

(* The user picks lines of the patch and stages them.                       *)
StagePartial(selected) ==
  /\ ~Glued(index)
  /\ index' = Applied(FilePatch(FALSE, index), selected, FALSE, index)
  /\ UNCHANGED <<file, tracked>>

(* The user picks lines of the staged patch and takes them back.            *)
UnstagePartial(selected) ==
  /\ ~Glued(index)
  /\ index' = Applied(FilePatch(TRUE, index), selected, TRUE, index)
  /\ UNCHANGED <<file, tracked>>

StagingNext ==
  \/ \E selected \in SUBSET Keys(FilePatch(FALSE, index)) : StagePartial(selected)
  \/ \E selected \in SUBSET Keys(FilePatch(TRUE, index)) : UnstagePartial(selected)

StagingSpec == StagingInit /\ [][StagingNext]_stagingVars
-----------------------------------------------------------------------------
(* A choice of lines of the staged patch, or of the other.                  *)
ForEveryChoice(Holds(_, _, _)) ==
  ~Glued(index) =>
    \A staged \in BOOLEAN :
      LET patch == FilePatch(staged, index)
      IN \A selected \in SUBSET Keys(patch) : Holds(patch, selected, staged)

Chosen(patch, selected) == {patch.hunks[k[1]].lines[k[2]].line : k \in selected}

(* The lines in the order of the diff, of the index but for the ones chosen *)
(* in it, and of those chosen that are not in it.                           *)
Exchanged(patch, selected) ==
  LET chosen == Chosen(patch, selected)
      has == Range(index.lines)
  IN InOrder((has \cup chosen) \ (has \cap chosen))

(* The index has lines of the file, in the order of the diff, each at most  *)
(* once, and lines only if the file is in it (local_engine.py:834-940).     *)
StagingTypeOK ==
  /\ file \in Files
  /\ tracked \subseteq {"head", "work"}
  /\ index.present \in BOOLEAN
  /\ index.lines # <<>> => index.present
  /\ index.lines = InOrder(Range(index.lines))

(* patch.py:9-30: whatever is chosen in a patch, staged or not, either the  *)
(* choice is refused or libgit2 accepts the patch made of it, with its      *)
(* numbers, and exactly the lines chosen change: those in the index leave   *)
(* it, those not in it enter, and no other line is touched.                 *)
AppliesAsChosen ==
  ForEveryChoice(LAMBDA patch, selected, staged :
    LET synthesized == Synthesize(patch, selected, staged)
        after == Apply(synthesized, index)
    IN ~synthesized.refused => after # Failure /\ after.lines = Exchanged(patch, selected))

(* local_engine.py:868-899: all the lines of a patch together are never     *)
(* refused, and take the index to the other side: to the working tree when  *)
(* they are staged, back to HEAD when not; a file that is not there is gone *)
(* from the index as well, and comes back.                                  *)
WholeIsReached ==
  ForEveryChoice(LAMBDA patch, selected, staged :
    selected = Keys(patch) /\ selected # {} =>
      Applied(patch, selected, staged, index) = IF staged THEN HeadSide ELSE WorkSide)

(* patch.py:9 and 431-470: the two directions mirror each other.  Lines     *)
(* staged and then picked again in the staged patch leave the index as it   *)
(* was, the file's entry included, unless one of the two is refused.        *)
UndoneByMirror ==
  ForEveryChoice(LAMBDA patch, selected, staged :
    LET after == Applied(patch, selected, staged, index)
        back == FilePatch(~staged, after)
        same == {k \in Keys(back) : back.hunks[k[1]].lines[k[2]].line \in Chosen(patch, selected)}
    IN after # index /\ ~Glued(after) /\ ~Synthesize(back, same, ~staged).refused
         => Applied(back, same, ~staged, after) = index)

(* Of a block of several deletions one is left out, and an addition that    *)
(* follows them is picked: the old line will stand before the new one,      *)
(* wherever it belongs.                                                     *)
Turned(patch, selected) ==
  \E h \in DOMAIN patch.hunks :
    LET lines == patch.hunks[h].lines
        SameBlock(i, j) == i < j /\ \A k \in i..j : lines[k].origin # " "
        Deletions == {i \in DOMAIN lines : lines[i].origin = "-"}
        Additions == {i \in DOMAIN lines : lines[i].origin = "+"}
    IN \E i, j \in Deletions, k \in Additions :
         /\ i # j /\ SameBlock(i, k) /\ SameBlock(j, k)
         /\ <<h, i>> \notin selected /\ <<h, k>> \in selected

(* patch.py:312-343: a choice that would turn the order of the lines is     *)
(* refused, in a file whose lines all end with a newline.                   *)
OrderNeverTurned ==
  (\A i \in DOMAIN file : file[i].ends) =>
    ForEveryChoice(LAMBDA patch, selected, staged :
      Turned(patch, selected) => Synthesize(patch, selected, staged).refused)

-----------------------------------------------------------------------------
(* What the code says of itself and does not keep.                          *)

(* patch.py:312-326: of a block of several deletions, a choice of only some *)
(* of them together with an addition is refused; a marker does not end a    *)
(* block (patch.py:345-350).                                                *)
TurnedIsRefused ==
  ForEveryChoice(LAMBDA patch, selected, staged :
    Turned(patch, selected) => Synthesize(patch, selected, staged).refused)

(* patch.py:35-36: the index is never spoilt in silence.  Two lines of the  *)
(* file do not become one.                                                  *)
LinesStayApart == ~Glued(index)
===============================================================================
