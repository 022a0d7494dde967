---------------------------- MODULE PatchSynthesis ----------------------------
(***************************************************************************)
(* The patch of a part of a file's changes (domain/patch.py).  A patch of   *)
(* the file is given, and the keys <<hunk, line>> of the lines picked in    *)
(* it; synthesize_patch writes the patch that applies these to the index.   *)
(*                                                                         *)
(* A line of text is [text, ends]: its content, and whether a newline ends  *)
(* it (the last line of a file may lack one).  A line of a patch is         *)
(* [origin, line]; after a line without newline comes its marker, the       *)
(* patch line of origin "eofnl" ("\ No newline at end of file").            *)
(*                                                                         *)
(* A file patch is [isNew, isDeleted, hunks], a hunk [oldStart, newStart,   *)
(* lines] with lines counted from 1.  Binary and renamed files are refused  *)
(* before anything else and left out here.                                  *)
(*                                                                         *)
(* A definition named D_Variant is a wrong version of D, to try the         *)
(* properties on; nothing uses it.                                          *)
(***************************************************************************)
EXTENDS Naturals, Integers, Sequences, FiniteSets

(* The elements of a sequence at the positions S, in order.                 *)
Rank(S, i) == Cardinality({j \in S : j <= i})
Nth(S, k) == CHOOSE i \in S : Rank(S, i) = k
Picked(seq, S) == [k \in 1..Cardinality(S) |-> seq[Nth(S, k)]]

Origins == {" ", "+", "-"}

IsChange(l) == l.origin \in {"+", "-"}
IsMarker(l) == l.origin = "eofnl"

(* The blocks of changes of a hunk: the stretches of changes and markers    *)
(* that begin with a change after a context line.                           *)
ChangeBlocks(lines) ==
  LET Starts == {i \in DOMAIN lines : IsChange(lines[i]) /\ (i = 1 \/ lines[i - 1].origin = " ")}
      Stretch(i) == {j \in i..Len(lines) : \A k \in i..j : lines[k].origin # " "}
  IN {[start |-> i,
       deletions |-> Cardinality({j \in Stretch(i) : lines[j].origin = "-"}),
       additions |-> Cardinality({j \in Stretch(i) : lines[j].origin = "+"})] : i \in Starts}

RejectAmbiguous_AllLeftOut(h, lines, selected) ==
  \E b \in ChangeBlocks(lines) :
    /\ b.deletions > 1
    /\ \A i \in 0..b.deletions - 1 : <<h, b.start + i>> \notin selected
    /\ \E i \in 0..b.additions - 1 : <<h, b.start + b.deletions + i>> \in selected

RejectAmbiguous_Blocks(h, lines, selected) ==
  \E b \in ChangeBlocks(lines) :
    /\ b.deletions > 1
    /\ \E i \in 0..b.additions - 1 : <<h, b.start + b.deletions + i>> \in selected

(* _reject_ambiguous_selection: of several deletions in a row one is left   *)
(* out, and an addition of the same block is picked.  The keys are counted  *)
(* from the start of the block as if no marker were among the lines.        *)
RejectAmbiguous(h, lines, selected) ==
  \E b \in ChangeBlocks(lines) :
    /\ b.deletions > 1
    /\ \E i \in 0..b.deletions - 1 : <<h, b.start + i>> \notin selected
    /\ \E i \in 0..b.additions - 1 : <<h, b.start + b.deletions + i>> \in selected

(* The index has the deletions of the patch that stages, and the additions  *)
(* of the patch that is to be undone.                                       *)
InIndex(l, reverse) == l.origin = IF reverse THEN "+" ELSE "-"

EmitLine_NotMirrored(l, keep, reverse) ==
  IF l.origin = " " \/ (~keep /\ l.origin = "-") THEN " "
  ELSE IF ~keep THEN "dropped"
  ELSE IF InIndex(l, reverse) THEN "-" ELSE "+"

(* What becomes of a line: the operation of the new patch, or "dropped".    *)
EmitLine(l, keep, reverse) ==
  IF l.origin = " " \/ (~keep /\ InIndex(l, reverse)) THEN " "
  ELSE IF ~keep THEN "dropped"
  ELSE IF InIndex(l, reverse) THEN "-" ELSE "+"

(* The body of a hunk: its lines with their operations, each with the       *)
(* marker if the one follows in the source.                                 *)
Body(h, lines, selected, reverse) ==
  LET Emitted(i) == [op |-> EmitLine(lines[i], <<h, i>> \in selected, reverse),
                     line |-> lines[i].line,
                     marked |-> i < Len(lines) /\ IsMarker(lines[i + 1])]
      Kept == {i \in DOMAIN lines : ~IsMarker(lines[i]) /\ Emitted(i).op # "dropped"}
  IN Picked([i \in DOMAIN lines |-> Emitted(i)], Kept)

OldCount(body) == Cardinality({i \in DOMAIN body : body[i].op # "+"})
NewCount(body) == Cardinality({i \in DOMAIN body : body[i].op # "-"})
HasChange(body) == \E i \in DOMAIN body : body[i].op # " "

Numbered_Unshifted(builds) ==
  [i \in DOMAIN builds |->
     [oldStart |-> builds[i].start,
      newStart |-> IF NewCount(builds[i].body) = 0 THEN 0
                   ELSE builds[i].start + (IF OldCount(builds[i].body) = 0 THEN 1 ELSE 0),
      body |-> builds[i].body]]

(* The numbers of the hunks, given the bodies that have changes, in order,  *)
(* each with the start of its hunk on the side of the index.                *)
Numbered(builds) ==
  LET offset[i \in 0..Len(builds)] ==
        IF i = 0 THEN 0
        ELSE offset[i - 1] + NewCount(builds[i].body) - OldCount(builds[i].body)
      NewStart(i) ==
        IF NewCount(builds[i].body) = 0 THEN 0
        ELSE builds[i].start + offset[i - 1] + (IF OldCount(builds[i].body) = 0 THEN 1 ELSE 0)
  IN [i \in DOMAIN builds |->
        [oldStart |-> builds[i].start, newStart |-> NewStart(i), body |-> builds[i].body]]

(* The header takes the file away only if nothing is left of it: libgit2    *)
(* follows the header and not the lines.                                    *)
DeletesEverything(patch, builds) ==
  Len(builds) = Len(patch.hunks) /\ \A i \in DOMAIN builds : NewCount(builds[i].body) = 0

Refused == [refused |-> TRUE]

(* synthesize_patch, with _render.                                          *)
Synthesize(patch, selected, reverse) ==
  LET Build(h) ==
        [start |-> IF reverse THEN patch.hunks[h].newStart ELSE patch.hunks[h].oldStart,
         body |-> Body(h, patch.hunks[h].lines, selected, reverse)]
      builds == Picked([h \in DOMAIN patch.hunks |-> Build(h)],
                       {h \in DOMAIN patch.hunks : HasChange(Build(h).body)})
      deletes == IF reverse THEN patch.isNew ELSE patch.isDeleted
  IN IF \/ \E h \in DOMAIN patch.hunks : RejectAmbiguous(h, patch.hunks[h].lines, selected)
        \/ builds = <<>>
     THEN Refused
     ELSE [refused |-> FALSE,
           isNew |-> IF reverse THEN patch.isDeleted ELSE patch.isNew,
           isDeleted |-> deletes /\ DeletesEverything(patch, builds),
           hunks |-> Numbered(builds)]
===============================================================================
