---------------------------- MODULE StagingProofs ----------------------------
(***************************************************************************)
(* Proofs about DiffPane and PartialStaging.                               *)
(*                                                                         *)
(* DiffPane, for any repositories, commits and files, and any number of    *)
(* requests, edits and jobs.  What the runs check is about a pane that has *)
(* come to rest; the strengthening says what holds on the way there.  At   *)
(* most one answer has the current token, and none once the pane           *)
(* shows it; what it will show is known: _diff_source, and the user's wish *)
(* unless the debounce timer still holds it; and it is younger than every  *)
(* application that has been reported.                                     *)
(*                                                                         *)
(* PartialStaging, for files of any length, changed in any way, and any    *)
(* lines of context but none.  The positions of a diff are the one measure *)
(* of everything: a version is a set of positions, a choice another, and   *)
(* the index afterwards their symmetric difference.  A hunk and its body   *)
(* show a stretch of positions, a number is the rank of a position in a    *)
(* version, and the sum of the offsets the difference of two ranks; so a   *)
(* hunk finds its lines where the ones before it have moved them.          *)
(***************************************************************************)
EXTENDS DiffPane, PartialStaging, FiniteSetTheorems, SequenceTheorems, FunctionTheorems, TLAPS

(* No answer is under way that the pane will take.                          *)
Awaited == {q \in requests : q.token = generation}
PaneIsCurrent == pane # None /\ pane.token = generation

(* The tokens tell the answers apart, and that of the pane from those to    *)
(* come.                                                                    *)
TokensAreFresh ==
  /\ \A p, q \in requests : p.token = q.token => p = q
  /\ pane # None => pane.token <= generation
  /\ PaneIsCurrent => Awaited = {}

(* _diff_source names the change that is shown or will be, and is None for  *)
(* a commit.                                                                *)
Names(what) == source = IF what \in Changes THEN what ELSE None

SourceIsNamed ==
  /\ \A q \in Awaited : Names(q.what)
  /\ PaneIsCurrent => Names(pane.what)

(* A pane that shows an earlier answer is about to be replaced, unless the  *)
(* debounce timer is the one to do it, or a commit could not be read.       *)
OldIsReplaced ==
  /\ pane # None /\ pane.token # generation
  /\ source # None \/ (intent # None /\ ~debounce)
  => Awaited # {}

(* What grants the user's wish is the commit that the debounce timer holds, *)
(* or what is shown or will be.                                             *)
WishIsKept ==
  intent # None =>
    /\ intent.repo = repo
    /\ debounce => sha # None /\ Grants(Whole(sha))
    /\ ~debounce =>
         /\ \A q \in Awaited : q.repo = repo /\ Grants(q.what)
         /\ PaneIsCurrent => pane.repo = repo /\ Grants(pane.what)

(* No application is younger than the patch it left, a job of the window's  *)
(* queue is one of its repository, and one refused has left none.           *)
JobsAreOld ==
  \A j \in DOMAIN jobs :
    /\ jobs[j].after # 0 => jobs[j].after <= patches[jobs[j].repo][jobs[j].change]
    /\ jobs[j].ours => jobs[j].repo = repo
    /\ jobs[j].stage \in {"queued", "refused"} => jobs[j].after = 0

(* What is shown, or was read to be shown, is younger than the applications *)
(* reported.                                                                *)
Fresh(shown, job) == shown.repo = job.repo /\ shown.what = job.change => shown.version >= job.after

NothingStale ==
  \A j \in DOMAIN jobs : jobs[j].stage = "done" /\ jobs[j].after # 0 /\ jobs[j].ours =>
    /\ PaneIsCurrent => Fresh(pane, jobs[j])
    /\ \A q \in Awaited : q.stage = "answered" => Fresh(q, jobs[j])

IInv ==
  /\ TypeOK
 
  /\ TokensAreFresh
  /\ SourceIsNamed
  /\ OldIsReplaced
  /\ WishIsKept
  /\ JobsAreOld
  /\ NothingStale

-------------------------------------------------------------------------------
Requests == [token : 1..generation, repo : Repos, what : Diffs,
             stage : Stages, version : Nat]
Panes == [token : Nat, repo : Repos, what : Diffs, version : Nat]
Jobs == [repo : Repos, ours : BOOLEAN, change : Changes,
         expected : Paths \X Nat, after : Nat, stage : JobStages]

Asked(what) == [token |-> generation', repo |-> repo, what |-> what, stage |-> "running",
                version |-> 0]

(* The jobs are records, of repositories and changes.                       *)
LEMMA JobFacts ==
  ASSUME TypeOK
  PROVE  /\ jobs \in Seq(Jobs)
         /\ \A j \in DOMAIN jobs :
              /\ jobs[j] \in Jobs
              /\ jobs[j].repo \in Repos /\ jobs[j].change \in Changes
<1>1. jobs \in Seq(Jobs)
  BY DEF TypeOK, Jobs
<1>2. \A j \in DOMAIN jobs : jobs[j] \in Jobs
  BY <1>1
<1> QED
  BY <1>1, <1>2 DEF Jobs

(* `_request_diff`: the answer awaited is the new one, and no other.        *)
LEMMA RequestFacts ==
  ASSUME TypeOK, TokensAreFresh, NEW what \in Diffs, Request(what)
  PROVE  /\ generation' = generation + 1 /\ generation' \in Nat
         /\ source' = IF what \in Changes THEN what ELSE None
         /\ requests' \subseteq Requests'
         /\ \A p, q \in requests' : p.token = q.token => p = q
         /\ Awaited' = {Asked(what)}
<1>1. generation \in Nat /\ generation' = generation + 1
  BY DEF TypeOK, Request
<1>2. requests' = Cancelled(requests) \cup {Asked(what)}
  BY DEF Request, Asked
<1>3. Asked(what).token = generation' /\ Asked(what) \in Requests'
  BY <1>1 DEF Asked, Requests, Stages, TypeOK
<1>4. ASSUME NEW q \in Cancelled(requests)
      PROVE  q \in requests /\ q \in Requests' /\ q.token # generation'
  BY <1>1 DEF Cancelled, TypeOK, Requests
<1>5. \A p, q \in requests' : p.token = q.token => p = q
  BY <1>2, <1>3, <1>4 DEF TokensAreFresh
<1>6. Awaited' = {Asked(what)}
  BY <1>2, <1>3, <1>4 DEF Awaited
<1> QED
  BY <1>1, <1>2, <1>3, <1>4, <1>5, <1>6 DEF Request

(* Whatever else the step does, a request that leaves the pane or empties   *)
(* it settles what is shown and awaited.                                    *)
LEMMA RequestKeeps ==
  ASSUME TypeOK, TokensAreFresh, NEW what \in Diffs, Request(what),
         pane' \in {pane, None}
  PROVE  TokensAreFresh' /\ SourceIsNamed' /\ OldIsReplaced' /\ NothingStale' /\ ~PaneIsCurrent'
<1>1. /\ generation' = generation + 1 /\ generation \in Nat
      /\ \A p, q \in requests' : p.token = q.token => p = q
      /\ Awaited' = {Asked(what)}
      /\ source' = IF what \in Changes THEN what ELSE None
  BY RequestFacts DEF TypeOK
<1>2. pane' # None => pane' = pane /\ pane # None /\ pane.token \in Nat /\ pane.token <= generation
  BY DEF TypeOK, TokensAreFresh
<1>3. ~PaneIsCurrent' /\ (pane' # None => pane.token' <= generation')
  BY <1>1, <1>2 DEF PaneIsCurrent
<1>4. Asked(what).what = what /\ Asked(what).stage = "running"
  BY DEF Asked
<1>5. TokensAreFresh'
  BY <1>1, <1>3 DEF TokensAreFresh
<1>6. SourceIsNamed'
  BY <1>1, <1>3, <1>4 DEF SourceIsNamed, Names
<1>7. OldIsReplaced'
  BY <1>1 DEF OldIsReplaced
<1>8. NothingStale'
  BY <1>1, <1>3, <1>4 DEF NothingStale
<1> QED
  BY <1>3, <1>5, <1>6, <1>7, <1>8

(* The pane starts empty, with nothing asked.                               *)
LEMMA FirstIInv ==
  ASSUME Init PROVE IInv
<1>1. TypeOK
  <2>1. repo \in Repos
    BY DiffPaneAssumption DEF Init, DiffPaneAssumption
  <2>2. patches \in [Repos -> [Changes -> Nat]]
    BY DEF Init
  <2>3. jobs \in Seq(Jobs)
    BY DEF Init
  <2> QED
    BY <2>1, <2>2, <2>3 DEF Init, TypeOK, Jobs
<1>2. JobsAreOld /\ NothingStale
  BY DEF Init, JobsAreOld, NothingStale
<1>3. TokensAreFresh /\ SourceIsNamed /\ OldIsReplaced /\ WishIsKept
  BY DEF Init, TokensAreFresh, SourceIsNamed, OldIsReplaced, WishIsKept, Grants, Awaited, PaneIsCurrent
<1> QED
  BY <1>1, <1>2, <1>3 DEF IInv

-------------------------------------------------------------------------------
(* The user's choices, and the timer.                                       *)
LEMMA CommitSelectedKeeps ==
  ASSUME IInv, NEW c \in Commits, OnCommitSelected(c)
  PROVE  IInv'
<1> USE DEF IInv, OnCommitSelected
<1>1. c # None
  BY DiffPaneAssumption DEF DiffPaneAssumption
<1>2. TypeOK'
  BY DEF TypeOK, Wish, Whole, Diffs, CommitDiffs
<1>3. JobsAreOld'
  BY DEF JobsAreOld
<1>4. Awaited' = Awaited /\ (PaneIsCurrent' <=> PaneIsCurrent)
  BY DEF Awaited, PaneIsCurrent
<1>5. TokensAreFresh' /\ SourceIsNamed' /\ NothingStale'
  BY <1>4 DEF TokensAreFresh, SourceIsNamed, Names, NothingStale, Fresh
<1>6. OldIsReplaced'
  BY <1>4 DEF OldIsReplaced
<1>7. WishIsKept'
  BY <1>1 DEF WishIsKept, Grants, Wish
<1> QED
  BY <1>2, <1>3, <1>5, <1>6, <1>7

(* What all requests of the user or the timer have in common: the wish is   *)
(* what is asked for, or the debounce timer's.                              *)
LEMMA AskingKeeps ==
  ASSUME IInv, NEW what \in Diffs, Request(what),
         UNCHANGED <<repo, sha, pane, patches, edits, jobs>>,
         debounce' \in BOOLEAN,
         intent' = intent \/ \E late \in BOOLEAN : intent' = Wish(what, late),
         intent' # None => /\ intent'.repo = repo /\ Grants(what)'
                           /\ debounce' => sha # None /\ Grants(Whole(sha))'
  PROVE  IInv'
<1> USE DEF IInv
<1>1. /\ generation' \in Nat /\ requests' \subseteq Requests'
      /\ source' \in Changes \cup {None}
      /\ Awaited' = {Asked(what)}
  BY RequestFacts
<1>2. TypeOK'
  BY <1>1 DEF TypeOK, Requests, Wish
<1>3. TokensAreFresh' /\ SourceIsNamed' /\ OldIsReplaced' /\ NothingStale' /\ ~PaneIsCurrent'
  BY RequestKeeps
<1>4. JobsAreOld'
  BY DEF JobsAreOld
<1>5. WishIsKept'
  BY <1>1, <1>3 DEF WishIsKept, Grants, Asked
<1> QED
  BY <1>2, <1>3, <1>4, <1>5

(* The timer asks for the commit that the wish is for.                      *)
LEMMA DispatchKeeps ==
  ASSUME IInv, DispatchPendingDiff
  PROVE  IInv'
<1> USE DEF IInv, DispatchPendingDiff
<1>1. CASE sha # None
  <2>1. Whole(sha) \in Diffs /\ Request(Whole(sha))
    BY <1>1 DEF TypeOK, Diffs, CommitDiffs, Whole
  <2>2. intent # None => intent.repo = repo /\ Grants(Whole(sha))
    BY DEF WishIsKept, Grants
  <2>3. Grants(Whole(sha))' <=> Grants(Whole(sha))
    BY DEF Grants
  <2> QED
    BY <2>1, <2>2, <2>3, AskingKeeps
<1>2. CASE sha = None
  <2>1. intent = None
    BY <1>2 DEF WishIsKept, Grants
  <2>2. TypeOK' /\ JobsAreOld' /\ WishIsKept'
    BY <1>2, <2>1 DEF TypeOK, JobsAreOld, WishIsKept, Grants
  <2>3. Awaited' = Awaited /\ (PaneIsCurrent' <=> PaneIsCurrent)
    BY <1>2 DEF Awaited, PaneIsCurrent
  <2>4. TokensAreFresh' /\ SourceIsNamed' /\ NothingStale' /\ OldIsReplaced'
    BY <1>2, <2>1, <2>3
    DEF TokensAreFresh, SourceIsNamed, Names, NothingStale, Fresh, OldIsReplaced
  <2> QED
    BY <2>2, <2>4
<1> QED
  BY <1>1, <1>2

(* A file of the commit is asked for at once.                               *)
LEMMA FileSelectedKeeps ==
  ASSUME IInv, NEW f \in Paths \cup {None}, OnFileSelected(f)
  PROVE  IInv'
<1>1. sha \in Commits /\ <<sha, f>> \in Diffs /\ Request(<<sha, f>>) /\ sha # None
  BY DEF OnFileSelected, IInv, TypeOK, Diffs, CommitDiffs
<1>2. /\ UNCHANGED <<repo, sha, debounce, pane, patches, edits, jobs>>
      /\ debounce \in BOOLEAN
      /\ intent' = Wish(<<sha, f>>, debounce)
  BY DEF OnFileSelected, IInv, TypeOK
<1>3. intent'.repo = repo /\ intent'.what = <<sha, f>> /\ intent'.late = debounce
  BY <1>2 DEF Wish
<1>4. Grants(<<sha, f>>)' /\ (debounce => Grants(Whole(sha))')
  BY <1>2, <1>3 DEF Grants, Whole
<1> QED
  BY <1>1, <1>2, <1>3, <1>4, AskingKeeps

(* A change is asked for at once, and the timer is stopped.                 *)
LEMMA WorkdirDiffRequestedKeeps ==
  ASSUME IInv, NEW c \in Changes, OnWorkdirDiffRequested(c)
  PROVE  IInv'
<1>1. /\ Request(c) /\ UNCHANGED <<repo, sha, pane, patches, edits, jobs>>
      /\ debounce' = FALSE
      /\ intent' = Wish(c, FALSE)
  BY DEF OnWorkdirDiffRequested
<1>2. intent'.repo = repo /\ Grants(c)' /\ c \in Diffs
  BY <1>1 DEF Grants, Wish, Diffs
<1> QED
  BY <1>1, <1>2, AskingKeeps

-------------------------------------------------------------------------------
(* The loaders and their answers.                                           *)
LEMMA LoaderEndsKeeps ==
  ASSUME IInv, NEW q \in requests, LoaderEnds(q)
  PROVE  IInv'
<1> USE DEF IInv
<1>1. PICK stage \in {"answered", "failed"} :
        requests' = (requests \ {q}) \cup
          {[q EXCEPT !.stage = stage,
                     !.version = IF q.what \in Changes THEN patches[q.repo][q.what] ELSE 0]}
  BY DEF LoaderEnds
<1> DEFINE v == IF q.what \in Changes THEN patches[q.repo][q.what] ELSE 0
           e == [q EXCEPT !.stage = stage, !.version = v]
<1>2. q \in Requests
  BY DEF TypeOK, Requests
<1>3. v \in Nat
  BY <1>2 DEF TypeOK, Requests
<1>4. /\ e.token = q.token /\ e.repo = q.repo /\ e.what = q.what
      /\ e.stage = stage /\ e.version = v /\ e \in Requests
  BY <1>2, <1>3 DEF Requests, Stages
<1> HIDE DEF v, e
<1>5. requests' = (requests \ {q}) \cup {e}
  BY <1>1 DEF v, e
<1>6. UNCHANGED <<repo, sha, debounce, source, generation, pane, patches, edits, jobs, intent>>
  BY DEF LoaderEnds
<1>7. TypeOK'
  BY <1>4, <1>5, <1>6 DEF TypeOK, Requests
<1>8. JobsAreOld'
  BY <1>6 DEF JobsAreOld
<1>9. \A p \in Awaited' : \E p0 \in Awaited :
        p.what = p0.what /\ p.repo = p0.repo /\ (p = p0 \/ p = e)
  BY <1>4, <1>5, <1>6 DEF Awaited
<1>10. Awaited # {} => Awaited' # {}
  BY <1>4, <1>5, <1>6 DEF Awaited
<1>11. PaneIsCurrent' <=> PaneIsCurrent
  BY <1>6 DEF PaneIsCurrent
<1>12. TokensAreFresh'
  <2>1. ASSUME NEW a \in requests', NEW b \in requests', a.token = b.token
        PROVE  a = b
    BY <1>4, <1>5, <2>1 DEF TokensAreFresh
  <2>2. PaneIsCurrent' => Awaited' = {}
    BY <1>9, <1>11 DEF TokensAreFresh
  <2> QED
    BY <2>1, <2>2, <1>6 DEF TokensAreFresh
<1>13. SourceIsNamed'
  BY <1>6, <1>9, <1>11 DEF SourceIsNamed, Names
<1>14. OldIsReplaced'
  BY <1>6, <1>10 DEF OldIsReplaced
<1>15. WishIsKept'
  BY <1>6, <1>9, <1>11 DEF WishIsKept, Grants
<1>16. NothingStale'
  <2> SUFFICES ASSUME NEW j \in DOMAIN jobs,
                      jobs[j].stage = "done", jobs[j].after # 0, jobs[j].ours
               PROVE  /\ PaneIsCurrent => Fresh(pane, jobs[j])
                      /\ \A p \in Awaited' : p.stage = "answered" => Fresh(p, jobs[j])
    BY <1>6, <1>11 DEF NothingStale, Fresh
  <2>1. jobs[j].change \in Changes
    BY JobFacts
  <2>2. Fresh(e, jobs[j])
    BY <1>4, <2>1 DEF Fresh, v, JobsAreOld
  <2>3. ASSUME NEW p \in Awaited', p.stage = "answered"
        PROVE  Fresh(p, jobs[j])
    BY <1>9, <2>2, <2>3 DEF NothingStale
  <2> QED
    BY <2>3 DEF NothingStale
<1> QED
  BY <1>7, <1>8, <1>12, <1>13, <1>14, <1>15, <1>16

(* An answer with an old token goes by.                                     *)
LEMMA LateAnswerKeeps ==
  ASSUME IInv, NEW q \in requests, q.token # generation, requests' = requests \ {q},
         UNCHANGED <<repo, sha, debounce, source, generation, pane, patches, edits, jobs, intent>>
  PROVE  IInv'
<1> USE DEF IInv
<1>1. TypeOK' /\ JobsAreOld'
  BY DEF TypeOK, JobsAreOld
<1>2. Awaited' = Awaited /\ (PaneIsCurrent' <=> PaneIsCurrent)
  BY DEF Awaited, PaneIsCurrent
<1>3. TokensAreFresh' /\ SourceIsNamed' /\ OldIsReplaced' /\ WishIsKept' /\ NothingStale'
  BY <1>2 DEF TokensAreFresh, SourceIsNamed, Names, OldIsReplaced, WishIsKept, Grants, NothingStale, Fresh
<1> QED
  BY <1>1, <1>3

(* The answer awaited is shown; it is as young as when it was read.         *)
LEMMA DiffReadyKeeps ==
  ASSUME IInv, NEW q \in requests, OnDiffReady(q)
  PROVE  IInv'
<1> USE DEF IInv
<1>1. UNCHANGED <<repo, sha, debounce, source, generation, patches, edits, jobs, intent>>
  BY DEF OnDiffReady
<1>2. CASE q.token # generation
  BY <1>1, <1>2, LateAnswerKeeps DEF OnDiffReady
<1>3. CASE q.token = generation
  <2>1. requests' = requests \ {q} /\ pane' = Shown(q) /\ q.stage = "answered"
    BY <1>3 DEF OnDiffReady
  <2>2. /\ Shown(q).token = q.token /\ Shown(q).repo = q.repo
        /\ Shown(q).what = q.what /\ Shown(q).version = q.version
        /\ Shown(q) \in Panes
    BY DEF Shown, Panes, TypeOK
  <2>3. q \in Awaited /\ Awaited' = {}
    BY <1>1, <1>3, <2>1 DEF Awaited, TokensAreFresh
  <2>4. TypeOK' /\ JobsAreOld'
    BY <1>1, <2>1, <2>2 DEF TypeOK, Panes, JobsAreOld
  <2>5. TokensAreFresh' /\ SourceIsNamed' /\ OldIsReplaced'
    BY <1>1, <1>3, <2>1, <2>2, <2>3
    DEF TokensAreFresh, SourceIsNamed, Names, OldIsReplaced, PaneIsCurrent, TypeOK
  <2>6. WishIsKept'
    BY <1>1, <2>1, <2>2, <2>3 DEF WishIsKept, Grants
  <2>7. NothingStale'
    <3>1. ASSUME NEW j \in DOMAIN jobs,
                 jobs[j].stage = "done", jobs[j].after # 0, jobs[j].ours
          PROVE  Fresh(pane', jobs[j])
      BY <2>1, <2>2, <2>3, <3>1 DEF NothingStale, Fresh
    <3> QED
      BY <1>1, <2>3, <3>1 DEF NothingStale, Fresh
  <2> QED
    BY <2>4, <2>5, <2>6, <2>7
<1> QED
  BY <1>2, <1>3

(* An error empties the pane, or gives the wish up.                         *)
LEMMA DiffFailedKeeps ==
  ASSUME IInv, NEW q \in requests, OnDiffFailed(q)
  PROVE  IInv'
<1> USE DEF IInv
<1>1. requests' = requests \ {q} /\ UNCHANGED <<repo, sha, debounce, generation, patches, edits, jobs>>
  BY DEF OnDiffFailed
<1>2. CASE q.token # generation
  BY <1>1, <1>2, LateAnswerKeeps DEF OnDiffFailed
<1>3. CASE q.token = generation
  <2>1. q \in Awaited /\ Awaited' = {} /\ ~PaneIsCurrent
    BY <1>1, <1>3 DEF Awaited, TokensAreFresh
  <2>2. CASE source # None
    <3>1. pane' = None /\ source' = None /\ intent' = intent
      BY <1>3, <2>2 DEF OnDiffFailed
    <3>2. TypeOK' /\ JobsAreOld' /\ ~PaneIsCurrent'
      BY <1>1, <3>1 DEF TypeOK, JobsAreOld, PaneIsCurrent
    <3>3. TokensAreFresh' /\ SourceIsNamed' /\ OldIsReplaced' /\ WishIsKept' /\ NothingStale'
      BY <1>1, <2>1, <3>1, <3>2
      DEF TokensAreFresh, SourceIsNamed, OldIsReplaced, WishIsKept, Grants, NothingStale
    <3> QED
      BY <3>2, <3>3
  <2>3. CASE source = None
    <3>1. pane' = pane /\ source' = source /\ intent' = None
      BY <1>3, <2>3 DEF OnDiffFailed
    <3>2. TypeOK' /\ JobsAreOld' /\ ~PaneIsCurrent'
      BY <1>1, <2>1, <3>1 DEF TypeOK, JobsAreOld, PaneIsCurrent
    <3>3. TokensAreFresh' /\ SourceIsNamed' /\ OldIsReplaced' /\ WishIsKept' /\ NothingStale'
      BY <1>1, <2>1, <2>3, <3>1, <3>2
      DEF TokensAreFresh, SourceIsNamed, OldIsReplaced, WishIsKept, Grants, NothingStale
    <3> QED
      BY <3>2, <3>3
  <2> QED
    BY <2>2, <2>3
<1> QED
  BY <1>2, <1>3

-------------------------------------------------------------------------------
(* Repositories, edits and partial applications.                            *)
LEMMA OpenRepositoryKeeps ==
  ASSUME IInv, NEW r \in Repos, OpenRepository(r)
  PROVE  IInv'
<1> USE DEF IInv, OpenRepository
<1>1. requests' \subseteq requests
  BY DEF Cancelled
<1>2. /\ jobs' \in Seq(Jobs)
      /\ DOMAIN jobs' = DOMAIN jobs
      /\ \A j \in DOMAIN jobs :
           /\ jobs'[j].expected = jobs[j].expected
           /\ jobs'[j].after = jobs[j].after /\ jobs'[j].repo = jobs[j].repo
           /\ jobs'[j].change = jobs[j].change /\ jobs'[j].stage = jobs[j].stage
           /\ jobs'[j].ours => r = repo /\ jobs[j].ours
  <2>1. CASE r = repo
    BY <2>1, JobFacts
  <2>2. CASE r # repo
    <3>1. jobs' = [j \in DOMAIN jobs |-> [jobs[j] EXCEPT !.ours = FALSE]]
      BY <2>2
    <3>2. \A j \in DOMAIN jobs :
            /\ [jobs[j] EXCEPT !.ours = FALSE] \in Jobs
            /\ [jobs[j] EXCEPT !.ours = FALSE].ours = FALSE
      BY JobFacts DEF Jobs
    <3>3. jobs' \in Seq(Jobs) /\ DOMAIN jobs' = DOMAIN jobs
      BY <3>1, <3>2, JobFacts
    <3>4. \A j \in DOMAIN jobs :
           LET k == [jobs[j] EXCEPT !.ours = FALSE]
           IN  /\ k.expected = jobs[j].expected
               /\ k.after = jobs[j].after /\ k.repo = jobs[j].repo
               /\ k.change = jobs[j].change /\ k.stage = jobs[j].stage
      BY JobFacts DEF Jobs
    <3> QED
      BY <3>1, <3>2, <3>3, <3>4
  <2> QED
    BY <2>1, <2>2
<1>3. TypeOK'
  BY <1>1, <1>2 DEF TypeOK, Jobs
<1>4. JobsAreOld'
  BY <1>2 DEF JobsAreOld
<1>5. Awaited' \subseteq Awaited /\ ~PaneIsCurrent'
  BY <1>1 DEF Awaited, PaneIsCurrent
<1>6. TokensAreFresh' /\ SourceIsNamed' /\ OldIsReplaced' /\ WishIsKept'
  BY <1>1, <1>5 DEF TokensAreFresh, SourceIsNamed, Names, OldIsReplaced, WishIsKept, Grants
<1>7. CASE r = repo
  <2>1. NothingStale'
    BY <1>5, <1>7 DEF NothingStale, Fresh
  <2> QED
    BY <1>3, <1>4, <1>6, <2>1
<1>8. CASE r # repo
  <2>1. NothingStale'
    BY <1>2, <1>8 DEF NothingStale
  <2> QED
    BY <1>3, <1>4, <1>6, <2>1
<1> QED
  BY <1>7, <1>8

(* A step of the jobs and patches alone, which leaves no job reported that  *)
(* was not.                                                                 *)
LEMMA BesideThePane ==
  ASSUME IInv, TypeOK', JobsAreOld',
         UNCHANGED <<repo, sha, debounce, source, generation, requests, pane, intent>>,
         \A j \in DOMAIN jobs' : jobs'[j].stage = "done" /\ jobs'[j].after # 0 /\ jobs'[j].ours =>
           j \in DOMAIN jobs /\ jobs'[j] = jobs[j]
  PROVE  IInv'
<1> USE DEF IInv
<1>1. Awaited' = Awaited /\ (PaneIsCurrent' <=> PaneIsCurrent)
  BY DEF Awaited, PaneIsCurrent
<1>2. TokensAreFresh' /\ SourceIsNamed' /\ OldIsReplaced' /\ WishIsKept'
  BY <1>1 DEF TokensAreFresh, SourceIsNamed, Names, OldIsReplaced, WishIsKept, Grants
<1>3. NothingStale'
  BY <1>1 DEF NothingStale, Fresh
<1> QED
  BY <1>2, <1>3

(* Patches only get new versions.                                           *)
LEMMA OlderStays ==
  ASSUME TypeOK, JobsAreOld, jobs' = jobs, repo' = repo,
         patches' \in [Repos -> [Changes -> Nat]],
         \A r \in Repos, c \in Changes : patches[r][c] <= patches'[r][c]
  PROVE  JobsAreOld'
<1> SUFFICES ASSUME NEW j \in DOMAIN jobs, jobs[j].after # 0
             PROVE  jobs[j].after <= patches'[jobs[j].repo][jobs[j].change]
  BY DEF JobsAreOld
<1> DEFINE r == jobs[j].repo
           c == jobs[j].change
<1>1. r \in Repos /\ c \in Changes /\ jobs[j].after \in Nat
  BY JobFacts DEF Jobs
<1>2. jobs[j].after <= patches[r][c]
  BY DEF JobsAreOld
<1>3. patches[r][c] \in Nat /\ patches'[r][c] \in Nat /\ patches[r][c] <= patches'[r][c]
  BY <1>1 DEF TypeOK
<1> QED
  BY <1>1, <1>2, <1>3

(* An edit makes a patch younger than every application.                    *)
LEMMA EditKeeps ==
  ASSUME IInv, NEW r \in Repos, NEW c \in Changes, Edit(r, c)
  PROVE  IInv'
<1> USE DEF IInv, Edit
<1>1. /\ patches' \in [Repos -> [Changes -> Nat]]
      /\ \A s \in Repos, d \in Changes : patches[s][d] <= patches'[s][d]
  BY DEF TypeOK
<1>2. TypeOK'
  BY <1>1 DEF TypeOK
<1>3. JobsAreOld'
  BY <1>1, OlderStays
<1> QED
  BY <1>2, <1>3, BesideThePane

(* A fingerprint is a path with a version.                                  *)
LEMMA FingerprintType ==
  ASSUME NEW c \in Changes, NEW n \in Nat PROVE Fingerprint(c, n) \in Paths \X Nat
BY DEF Fingerprint, Changes

(* A job enters the queue; nothing is applied yet.                          *)
LEMMA ApplyPartialKeeps ==
  ASSUME IInv, ApplyPartial
  PROVE  IInv'
<1> USE DEF IInv
<1> DEFINE new == [repo |-> repo, ours |-> TRUE, change |-> source,
                   expected |-> Fingerprint(pane.what, pane.version),
                   after |-> 0, stage |-> "queued"]
<1>1. /\ jobs' = Append(jobs, new)
      /\ UNCHANGED <<repo, sha, debounce, source, generation, requests, pane, patches, edits, intent>>
  BY DEF ApplyPartial
<1>2. new \in Jobs
  <2>1. source \in Changes /\ repo \in Repos
    BY DEF TypeOK, ApplyPartial
  <2>2. pane.what \in Changes /\ pane.version \in Nat
    BY DEF TypeOK, ApplyPartial
  <2>3. Fingerprint(pane.what, pane.version) \in Paths \X Nat
    BY <2>2, FingerprintType
  <2> QED
    BY <2>1, <2>3 DEF Jobs, JobStages
<1>3. new.after = 0 /\ new.stage = "queued" /\ new.repo = repo
  OBVIOUS
<1> HIDE DEF new
<1>4. /\ jobs' \in Seq(Jobs)
      /\ \A j \in DOMAIN jobs' : jobs'[j] = new \/ (j \in DOMAIN jobs /\ jobs'[j] = jobs[j])
  BY <1>1, <1>2, JobFacts
<1>5. TypeOK'
  BY <1>1, <1>4 DEF TypeOK, Jobs
<1>6. JobsAreOld'
  BY <1>1, <1>3, <1>4 DEF JobsAreOld
<1>7. \A j \in DOMAIN jobs' : jobs'[j].stage = "done" => j \in DOMAIN jobs /\ jobs'[j] = jobs[j]
  BY <1>3, <1>4
<1> QED
  BY <1>1, <1>5, <1>6, <1>7, BesideThePane

(* One job changes, the others do not.                                      *)
LEMMA JobMoves ==
  ASSUME TypeOK, NEW j \in DOMAIN jobs, NEW job \in Jobs, jobs' = [jobs EXCEPT ![j] = job]
  PROVE  /\ jobs' \in Seq(Jobs) /\ DOMAIN jobs' = DOMAIN jobs
         /\ jobs'[j] = job
         /\ \A k \in DOMAIN jobs : k # j => jobs'[k] = jobs[k]
BY JobFacts

JobApplied(job, after) ==
  [job EXCEPT !.stage = "applied", !.after = after]

(* What of a job changes when it is applied.                                *)
LEMMA AppliedJob ==
  ASSUME NEW job \in Jobs, NEW after \in Nat
  PROVE  /\ JobApplied(job, after) \in Jobs
         /\ JobApplied(job, after).expected = job.expected
         /\ JobApplied(job, after).after = after
         /\ JobApplied(job, after).stage = "applied"
         /\ JobApplied(job, after).repo = job.repo
         /\ JobApplied(job, after).change = job.change
         /\ JobApplied(job, after).ours = job.ours
BY DEF JobApplied, Jobs, JobStages

(* A job applies its lines to the patch it expects, or is refused.          *)
LEMMA RunPartialKeeps ==
  ASSUME IInv, NEW j \in DOMAIN jobs, RunPartial(j)
  PROVE  IInv'
<1> USE DEF IInv
<1> DEFINE r == jobs[j].repo
           c == jobs[j].change
           applied == JobApplied(jobs[j], patches[r][c] + 1)
           refused == [jobs[j] EXCEPT !.stage = "refused"]
<1>1. /\ r \in Repos /\ c \in Changes /\ jobs[j] \in Jobs
      /\ patches[r][c] \in Nat
  BY JobFacts DEF TypeOK
<1>3. UNCHANGED <<repo, sha, debounce, source, generation, requests, pane, edits, intent>>
  BY DEF RunPartial
<1>4. CASE Fingerprint(c, patches[r][c]) = jobs[j].expected
  <2>1. jobs' = [jobs EXCEPT ![j] = applied]
    BY <1>1, <1>4 DEF RunPartial, JobApplied
  <2>2. patches' = [patches EXCEPT ![r] =
                      [d \in Changes |-> IF d \in BothSides(c) THEN @[d] + 1 ELSE @[d]]]
    BY <1>4 DEF RunPartial
  <2>3. /\ applied \in Jobs /\ applied.expected = jobs[j].expected
        /\ applied.after = patches[r][c] + 1 /\ applied.stage = "applied"
        /\ applied.repo = r /\ applied.change = c /\ applied.ours = jobs[j].ours
    <3> DEFINE after == patches[r][c] + 1
    <3>1. after \in Nat
      BY <1>1
    <3> HIDE DEF after
    <3>2. /\ JobApplied(jobs[j], after) \in Jobs
          /\ JobApplied(jobs[j], after).expected = jobs[j].expected
          /\ JobApplied(jobs[j], after).after = after
          /\ JobApplied(jobs[j], after).stage = "applied"
          /\ JobApplied(jobs[j], after).repo = jobs[j].repo
          /\ JobApplied(jobs[j], after).change = jobs[j].change
          /\ JobApplied(jobs[j], after).ours = jobs[j].ours
      BY <1>1, <3>1, AppliedJob
    <3> QED
      BY <3>2 DEF after
  <2> HIDE DEF applied
  <2>4. /\ jobs' \in Seq(Jobs) /\ DOMAIN jobs' = DOMAIN jobs
        /\ jobs'[j] = applied
        /\ \A k \in DOMAIN jobs : k # j => jobs'[k] = jobs[k]
    BY <2>1, <2>3, JobMoves
  <2>5. /\ patches' \in [Repos -> [Changes -> Nat]]
        /\ \A s \in Repos, d \in Changes : patches[s][d] <= patches'[s][d]
    <3>1. patches[r] \in [Changes -> Nat]
      BY <1>1 DEF TypeOK
    <3> DEFINE moved == [d \in Changes |-> IF d \in BothSides(c) THEN patches[r][d] + 1
                                           ELSE patches[r][d]]
    <3>2. /\ moved \in [Changes -> Nat]
          /\ \A d \in Changes : moved[d] = IF d \in BothSides(c) THEN patches[r][d] + 1
                                           ELSE patches[r][d]
      BY <3>1
    <3>3. patches' = [patches EXCEPT ![r] = moved]
      BY <2>2
    <3> HIDE DEF moved
    <3>4. /\ patches' \in [Repos -> [Changes -> Nat]]
          /\ \A s \in Repos : s # r => patches'[s] = patches[s]
          /\ \A d \in Changes : patches'[r][d] =
               IF d \in BothSides(c) THEN patches[r][d] + 1 ELSE patches[r][d]
      BY <1>1, <3>2, <3>3 DEF TypeOK
    <3>5. ASSUME NEW s \in Repos, NEW d \in Changes PROVE patches[s][d] <= patches'[s][d]
      <4>1. CASE s = r
        BY <3>1, <3>4, <4>1
      <4>2. CASE s # r
        <5>1. patches[s][d] \in Nat
          BY DEF TypeOK
        <5> QED
          BY <3>4, <4>2, <5>1
      <4> QED
        BY <4>1, <4>2
    <3> QED
      BY <3>4, <3>5
  <2>6. patches'[r][c] = patches[r][c] + 1
    BY <1>1, <2>2 DEF BothSides, TypeOK
  <2>7. TypeOK'
    BY <1>3, <2>4, <2>5 DEF TypeOK, Jobs
  <2>9. JobsAreOld'
    <3>1. ASSUME NEW k \in DOMAIN jobs, k # j, jobs[k].after # 0
          PROVE  jobs[k].after <= patches'[jobs[k].repo][jobs[k].change]
      <4>1. /\ jobs[k].repo \in Repos /\ jobs[k].change \in Changes
            /\ jobs[k].after \in Nat
        BY JobFacts DEF Jobs
      <4>2. jobs[k].after <= patches[jobs[k].repo][jobs[k].change]
        BY <3>1 DEF JobsAreOld
      <4>3. /\ patches[jobs[k].repo][jobs[k].change] \in Nat
            /\ patches'[jobs[k].repo][jobs[k].change] \in Nat
            /\ patches[jobs[k].repo][jobs[k].change] <= patches'[jobs[k].repo][jobs[k].change]
        BY <4>1, <2>5 DEF TypeOK
      <4> QED
        BY <4>1, <4>2, <4>3
    <3>2. applied.after <= patches'[applied.repo][applied.change]
      BY <1>1, <2>3, <2>6
    <3>3. \A k \in DOMAIN jobs : /\ jobs[k].ours => jobs[k].repo = repo
                                 /\ jobs[k].stage \in {"queued", "refused"} => jobs[k].after = 0
      BY DEF JobsAreOld
    <3> SUFFICES ASSUME NEW k \in DOMAIN jobs
                 PROVE  /\ jobs'[k].after # 0 =>
                             jobs'[k].after <= patches'[jobs'[k].repo][jobs'[k].change]
                        /\ jobs'[k].ours => jobs'[k].repo = repo
                        /\ jobs'[k].stage \in {"queued", "refused"} => jobs'[k].after = 0
      BY <1>3, <2>4 DEF JobsAreOld
    <3>4. CASE k = j
      BY <2>3, <2>4, <3>2, <3>3, <3>4
    <3>5. CASE k # j
      BY <2>4, <3>1, <3>3, <3>5
    <3> QED
      BY <3>4, <3>5
  <2>10. \A k \in DOMAIN jobs' : jobs'[k].stage = "done" => k \in DOMAIN jobs /\ jobs'[k] = jobs[k]
    BY <2>3, <2>4
  <2> QED
    BY <1>3, <2>7, <2>9, <2>10, BesideThePane
<1>5. CASE Fingerprint(c, patches[r][c]) # jobs[j].expected
  <2>1. jobs' = [jobs EXCEPT ![j] = refused] /\ patches' = patches
    BY <1>1, <1>5 DEF RunPartial
  <2>2. /\ refused \in Jobs /\ refused.expected = jobs[j].expected
        /\ refused.after = jobs[j].after /\ refused.stage = "refused"
        /\ refused.repo = r /\ refused.change = c /\ refused.ours = jobs[j].ours
    BY <1>1 DEF Jobs, JobStages
  <2> HIDE DEF refused
  <2>3. /\ jobs' \in Seq(Jobs) /\ DOMAIN jobs' = DOMAIN jobs
        /\ jobs'[j] = refused
        /\ \A k \in DOMAIN jobs : k # j => jobs'[k] = jobs[k]
    BY <2>1, <2>2, JobMoves
  <2>4. TypeOK'
    BY <1>3, <2>1, <2>3 DEF TypeOK, Jobs
  <2>5. JobsAreOld'
    <3>1. jobs[j].after = 0
      BY DEF RunPartial, JobsAreOld
    <3> QED
      BY <1>3, <2>1, <2>2, <2>3, <3>1 DEF JobsAreOld
  <2>6. \A k \in DOMAIN jobs' : jobs'[k].stage = "done" => k \in DOMAIN jobs /\ jobs'[k] = jobs[k]
    BY <2>2, <2>3
  <2> QED
    BY <1>3, <2>4, <2>5, <2>6, BesideThePane
<1> QED
  BY <1>4, <1>5

(* The result of a job comes in: the pane asks again when it shows the      *)
(* change of the job, and shows another one otherwise.                      *)
LEMMA OnAppliedKeeps ==
  ASSUME IInv, NEW j \in DOMAIN jobs, OnApplied(j)
  PROVE  IInv'
<1> USE DEF IInv
<1> DEFINE c == jobs[j].change
           done == [jobs[j] EXCEPT !.stage = "done"]
<1>1. /\ jobs[j] \in Jobs /\ c \in Changes
      /\ jobs' = [jobs EXCEPT ![j] = done]
      /\ UNCHANGED <<repo, sha, patches, edits>>
  BY JobFacts DEF OnApplied
<1>2. /\ done \in Jobs /\ done.expected = jobs[j].expected
      /\ done.after = jobs[j].after /\ done.stage = "done"
      /\ done.repo = jobs[j].repo /\ done.change = c /\ done.ours = jobs[j].ours
  BY <1>1 DEF Jobs, JobStages
<1> HIDE DEF done
<1>3. /\ jobs' \in Seq(Jobs) /\ DOMAIN jobs' = DOMAIN jobs
      /\ jobs'[j] = done
      /\ \A k \in DOMAIN jobs : k # j => jobs'[k] = jobs[k]
  BY <1>1, <1>2, JobMoves
<1>4. JobsAreOld'
  BY <1>1, <1>2, <1>3 DEF JobsAreOld
<1>5. CASE jobs[j].ours /\ source = c
  <2>1. /\ pane' = None /\ debounce' = FALSE /\ Request(c)
        /\ intent' = Wish(c, FALSE)
    BY <1>5 DEF OnApplied, ReloadAfterPartial
  <2>2. /\ generation' \in Nat /\ requests' \subseteq Requests'
        /\ source' \in Changes \cup {None}
        /\ Awaited' = {Asked(c)}
    BY <1>1, <1>5, <2>1, RequestFacts DEF Diffs
  <2>3. TypeOK'
    BY <1>1, <1>3, <2>1, <2>2 DEF TypeOK, Requests, Jobs, Wish, Diffs
  <2>4. TokensAreFresh' /\ SourceIsNamed' /\ OldIsReplaced' /\ NothingStale' /\ ~PaneIsCurrent'
    BY <1>1, <2>1, RequestKeeps DEF Diffs
  <2>5. WishIsKept'
    BY <1>1, <2>1, <2>2, <2>4 DEF WishIsKept, Grants, Asked, Wish
  <2> QED
    BY <1>4, <2>3, <2>4, <2>5
<1>6. CASE ~(jobs[j].ours /\ source = c)
  <2>1. UNCHANGED <<pane, generation, requests, source, debounce, intent>>
    BY <1>6 DEF OnApplied, ReloadAfterPartial
  <2>2. TypeOK'
    BY <1>1, <1>3, <2>1 DEF TypeOK, Jobs
  <2>3. Awaited' = Awaited /\ (PaneIsCurrent' <=> PaneIsCurrent)
    BY <2>1 DEF Awaited, PaneIsCurrent
  <2>4. TokensAreFresh' /\ SourceIsNamed' /\ OldIsReplaced' /\ WishIsKept'
    BY <1>1, <2>1, <2>3
    DEF TokensAreFresh, SourceIsNamed, Names, OldIsReplaced, WishIsKept, Grants
  <2>5. ASSUME done.ours
        PROVE  /\ PaneIsCurrent => pane.what # c
               /\ \A q \in Awaited : q.what # c
    BY <1>1, <1>2, <1>6, <2>5 DEF SourceIsNamed, Names
  <2>6. ASSUME NEW k \in DOMAIN jobs,
               jobs'[k].stage = "done", jobs'[k].after # 0, jobs'[k].ours
        PROVE  /\ PaneIsCurrent => Fresh(pane, jobs'[k])
               /\ \A q \in Awaited : q.stage = "answered" => Fresh(q, jobs'[k])
    <3>1. CASE k = j
      BY <1>2, <1>3, <2>5, <2>6, <3>1 DEF Fresh
    <3>2. CASE k # j
      BY <1>3, <2>6, <3>2 DEF NothingStale
    <3> QED
      BY <3>1, <3>2
  <2>7. NothingStale'
    BY <1>3, <2>1, <2>3, <2>6 DEF NothingStale, Fresh
  <2> QED
    BY <1>4, <2>2, <2>4, <2>7
<1> QED
  BY <1>5, <1>6

(* A refused job is over, and has left no patch.                            *)
LEMMA OnRefusedKeeps ==
  ASSUME IInv, NEW j \in DOMAIN jobs, OnRefused(j)
  PROVE  IInv'
<1> USE DEF IInv
<1> DEFINE done == [jobs[j] EXCEPT !.stage = "done"]
<1>1. /\ jobs[j] \in Jobs /\ jobs' = [jobs EXCEPT ![j] = done]
      /\ UNCHANGED <<repo, sha, debounce, source, generation, requests, pane, patches, edits, intent>>
  BY JobFacts DEF OnRefused
<1>2. /\ done \in Jobs /\ done.expected = jobs[j].expected
      /\ done.after = jobs[j].after /\ done.stage = "done"
      /\ done.repo = jobs[j].repo /\ done.change = jobs[j].change /\ done.ours = jobs[j].ours
  BY <1>1 DEF Jobs, JobStages
<1>3. done.after = 0
  BY <1>2 DEF OnRefused, JobsAreOld
<1> HIDE DEF done
<1>4. /\ jobs' \in Seq(Jobs) /\ DOMAIN jobs' = DOMAIN jobs
      /\ jobs'[j] = done
      /\ \A k \in DOMAIN jobs : k # j => jobs'[k] = jobs[k]
  BY <1>1, <1>2, JobMoves
<1>5. TypeOK'
  BY <1>1, <1>4 DEF TypeOK, Jobs
<1>6. JobsAreOld'
  BY <1>1, <1>2, <1>3, <1>4 DEF JobsAreOld
<1>7. \A k \in DOMAIN jobs' : jobs'[k].stage = "done" /\ jobs'[k].after # 0 /\ jobs'[k].ours =>
        k \in DOMAIN jobs /\ jobs'[k] = jobs[k]
  BY <1>3, <1>4
<1> QED
  BY <1>1, <1>5, <1>6, <1>7, BesideThePane

-------------------------------------------------------------------------------
(* All steps together.                                                      *)
LEMMA EveryStepKeeps ==
  ASSUME IInv, [Next]_vars
  PROVE  IInv'
<1>1. ASSUME NEW c \in Commits, OnCommitSelected(c) PROVE IInv'
  BY <1>1, CommitSelectedKeeps
<1>2. CASE DispatchPendingDiff
  BY <1>2, DispatchKeeps
<1>3. ASSUME NEW f \in Paths \cup {None}, OnFileSelected(f) PROVE IInv'
  BY <1>3, FileSelectedKeeps
<1>4. ASSUME NEW c \in Changes, OnWorkdirDiffRequested(c) PROVE IInv'
  BY <1>4, WorkdirDiffRequestedKeeps
<1>5. ASSUME NEW q \in requests, LoaderEnds(q) \/ OnDiffReady(q) \/ OnDiffFailed(q) PROVE IInv'
  BY <1>5, LoaderEndsKeeps, DiffReadyKeeps, DiffFailedKeeps
<1>6. ASSUME NEW r \in Repos, OpenRepository(r) PROVE IInv'
  BY <1>6, OpenRepositoryKeeps
<1>7. ASSUME NEW r \in Repos, NEW c \in Changes, Edit(r, c) PROVE IInv'
  BY <1>7, EditKeeps
<1>8. CASE ApplyPartial
  BY <1>8, ApplyPartialKeeps
<1>9. ASSUME NEW j \in DOMAIN jobs, RunPartial(j) \/ OnApplied(j) \/ OnRefused(j) PROVE IInv'
  BY <1>9, RunPartialKeeps, OnAppliedKeeps, OnRefusedKeeps
<1>10. CASE UNCHANGED vars
  <2>1. Awaited' = Awaited /\ (PaneIsCurrent' <=> PaneIsCurrent)
    BY <1>10 DEF vars, Awaited, PaneIsCurrent
  <2>2. TypeOK' /\ JobsAreOld'
    BY <1>10 DEF vars, IInv, TypeOK, JobsAreOld
  <2>3. TokensAreFresh' /\ SourceIsNamed' /\ OldIsReplaced' /\ WishIsKept'
    BY <1>10, <2>1
    DEF vars, IInv, TokensAreFresh, SourceIsNamed, Names, OldIsReplaced, WishIsKept, Grants
  <2>4. NothingStale'
    BY <1>10, <2>1 DEF vars, IInv, NothingStale, Fresh
  <2> QED
    BY <2>2, <2>3, <2>4 DEF IInv
<1> QED
  BY <1>1, <1>2, <1>3, <1>4, <1>5, <1>6, <1>7, <1>8, <1>9, <1>10 DEF Next

(* The strengthening holds of every state the window reaches, whatever      *)
(* answers, timers, edits and jobs come between the user's requests.        *)
THEOREM PaneInvariant == Spec => []IInv
<1>1. Init => IInv
  BY FirstIInv
<1>2. IInv /\ [Next]_vars => IInv'
  BY EveryStepKeeps
<1> QED
  BY <1>1, <1>2, PTL DEF Spec

(* Every variable of the pane keeps its type.                               *)
THEOREM TypeCorrect == Spec => []TypeOK
<1>1. IInv => TypeOK
  BY DEF IInv
<1> QED
  BY <1>1, PaneInvariant, PTL

(* `_on_diff_ready`, `_dispatch_pending_diff`: at rest the pane shows what  *)
(* the user asked for last, or the whole of the commit whose file was asked *)
(* for while the debounce timer ran.                                        *)
THEOREM LastWishWins == Spec => []LastAskedIsShown
<1>1. IInv => LastAskedIsShown
  <2> SUFFICES ASSUME IInv, Settled, intent # None, pane # None
               PROVE  pane.repo = intent.repo /\ Grants(pane.what)
    BY DEF LastAskedIsShown
  <2>1. Awaited = {} /\ ~debounce
    BY DEF Settled, Awaited
  <2>2. PaneIsCurrent
    BY <2>1 DEF IInv, OldIsReplaced, PaneIsCurrent
  <2> QED
    BY <2>1, <2>2 DEF IInv, WishIsKept, Grants
<1> QED
  BY <1>1, PaneInvariant, PTL

(* `_request_diff`, `_on_workdir_diff_requested`, `_on_diff_failed`: at     *)
(* rest the change that the buttons of partial staging act on is the one    *)
(* on the screen.                                                           *)
THEOREM ButtonsActOnWhatIsShown == Spec => []SourceIsShown
<1>1. IInv => SourceIsShown
  <2> SUFFICES ASSUME IInv, Settled, pane # None, source # None
               PROVE  pane.what = source
    BY DEF SourceIsShown
  <2>1. Awaited = {}
    BY DEF Settled, Awaited
  <2>2. PaneIsCurrent
    BY <2>1 DEF IInv, OldIsReplaced, PaneIsCurrent
  <2> QED
    BY <2>2 DEF IInv, SourceIsNamed, Names
<1> QED
  BY <1>1, PaneInvariant, PTL

(* `_reload_after_partial`: at rest no coordinates are shown from before an *)
(* application that was reported.                                           *)
THEOREM NoStaleCoordinates == Spec => []FreshAfterApply
<1>1. IInv => FreshAfterApply
  <2> SUFFICES ASSUME IInv, NEW j \in DOMAIN jobs,
                      jobs[j].stage = "done", jobs[j].after # 0, jobs[j].ours,
                      Settled, pane # None, source # None,
                      pane.repo = jobs[j].repo, pane.what = jobs[j].change
               PROVE  pane.version >= jobs[j].after
    BY DEF FreshAfterApply
  <2>1. Awaited = {}
    BY DEF Settled, Awaited
  <2>2. PaneIsCurrent
    BY <2>1 DEF IInv, OldIsReplaced, PaneIsCurrent
  <2> QED
    BY <2>2 DEF IInv, NothingStale, Fresh
<1> QED
  BY <1>1, PaneInvariant, PTL

(* `_on_diff_ready`: a diff that comes late never covers a newer one.       *)
THEOREM LateNeverCovers == Spec => NeverOlder
<1>1. ASSUME IInv, [Next]_vars, pane # None, pane' # None
      PROVE  pane'.token >= pane.token
  <2>1. pane.token \in Nat /\ generation \in Nat /\ pane.token <= generation
    BY <1>1 DEF IInv, TypeOK, TokensAreFresh
  <2>2. pane' = pane \/ \E q \in requests : pane' = Shown(q) /\ q.token = generation
    BY <1>1
    DEF Next, vars, OnCommitSelected, DispatchPendingDiff, OnFileSelected,
        OnWorkdirDiffRequested, LoaderEnds, OnDiffReady, OnDiffFailed, OpenRepository,
        Edit, ApplyPartial, RunPartial, OnApplied, ReloadAfterPartial, OnRefused
  <2> QED
    BY <2>1, <2>2 DEF Shown
<1>2. IInv /\ [Next]_vars => [pane # None /\ pane' # None => pane'.token >= pane.token]_vars
  BY <1>1
<1> QED
  BY <1>2, PaneInvariant, PTL DEF Spec, NeverOlder

-------------------------------------------------------------------------------
(***************************************************************************)
(* PartialStaging, from here on.                                            *)
(***************************************************************************)

(* Finitely many positions of a sequence.                                   *)
Positions(S) == S \in SUBSET (Nat \ {0}) /\ IsFiniteSet(S)

(* The elements of S after a, up to b.                                      *)
Between(S, a, b) == {i \in S : a < i /\ i <= b}

(* A part of finitely many positions is finite, and no larger.              *)
LEMMA PartsOfPositions ==
  ASSUME NEW S, Positions(S), NEW T \in SUBSET S
  PROVE  Positions(T) /\ Cardinality(T) \in Nat /\ Cardinality(T) <= Cardinality(S)
<1>1. IsFiniteSet(T) /\ Cardinality(T) <= Cardinality(S)
  BY FS_Subset DEF Positions
<1>2. Cardinality(T) \in Nat
  BY <1>1, FS_CardinalityType
<1> QED
  BY <1>1, <1>2 DEF Positions

(* A rank is a number up to the size of the set.                            *)
LEMMA RankType ==
  ASSUME NEW S, Positions(S), NEW i \in Int
  PROVE  Cardinality(S) \in Nat /\ Rank(S, i) \in 0..Cardinality(S)
<1>1. {j \in S : j <= i} \in SUBSET S /\ S \in SUBSET S
  OBVIOUS
<1>2. Cardinality(S) \in Nat
  BY <1>1, PartsOfPositions
<1>3. Rank(S, i) \in Nat /\ Rank(S, i) <= Cardinality(S)
  BY <1>1, PartsOfPositions DEF Rank
<1> QED
  BY <1>2, <1>3

(* The rank grows by the number of elements in between.                     *)
LEMMA RankGrows ==
  ASSUME NEW S, Positions(S), NEW a \in Int, NEW b \in Int, a <= b
  PROVE  /\ Cardinality(Between(S, a, b)) \in Nat
         /\ Rank(S, b) = Rank(S, a) + Cardinality(Between(S, a, b))
<1> DEFINE A == {j \in S : j <= a}
           B == {j \in S : j <= b}
           C == Between(S, a, b)
<1>1. \A j \in S : j \in Nat
  BY DEF Positions
<1>2. A \in SUBSET S /\ C \in SUBSET S
  BY DEF Between
<1>3. B = A \cup C /\ A \cap C = {}
  BY <1>1 DEF Between
<1> HIDE DEF A, B, C
<1>4. Positions(A) /\ Positions(C) /\ Cardinality(C) \in Nat /\ Cardinality(A) \in Nat
  BY <1>2, PartsOfPositions
<1>5. Cardinality(B) = Cardinality(A) + Cardinality(C) - Cardinality(A \cap C)
  BY <1>3, <1>4, FS_Union DEF Positions
<1>6. Cardinality(A \cap C) = 0
  BY <1>3, FS_EmptySet
<1>7. Cardinality(B) = Cardinality(A) + Cardinality(C)
  BY <1>4, <1>5, <1>6
<1> QED
  BY <1>4, <1>7 DEF A, B, C, Rank

(* Finite sets with an element have one at least.                           *)
LEMMA SomeAreCounted ==
  ASSUME NEW S, Positions(S)
  PROVE  Cardinality(S) \in Nat /\ (Cardinality(S) = 0 <=> S = {})
<1>1. S \in SUBSET S
  OBVIOUS
<1> QED
  BY <1>1, PartsOfPositions, FS_EmptySet DEF Positions

(* The rank grows at a member of the set and nowhere else.                  *)
LEMMA RankIsMonotonic ==
  ASSUME NEW S, Positions(S), NEW a \in Int, NEW b \in Int
  PROVE  /\ a <= b => Rank(S, a) <= Rank(S, b)
         /\ b \in S /\ a < b => Rank(S, a) < Rank(S, b)
         /\ a <= b /\ Between(S, a, b) = {} => Rank(S, a) = Rank(S, b)
<1>1. Rank(S, a) \in Nat /\ Rank(S, b) \in Nat
  BY RankType
<1>2. Positions(Between(S, a, b))
  <2>1. Between(S, a, b) \in SUBSET S
    BY DEF Between
  <2> QED
    BY <2>1, PartsOfPositions
<1>3. /\ Cardinality(Between(S, a, b)) \in Nat
      /\ Cardinality(Between(S, a, b)) = 0 <=> Between(S, a, b) = {}
  BY <1>2, SomeAreCounted
<1>4. a <= b => Rank(S, b) = Rank(S, a) + Cardinality(Between(S, a, b))
  BY RankGrows
<1>5. b \in S /\ a < b => b \in Between(S, a, b)
  BY DEF Between
<1> QED
  BY <1>1, <1>3, <1>4, <1>5

(* Each place is taken by one element, the one of that rank.                *)
LEMMA NthIsThere ==
  ASSUME NEW S, Positions(S)
  PROVE  /\ \A i \in S : Rank(S, i) \in 1..Cardinality(S) /\ Nth(S, Rank(S, i)) = i
         /\ \A k \in 1..Cardinality(S) : Nth(S, k) \in S /\ Rank(S, Nth(S, k)) = k
<1> DEFINE n == Cardinality(S)
           rank == [i \in S |-> Rank(S, i)]
<1>1. n \in Nat /\ \A i \in S : i \in Nat /\ i > 0
  <2>1. n \in Nat
    BY SomeAreCounted
  <2> QED
    BY <2>1 DEF Positions
<1>2. ASSUME NEW i \in S PROVE Rank(S, i) \in 1..n
  <2>1. Rank(S, i) \in 0..n /\ Rank(S, i - 1) \in 0..n
    BY <1>1, RankType
  <2>2. Rank(S, i - 1) < Rank(S, i)
    BY <1>1, RankIsMonotonic
  <2> QED
    BY <1>1, <2>1, <2>2
<1>3. ASSUME NEW i \in S, NEW j \in S, Rank(S, i) = Rank(S, j) PROVE i = j
  <2>1. ~(i < j) /\ ~(j < i)
    BY <1>1, <1>2, <1>3, RankIsMonotonic
  <2> QED
    BY <1>1, <2>1
<1>4. rank \in Injection(S, 1..n)
  <2>1. rank \in [S -> 1..n] /\ DOMAIN rank = S
    BY <1>2
  <2>2. \A i, j \in S : rank[i] = rank[j] => i = j
    BY <1>3
  <2> HIDE DEF rank
  <2> QED
    BY <2>1, <2>2 DEF Injection, IsInjective
<1>5. IsFiniteSet(1..n) /\ Cardinality(1..n) = n
  <2>1. IsFiniteSet(1..n) /\ Cardinality(1..n) = IF 1 > n THEN 0 ELSE n - 1 + 1
    BY <1>1, FS_Interval
  <2> HIDE DEF n
  <2> QED
    BY <1>1, <2>1
<1>6. rank \in Surjection(S, 1..n)
  BY <1>4, <1>5, FS_Injection
<1>7. ASSUME NEW k \in 1..n PROVE \E i \in S : Rank(S, i) = k
  BY <1>6 DEF Surjection
<1>8. ASSUME NEW i \in S PROVE Nth(S, Rank(S, i)) = i
  BY <1>3 DEF Nth
<1>9. ASSUME NEW k \in 1..n PROVE Nth(S, k) \in S /\ Rank(S, Nth(S, k)) = k
  BY <1>7 DEF Nth
<1> QED
  BY <1>2, <1>8, <1>9

(* The members of a set are counted upwards.                                *)
LEMMA NthIsMonotonic ==
  ASSUME NEW S, Positions(S), NEW k \in 1..Cardinality(S), NEW l \in 1..Cardinality(S)
  PROVE  k < l <=> Nth(S, k) < Nth(S, l)
<1>1. /\ Nth(S, k) \in S /\ Nth(S, l) \in S /\ Nth(S, k) \in Nat /\ Nth(S, l) \in Nat
      /\ Rank(S, Nth(S, k)) = k /\ Rank(S, Nth(S, l)) = l
  BY NthIsThere DEF Positions
<1>2. Nth(S, k) < Nth(S, l) => k < l
  BY <1>1, RankIsMonotonic
<1>3. Nth(S, l) < Nth(S, k) => l < k
  BY <1>1, RankIsMonotonic
<1> QED
  BY <1>1, <1>2, <1>3

(* Two sets in the same order: a function that maps one to the other keeps  *)
(* the ranks.                                                               *)
Aligned(g, T, S) ==
  /\ g \in [T -> S]
  /\ \A i, j \in T : i < j => g[i] < g[j]
  /\ \A s \in S : \E t \in T : g[t] = s

(* Sets that an order preserving function aligns are counted alike.         *)
LEMMA AlignedRanks ==
  ASSUME NEW T, NEW S, Positions(T), Positions(S), NEW g, Aligned(g, T, S)
  PROVE  /\ Cardinality(S) = Cardinality(T)
         /\ \A t \in T : Rank(S, g[t]) = Rank(T, t)
         /\ \A k \in 1..Cardinality(T) : Nth(S, k) = g[Nth(T, k)]
<1>1. \A t \in T : t \in Nat /\ g[t] \in S /\ g[t] \in Nat
  BY DEF Aligned, Positions
<1>2. ASSUME NEW i \in T, NEW j \in T PROVE g[i] <= g[j] <=> i <= j
  <2>1. i < j => g[i] < g[j]
    BY DEF Aligned
  <2>2. j < i => g[j] < g[i]
    BY DEF Aligned
  <2> QED
    BY <1>1, <2>1, <2>2
<1>3. ASSUME NEW U \in SUBSET T, NEW V \in SUBSET S, \A t \in T : t \in U <=> g[t] \in V
      PROVE  Cardinality(U) = Cardinality(V)
  <2> DEFINE h == [u \in U |-> g[u]]
  <2>1. h \in [U -> V] /\ DOMAIN h = U
    BY <1>3
  <2>2. \A i, j \in U : h[i] = h[j] => i = j
    BY <1>1, <1>2
  <2>3. \A v \in V : \E u \in U : h[u] = v
    BY <1>3 DEF Aligned
  <2>4. IsFiniteSet(U)
    BY PartsOfPositions DEF Positions
  <2> HIDE DEF h
  <2>5. h \in Bijection(U, V)
    BY <2>1, <2>2, <2>3 DEF Bijection, Injection, Surjection, IsInjective
  <2>6. ExistsBijection(U, V)
    BY <2>5 DEF ExistsBijection
  <2> QED
    BY <2>4, <2>6, FS_Bijection
<1>4. Cardinality(S) = Cardinality(T)
  <2>1. \A t \in T : t \in T <=> g[t] \in S
    BY <1>1
  <2> QED
    BY <1>3, <2>1
<1>5. ASSUME NEW t \in T PROVE Rank(S, g[t]) = Rank(T, t)
  <2> DEFINE U == {j \in T : j <= t}
             V == {j \in S : j <= g[t]}
  <2>1. \A j \in T : j \in U <=> g[j] \in V
    BY <1>1, <1>2
  <2>2. Cardinality(U) = Cardinality(V)
    <3>1. U \in SUBSET T /\ V \in SUBSET S
      OBVIOUS
    <3> HIDE DEF U, V
    <3> QED
      BY <1>3, <2>1, <3>1
  <2> QED
    BY <2>2 DEF Rank
<1>6. ASSUME NEW k \in 1..Cardinality(T) PROVE Nth(S, k) = g[Nth(T, k)]
  <2>1. Nth(T, k) \in T /\ Rank(T, Nth(T, k)) = k
    BY NthIsThere
  <2>2. Rank(S, g[Nth(T, k)]) = k /\ g[Nth(T, k)] \in S
    BY <1>1, <1>5, <2>1
  <2> QED
    BY <2>2, NthIsThere
<1> QED
  BY <1>4, <1>5, <1>6

(* A function on the first numbers is a sequence.                           *)
LEMMA FunctionIsSeq ==
  ASSUME NEW S, NEW n \in Nat, NEW f \in [1..n -> S]
  PROVE  f \in Seq(S) /\ Len(f) = n
<1>1. f \in Seq(S)
  BY SeqDef
<1> QED
  BY <1>1

(* The lengths, places and elements of a choice of positions.               *)
LEMMA PickedElements ==
  ASSUME NEW S, Positions(S), NEW seq
  PROVE  /\ Cardinality(S) \in Nat /\ DOMAIN Picked(seq, S) = 1..Cardinality(S)
         /\ \A k \in 1..Cardinality(S) : Nth(S, k) \in S /\ Picked(seq, S)[k] = seq[Nth(S, k)]
         /\ \A i \in S : Rank(S, i) \in 1..Cardinality(S) /\ Picked(seq, S)[Rank(S, i)] = seq[i]
<1>1. Cardinality(S) \in Nat
  BY SomeAreCounted
<1>2. DOMAIN Picked(seq, S) = 1..Cardinality(S)
  BY DEF Picked
<1>3. \A k \in 1..Cardinality(S) : Nth(S, k) \in S /\ Picked(seq, S)[k] = seq[Nth(S, k)]
  BY NthIsThere DEF Picked
<1>4. \A i \in S : Rank(S, i) \in 1..Cardinality(S) /\ Nth(S, Rank(S, i)) = i
  BY NthIsThere
<1> QED
  BY <1>1, <1>2, <1>3, <1>4

(* The elements at the positions are of V.                                  *)
Holding(seq, S, V) == \A i \in S : seq[i] \in V

(* What is picked is a sequence of the elements at the positions given.     *)
LEMMA PickedIsSeq ==
  ASSUME NEW S, Positions(S), NEW V, NEW seq, Holding(seq, S, V)
  PROVE  /\ Picked(seq, S) \in Seq(V) /\ Len(Picked(seq, S)) = Cardinality(S)
         /\ Range(Picked(seq, S)) = {seq[i] : i \in S}
<1>1. /\ Cardinality(S) \in Nat /\ DOMAIN Picked(seq, S) = 1..Cardinality(S)
      /\ \A k \in 1..Cardinality(S) : Nth(S, k) \in S /\ Picked(seq, S)[k] = seq[Nth(S, k)]
      /\ \A i \in S : Rank(S, i) \in 1..Cardinality(S) /\ Picked(seq, S)[Rank(S, i)] = seq[i]
  BY PickedElements
<1>2. Picked(seq, S) \in [1..Cardinality(S) -> V]
  <2>1. \A k \in 1..Cardinality(S) : seq[Nth(S, k)] \in V
    BY <1>1 DEF Holding
  <2> QED
    BY <2>1 DEF Picked
<1>3. Picked(seq, S) \in Seq(V) /\ Len(Picked(seq, S)) = Cardinality(S)
  BY <1>1, <1>2, FunctionIsSeq
<1>4. Range(Picked(seq, S)) = {seq[i] : i \in S}
  BY <1>1 DEF Range
<1> QED
  BY <1>3, <1>4

(* Choices at positions in the same order, with the same elements.          *)
Matches(u, v, g, T) == \A t \in T : u[t] = v[g[t]]

(* Equal elements at aligned positions are picked alike.                    *)
LEMMA PickedAlike ==
  ASSUME NEW T, NEW S, Positions(T), Positions(S), NEW g, Aligned(g, T, S),
         NEW u, NEW v, Matches(u, v, g, T)
  PROVE  Picked(u, T) = Picked(v, S)
<1>1. /\ Cardinality(S) = Cardinality(T)
      /\ \A k \in 1..Cardinality(T) : Nth(S, k) = g[Nth(T, k)]
  BY AlignedRanks
<1>2. \A k \in 1..Cardinality(T) : u[Nth(T, k)] = v[Nth(S, k)]
  BY <1>1, NthIsThere DEF Matches
<1> QED
  BY <1>1, <1>2 DEF Picked

(* Only the elements at the positions matter.                               *)
LEMMA PickedSame ==
  ASSUME NEW S, Positions(S), NEW u, NEW v, \A i \in S : u[i] = v[i]
  PROVE  Picked(u, S) = Picked(v, S)
<1>1. \A k \in 1..Cardinality(S) : u[Nth(S, k)] = v[Nth(S, k)]
  BY NthIsThere
<1> QED
  BY <1>1 DEF Picked

(* A choice from a choice.                                                  *)
LEMMA PickedTwice ==
  ASSUME NEW S, Positions(S), NEW T, T \in SUBSET (1..Cardinality(S)), NEW seq
  PROVE  /\ Positions(T) /\ Positions({Nth(S, k) : k \in T})
         /\ Picked(Picked(seq, S), T) = Picked(seq, {Nth(S, k) : k \in T})
<1>1. Cardinality(S) \in Nat
  BY SomeAreCounted
<1>2. \A k \in T : k \in 1..Cardinality(S) /\ k \in Nat \ {0} /\ Nth(S, k) \in S
  BY <1>1, NthIsThere
<1>3. Positions(T)
  <2>1. IsFiniteSet(1..Cardinality(S))
    BY <1>1, FS_Interval
  <2>2. IsFiniteSet(T)
    BY <2>1, FS_Subset
  <2> QED
    BY <1>2, <2>2 DEF Positions
<1>4. PICK U : U = {Nth(S, k) : k \in T}
  OBVIOUS
<1>5. Positions(U)
  <2>1. U \in SUBSET S
    BY <1>2, <1>4
  <2> QED
    BY <2>1, PartsOfPositions
<1>6. PICK g : g = [k \in T |-> Nth(S, k)]
  OBVIOUS
<1>7. Aligned(g, T, U)
  <2>1. \A i, j \in T : i < j => Nth(S, i) < Nth(S, j)
    BY <1>2, NthIsMonotonic
  <2> QED
    BY <1>4, <1>6, <2>1 DEF Aligned
<1>8. PICK u : u = Picked(seq, S)
  OBVIOUS
<1>9. Matches(u, seq, g, T)
  BY <1>2, <1>6, <1>8 DEF Picked, Matches
<1>10. Picked(u, T) = Picked(seq, U)
  BY <1>3, <1>5, <1>7, <1>9, PickedAlike
<1> QED
  BY <1>3, <1>4, <1>5, <1>8, <1>10

(* A stretch of a choice is the choice from a stretch.                      *)
LEMMA StretchOfPicked ==
  ASSUME NEW S, Positions(S), NEW V, NEW seq, Holding(seq, S, V),
         NEW a \in Int, NEW b \in Int, a <= b
  PROVE  /\ Positions(Between(S, a, b))
         /\ SubSeq(Picked(seq, S), Rank(S, a) + 1, Rank(S, b)) = Picked(seq, Between(S, a, b))
<1> DEFINE T == Between(S, a, b)
           p == Picked(seq, S)
           r == Rank(S, a)
           n == Cardinality(T)
           q == SubSeq(p, r + 1, Rank(S, b))
<1>1. T \in SUBSET S /\ \A i \in S : i \in Nat
  BY DEF Between, Positions
<1>2. Positions(T) /\ n \in Nat
  BY <1>1, PartsOfPositions
<1>3. r \in 0..Cardinality(S) /\ Rank(S, b) \in 0..Cardinality(S) /\ Rank(S, b) = r + n
      /\ Cardinality(S) \in Nat
  BY RankType, RankGrows
<1>4. p \in Seq(V) /\ Len(p) = Cardinality(S)
  BY PickedIsSeq
<1>5. ASSUME NEW k \in 1..n PROVE Nth(T, k) = Nth(S, r + k)
  <2> DEFINE i == Nth(S, r + k)
  <2>1. r + k \in 1..Cardinality(S)
    BY <1>2, <1>3
  <2>2. i \in S /\ Rank(S, i) = r + k /\ i \in Nat
    BY <1>1, <2>1, NthIsThere
  <2> HIDE DEF i
  <2>3. a < i /\ i <= b
    <3>1. i <= a => Rank(S, i) <= r
      BY <2>2, RankIsMonotonic
    <3>2. b < i => Rank(S, b) < Rank(S, i)
      BY <2>2, RankIsMonotonic
    <3> HIDE DEF r, n
    <3> QED
      BY <1>2, <1>3, <2>2, <3>1, <3>2
  <2>4. i \in T
    BY <2>2, <2>3 DEF Between
  <2>5. Rank(T, i) = k
    <3>1. Rank(S, i) = r + Cardinality(Between(S, a, i)) /\ Cardinality(Between(S, a, i)) \in Nat
      BY <2>2, <2>3, RankGrows
    <3>2. {j \in T : j <= i} = Between(S, a, i)
      <4>1. ASSUME NEW j \in S, a < j, j <= i PROVE j <= b
        BY <1>1, <2>2, <2>3, <4>1
      <4> QED
        BY <4>1 DEF Between
    <3>3. Rank(T, i) = Cardinality(Between(S, a, i))
      BY <3>2 DEF Rank
    <3> HIDE DEF r, n, T
    <3> QED
      BY <1>2, <1>3, <2>2, <3>1, <3>3
  <2> QED
    BY <1>2, <2>4, <2>5, NthIsThere DEF i
<1>6. q \in Seq(V) /\ Len(q) = n /\ \A k \in 1..n : q[k] = p[r + k]
  <2> HIDE DEF p, r, n
  <2> QED
    BY <1>2, <1>3, <1>4
<1>7. \A k \in 1..n : p[r + k] = seq[Nth(T, k)]
  <2>1. \A k \in 1..n : r + k \in 1..Cardinality(S)
    BY <1>2, <1>3
  <2> HIDE DEF r, n, T
  <2> QED
    BY <1>5, <2>1 DEF Picked
<1>8. q = Picked(seq, T)
  <2>1. q = [k \in 1..n |-> q[k]]
    <3> HIDE DEF q, n
    <3> QED
      BY <1>6
  <2>2. q = [k \in 1..n |-> seq[Nth(T, k)]]
    <3> HIDE DEF q, n, p, T
    <3> QED
      BY <1>6, <1>7, <2>1
  <2> QED
    BY <2>2 DEF Picked
<1> QED
  BY <1>2, <1>8

(* What is picked before a position and what after it.                      *)
InTwo(U, S, T) == U = S \cup T /\ \A i \in S, j \in T : i < j
Joined(u, v) == u \o v

(* Positions that lie before others: what is picked is put together.        *)
LEMMA PickedInTwo ==
  ASSUME NEW S, Positions(S), NEW T, Positions(T), NEW U, InTwo(U, S, T),
         NEW V, NEW seq, Holding(seq, U, V)
  PROVE  Positions(U) /\ Picked(seq, U) = Joined(Picked(seq, S), Picked(seq, T))
<1>0. U = S \cup T
  BY DEF InTwo
<1> DEFINE m == Cardinality(S)
           n == Cardinality(T)
<1>1. m \in Nat /\ n \in Nat /\ \A i \in U : i \in Nat
  BY <1>0, SomeAreCounted DEF Positions
<1>2. Positions(U) /\ Cardinality(U) = m + n
  <2>1. S \cap T = {}
    BY <1>0, <1>1 DEF InTwo
  <2>2. IsFiniteSet(U) /\ Cardinality(U) = m + n - Cardinality(S \cap T)
    BY <1>0, FS_Union DEF Positions
  <2>3. Cardinality(S \cap T) = 0
    BY <2>1, FS_EmptySet
  <2>4. Cardinality(U) = m + n
    <3> HIDE DEF m, n
    <3> QED
      BY <1>1, <2>2, <2>3
  <2> QED
    BY <1>0, <2>2, <2>4 DEF Positions
<1>3. ASSUME NEW i \in S PROVE Rank(U, i) = Rank(S, i)
  <2>1. {j \in U : j <= i} = {j \in S : j <= i}
    BY <1>0, <1>1 DEF InTwo
  <2> QED
    BY <2>1 DEF Rank
<1>4. ASSUME NEW i \in T PROVE Rank(U, i) = m + Rank(T, i)
  <2> DEFINE X == {j \in U : j <= i}
             Y == {j \in T : j <= i}
  <2>1. X = S \cup Y /\ S \cap Y = {}
    BY <1>0, <1>1 DEF InTwo
  <2> HIDE DEF X
  <2>2. Positions(Y) /\ Cardinality(Y) \in Nat
    <3>1. Y \in SUBSET T
      OBVIOUS
    <3> HIDE DEF Y
    <3> QED
      BY <3>1, PartsOfPositions
  <2> HIDE DEF Y
  <2>3. Cardinality(X) = m + Cardinality(Y) - Cardinality(S \cap Y)
    BY <2>1, <2>2, FS_Union DEF Positions
  <2>4. Cardinality(S \cap Y) = 0
    BY <2>1, FS_EmptySet
  <2>5. Cardinality(X) = m + Cardinality(Y)
    <3> HIDE DEF m
    <3> QED
      BY <1>1, <2>2, <2>3, <2>4
  <2> QED
    BY <2>5 DEF Rank, X, Y
<1>5. ASSUME NEW k \in 1..m PROVE Nth(U, k) = Nth(S, k)
  <2>1. Nth(S, k) \in S /\ Rank(S, Nth(S, k)) = k
    BY NthIsThere
  <2>2. Nth(S, k) \in U /\ Rank(U, Nth(S, k)) = k
    BY <1>0, <1>3, <2>1
  <2> QED
    BY <1>2, <2>2, NthIsThere
<1>6. ASSUME NEW k \in 1..n PROVE Nth(U, m + k) = Nth(T, k)
  <2>1. Nth(T, k) \in T /\ Rank(T, Nth(T, k)) = k
    BY NthIsThere
  <2>2. Nth(T, k) \in U /\ Rank(U, Nth(T, k)) = m + k
    BY <1>0, <1>4, <2>1
  <2> QED
    BY <1>2, <2>2, NthIsThere
<1> DEFINE p == Picked(seq, S)
           q == Picked(seq, T)
           r == Picked(seq, U)
<1>7. p \in Seq(V) /\ Len(p) = m /\ q \in Seq(V) /\ Len(q) = n
  <2>1. Holding(seq, S, V) /\ Holding(seq, T, V)
    BY <1>0 DEF Holding
  <2> QED
    BY <2>1, PickedIsSeq
<1>8. r \in Seq(V) /\ Len(r) = m + n
  BY <1>2, PickedIsSeq
<1>9. /\ \A k \in 1..m : p[k] = seq[Nth(S, k)]
      /\ \A k \in 1..n : q[k] = seq[Nth(T, k)]
      /\ \A k \in 1..(m + n) : r[k] = seq[Nth(U, k)]
  BY <1>2 DEF Picked
<1> HIDE DEF p, q, r, m, n
<1>10. ASSUME NEW k \in 1..(m + n) PROVE r[k] = (p \o q)[k]
  <2>1. CASE k <= m
    <3>1. k \in 1..m
      BY <1>1, <2>1
    <3>2. (p \o q)[k] = p[k]
      BY <1>7, <3>1
    <3> QED
      BY <1>5, <1>9, <3>1, <3>2
  <2>2. CASE k > m
    <3>1. PICK l \in 1..n : k = m + l
      <4>1. k - m \in 1..n /\ k = m + (k - m)
        BY <1>1, <2>2
      <4> QED
        BY <4>1
    <3>2. (p \o q)[k] = q[l]
      BY <1>1, <1>7, <3>1
    <3>3. r[k] = seq[Nth(U, m + l)] /\ q[l] = seq[Nth(T, l)]
      BY <1>9, <3>1
    <3> QED
      BY <1>6, <3>2, <3>3
  <2>3. k <= m \/ k > m
    BY <1>1
  <2> QED
    BY <2>1, <2>2, <2>3
<1>11. p \o q \in Seq(V) /\ Len(p \o q) = m + n
  BY <1>7
<1>12. r = p \o q
  BY <1>1, <1>8, <1>10, <1>11, SeqEqual
<1> QED
  BY <1>2, <1>12 DEF p, q, r, Joined

-------------------------------------------------------------------------------
(* Numbers and recursion.                                                   *)

(* A set of numbers has a least one: of the segments up to its members one  *)
(* contains no other, since finite sets are well founded.                   *)
LEMMA LeastNumber ==
  ASSUME NEW S \in SUBSET Nat, S # {}
  PROVE  \E n \in S : \A k \in S : n <= k
<1> DEFINE R == StrictSubsetOrdering(Nat)
           segments == {0..n : n \in S}
<1>1. IsWellFoundedOn(R, FiniteSubsetsOf(Nat))
  BY FS_StrictSubsetOrderingWellFounded
<1>2. ASSUME NEW n \in S PROVE 0..n \in FiniteSubsetsOf(Nat)
  <2>1. n \in Int /\ 0 \in Int /\ 0..n \subseteq Nat
    OBVIOUS
  <2>2. IsFiniteSet(0..n)
    BY <2>1, FS_Interval
  <2> QED
    BY <2>1, <2>2 DEF FiniteSubsetsOf
<1>3. segments \subseteq FiniteSubsetsOf(Nat) /\ segments # {}
  BY <1>2
<1>4. PICK x \in segments : \A y \in segments : <<y, x>> \notin R
  <2> HIDE DEF R, segments
  <2> QED
    BY <1>1, <1>3, WFMin
<1>5. PICK n \in S : x = 0..n
  BY <1>4
<1>6. ASSUME NEW k \in S, k < n PROVE FALSE
  <2>1. 0..k \subseteq 0..n /\ n \in 0..n /\ n \notin 0..k
    BY <1>6
  <2>2. <<0..k, 0..n>> \in R
    BY <2>1 DEF StrictSubsetOrdering
  <2> QED
    BY <1>4, <1>5, <2>2
<1> QED
  BY <1>6

(* What is so of 0 and passes from each number to the next.                 *)
LEMMA NumberByNumber ==
  ASSUME NEW n \in Nat, NEW S, 0 \in S, \A i \in 1..n : i - 1 \in S => i \in S
  PROVE  0..n \subseteq S
<1> DEFINE T == {i \in 0..n : i \notin S}
<1>1. SUFFICES ASSUME T # {} PROVE FALSE
  OBVIOUS
<1>2. PICK i \in T : \A k \in T : i <= k
  <2>1. T \in SUBSET Nat
    OBVIOUS
  <2> HIDE DEF T
  <2> QED
    BY <1>1, <2>1, LeastNumber
<1>3. i \in 1..n /\ i \notin S /\ i - 1 \in 0..n
  BY <1>2
<1>4. i - 1 \in S
  BY <1>2, <1>3
<1> QED
  BY <1>3, <1>4

-------------------------------------------------------------------------------
(* The hunks of a diff, as stretches of its lines.                          *)

TextLines == [text : Nat \ {0}, ends : BOOLEAN]
IsDiff(diff) == diff \in Seq([origin : Origins, line : TextLines])

(* The lines of a diff and their parts.                                     *)
LEMMA DiffLines ==
  ASSUME NEW diff, IsDiff(diff)
  PROVE  /\ Len(diff) \in Nat /\ DOMAIN diff = 1..Len(diff)
         /\ \A p \in DOMAIN diff :
              /\ diff[p] \in [origin : Origins, line : TextLines]
              /\ diff[p].origin \in Origins /\ diff[p].line \in TextLines
<1>1. PICK U : U = [origin : Origins, line : TextLines]
  OBVIOUS
<1>2. diff \in Seq(U)
  BY <1>1 DEF IsDiff
<1>3. Len(diff) \in Nat /\ DOMAIN diff = 1..Len(diff) /\ \A p \in DOMAIN diff : diff[p] \in U
  BY <1>2
<1> QED
  BY <1>1, <1>3

(* A change and its neighbours belong to a hunk.                            *)
LEMMA ChangesAreNear ==
  ASSUME NEW diff, IsDiff(diff), NEW c \in DOMAIN diff, IsChange(diff[c])
  PROVE  Near(diff, c) /\ Near(diff, c - 1) /\ Near(diff, c + 1)
<1>1. c \in Nat /\ Context \in Nat \ {0}
  BY DiffLines, PartialStagingAssumption DEF PartialStagingAssumption
<1>2. \A p \in {c - 1, c, c + 1} : p \in c - Context..c + Context
  BY <1>1
<1> QED
  BY <1>2 DEF Near

(* A hunk goes on to its end, and no further.                               *)
LEMMA SpanEnds ==
  ASSUME NEW diff, IsDiff(diff), NEW a \in Begins(diff)
  PROVE  /\ a \in 1..Len(diff) /\ EndOf(diff, a) \in a..Len(diff)
         /\ \A p \in a..EndOf(diff, a) : Near(diff, p)
         /\ EndOf(diff, a) = Len(diff) \/ ~Near(diff, EndOf(diff, a) + 1)
<1> DEFINE n == Len(diff)
           S == {b \in a..n : b = n \/ ~Near(diff, b + 1)}
<1>1. n \in Nat /\ a \in 1..n /\ Near(diff, a)
  BY DiffLines DEF Begins
<1>2. PICK b \in S : \A k \in S : b <= k
  <2>1. n \in S /\ S \in SUBSET Nat
    BY <1>1
  <2> HIDE DEF S
  <2> QED
    BY <2>1, LeastNumber
<1>3. ASSUME NEW p \in a..b PROVE Near(diff, p)
  <2>1. CASE p = a
    BY <1>1, <2>1
  <2>2. CASE p # a
    <3>1. p - 1 \in a..n /\ p - 1 < b /\ p - 1 # n /\ (p - 1) + 1 = p
      BY <1>1, <1>2, <2>2
    <3>2. b \in Nat /\ p \in Nat /\ ~(b <= p - 1)
      BY <1>1, <1>2, <3>1
    <3>3. p - 1 \notin S
      <4> HIDE DEF S
      <4> QED
        BY <1>2, <3>2
    <3> QED
      BY <3>1, <3>3
  <2> QED
    BY <2>1, <2>2
<1>4. \E e \in a..n : (\A p \in a..e : Near(diff, p)) /\ (e = n \/ ~Near(diff, e + 1))
  BY <1>2, <1>3
<1> QED
  BY <1>1, <1>4 DEF EndOf

(* Hunks do not overlap.                                                    *)
LEMMA SpansApart ==
  ASSUME NEW diff, IsDiff(diff), NEW a \in Begins(diff), NEW b \in Begins(diff), a < b
  PROVE  EndOf(diff, a) < b
<1>1. /\ a \in 1..Len(diff) /\ EndOf(diff, a) \in a..Len(diff)
      /\ \A p \in a..EndOf(diff, a) : Near(diff, p)
      /\ b \in 1..Len(diff) /\ Len(diff) \in Nat
  BY SpanEnds, DiffLines
<1>2. ~Near(diff, b - 1)
  BY <1>1 DEF Begins
<1>3. b <= EndOf(diff, a) => b - 1 \in a..EndOf(diff, a)
  BY <1>1
<1> QED
  BY <1>1, <1>2, <1>3

(* Every change is in a hunk.                                               *)
LEMMA ChangesAreInSpans ==
  ASSUME NEW diff, IsDiff(diff), NEW c \in DOMAIN diff, IsChange(diff[c])
  PROVE  \E a \in Begins(diff) : c \in a..EndOf(diff, a)
<1> DEFINE S == {b \in 1..c : \A p \in b..c : Near(diff, p)}
<1>1. c \in 1..Len(diff) /\ Len(diff) \in Nat /\ DOMAIN diff = 1..Len(diff) /\ Near(diff, c)
  BY ChangesAreNear, DiffLines
<1>2. PICK a \in S : \A k \in S : a <= k
  <2>1. c \in S /\ S \in SUBSET Nat
    BY <1>1
  <2> HIDE DEF S
  <2> QED
    BY <2>1, LeastNumber
<1>3. a \in 1..c /\ \A p \in a..c : Near(diff, p)
  BY <1>2
<1>4. a = 1 \/ ~Near(diff, a - 1)
  <2> SUFFICES ASSUME a # 1, Near(diff, a - 1) PROVE FALSE
    OBVIOUS
  <2>1. a - 1 \in 1..c /\ \A p \in (a - 1)..c : p = a - 1 \/ p \in a..c
    BY <1>1, <1>3
  <2>2. a - 1 \in S
    BY <1>3, <2>1
  <2> QED
    BY <1>1, <1>2, <1>3, <2>2
<1>5. a \in Begins(diff)
  <2>1. Near(diff, a) /\ a \in DOMAIN diff
    BY <1>1, <1>3
  <2> QED
    BY <1>4, <2>1 DEF Begins
<1>6. /\ EndOf(diff, a) \in a..Len(diff)
      /\ EndOf(diff, a) = Len(diff) \/ ~Near(diff, EndOf(diff, a) + 1)
  BY <1>5, SpanEnds
<1>7. EndOf(diff, a) < c => EndOf(diff, a) # Len(diff) /\ EndOf(diff, a) + 1 \in a..c
  BY <1>1, <1>3, <1>6
<1>8. c <= EndOf(diff, a)
  BY <1>1, <1>3, <1>6, <1>7
<1> QED
  BY <1>1, <1>3, <1>5, <1>6, <1>8

(* A hunk without context is all of the diff.                               *)
LEMMA WithoutContext ==
  ASSUME NEW diff, IsDiff(diff), NEW a \in Begins(diff),
         \A p \in a..EndOf(diff, a) : IsChange(diff[p])
  PROVE  a = 1 /\ EndOf(diff, a) = Len(diff)
<1> DEFINE e == EndOf(diff, a)
<1>1. /\ a \in 1..Len(diff) /\ e \in a..Len(diff) /\ (e = Len(diff) \/ ~Near(diff, e + 1))
      /\ Len(diff) \in Nat /\ DOMAIN diff = 1..Len(diff)
  BY SpanEnds, DiffLines
<1>2. a = 1 \/ ~Near(diff, a - 1)
  BY DEF Begins
<1>3. a \in a..e /\ e \in a..e
  BY <1>1
<1>4. a \in DOMAIN diff /\ e \in DOMAIN diff
  BY <1>1
<1>5. Near(diff, a - 1) /\ Near(diff, e + 1)
  <2> HIDE DEF e
  <2> QED
    BY <1>3, <1>4, ChangesAreNear DEF e
<1> QED
  BY <1>1, <1>2, <1>5

(* The first lines of hunks, in order.                                      *)
LEMMA BeginsInOrder ==
  ASSUME NEW diff, IsDiff(diff)
  PROVE  /\ Positions(Begins(diff)) /\ Cardinality(Begins(diff)) \in Nat
         /\ Positions(DOMAIN diff)
<1>1. Len(diff) \in Nat /\ DOMAIN diff = 1..Len(diff)
  BY DiffLines
<1>2. Positions(DOMAIN diff)
  <2>1. IsFiniteSet(1..Len(diff))
    <3>1. 1 \in Int /\ Len(diff) \in Int
      BY <1>1
    <3> QED
      BY <3>1, FS_Interval
  <2>2. 1..Len(diff) \in SUBSET (Nat \ {0})
    BY <1>1
  <2> QED
    BY <1>1, <2>1, <2>2 DEF Positions
<1>3. Begins(diff) \in SUBSET DOMAIN diff
  BY DEF Begins
<1> QED
  BY <1>2, <1>3, PartsOfPositions

-------------------------------------------------------------------------------
(* Lines and their markers.                                                 *)

MarkedPlaces(s) == {q \in 1..2 * Len(s) : q % 2 = 1 \/ ~s[q \div 2].line.ends}
WithPlaces(s) == [q \in 1..2 * Len(s) |->
                    IF q % 2 = 1 THEN s[(q + 1) \div 2]
                    ELSE [origin |-> "eofnl", line |-> s[q \div 2].line]]
PatchLines == [origin : Origins \cup {"eofnl"}, line : TextLines]

(* Where line p of a stretch of the diff stands in the hunk.                *)
Place(s, p) == Rank(MarkedPlaces(s), 2 * p - 1)

(* Each number is odd or even.                                              *)
LEMMA OddOrEven ==
  ASSUME NEW n \in Nat, NEW q \in 1..2 * n
  PROVE  \/ q % 2 = 1 /\ \E p \in 1..n : q = 2 * p - 1 /\ (q + 1) \div 2 = p
         \/ q % 2 = 0 /\ \E p \in 1..n : q = 2 * p /\ q \div 2 = p
<1>1. CASE q % 2 = 1
  <2>1. (q + 1) \div 2 \in 1..n /\ q = 2 * ((q + 1) \div 2) - 1
    BY <1>1
  <2> QED
    BY <1>1, <2>1
<1>2. CASE q % 2 # 1
  <2>1. q % 2 = 0 /\ q \div 2 \in 1..n /\ q = 2 * (q \div 2)
    BY <1>2
  <2> QED
    BY <2>1
<1> QED
  BY <1>1, <1>2

(* The arithmetic of the two places of a line.                              *)
LEMMA PlacesOfLines ==
  ASSUME NEW n \in Nat, NEW p \in 1..n
  PROVE  /\ 2 * p - 1 \in 1..2 * n /\ (2 * p - 1) % 2 = 1 /\ ((2 * p - 1) + 1) \div 2 = p
         /\ 2 * p \in 1..2 * n /\ (2 * p) % 2 = 0 /\ (2 * p) \div 2 = p
<1>1. p \in Nat /\ p >= 1 /\ p <= n
  OBVIOUS
<1> QED
  BY <1>1

(* The places that are in use: a line's first, and its second if it has no  *)
(* newline.                                                                 *)
LEMMA MarkedPlacesType ==
  ASSUME NEW s, IsDiff(s)
  PROVE  /\ Positions(MarkedPlaces(s))
         /\ \A p \in 1..Len(s) :
              /\ 2 * p - 1 \in MarkedPlaces(s) /\ WithPlaces(s)[2 * p - 1] = s[p]
              /\ 2 * p \in MarkedPlaces(s) <=> ~s[p].line.ends
              /\ WithPlaces(s)[2 * p] = [origin |-> "eofnl", line |-> s[p].line]
         /\ \A q \in MarkedPlaces(s) : \E p \in 1..Len(s) :
              q = 2 * p - 1 \/ (q = 2 * p /\ ~s[p].line.ends)
         /\ \A q \in MarkedPlaces(s) : WithPlaces(s)[q] \in PatchLines
<1>1. /\ Len(s) \in Nat
      /\ \A p \in 1..Len(s) : /\ s[p] \in [origin : Origins, line : TextLines]
                              /\ s[p].origin \in Origins /\ s[p].line \in TextLines
  BY DiffLines
<1>2. Positions(MarkedPlaces(s))
  <2>1. IsFiniteSet(1..2 * Len(s))
    <3>1. 1 \in Int /\ 2 * Len(s) \in Int
      BY <1>1
    <3> QED
      BY <3>1, FS_Interval
  <2>2. MarkedPlaces(s) \in SUBSET (1..2 * Len(s)) /\ 1..2 * Len(s) \in SUBSET (Nat \ {0})
    BY <1>1 DEF MarkedPlaces
  <2> QED
    BY <2>1, <2>2, FS_Subset DEF Positions
<1>3. ASSUME NEW p \in 1..Len(s)
      PROVE  /\ 2 * p - 1 \in MarkedPlaces(s) /\ WithPlaces(s)[2 * p - 1] = s[p]
             /\ 2 * p \in MarkedPlaces(s) <=> ~s[p].line.ends
             /\ WithPlaces(s)[2 * p] = [origin |-> "eofnl", line |-> s[p].line]
  <2>1. /\ 2 * p - 1 \in 1..2 * Len(s) /\ (2 * p - 1) % 2 = 1 /\ ((2 * p - 1) + 1) \div 2 = p
        /\ 2 * p \in 1..2 * Len(s) /\ (2 * p) % 2 = 0 /\ (2 * p) \div 2 = p
    BY <1>1, PlacesOfLines
  <2>2. PICK x, y : x = 2 * p - 1 /\ y = 2 * p
    OBVIOUS
  <2>3. /\ x \in 1..2 * Len(s) /\ x % 2 = 1 /\ (x + 1) \div 2 = p
        /\ y \in 1..2 * Len(s) /\ y % 2 = 0 /\ y \div 2 = p /\ 0 # 1
    BY <2>1, <2>2
  <2>4. /\ x \in MarkedPlaces(s) /\ WithPlaces(s)[x] = s[p]
        /\ y \in MarkedPlaces(s) <=> ~s[p].line.ends
        /\ WithPlaces(s)[y] = [origin |-> "eofnl", line |-> s[p].line]
    BY <2>3, Zenon DEF MarkedPlaces, WithPlaces
  <2> QED
    BY <2>2, <2>4
<1>4. ASSUME NEW q \in MarkedPlaces(s)
      PROVE  \E p \in 1..Len(s) : q = 2 * p - 1 \/ (q = 2 * p /\ ~s[p].line.ends)
  <2>1. q \in 1..2 * Len(s) /\ (q % 2 = 1 \/ ~s[q \div 2].line.ends)
    BY DEF MarkedPlaces
  <2>2. \/ q % 2 = 1 /\ \E p \in 1..Len(s) : q = 2 * p - 1 /\ (q + 1) \div 2 = p
        \/ q % 2 = 0 /\ \E p \in 1..Len(s) : q = 2 * p /\ q \div 2 = p
    BY <1>1, <2>1, OddOrEven
  <2>3. CASE q % 2 = 1
    BY <2>2, <2>3
  <2>4. CASE q % 2 # 1
    <3>1. PICK p \in 1..Len(s) : q = 2 * p /\ q \div 2 = p
      BY <2>2, <2>4
    <3> QED
      BY <2>1, <2>4, <3>1
  <2> QED
    BY <2>3, <2>4
<1>5. ASSUME NEW q \in MarkedPlaces(s) PROVE WithPlaces(s)[q] \in PatchLines
  <2>1. PICK p \in 1..Len(s) : q = 2 * p - 1 \/ q = 2 * p
    BY <1>4
  <2>2. s[p] \in PatchLines /\ [origin |-> "eofnl", line |-> s[p].line] \in PatchLines
    BY <1>1 DEF PatchLines
  <2> QED
    BY <1>3, <2>1, <2>2
<1> QED
  BY <1>2, <1>3, <1>4, <1>5

(* The line after the one whose place is given.                             *)
LEMMA MarkersAreBetween ==
  ASSUME NEW s, IsDiff(s)
  PROVE  /\ WithMarkers(s) \in Seq(PatchLines)
         /\ \A p \in 1..Len(s) :
              /\ Place(s, p) \in 1..Len(WithMarkers(s))
              /\ WithMarkers(s)[Place(s, p)] = s[p]
              /\ ~s[p].line.ends => /\ Place(s, p) + 1 \in 1..Len(WithMarkers(s))
                                    /\ IsMarker(WithMarkers(s)[Place(s, p) + 1])
         /\ \A p, q \in 1..Len(s) : p < q => Place(s, p) < Place(s, q)
         /\ \A i \in 1..Len(WithMarkers(s)) :
              \E p \in 1..Len(s) :
                \/ i = Place(s, p)
                \/ i = Place(s, p) + 1 /\ IsMarker(WithMarkers(s)[i]) /\ ~s[p].line.ends
<1>1. PICK m : m = WithMarkers(s)
  OBVIOUS
<1>2. PICK Q : Q = MarkedPlaces(s)
  OBVIOUS
<1>3. PICK W : W = WithPlaces(s)
  OBVIOUS
<1>4. m = Picked(W, Q)
  BY <1>1, <1>2, <1>3 DEF WithMarkers, MarkedPlaces, WithPlaces
<1>5. /\ Positions(Q)
      /\ \A p \in 1..Len(s) :
              /\ 2 * p - 1 \in Q /\ W[2 * p - 1] = s[p]
              /\ 2 * p \in Q <=> ~s[p].line.ends
              /\ W[2 * p] = [origin |-> "eofnl", line |-> s[p].line]
      /\ \A q \in Q : \E p \in 1..Len(s) :
              q = 2 * p - 1 \/ (q = 2 * p /\ ~s[p].line.ends)
      /\ \A q \in Q : W[q] \in PatchLines
      /\ Len(s) \in Nat
  BY <1>2, <1>3, MarkedPlacesType, DiffLines
<1>6. m \in Seq(PatchLines) /\ Len(m) = Cardinality(Q)
  <2>1. Holding(W, Q, PatchLines)
    BY <1>5 DEF Holding
  <2> QED
    BY <1>4, <1>5, <2>1, PickedIsSeq
<1>7. /\ \A k \in 1..Cardinality(Q) : Nth(Q, k) \in Q /\ m[k] = W[Nth(Q, k)]
      /\ \A i \in Q : Rank(Q, i) \in 1..Cardinality(Q) /\ m[Rank(Q, i)] = W[i]
      /\ \A k \in 1..Cardinality(Q) : Rank(Q, Nth(Q, k)) = k
  BY <1>4, <1>5, PickedElements, NthIsThere
<1>8. ASSUME NEW p \in 1..Len(s)
      PROVE  Place(s, p) \in 1..Len(m) /\ m[Place(s, p)] = s[p] /\ Place(s, p) = Rank(Q, 2 * p - 1)
  BY <1>2, <1>5, <1>6, <1>7 DEF Place
<1>9. ASSUME NEW p \in 1..Len(s), NEW q \in 1..Len(s), p < q PROVE Place(s, p) < Place(s, q)
  <2>1. 2 * p - 1 \in Int /\ 2 * q - 1 \in Int /\ 2 * p - 1 < 2 * q - 1
    BY <1>9
  <2>2. 2 * q - 1 \in Q
    BY <1>5
  <2>3. PICK x, y : x = 2 * p - 1 /\ y = 2 * q - 1
    OBVIOUS
  <2>4. Rank(Q, x) < Rank(Q, y)
    BY <1>5, <2>1, <2>2, <2>3, RankIsMonotonic
  <2> QED
    BY <1>8, <2>3, <2>4
<1>10. ASSUME NEW p \in 1..Len(s), ~s[p].line.ends
       PROVE  Rank(Q, 2 * p) = Place(s, p) + 1 /\ 2 * p \in Q
  <2>1. PICK x, y : x = 2 * p - 1 /\ y = 2 * p
    OBVIOUS
  <2>2. x \in Int /\ y \in Int /\ y = x + 1 /\ y \in Q /\ \A i \in Q : i \in Nat
    <3>1. p \in Nat /\ 2 * p \in Q /\ \A i \in Q : i \in Nat
      <4>1. Positions(Q) /\ 2 * p \in Q /\ Len(s) \in Nat
        BY <1>5, <1>10
      <4> QED
        BY <4>1 DEF Positions
    <3>2. 2 * p - 1 \in Int /\ 2 * p \in Int /\ 2 * p = (2 * p - 1) + 1
      BY <3>1
    <3> QED
      BY <2>1, <3>1, <3>2
  <2>3. Between(Q, x, y) = {y}
    <3>1. \A i \in Q : x < i /\ i <= y <=> i = y
      BY <2>2
    <3> QED
      BY <2>2, <3>1 DEF Between
  <2>4. Cardinality(Between(Q, x, y)) = 1
    BY <2>3, FS_Singleton
  <2>5. Rank(Q, y) = Rank(Q, x) + Cardinality(Between(Q, x, y))
    BY <1>5, <2>2, RankGrows
  <2> QED
    BY <1>8, <2>1, <2>2, <2>4, <2>5
<1>11. ASSUME NEW p \in 1..Len(s), ~s[p].line.ends
       PROVE  Place(s, p) + 1 \in 1..Len(m) /\ IsMarker(m[Place(s, p) + 1])
  <2>1. m[Rank(Q, 2 * p)] = [origin |-> "eofnl", line |-> s[p].line] /\ Rank(Q, 2 * p) \in 1..Len(m)
    BY <1>5, <1>6, <1>7, <1>10, <1>11
  <2> QED
    BY <1>10, <1>11, <2>1 DEF IsMarker
<1>12. ASSUME NEW i \in 1..Len(m)
       PROVE  \E p \in 1..Len(s) : i = Place(s, p) \/ (i = Place(s, p) + 1 /\ IsMarker(m[i]) /\ ~s[p].line.ends)
  <2>1. PICK q \in Q : q = Nth(Q, i) /\ Rank(Q, q) = i
    BY <1>6, <1>7
  <2>2. PICK p \in 1..Len(s) : q = 2 * p - 1 \/ (q = 2 * p /\ ~s[p].line.ends)
    BY <1>5
  <2>3. CASE q = 2 * p - 1
    BY <1>8, <2>1, <2>3
  <2>4. CASE q = 2 * p /\ ~s[p].line.ends
    BY <1>10, <1>11, <2>1, <2>4
  <2> QED
    BY <2>2, <2>3, <2>4
<1> QED
  BY <1>1, <1>6, <1>8, <1>9, <1>11, <1>12

(* A line is followed by a marker just when it has no newline.              *)
LEMMA MarkerFollows ==
  ASSUME NEW s, IsDiff(s), NEW p \in 1..Len(s)
  PROVE  ~s[p].line.ends <=> /\ Place(s, p) < Len(WithMarkers(s))
                             /\ IsMarker(WithMarkers(s)[Place(s, p) + 1])
<1> DEFINE m == WithMarkers(s)
<1>1. m \in Seq(PatchLines) /\ Len(m) \in Nat
  BY MarkersAreBetween
<1>2. ASSUME NEW q \in 1..Len(s) PROVE Place(s, q) \in 1..Len(m) /\ m[Place(s, q)] = s[q]
  BY MarkersAreBetween
<1>3. ASSUME NEW q \in 1..Len(s), NEW r \in 1..Len(s), q < r PROVE Place(s, q) < Place(s, r)
  BY <1>3, MarkersAreBetween
<1>4. ASSUME NEW i \in 1..Len(m)
      PROVE  \E q \in 1..Len(s) : i = Place(s, q) \/ (i = Place(s, q) + 1 /\ IsMarker(m[i]) /\ ~s[q].line.ends)
  BY MarkersAreBetween
<1>5. ASSUME ~s[p].line.ends PROVE Place(s, p) + 1 \in 1..Len(m) /\ IsMarker(m[Place(s, p) + 1])
  BY <1>5, MarkersAreBetween
<1> HIDE DEF m
<1>6. ASSUME Place(s, p) < Len(m), IsMarker(m[Place(s, p) + 1]) PROVE ~s[p].line.ends
  <2>1. Place(s, p) + 1 \in 1..Len(m)
    BY <1>1, <1>2, <1>6
  <2>2. PICK q \in 1..Len(s) :
          Place(s, p) + 1 = Place(s, q) \/ (Place(s, p) + 1 = Place(s, q) + 1 /\ ~s[q].line.ends)
    BY <1>4, <2>1
  <2>3. Place(s, p) + 1 # Place(s, q)
    <3>1. m[Place(s, q)] = s[q] /\ s[q].origin \in Origins
      BY <1>2, DiffLines
    <3> QED
      BY <1>6, <3>1 DEF IsMarker, Origins
  <2>4. Place(s, p) \in Nat /\ Place(s, q) \in Nat /\ p \in Nat /\ q \in Nat
    BY <1>1, <1>2, DiffLines
  <2>5. Place(s, p) = Place(s, q) /\ ~s[q].line.ends
    BY <2>2, <2>3, <2>4
  <2>6. ~(p < q) /\ ~(q < p)
    BY <1>3, <2>4, <2>5
  <2>7. p = q
    BY <2>4, <2>6
  <2> QED
    BY <2>5, <2>7
<1>7. ASSUME ~s[p].line.ends PROVE Place(s, p) < Len(m)
  BY <1>1, <1>2, <1>5, <1>7
<1> QED
  BY <1>5, <1>6, <1>7 DEF m

-------------------------------------------------------------------------------
(* The body of a hunk.                                                      *)

(* The lines of the diff that the index has, those picked in one hunk, and  *)
(* those the index is to have.                                              *)
Other(reverse) == IF reverse THEN "-" ELSE "+"
Before(diff, reverse) == {p \in DOMAIN diff : diff[p].origin # Other(reverse)}
LinesOf(diff) == [p \in DOMAIN diff |-> diff[p].line]
PickedIn(diff, h, a, e, selected) ==
  {p \in a..e : IsChange(diff[p]) /\ <<h, Place(SubSeq(diff, a, e), p - a + 1)>> \in selected}
Changed(B, P) == (B \ P) \cup (P \ B)

(* The lines of a body as libgit2 reads them.                               *)
Texts(E) == [i \in DOMAIN E |-> [text |-> E[i].line.text, ends |-> ~E[i].marked]]

(* The entries that are not of an operation.                                *)
ShownIn(E, K, other) == {i \in K : E[i].op # other}

(* To read one side of picked entries is to pick the texts of that side.    *)
LEMMA ReadPicked ==
  ASSUME NEW E, NEW K, Positions(K), K \subseteq DOMAIN E, NEW other
  PROVE  /\ Positions(ShownIn(E, K, other))
         /\ Read(Picked(E, K), other) = Picked(Texts(E), ShownIn(E, K, other))
         /\ Cardinality(ShownIn(Picked(E, K), DOMAIN Picked(E, K), other)) = Cardinality(ShownIn(E, K, other))
<1> DEFINE L == {i \in K : E[i].op # other}
           body == Picked(E, K)
           T == {i \in DOMAIN body : body[i].op # other}
           texts == [i \in DOMAIN body |-> [text |-> body[i].line.text, ends |-> ~body[i].marked]]
<1>1. /\ Cardinality(K) \in Nat /\ DOMAIN body = 1..Cardinality(K)
      /\ \A k \in 1..Cardinality(K) : Nth(K, k) \in K /\ body[k] = E[Nth(K, k)]
      /\ \A i \in K : Rank(K, i) \in 1..Cardinality(K) /\ body[Rank(K, i)] = E[i]
      /\ \A i \in K : Nth(K, Rank(K, i)) = i
  BY PickedElements, NthIsThere
<1>2. T \in SUBSET (1..Cardinality(K))
  BY <1>1
<1>3. {Nth(K, k) : k \in T} = L
  BY <1>1
<1>4. Positions(L)
  <2>1. L \in SUBSET K
    OBVIOUS
  <2> QED
    BY <2>1, PartsOfPositions
<1>5. Read(body, other) = Picked(texts, T)
  BY DEF Read
<1>6. Positions(T) /\ Picked(Picked(Texts(E), K), T) = Picked(Texts(E), L)
  <2> HIDE DEF T, L
  <2> QED
    BY <1>2, <1>3, PickedTwice
<1>7. \A k \in T : texts[k] = Picked(Texts(E), K)[k]
  <2>1. \A k \in T : k \in DOMAIN body /\ Nth(K, k) \in K /\ body[k] = E[Nth(K, k)]
    BY <1>1
  <2>2. \A k \in T : texts[k] = Texts(E)[Nth(K, k)]
    BY <2>1 DEF Texts
  <2>3. \A k \in T : Picked(Texts(E), K)[k] = Texts(E)[Nth(K, k)]
    BY <1>2, PickedElements
  <2> QED
    BY <2>2, <2>3
<1>8. Picked(texts, T) = Picked(Picked(Texts(E), K), T)
  <2> HIDE DEF texts, T
  <2> QED
    BY <1>6, <1>7, PickedSame
<1>9. Cardinality(T) = Cardinality(L)
  <2>1. Cardinality(T) \in Nat /\ Cardinality(L) \in Nat
    <3> HIDE DEF T, L
    <3> QED
      BY <1>4, <1>6, SomeAreCounted
  <2>2. DOMAIN Picked(texts, T) = 1..Cardinality(T) /\ DOMAIN Picked(Texts(E), L) = 1..Cardinality(L)
    BY DEF Picked
  <2>3. 1..Cardinality(T) = 1..Cardinality(L)
    <3> HIDE DEF T, L, texts
    <3> QED
      BY <1>6, <1>8, <2>2
  <2> HIDE DEF T, L
  <2>4. PICK x, y : x = Cardinality(T) /\ y = Cardinality(L)
    OBVIOUS
  <2>5. x \in Nat /\ y \in Nat /\ 1..x = 1..y
    BY <2>1, <2>3, <2>4
  <2>6. x = y
    <3>1. x > 0 => x \in 1..x
      BY <2>5
    <3>2. y > 0 => y \in 1..y
      BY <2>5
    <3>3. (x > 0 => x <= y) /\ (y > 0 => y <= x)
      BY <2>5, <3>1, <3>2
    <3> QED
      BY <2>5, <3>3
  <2> QED
    BY <2>4, <2>6
<1> QED
  BY <1>4, <1>5, <1>6, <1>8, <1>9 DEF ShownIn

(* A stretch of a diff is a diff, with its positions moved.                 *)
LEMMA Stretch ==
  ASSUME NEW diff, IsDiff(diff), NEW a \in 1..Len(diff), NEW e \in a..Len(diff)
  PROVE  /\ IsDiff(SubSeq(diff, a, e)) /\ Len(SubSeq(diff, a, e)) = e - a + 1
         /\ \A p \in a..e : p - a + 1 \in 1..(e - a + 1) /\ SubSeq(diff, a, e)[p - a + 1] = diff[p]
         /\ \A q \in 1..(e - a + 1) : a + q - 1 \in a..e /\ (a + q - 1) - a + 1 = q
<1>1. PICK U : U = [origin : Origins, line : TextLines]
  OBVIOUS
<1>2. diff \in Seq(U) /\ Len(diff) \in Nat
  BY <1>1 DEF IsDiff
<1>3. SubSeq(diff, a, e) \in Seq(U) /\ Len(SubSeq(diff, a, e)) = e - a + 1
  BY <1>2
<1>4. \A q \in 1..(e - a + 1) : SubSeq(diff, a, e)[q] = diff[a + q - 1]
  BY <1>2
<1>5. \A p \in a..e : p - a + 1 \in 1..(e - a + 1) /\ a + (p - a + 1) - 1 = p
  BY <1>2
<1>6. \A q \in 1..(e - a + 1) : a + q - 1 \in a..e /\ (a + q - 1) - a + 1 = q
  BY <1>2
<1>7. \A p \in a..e : SubSeq(diff, a, e)[p - a + 1] = diff[p]
  BY <1>4, <1>5
<1> QED
  BY <1>1, <1>3, <1>5, <1>6, <1>7 DEF IsDiff

(* The lines of a hunk, and where a line of the diff is among them.         *)
HunkLines(diff, a, e) == WithMarkers(SubSeq(diff, a, e))
Spot(diff, a, e, p) == Place(SubSeq(diff, a, e), p - a + 1)

(* Every line of a hunk shows a position of the diff or is its marker.      *)
LEMMA Spots ==
  ASSUME NEW diff, IsDiff(diff), NEW a \in 1..Len(diff), NEW e \in a..Len(diff)
  PROVE  /\ HunkLines(diff, a, e) \in Seq(PatchLines) /\ Len(HunkLines(diff, a, e)) \in Nat
         /\ DOMAIN HunkLines(diff, a, e) = 1..Len(HunkLines(diff, a, e))
         /\ \A p \in a..e :
              /\ Spot(diff, a, e, p) \in 1..Len(HunkLines(diff, a, e))
              /\ HunkLines(diff, a, e)[Spot(diff, a, e, p)] = diff[p]
              /\ ~diff[p].line.ends <=>
                   /\ Spot(diff, a, e, p) < Len(HunkLines(diff, a, e))
                   /\ IsMarker(HunkLines(diff, a, e)[Spot(diff, a, e, p) + 1])
         /\ \A p, q \in a..e : p < q => Spot(diff, a, e, p) < Spot(diff, a, e, q)
         /\ \A i \in 1..Len(HunkLines(diff, a, e)) :
              \E p \in a..e :
                \/ i = Spot(diff, a, e, p)
                \/ i = Spot(diff, a, e, p) + 1 /\ IsMarker(HunkLines(diff, a, e)[i]) /\ ~diff[p].line.ends
<1> DEFINE s == SubSeq(diff, a, e)
           m == WithMarkers(s)
<1>1. /\ IsDiff(s) /\ Len(s) = e - a + 1
      /\ \A p \in a..e : p - a + 1 \in 1..Len(s) /\ s[p - a + 1] = diff[p]
      /\ \A q \in 1..Len(s) : a + q - 1 \in a..e /\ (a + q - 1) - a + 1 = q
  BY Stretch
<1> HIDE DEF s
<1>2. m \in Seq(PatchLines) /\ Len(m) \in Nat /\ DOMAIN m = 1..Len(m)
  BY <1>1, MarkersAreBetween
<1>3. ASSUME NEW q \in 1..Len(s)
      PROVE  /\ Place(s, q) \in 1..Len(m) /\ m[Place(s, q)] = s[q]
             /\ ~s[q].line.ends <=> Place(s, q) < Len(m) /\ IsMarker(m[Place(s, q) + 1])
  BY <1>1, MarkersAreBetween, MarkerFollows
<1>4. ASSUME NEW q \in 1..Len(s), NEW r \in 1..Len(s), q < r PROVE Place(s, q) < Place(s, r)
  BY <1>1, <1>4, MarkersAreBetween
<1>5. ASSUME NEW i \in 1..Len(m)
      PROVE  \E q \in 1..Len(s) : i = Place(s, q) \/ (i = Place(s, q) + 1 /\ IsMarker(m[i]) /\ ~s[q].line.ends)
  BY <1>1, MarkersAreBetween
<1>6. m = HunkLines(diff, a, e) /\ \A p : Spot(diff, a, e, p) = Place(s, p - a + 1)
  BY DEF s, HunkLines, Spot
<1> HIDE DEF m
<1>7. ASSUME NEW p \in a..e
      PROVE  /\ Spot(diff, a, e, p) \in 1..Len(m) /\ m[Spot(diff, a, e, p)] = diff[p]
             /\ ~diff[p].line.ends <=> Spot(diff, a, e, p) < Len(m) /\ IsMarker(m[Spot(diff, a, e, p) + 1])
  BY <1>1, <1>3, <1>6
<1>8. ASSUME NEW p \in a..e, NEW q \in a..e, p < q
      PROVE  Spot(diff, a, e, p) < Spot(diff, a, e, q)
  <2>1. p - a + 1 \in 1..Len(s) /\ q - a + 1 \in 1..Len(s) /\ p - a + 1 < q - a + 1
    BY <1>1, <1>8
  <2> QED
    BY <1>4, <1>6, <2>1
<1>9. ASSUME NEW i \in 1..Len(m)
      PROVE  \E p \in a..e : \/ i = Spot(diff, a, e, p)
                             \/ i = Spot(diff, a, e, p) + 1 /\ IsMarker(m[i]) /\ ~diff[p].line.ends
  <2>1. PICK q \in 1..Len(s) : i = Place(s, q) \/ (i = Place(s, q) + 1 /\ IsMarker(m[i]) /\ ~s[q].line.ends)
    BY <1>5
  <2>2. PICK p \in a..e : p - a + 1 = q
    BY <1>1
  <2>3. Spot(diff, a, e, p) = Place(s, q) /\ s[q] = diff[p]
    BY <1>1, <1>6, <2>2
  <2> QED
    BY <2>1, <2>3
<1> QED
  BY <1>2, <1>6, <1>7, <1>8, <1>9

(* What Body makes of each line of the hunk, and what it keeps.             *)
Entries(h, lines, selected, reverse) ==
  [i \in DOMAIN lines |->
     [op |-> EmitLine(lines[i], <<h, i>> \in selected, reverse),
      line |-> lines[i].line,
      marked |-> i < Len(lines) /\ IsMarker(lines[i + 1])]]
Kept(h, lines, selected, reverse) ==
  {i \in DOMAIN lines : ~IsMarker(lines[i]) /\ Entries(h, lines, selected, reverse)[i].op # "dropped"}

(* The body of a hunk, with the lines it keeps named.                       *)
LEMMA BodyIsKept ==
  ASSUME NEW h, NEW lines, NEW selected, NEW reverse
  PROVE  Body(h, lines, selected, reverse)
           = Picked(Entries(h, lines, selected, reverse), Kept(h, lines, selected, reverse))
BY DEF Body, Entries, Kept

(* The lines of the diff that stay, by side, and where they are.            *)
LEMMA EntryOfLine ==
  ASSUME NEW diff, IsDiff(diff), NEW a \in 1..Len(diff), NEW e \in a..Len(diff),
         NEW h, NEW selected, NEW reverse \in BOOLEAN, NEW p \in a..e
  PROVE  LET E == Entries(h, HunkLines(diff, a, e), selected, reverse)
             i == Spot(diff, a, e, p)
             P == PickedIn(diff, h, a, e, selected)
             B == Before(diff, reverse)
         IN /\ i \in DOMAIN E
            /\ Texts(E)[i] = diff[p].line
            /\ i \in Kept(h, HunkLines(diff, a, e), selected, reverse) /\ E[i].op # "+" <=> p \in B
            /\ i \in Kept(h, HunkLines(diff, a, e), selected, reverse) /\ E[i].op # "-" <=> p \in Changed(B, P)
            /\ i \in Kept(h, HunkLines(diff, a, e), selected, reverse) /\ E[i].op # " " <=> p \in P
<1> DEFINE m == HunkLines(diff, a, e)
           E == Entries(h, m, selected, reverse)
           i == Spot(diff, a, e, p)
           P == PickedIn(diff, h, a, e, selected)
           B == Before(diff, reverse)
           K == Kept(h, m, selected, reverse)
<1>1. /\ i \in 1..Len(m) /\ DOMAIN m = 1..Len(m) /\ m[i] = diff[p]
      /\ ~diff[p].line.ends <=> i < Len(m) /\ IsMarker(m[i + 1])
  BY Spots
<1>2. /\ p \in DOMAIN diff /\ diff[p].origin \in Origins /\ diff[p].line \in TextLines
  BY DiffLines
<1>3. p \in B <=> diff[p].origin # Other(reverse)
  BY <1>2 DEF Before
<1>4. p \in P <=> IsChange(diff[p]) /\ <<h, i>> \in selected
  BY DEF PickedIn, Spot
<1> HIDE DEF m, i, P, B
<1>5. /\ i \in DOMAIN E /\ E[i] = [op |-> EmitLine(diff[p], <<h, i>> \in selected, reverse),
                                   line |-> diff[p].line,
                                   marked |-> i < Len(m) /\ IsMarker(m[i + 1])]
  BY <1>1 DEF Entries
<1> HIDE DEF E
<1>6. E[i].op = EmitLine(diff[p], <<h, i>> \in selected, reverse)
  BY <1>5
<1>7. PICK op : op = EmitLine(diff[p], <<h, i>> \in selected, reverse)
  OBVIOUS
<1>8. /\ op # "dropped" /\ op # "+" <=> p \in B
      /\ op # "dropped" /\ op # "-" <=> p \in Changed(B, P)
      /\ op # "dropped" /\ op # " " <=> p \in P
  <2>1. \/ op = " " /\ diff[p].origin = " "
        \/ op = " " /\ IsChange(diff[p]) /\ diff[p].origin # Other(reverse) /\ <<h, i>> \notin selected
        \/ op = "dropped" /\ IsChange(diff[p]) /\ diff[p].origin = Other(reverse) /\ <<h, i>> \notin selected
        \/ op = "-" /\ IsChange(diff[p]) /\ diff[p].origin # Other(reverse) /\ <<h, i>> \in selected
        \/ op = "+" /\ IsChange(diff[p]) /\ diff[p].origin = Other(reverse) /\ <<h, i>> \in selected
    BY <1>2, <1>7 DEF EmitLine, InIndex, IsChange, Other, Origins
  <2>2. diff[p].origin = " " => ~IsChange(diff[p]) /\ diff[p].origin # Other(reverse)
    BY DEF IsChange, Other
  <2> QED
    BY <1>3, <1>4, <2>1, <2>2 DEF Changed
<1>9. i \in K <=> op # "dropped"
  <2>1. ~IsMarker(m[i])
    BY <1>1, <1>2 DEF IsMarker, Origins
  <2> QED
    BY <1>1, <1>6, <1>7, <2>1 DEF Kept, E
<1>10. Texts(E)[i] = diff[p].line
  <2>1. Texts(E)[i] = [text |-> E[i].line.text, ends |-> ~E[i].marked]
    BY <1>5 DEF Texts
  <2>2. E[i].line = diff[p].line /\ E[i].marked = (i < Len(m) /\ IsMarker(m[i + 1]))
    <3>1. PICK x, o, k : x = E[i] /\ o = EmitLine(diff[p], <<h, i>> \in selected, reverse)
                         /\ k = (i < Len(m) /\ IsMarker(m[i + 1]))
      OBVIOUS
    <3>2. x = [op |-> o, line |-> diff[p].line, marked |-> k]
      BY <1>5, <3>1, Zenon
    <3>3. x.line = diff[p].line /\ x.marked = k
      BY <3>2
    <3> QED
      BY <3>1, <3>3, Zenon
  <2>3. diff[p].line.ends \in BOOLEAN
        /\ diff[p].line = [text |-> diff[p].line.text, ends |-> diff[p].line.ends]
    BY <1>2 DEF TextLines
  <2>4. (~E[i].marked) = diff[p].line.ends
    BY <1>1, <2>2, <2>3, Zenon
  <2> QED
    BY <2>1, <2>2, <2>3, <2>4, Zenon
<1>11. /\ i \in K /\ E[i].op # "+" <=> p \in B
       /\ i \in K /\ E[i].op # "-" <=> p \in Changed(B, P)
       /\ i \in K /\ E[i].op # " " <=> p \in P
  BY <1>6, <1>7, <1>8, <1>9
<1> QED
  BY <1>5, <1>10, <1>11 DEF m, E, i, P, B, K

(* A part of the lines of a hunk that is on one side, and their places.     *)
LEMMA SpotsAligned ==
  ASSUME NEW diff, IsDiff(diff), NEW a \in 1..Len(diff), NEW e \in a..Len(diff),
         NEW T \in SUBSET (a..e), NEW L, L \subseteq DOMAIN HunkLines(diff, a, e),
         \A p \in a..e : p \in T <=> Spot(diff, a, e, p) \in L,
         \A i \in L : \E p \in a..e : i = Spot(diff, a, e, p)
  PROVE  Positions(T) /\ Aligned([p \in T |-> Spot(diff, a, e, p)], T, L)
<1>1. Positions(T)
  <2>1. Positions(DOMAIN diff) /\ DOMAIN diff = 1..Len(diff) /\ Len(diff) \in Nat
    BY BeginsInOrder, DiffLines
  <2>2. T \in SUBSET DOMAIN diff
    BY <2>1
  <2> QED
    BY <2>1, <2>2, PartsOfPositions
<1>2. \A p, q \in a..e : p < q => Spot(diff, a, e, p) < Spot(diff, a, e, q)
  BY Spots
<1>3. PICK g : g = [p \in T |-> Spot(diff, a, e, p)]
  OBVIOUS
<1>4. g \in [T -> L] /\ \A i, j \in T : i < j => g[i] < g[j]
  BY <1>2, <1>3
<1>5. \A i \in L : \E p \in T : g[p] = i
  BY <1>3
<1> QED
  BY <1>1, <1>3, <1>4, <1>5 DEF Aligned

(* A hunk as synthesize_patch writes it and libgit2 reads it: the lines     *)
(* that are in the index, and those that are to be in it.                   *)
ReadsAs(body, B, P, a, e, t) ==
  /\ Read(body, "+") = Picked(t, B \cap a..e) /\ OldCount(body) = Cardinality(B \cap a..e)
  /\ Read(body, "-") = Picked(t, Changed(B, P) \cap a..e)
  /\ NewCount(body) = Cardinality(Changed(B, P) \cap a..e)
  /\ HasChange(body) <=> P # {}

(* Read on the old side, the body of a hunk is the stretch of the index;    *)
(* read on the new side, the stretch with the picked lines changed.         *)
LEMMA BodyIsRead ==
  ASSUME NEW diff, IsDiff(diff), NEW a \in 1..Len(diff), NEW e \in a..Len(diff),
         NEW h, NEW selected, NEW reverse \in BOOLEAN
  PROVE  ReadsAs(Body(h, HunkLines(diff, a, e), selected, reverse), Before(diff, reverse),
                 PickedIn(diff, h, a, e, selected), a, e, LinesOf(diff))
<1> DEFINE m == HunkLines(diff, a, e)
           E == Entries(h, m, selected, reverse)
           K == Kept(h, m, selected, reverse)
           body == Body(h, m, selected, reverse)
           P == PickedIn(diff, h, a, e, selected)
           B == Before(diff, reverse)
           R == Changed(B, P)
           Of(other) == ShownIn(E, K, other)
<1>1. /\ m \in Seq(PatchLines) /\ Len(m) \in Nat /\ DOMAIN m = 1..Len(m)
      /\ \A i \in 1..Len(m) : \E p \in a..e : i = Spot(diff, a, e, p) \/ IsMarker(m[i])
  BY Spots
<1>2. K \subseteq DOMAIN m /\ DOMAIN E = DOMAIN m /\ \A i \in K : ~IsMarker(m[i])
  BY DEF Kept, Entries
<1>3. Positions(K)
  <2>1. IsFiniteSet(1..Len(m))
    <3>1. 1 \in Int /\ Len(m) \in Int
      BY <1>1
    <3> HIDE DEF m
    <3> QED
      BY <3>1, FS_Interval
  <2>2. K \in SUBSET (1..Len(m)) /\ 1..Len(m) \in SUBSET (Nat \ {0})
    BY <1>1, <1>2
  <2> HIDE DEF K, m
  <2> QED
    BY <2>1, <2>2, FS_Subset DEF Positions
<1>4. body = Picked(E, K)
  BY BodyIsKept
<1>5. ASSUME NEW i \in K PROVE \E p \in a..e : i = Spot(diff, a, e, p)
  BY <1>1, <1>2
<1>6. ASSUME NEW p \in a..e
      PROVE  /\ Spot(diff, a, e, p) \in DOMAIN E
             /\ Texts(E)[Spot(diff, a, e, p)] = diff[p].line
             /\ Spot(diff, a, e, p) \in Of("+") <=> p \in B
             /\ Spot(diff, a, e, p) \in Of("-") <=> p \in R
             /\ Spot(diff, a, e, p) \in Of(" ") <=> p \in P
  <2>1. /\ Spot(diff, a, e, p) \in DOMAIN E
        /\ Texts(E)[Spot(diff, a, e, p)] = diff[p].line
        /\ Spot(diff, a, e, p) \in K /\ E[Spot(diff, a, e, p)].op # "+" <=> p \in B
        /\ Spot(diff, a, e, p) \in K /\ E[Spot(diff, a, e, p)].op # "-" <=> p \in R
        /\ Spot(diff, a, e, p) \in K /\ E[Spot(diff, a, e, p)].op # " " <=> p \in P
    BY EntryOfLine, Zenon
  <2> HIDE DEF E, K, B, R, P, m
  <2> QED
    BY <2>1 DEF ShownIn
<1>7. P \subseteq a..e
  BY DEF PickedIn
<1> HIDE DEF P, B, R, E, K, body, m
<1>8. ASSUME NEW other, NEW T, \A p \in a..e : Spot(diff, a, e, p) \in Of(other) <=> p \in T
      PROVE  /\ Read(body, other) = Picked(LinesOf(diff), T \cap a..e)
             /\ Cardinality(ShownIn(body, DOMAIN body, other)) = Cardinality(T \cap a..e)
  <2> DEFINE L == Of(other)
             U == T \cap a..e
  <2>1. /\ Positions(L) /\ Read(body, other) = Picked(Texts(E), L)
        /\ Cardinality(ShownIn(body, DOMAIN body, other)) = Cardinality(L)
    <3>1. K \subseteq DOMAIN E
      BY <1>2
    <3> QED
      BY <1>3, <1>4, <3>1, ReadPicked
  <2>2. L \subseteq DOMAIN m
    BY <1>2 DEF ShownIn
  <2>3. PICK g : g = [p \in U |-> Spot(diff, a, e, p)]
    OBVIOUS
  <2>4. Positions(U) /\ Aligned(g, U, L)
    <3>1. U \in SUBSET (a..e) /\ L \subseteq DOMAIN HunkLines(diff, a, e)
      BY <2>2 DEF m
    <3>2. \A p \in a..e : p \in U <=> Spot(diff, a, e, p) \in L
      BY <1>8
    <3>3. \A i \in L : \E p \in a..e : i = Spot(diff, a, e, p)
      BY <1>5 DEF ShownIn
    <3> HIDE DEF U, L
    <3> QED
      BY <2>3, <3>1, <3>2, <3>3, SpotsAligned
  <2>5. Matches(LinesOf(diff), Texts(E), g, U)
    <3>1. \A p \in a..e : p \in DOMAIN diff
      BY DiffLines
    <3> QED
      BY <1>6, <2>3, <3>1 DEF Matches, LinesOf
  <2> HIDE DEF U, L
  <2>6. Picked(LinesOf(diff), U) = Picked(Texts(E), L) /\ Cardinality(L) = Cardinality(U)
    BY <2>1, <2>4, <2>5, PickedAlike, AlignedRanks
  <2> QED
    BY <2>1, <2>6 DEF U
<1>9. /\ Read(body, "+") = Picked(LinesOf(diff), B \cap a..e)
      /\ OldCount(body) = Cardinality(B \cap a..e)
  BY <1>6, <1>8 DEF OldCount, ShownIn
<1>10. /\ Read(body, "-") = Picked(LinesOf(diff), R \cap a..e)
       /\ NewCount(body) = Cardinality(R \cap a..e)
  BY <1>6, <1>8 DEF NewCount, ShownIn
<1>11. HasChange(body) <=> P # {}
  <2>1. /\ DOMAIN body = 1..Cardinality(K)
        /\ \A k \in 1..Cardinality(K) : Nth(K, k) \in K /\ body[k] = E[Nth(K, k)]
        /\ \A i \in K : Rank(K, i) \in 1..Cardinality(K) /\ body[Rank(K, i)] = E[i]
    BY <1>3, <1>4, PickedElements
  <2>2. HasChange(body) <=> Of(" ") # {}
    <3>1. ASSUME NEW i \in DOMAIN body, body[i].op # " " PROVE Of(" ") # {}
      <4>1. Nth(K, i) \in Of(" ")
        BY <2>1, <3>1 DEF ShownIn
      <4> QED
        BY <4>1
    <3>2. ASSUME NEW i \in Of(" ") PROVE \E k \in DOMAIN body : body[k].op # " "
      <4>1. i \in K /\ E[i].op # " "
        BY DEF ShownIn
      <4> QED
        BY <2>1, <4>1
    <3> QED
      BY <3>1, <3>2 DEF HasChange
  <2>3. Of(" ") # {} <=> P # {}
    <3>1. ASSUME NEW i \in Of(" ") PROVE P # {}
      BY <1>5, <1>6 DEF ShownIn
    <3>2. ASSUME NEW p \in P PROVE Of(" ") # {}
      BY <1>6, <1>7
    <3> QED
      BY <3>1, <3>2
  <2> QED
    BY <2>2, <2>3
<1> QED
  BY <1>9, <1>10, <1>11, Zenon DEF body, m, B, P, R, ReadsAs

-------------------------------------------------------------------------------
(* A hunk applied.                                                          *)

(* The lines that are in the file when the hunks up to z are applied.       *)
Mix(B, R, z) == {p \in R : p <= z} \cup {p \in B : p > z}

(* The elements from a to z.                                                *)
Part(S, a, z) == S \cap a..z

(* A set of positions of a diff.                                            *)
LEMMA PartsOfStretch ==
  ASSUME NEW n \in Nat, NEW S \in SUBSET (1..n)
  PROVE  Positions(S) /\ Cardinality(S) \in Nat /\ \A i \in S : i \in Nat /\ 0 < i /\ i <= n
<1>1. IsFiniteSet(1..n)
  <2>1. 1 \in Int /\ n \in Int
    OBVIOUS
  <2> QED
    BY <2>1, FS_Interval
<1>2. Positions(S)
  <2>1. 1..n \in SUBSET (Nat \ {0})
    OBVIOUS
  <2> QED
    BY <1>1, <2>1, FS_Subset DEF Positions
<1> QED
  BY <1>2, SomeAreCounted

(* No text of the file is taken for a failure.                              *)
LEMMA TextIsNoFailure ==
  ASSUME NEW u \in Seq(TextLines)
  PROVE  u # Failure.lines
<1>1. PICK f : f = Failure.lines
  OBVIOUS
<1>2. Len(f) = 1 /\ f[1].text = 0
  BY <1>1 DEF Failure
<1>3. ASSUME u = f PROVE FALSE
  <2>1. 1 \in DOMAIN u
    BY <1>2, <1>3
  <2>2. u[1] \in TextLines
    BY <2>1
  <2>3. u[1].text # 0
    BY <2>2 DEF TextLines
  <2> QED
    BY <1>2, <1>3, <2>3
<1> QED
  BY <1>1, <1>3

(* From i to j.                                                             *)
Cut(u, i, j) == SubSeq(u, i, j)

(* The lines of the mix before a hunk, in it and after it.                  *)
HasParts(lines, n, B, R, a, z, t) ==
  /\ lines \in Seq(TextLines) /\ Rank(R, a - 1) \in Nat
  /\ Rank(R, a - 1) + Cardinality(Part(B, a, z)) <= Len(lines)
  /\ Cut(lines, 1, Rank(R, a - 1)) = Picked(t, Part(R, 1, a - 1))
  /\ Cut(lines, Rank(R, a - 1) + 1, Rank(R, a - 1) + Cardinality(Part(B, a, z))) = Picked(t, Part(B, a, z))
  /\ Cut(lines, Rank(R, a - 1) + Cardinality(Part(B, a, z)) + 1, Len(lines)) = Picked(t, Part(B, z + 1, n))

(* The text between two hunks: what is before the next one, its stretch,    *)
(* and what is after it.                                                    *)
LEMMA MixInParts ==
  ASSUME NEW n \in Nat, NEW B \in SUBSET (1..n), NEW R \in SUBSET (1..n),
         NEW a \in 1..n, NEW z \in a..n, NEW t, Holding(t, 1..n, TextLines)
  PROVE  HasParts(Picked(t, Mix(B, R, a - 1)), n, B, R, a, z, t)
<1>0. PICK M : M = Mix(B, R, a - 1)
  OBVIOUS
<1>1. PICK X, Y, Z : X = Part(R, 1, a - 1) /\ Y = Part(B, a, z) /\ Z = Part(B, z + 1, n)
  OBVIOUS
<1>2. a \in Nat /\ z \in Nat /\ 0 < a /\ a <= z /\ z <= n /\ \A i \in 1..n : i \in Nat /\ 0 < i /\ i <= n
  OBVIOUS
<1>3. M \in SUBSET (1..n) /\ Positions(M) /\ Positions(R)
  <2>1. M \in SUBSET (1..n)
    BY <1>0 DEF Mix
  <2> QED
    BY <2>1, PartsOfStretch
<1>4. Holding(t, M, TextLines)
  BY <1>3 DEF Holding
<1>5. Picked(t, M) \in Seq(TextLines) /\ Len(Picked(t, M)) = Cardinality(M) /\ Cardinality(M) \in Nat
  BY <1>3, <1>4, PickedIsSeq, SomeAreCounted
<1>6. \A i \in 1..n : i \in M <=> (i \in R /\ i <= a - 1) \/ (i \in B /\ i > a - 1)
  BY <1>0 DEF Mix
<1>7. Between(M, 0, a - 1) = X
  <2>1. Between(M, 0, a - 1) \in SUBSET (1..n) /\ X \in SUBSET (1..n)
    BY <1>1, <1>3 DEF Between, Part
  <2>2. ASSUME NEW i \in 1..n PROVE i \in Between(M, 0, a - 1) <=> i \in X
    BY <1>1, <1>2, <1>6 DEF Between, Part
  <2> QED
    BY <2>1, <2>2
<1>8. Between(M, a - 1, z) = Y
  <2>1. Between(M, a - 1, z) \in SUBSET (1..n) /\ Y \in SUBSET (1..n)
    BY <1>1, <1>3 DEF Between, Part
  <2>2. ASSUME NEW i \in 1..n PROVE i \in Between(M, a - 1, z) <=> i \in Y
    BY <1>1, <1>2, <1>6 DEF Between, Part
  <2> QED
    BY <2>1, <2>2
<1>9. Between(M, z, n) = Z
  <2>1. Between(M, z, n) \in SUBSET (1..n) /\ Z \in SUBSET (1..n)
    BY <1>1, <1>3 DEF Between, Part
  <2>2. ASSUME NEW i \in 1..n PROVE i \in Between(M, z, n) <=> i \in Z
    BY <1>1, <1>2, <1>6 DEF Between, Part
  <2> QED
    BY <2>1, <2>2
<1>10. Rank(M, a - 1) = Rank(R, a - 1)
  <2>1. PICK U, V : U = {j \in M : j <= a - 1} /\ V = {j \in R : j <= a - 1}
    OBVIOUS
  <2>2. U \in SUBSET (1..n) /\ V \in SUBSET (1..n)
    BY <1>3, <2>1
  <2>3. ASSUME NEW j \in 1..n PROVE j \in U <=> j \in V
    <3>1. j \in M /\ j <= a - 1 <=> j \in R /\ j <= a - 1
      BY <1>2, <1>6
    <3> QED
      BY <2>1, <3>1
  <2>4. U = V
    BY <2>2, <2>3
  <2> QED
    BY <2>1, <2>4 DEF Rank
<1>11. Rank(M, 0) = 0
  <2>1. \A j \in M : ~(j <= 0)
    BY <1>2, <1>3
  <2>2. {j \in M : j <= 0} = {}
    BY <2>1
  <2> QED
    BY <2>2, FS_EmptySet DEF Rank
<1>12. Rank(M, n) = Cardinality(M)
  <2>1. \A j \in M : j <= n
    BY <1>2, <1>3
  <2>2. {j \in M : j <= n} = M
    BY <2>1
  <2> QED
    BY <2>2 DEF Rank
<1>13. a - 1 \in Int /\ 0 <= a - 1 /\ a - 1 <= z /\ z \in Int /\ n \in Int /\ 0 \in Int /\ 0 + 1 = 1
  BY <1>2
<1>14. Rank(M, z) = Rank(R, a - 1) + Cardinality(Y) /\ Rank(M, a - 1) \in Nat /\ Rank(M, z) <= Cardinality(M)
  <2>1. Rank(M, z) = Rank(M, a - 1) + Cardinality(Between(M, a - 1, z))
    BY <1>3, <1>13, RankGrows
  <2>2. Rank(M, z) \in 0..Cardinality(M) /\ Rank(M, a - 1) \in 0..Cardinality(M)
    BY <1>3, <1>13, RankType
  <2> QED
    BY <1>5, <1>8, <1>10, <2>1, <2>2
<1>15. SubSeq(Picked(t, M), Rank(M, 0) + 1, Rank(M, a - 1)) = Picked(t, X)
  BY <1>3, <1>4, <1>7, <1>13, StretchOfPicked
<1>16. SubSeq(Picked(t, M), Rank(M, a - 1) + 1, Rank(M, z)) = Picked(t, Y)
  BY <1>3, <1>4, <1>8, <1>13, StretchOfPicked
<1>17. SubSeq(Picked(t, M), Rank(M, z) + 1, Rank(M, n)) = Picked(t, Z)
  BY <1>2, <1>3, <1>4, <1>9, <1>13, StretchOfPicked
<1> QED
  <2>1. HasParts(Picked(t, M), n, B, R, a, z, t)
    BY <1>1, <1>5, <1>10, <1>11, <1>12, <1>13, <1>14, <1>15, <1>16, <1>17 DEF Cut, HasParts
  <2> QED
    BY <1>0, <2>1

(* The mix with the hunk in place.                                          *)
LEMMA MixOfParts ==
  ASSUME NEW n \in Nat, NEW B \in SUBSET (1..n), NEW R \in SUBSET (1..n),
         NEW a \in 1..n, NEW z \in a..n, NEW t, Holding(t, 1..n, TextLines)
  PROVE  Picked(t, Mix(B, R, z))
           = Joined(Joined(Picked(t, Part(R, 1, a - 1)), Picked(t, Part(R, a, z))),
                    Picked(t, Part(B, z + 1, n)))
<1>1. PICK X, W, Z, U, M : /\ X = Part(R, 1, a - 1) /\ W = Part(R, a, z) /\ Z = Part(B, z + 1, n)
                           /\ U = X \cup W /\ M = Mix(B, R, z)
  OBVIOUS
<1>2. a \in Nat /\ z \in Nat /\ 0 < a /\ a <= z /\ z <= n /\ \A i \in 1..n : i \in Nat /\ 0 < i /\ i <= n
  OBVIOUS
<1>3. X \in SUBSET (1..n) /\ W \in SUBSET (1..n) /\ Z \in SUBSET (1..n)
  BY <1>1 DEF Part
<1>4. Positions(X) /\ Positions(W) /\ Positions(Z)
  BY <1>3, PartsOfStretch
<1>5. InTwo(U, X, W)
  BY <1>1, <1>2 DEF InTwo, Part
<1>6. \A i \in U : i <= z
  BY <1>1, <1>2 DEF Part
<1>7. InTwo(M, U, Z)
  <2>1. \A i \in U, j \in Z : i < j
    BY <1>1, <1>2, <1>6 DEF Part
  <2>2. M = U \cup Z
    <3>1. \A i \in R : i <= z <=> i \in X \/ i \in W
      BY <1>1, <1>2 DEF Part
    <3>2. \A i \in B : i > z <=> i \in Z
      BY <1>1, <1>2 DEF Part
    <3>3. X \subseteq R /\ W \subseteq R /\ Z \subseteq B
      BY <1>1 DEF Part
    <3>4. M = {p \in R : p <= z} \cup {p \in B : p > z}
      BY <1>1 DEF Mix
    <3>5. \A i : i \in M <=> i \in U \/ i \in Z
      BY <1>1, <3>1, <3>2, <3>3, <3>4
    <3> QED
      BY <3>5
  <2> QED
    BY <2>1, <2>2 DEF InTwo
<1>8. Holding(t, U, TextLines) /\ Holding(t, M, TextLines)
  <2>1. U \subseteq 1..n /\ M \subseteq 1..n
    BY <1>1, <1>3 DEF Mix
  <2> QED
    BY <2>1 DEF Holding
<1>9. Positions(U) /\ Picked(t, U) = Joined(Picked(t, X), Picked(t, W))
  BY <1>4, <1>5, <1>8, PickedInTwo
<1>10. Picked(t, M) = Joined(Picked(t, U), Picked(t, Z))
  BY <1>4, <1>7, <1>8, <1>9, PickedInTwo
<1> QED
  BY <1>1, <1>9, <1>10, Zenon

(* libgit2 puts a hunk in its place.                                        *)
LEMMA HunkApplies ==
  ASSUME NEW n \in Nat, NEW B \in SUBSET (1..n), NEW R \in SUBSET (1..n),
         NEW a \in 1..n, NEW z \in a..n, NEW t, Holding(t, 1..n, TextLines),
         NEW h, NEW ix, ix.lines = Picked(t, B),
         Read(h.body, "+") = Picked(t, Part(B, a, z)), OldCount(h.body) = Cardinality(Part(B, a, z)),
         Read(h.body, "-") = Picked(t, Part(R, a, z)),
         h.oldStart = Rank(B, a - 1) + (IF Part(B, a, z) = {} THEN 0 ELSE 1),
         At(h) = Rank(R, a - 1)
  PROVE  ApplyHunk(Picked(t, Mix(B, R, a - 1)), h, ix) = Picked(t, Mix(B, R, z))
<1>1. PICK M, X, Y, Z, W : /\ M = Mix(B, R, a - 1) /\ X = Part(R, 1, a - 1)
                           /\ Y = Part(B, a, z) /\ Z = Part(B, z + 1, n) /\ W = Part(R, a, z)
  OBVIOUS
<1>2. PICK r, lines : r = Rank(R, a - 1) /\ lines = Picked(t, M)
  OBVIOUS
<1>3. /\ lines \in Seq(TextLines) /\ r \in Nat
      /\ r + Cardinality(Y) <= Len(lines)
      /\ SubSeq(lines, 1, r) = Picked(t, X)
      /\ SubSeq(lines, r + 1, r + Cardinality(Y)) = Picked(t, Y)
      /\ SubSeq(lines, r + Cardinality(Y) + 1, Len(lines)) = Picked(t, Z)
  <2>1. HasParts(lines, n, B, R, a, z, t)
    BY <1>1, <1>2, MixInParts
  <2> QED
    BY <1>1, <1>2, <2>1, Zenon DEF Cut, HasParts
<1>4. Picked(t, Mix(B, R, z)) = Joined(Joined(Picked(t, X), Picked(t, W)), Picked(t, Z))
  BY <1>1, MixOfParts
<1>5. /\ Positions(Y) /\ Cardinality(Y) \in Nat /\ Picked(t, Y) \in Seq(TextLines)
      /\ Len(Picked(t, Y)) = Cardinality(Y) /\ (Cardinality(Y) = 0 <=> Y = {})
  <2>1. Y \in SUBSET (1..n) /\ Holding(t, Y, TextLines)
    BY <1>1 DEF Holding, Part
  <2>2. Positions(Y) /\ Cardinality(Y) \in Nat
    BY <2>1, PartsOfStretch
  <2> QED
    BY <2>1, <2>2, PickedIsSeq, SomeAreCounted
<1>6. PICK s : s = Rank(B, a - 1)
  OBVIOUS
<1>7. /\ s \in Nat /\ s + Cardinality(Y) <= Len(ix.lines)
      /\ SubSeq(ix.lines, s + 1, s + Cardinality(Y)) = Picked(t, Y)
  <2>1. Positions(B) /\ Cardinality(B) \in Nat /\ Holding(t, B, TextLines)
    BY PartsOfStretch DEF Holding
  <2>2. a - 1 \in Int /\ z \in Int /\ a - 1 <= z
    OBVIOUS
  <2>3. Between(B, a - 1, z) = Y
    <3>1. \A i \in 1..n : i \in a..z <=> a - 1 < i /\ i <= z
      OBVIOUS
    <3>2. \A i : i \in Between(B, a - 1, z) <=> i \in B /\ a - 1 < i /\ i <= z
      BY DEF Between
    <3>3. \A i : i \in Y <=> i \in B /\ i \in a..z
      BY <1>1 DEF Part
    <3>4. \A i : i \in Between(B, a - 1, z) <=> i \in Y
      BY <3>1, <3>2, <3>3
    <3> QED
      BY <3>4
  <2>4. Rank(B, z) = s + Cardinality(Y) /\ s \in 0..Cardinality(B) /\ Rank(B, z) \in 0..Cardinality(B)
    BY <1>6, <2>1, <2>2, <2>3, RankGrows, RankType
  <2>5. SubSeq(Picked(t, B), s + 1, Rank(B, z)) = Picked(t, Y)
    BY <1>6, <2>1, <2>2, <2>3, StretchOfPicked
  <2>6. Len(Picked(t, B)) = Cardinality(B)
    BY <2>1, PickedIsSeq
  <2> QED
    BY <2>1, <2>4, <2>5, <2>6
<1>8. PICK old, from : old = Read(h.body, "+") /\ from = h.oldStart - (IF old = <<>> THEN 0 ELSE 1)
  OBVIOUS
<1>9. old = Picked(t, Y) /\ Len(old) = Cardinality(Y) /\ OldCount(h.body) = Cardinality(Y) /\ old \in Seq(TextLines)
  BY <1>1, <1>5, <1>8
<1>10. from = s
  <2>1. old = <<>> <=> Y = {}
    BY <1>5, <1>9
  <2>2. h.oldStart = s + (IF Y = {} THEN 0 ELSE 1)
    BY <1>1, <1>6
  <2> QED
    BY <1>5, <1>7, <1>8, <2>1, <2>2
<1>11. Fits(lines, h, ix)
  <2>1. r + Len(old) <= Len(lines) /\ SubSeq(lines, r + 1, r + Len(old)) = old
    BY <1>3, <1>9
  <2>2. s + Len(old) <= Len(ix.lines) /\ SubSeq(ix.lines, s + 1, s + Len(old)) = old
    BY <1>7, <1>9
  <2>3. At(h) = r
    BY <1>2
  <2> QED
    BY <1>8, <1>10, <2>1, <2>2, <2>3 DEF Fits
<1>12. ApplyHunk(lines, h, ix)
         = Joined(Joined(SubSeq(lines, 1, r), Read(h.body, "-")),
                  SubSeq(lines, r + Cardinality(Y) + 1, Len(lines)))
  <2>1. lines # Failure.lines
    BY <1>3, TextIsNoFailure
  <2>2. OldCount(h.body) = Cardinality(Y) /\ At(h) = r
    BY <1>2, <1>9
  <2> QED
    BY <1>11, <2>1, <2>2, Zenon DEF ApplyHunk, Joined
<1>13. Read(h.body, "-") = Picked(t, W)
  BY <1>1
<1> QED
  BY <1>1, <1>2, <1>3, <1>4, <1>12, <1>13, Zenon

-------------------------------------------------------------------------------
(* The hunks of a patch in turn.                                            *)

(* Hunks lie on stretches from A[k] to Z[k], in order; outside of them the  *)
(* lines stay.                                                              *)
Last(Z, k) == IF k = 0 THEN 0 ELSE Z[k]

Spans(A, Z, K, n) ==
  /\ \A k \in 1..K : A[k] \in 1..n /\ Z[k] \in A[k]..n
  /\ \A j, k \in 1..K : j < k => Z[j] < A[k]

SameOutside(A, Z, K, n, B, R) ==
  \A p \in 1..n : (\A k \in 1..K : p \notin A[k]..Z[k]) => (p \in B <=> p \in R)

(* The hunks built are what BodyIsRead says.                                *)
Describes(build, a, z, B, R, t) ==
  /\ Read(build.body, "+") = Picked(t, Part(B, a, z))
  /\ OldCount(build.body) = Cardinality(Part(B, a, z))
  /\ Read(build.body, "-") = Picked(t, Part(R, a, z))
  /\ NewCount(build.body) = Cardinality(Part(R, a, z))
  /\ build.start = Rank(B, a - 1) + (IF Part(B, a, z) = {} THEN 0 ELSE 1)
  /\ Part(R, a, z) = {} => a = 1

AllDescribed(builds, A, Z, K, B, R, t) ==
  \A k \in 1..K : Describes(builds[k], A[k], Z[k], B, R, t)

(* The rank at the end of a stretch, from the rank before it.               *)
LEMMA RankInParts ==
  ASSUME NEW n \in Nat, NEW S \in SUBSET (1..n), NEW a \in 1..n, NEW z \in a..n
  PROVE  /\ Rank(S, z) \in Nat /\ Rank(S, a - 1) \in Nat /\ Cardinality(Part(S, a, z)) \in Nat
         /\ Rank(S, z) = Rank(S, a - 1) + Cardinality(Part(S, a, z))
         /\ Cardinality(Part(S, a, z)) = 0 <=> Part(S, a, z) = {}
<1>1. Positions(S) /\ Cardinality(S) \in Nat
  BY PartsOfStretch
<1>2. a - 1 \in Int /\ z \in Int /\ a - 1 <= z
  OBVIOUS
<1>3. Between(S, a - 1, z) = Part(S, a, z)
  <2>1. \A i \in 1..n : a - 1 < i /\ i <= z <=> i \in a..z
    OBVIOUS
  <2> QED
    BY <2>1 DEF Between, Part
<1>4. Rank(S, z) \in 0..Cardinality(S) /\ Rank(S, a - 1) \in 0..Cardinality(S)
  BY <1>1, <1>2, RankType
<1>5. Rank(S, z) = Rank(S, a - 1) + Cardinality(Part(S, a, z))
  BY <1>1, <1>2, <1>3, RankGrows
<1>6. Positions(Part(S, a, z))
  <2>1. Part(S, a, z) \in SUBSET S
    BY DEF Part
  <2> QED
    BY <1>1, <2>1, PartsOfPositions
<1> QED
  BY <1>1, <1>4, <1>5, <1>6, SomeAreCounted

(* Nothing happens between one stretch and the next.                        *)
LEMMA SameInBetween ==
  ASSUME NEW n \in Nat, NEW K \in Nat, NEW A, NEW Z, Spans(A, Z, K, n),
         NEW B \in SUBSET (1..n), NEW R \in SUBSET (1..n), SameOutside(A, Z, K, n, B, R),
         NEW k \in 1..K
  PROVE  /\ Mix(B, R, A[k] - 1) = Mix(B, R, Last(Z, k - 1))
         /\ Rank(R, A[k] - 1) - Rank(B, A[k] - 1) = Rank(R, Last(Z, k - 1)) - Rank(B, Last(Z, k - 1))
<1>1. PICK a, l : a = A[k] - 1 /\ l = Last(Z, k - 1)
  OBVIOUS
<1>2. \A j \in 1..K : A[j] \in 1..n /\ Z[j] \in A[j]..n
  BY DEF Spans
<1>3. l \in Nat /\ a \in Nat /\ l <= a /\ a < n
  <2>1. A[k] \in 1..n
    BY <1>2
  <2>2. CASE k = 1
    BY <1>1, <2>1, <2>2 DEF Last
  <2>3. CASE k # 1
    <3>1. k - 1 \in 1..K /\ k - 1 < k /\ k - 1 # 0
      BY <2>3
    <3>2. Z[k - 1] < A[k] /\ A[k - 1] \in 1..n /\ Z[k - 1] \in A[k - 1]..n
      BY <1>2, <3>1 DEF Spans
    <3>3. l = Z[k - 1]
      BY <1>1, <3>1 DEF Last
    <3> QED
      BY <1>1, <2>1, <3>2, <3>3
  <2> QED
    BY <2>2, <2>3
<1>4. ASSUME NEW p \in 1..n, l < p, p <= a PROVE p \in B <=> p \in R
  <2>1. ASSUME NEW j \in 1..K, p \in A[j]..Z[j] PROVE FALSE
    <3>1. A[j] \in Nat /\ Z[j] \in Nat /\ A[j] <= p /\ p <= Z[j] /\ A[k] = a + 1 /\ A[k] \in Nat
      BY <1>1, <1>2, <2>1
    <3>2. CASE j < k
      <4>1. k - 1 \in 1..K /\ k - 1 # 0 /\ l = Z[k - 1]
        BY <1>1, <3>2 DEF Last
      <4>2. j = k - 1 \/ Z[j] < A[k - 1]
        <5>1. j < k - 1 => Z[j] < A[k - 1]
          BY <4>1 DEF Spans
        <5> QED
          BY <3>2, <5>1
      <4>3. A[k - 1] \in Nat /\ Z[k - 1] \in Nat /\ A[k - 1] <= Z[k - 1]
        BY <1>2, <4>1
      <4> QED
        BY <1>3, <1>4, <3>1, <4>1, <4>2, <4>3
    <3>3. CASE j = k
      BY <1>3, <1>4, <3>1, <3>3
    <3>4. CASE k < j
      <4>1. Z[k] < A[j] /\ Z[k] \in Nat /\ A[k] <= Z[k]
        BY <1>2, <3>4 DEF Spans
      <4> QED
        BY <1>3, <1>4, <3>1, <4>1
    <3> QED
      BY <3>2, <3>3, <3>4
  <2> QED
    BY <2>1 DEF SameOutside
<1>5. Mix(B, R, a) = Mix(B, R, l)
  <2>1. Mix(B, R, a) \in SUBSET (1..n) /\ Mix(B, R, l) \in SUBSET (1..n)
    BY DEF Mix
  <2>2. ASSUME NEW p \in 1..n PROVE p \in Mix(B, R, a) <=> p \in Mix(B, R, l)
    <3>1. p \in Nat
      OBVIOUS
    <3> QED
      BY <1>3, <1>4, <3>1 DEF Mix
  <2> QED
    BY <2>1, <2>2
<1>6. Rank(R, a) - Rank(B, a) = Rank(R, l) - Rank(B, l)
  <2>1. Between(R, l, a) = Between(B, l, a)
    <3>1. Between(R, l, a) \in SUBSET (1..n) /\ Between(B, l, a) \in SUBSET (1..n)
      BY DEF Between
    <3>2. \A p \in 1..n : p \in Between(R, l, a) <=> p \in Between(B, l, a)
      BY <1>4 DEF Between
    <3> QED
      BY <3>1, <3>2
  <2>2. Positions(R) /\ Positions(B) /\ a \in Int /\ l \in Int
    BY <1>3, PartsOfStretch
  <2>3. PICK x : x = Cardinality(Between(R, l, a))
    OBVIOUS
  <2>4. Rank(R, a) = Rank(R, l) + x /\ Rank(B, a) = Rank(B, l) + x /\ x \in Nat
    BY <1>3, <2>1, <2>2, <2>3, RankGrows
  <2>5. /\ Rank(R, l) \in 0..Cardinality(R) /\ Rank(B, l) \in 0..Cardinality(B)
        /\ Cardinality(R) \in Nat /\ Cardinality(B) \in Nat
    BY <2>2, RankType
  <2> QED
    BY <2>4, <2>5
<1> QED
  BY <1>1, <1>5, <1>6

(* The sums that Numbered keeps.                                            *)
IsOffset(f, builds) ==
  f = [i \in 0..Len(builds) |->
         IF i = 0 THEN 0 ELSE f[i - 1] + NewCount(builds[i].body) - OldCount(builds[i].body)]
Offset(builds) == CHOOSE f : IsOffset(f, builds)

(* The offset after a hunk is the difference of the ranks there.            *)
LEMMA Offsets ==
  ASSUME NEW n \in Nat, NEW builds, NEW K \in Nat, Len(builds) = K, NEW A, NEW Z, Spans(A, Z, K, n),
         NEW B \in SUBSET (1..n), NEW R \in SUBSET (1..n), SameOutside(A, Z, K, n, B, R), NEW t,
         AllDescribed(builds, A, Z, K, B, R, t)
  PROVE  \A k \in 0..K : Offset(builds)[k] = Rank(R, Last(Z, k)) - Rank(B, Last(Z, k))
<1>1. PICK f : f = [k \in 0..K |-> Rank(R, Last(Z, k)) - Rank(B, Last(Z, k))]
  OBVIOUS
<1>2. f[0] = 0
  <2>1. Rank(R, 0) = 0 /\ Rank(B, 0) = 0
    <3>1. (\A j \in R : ~(j <= 0)) /\ (\A j \in B : ~(j <= 0))
      BY PartsOfStretch
    <3>2. {j \in R : j <= 0} = {} /\ {j \in B : j <= 0} = {}
      BY <3>1
    <3> QED
      BY <3>2, FS_EmptySet DEF Rank
  <2> QED
    BY <1>1, <2>1 DEF Last
<1>3. ASSUME NEW k \in 1..K
      PROVE  /\ f[k] \in Int /\ NewCount(builds[k].body) \in Nat /\ OldCount(builds[k].body) \in Nat
             /\ f[k] = f[k - 1] + NewCount(builds[k].body) - OldCount(builds[k].body)
  <2>1. A[k] \in 1..n /\ Z[k] \in A[k]..n
    BY DEF Spans
  <2>2. PICK a, z : a = A[k] /\ z = Z[k]
    OBVIOUS
  <2>3. /\ Rank(R, z) \in Nat /\ Rank(R, a - 1) \in Nat /\ Cardinality(Part(R, a, z)) \in Nat
        /\ Rank(R, z) = Rank(R, a - 1) + Cardinality(Part(R, a, z))
        /\ Rank(B, z) \in Nat /\ Rank(B, a - 1) \in Nat /\ Cardinality(Part(B, a, z)) \in Nat
        /\ Rank(B, z) = Rank(B, a - 1) + Cardinality(Part(B, a, z))
    BY <2>1, <2>2, RankInParts
  <2>4. Rank(R, a - 1) - Rank(B, a - 1) = Rank(R, Last(Z, k - 1)) - Rank(B, Last(Z, k - 1))
    BY <2>2, SameInBetween
  <2>5. f[k - 1] = Rank(R, a - 1) - Rank(B, a - 1) /\ f[k] = Rank(R, z) - Rank(B, z)
    <3>1. k \in 0..K /\ k - 1 \in 0..K /\ k # 0
      OBVIOUS
    <3> QED
      BY <1>1, <2>2, <2>4, <3>1 DEF Last
  <2>6. NewCount(builds[k].body) = Cardinality(Part(R, a, z)) /\ OldCount(builds[k].body) = Cardinality(Part(B, a, z))
    BY <2>2 DEF Describes, AllDescribed
  <2> QED
    BY <2>3, <2>5, <2>6
<1>4. IsOffset(f, builds)
  <2>1. ASSUME NEW i \in 0..K
        PROVE  f[i] = IF i = 0 THEN 0 ELSE f[i - 1] + NewCount(builds[i].body) - OldCount(builds[i].body)
    <3>1. CASE i = 0
      BY <1>2, <3>1
    <3>2. CASE i # 0
      <4>1. i \in 1..K
        BY <3>2
      <4> QED
        BY <1>3, <3>2, <4>1
    <3> QED
      BY <3>1, <3>2
  <2>2. f = [i \in 0..K |-> f[i]]
    BY <1>1
  <2>3. f = [i \in 0..K |-> IF i = 0 THEN 0 ELSE f[i - 1] + NewCount(builds[i].body) - OldCount(builds[i].body)]
    BY <2>1, <2>2
  <2> QED
    BY <2>3 DEF IsOffset
<1>5. PICK g : g = Offset(builds)
  OBVIOUS
<1>6. IsOffset(g, builds)
  BY <1>4, <1>5 DEF Offset
<1>7. \A i \in 0..K : g[i] = IF i = 0 THEN 0 ELSE g[i - 1] + NewCount(builds[i].body) - OldCount(builds[i].body)
  BY <1>6 DEF IsOffset
<1>8. PICK S : S = {i \in 0..K : g[i] = f[i]}
  OBVIOUS
<1>9. 0 \in S
  <2>1. 0 \in 0..K
    OBVIOUS
  <2> QED
    BY <1>2, <1>7, <1>8, <2>1
<1>10. ASSUME NEW i \in 1..K, i - 1 \in S PROVE i \in S
  <2>1. i \in 0..K /\ i # 0
    OBVIOUS
  <2>2. g[i] = g[i - 1] + NewCount(builds[i].body) - OldCount(builds[i].body)
    BY <1>7, <2>1
  <2> QED
    BY <1>3, <1>8, <1>10, <2>1, <2>2
<1>11. 0..K \subseteq S
  BY <1>9, <1>10, NumberByNumber
<1> QED
  BY <1>1, <1>5, <1>8, <1>11

(* The numbers of one hunk.                                                 *)
LEMMA NumberedHunks ==
  ASSUME NEW builds, Len(builds) \in Nat, DOMAIN builds = 1..Len(builds), NEW k \in 1..Len(builds)
  PROVE  /\ Numbered(builds)[k].oldStart = builds[k].start
         /\ Numbered(builds)[k].newStart =
              IF NewCount(builds[k].body) = 0 THEN 0
              ELSE builds[k].start + Offset(builds)[k - 1] + (IF OldCount(builds[k].body) = 0 THEN 1 ELSE 0)
         /\ Numbered(builds)[k].body = builds[k].body
         /\ Len(Numbered(builds)) = Len(builds)
<1>1. Numbered(builds) =
        [i \in DOMAIN builds |->
           [oldStart |-> builds[i].start,
            newStart |-> IF NewCount(builds[i].body) = 0 THEN 0
                         ELSE builds[i].start + Offset(builds)[i - 1] + (IF OldCount(builds[i].body) = 0 THEN 1 ELSE 0),
            body |-> builds[i].body]]
  BY DEF Numbered, Offset, IsOffset
<1>2. Len(Numbered(builds)) = Len(builds)
  <2>1. DOMAIN Numbered(builds) = 1..Len(builds)
    BY <1>1
  <2>2. PICK u, m : u = Numbered(builds) /\ m = Len(builds)
    OBVIOUS
  <2>3. u = [i \in 1..m |-> u[i]] /\ m \in Nat
    BY <1>1, <2>1, <2>2
  <2>4. Len(u) = m
    BY <2>3
  <2> QED
    BY <2>2, <2>4
<1> QED
  BY <1>1, <1>2

(* What libgit2 makes of the hunks in turn.                                 *)
IsApplication(f, hunks, ix) ==
  f = [n \in 0..Len(hunks) |-> IF n = 0 THEN ix.lines ELSE ApplyHunk(f[n - 1], hunks[n], ix)]
Application(hunks, ix) == CHOOSE f : IsApplication(f, hunks, ix)

(* Apply, with the sequence of its applications named.                      *)
LEMMA ApplyInTurn ==
  ASSUME NEW patch, NEW ix
  PROVE  LET after == Application(patch.hunks, ix)[Len(patch.hunks)]
         IN Apply(patch, ix) = IF after = Failure.lines \/ patch.isNew = ix.present THEN Failure
                               ELSE IF patch.isDeleted THEN [present |-> FALSE, lines |-> <<>>]
                               ELSE [present |-> TRUE, lines |-> after]
BY DEF Apply, Application, IsApplication

(* Each hunk is numbered so that it goes where the ones before it have left *)
(* its lines.                                                               *)
LEMMA HunkIsAt ==
  ASSUME NEW n \in Nat, NEW builds, NEW K \in Nat, Len(builds) = K, DOMAIN builds = 1..K,
         NEW A, NEW Z, Spans(A, Z, K, n),
         NEW B \in SUBSET (1..n), NEW R \in SUBSET (1..n), SameOutside(A, Z, K, n, B, R), NEW t,
         AllDescribed(builds, A, Z, K, B, R, t), NEW k \in 1..K
  PROVE  At(Numbered(builds)[k]) = Rank(R, A[k] - 1)
<1>1. PICK a, z, h : a = A[k] /\ z = Z[k] /\ h = Numbered(builds)[k]
  OBVIOUS
<1>2. a \in 1..n /\ z \in a..n
  BY <1>1 DEF Spans
<1>3. /\ Rank(R, a - 1) \in Nat /\ Cardinality(Part(R, a, z)) \in Nat
      /\ Cardinality(Part(R, a, z)) = 0 <=> Part(R, a, z) = {}
      /\ Rank(B, a - 1) \in Nat /\ Cardinality(Part(B, a, z)) \in Nat
      /\ Cardinality(Part(B, a, z)) = 0 <=> Part(B, a, z) = {}
  BY <1>2, RankInParts
<1>4. PICK o : o = Offset(builds)[k - 1]
  OBVIOUS
<1>5. o = Rank(R, a - 1) - Rank(B, a - 1)
  <2>1. k - 1 \in 0..K
    OBVIOUS
  <2>2. o = Rank(R, Last(Z, k - 1)) - Rank(B, Last(Z, k - 1))
    BY <1>4, <2>1, Offsets
  <2>3. Rank(R, A[k] - 1) - Rank(B, A[k] - 1) = Rank(R, Last(Z, k - 1)) - Rank(B, Last(Z, k - 1))
    BY SameInBetween
  <2> QED
    BY <1>1, <2>2, <2>3
<1>6. /\ OldCount(builds[k].body) = Cardinality(Part(B, a, z))
      /\ NewCount(builds[k].body) = Cardinality(Part(R, a, z))
      /\ builds[k].start = Rank(B, a - 1) + (IF Part(B, a, z) = {} THEN 0 ELSE 1)
      /\ Part(R, a, z) = {} => a = 1
  BY <1>1 DEF Describes, AllDescribed
<1>7. h.newStart = IF NewCount(builds[k].body) = 0 THEN 0
                   ELSE builds[k].start + o + (IF OldCount(builds[k].body) = 0 THEN 1 ELSE 0)
  BY <1>1, <1>4, NumberedHunks
<1>8. CASE Part(R, a, z) = {}
  <2>1. h.newStart = 0 /\ a = 1
    BY <1>3, <1>6, <1>7, <1>8
  <2>2. Rank(R, 0) = 0
    <3>1. \A j \in R : ~(j <= 0)
      BY PartsOfStretch
    <3>2. {j \in R : j <= 0} = {}
      BY <3>1
    <3> QED
      BY <3>2, FS_EmptySet DEF Rank
  <2> QED
    BY <1>1, <2>1, <2>2 DEF At
<1>9. CASE Part(R, a, z) # {}
  <2>1. h.newStart = Rank(R, a - 1) + 1
    BY <1>3, <1>5, <1>6, <1>7, <1>9
  <2>2. h.newStart # 0 /\ h.newStart - 1 = Rank(R, a - 1)
    BY <1>3, <2>1
  <2> QED
    BY <1>1, <2>2 DEF At
<1> QED
  BY <1>8, <1>9

(* All the hunks of a patch, with their numbers, find their lines, and      *)
(* turn the lines before into those after.                                  *)
LEMMA HunksApply ==
  ASSUME NEW n \in Nat, NEW builds, NEW K \in Nat, Len(builds) = K, DOMAIN builds = 1..K,
         NEW A, NEW Z, Spans(A, Z, K, n),
         NEW B \in SUBSET (1..n), NEW R \in SUBSET (1..n), SameOutside(A, Z, K, n, B, R),
         NEW t, Holding(t, 1..n, TextLines), K # 0,
         AllDescribed(builds, A, Z, K, B, R, t),
         NEW ix, ix.lines = Picked(t, B)
  PROVE  /\ Application(Numbered(builds), ix)[Len(Numbered(builds))] = Picked(t, R)
         /\ Len(Numbered(builds)) = K
<1>1. PICK hunks, f : /\ hunks = Numbered(builds)
                      /\ f = [k \in 0..K |-> Picked(t, Mix(B, R, Last(Z, k)))]
  OBVIOUS
<1>2. Len(hunks) = K
  <2>1. 1 \in 1..K
    OBVIOUS
  <2> QED
    BY <1>1, <2>1, NumberedHunks
<1>3. f[0] = ix.lines
  <2>1. Mix(B, R, 0) = B
    <3>1. (\A j \in R : ~(j <= 0)) /\ (\A j \in B : j > 0)
      BY PartsOfStretch
    <3> QED
      BY <3>1 DEF Mix
  <2> QED
    BY <1>1, <2>1 DEF Last
<1>4. ASSUME NEW k \in 1..K PROVE f[k] = ApplyHunk(f[k - 1], hunks[k], ix)
  <2>1. PICK a, z, h : a = A[k] /\ z = Z[k] /\ h = hunks[k]
    OBVIOUS
  <2>2. a \in 1..n /\ z \in a..n
    BY <2>1 DEF Spans
  <2>3. h.oldStart = builds[k].start /\ h.body = builds[k].body
    BY <1>1, <2>1, NumberedHunks
  <2>4. At(h) = Rank(R, a - 1)
    BY <1>1, <2>1, HunkIsAt
  <2>5. Describes(builds[k], a, z, B, R, t)
    BY <2>1 DEF AllDescribed
  <2>6. ApplyHunk(Picked(t, Mix(B, R, a - 1)), h, ix) = Picked(t, Mix(B, R, z))
    <3>1. /\ Read(h.body, "+") = Picked(t, Part(B, a, z)) /\ OldCount(h.body) = Cardinality(Part(B, a, z))
          /\ Read(h.body, "-") = Picked(t, Part(R, a, z))
          /\ h.oldStart = Rank(B, a - 1) + (IF Part(B, a, z) = {} THEN 0 ELSE 1)
      BY <2>3, <2>5, Zenon DEF Describes
    <3> QED
      BY <2>2, <2>4, <3>1, HunkApplies
  <2>7. f[k] = Picked(t, Mix(B, R, z)) /\ f[k - 1] = Picked(t, Mix(B, R, a - 1))
    <3>1. k \in 0..K /\ k - 1 \in 0..K /\ k # 0
      OBVIOUS
    <3>2. Mix(B, R, a - 1) = Mix(B, R, Last(Z, k - 1))
      BY <2>1, SameInBetween
    <3> QED
      BY <1>1, <2>1, <3>1, <3>2 DEF Last
  <2> QED
    BY <2>1, <2>6, <2>7
<1>5. IsApplication(f, hunks, ix)
  <2>1. ASSUME NEW i \in 0..K PROVE f[i] = IF i = 0 THEN ix.lines ELSE ApplyHunk(f[i - 1], hunks[i], ix)
    <3>1. CASE i = 0
      BY <1>3, <3>1
    <3>2. CASE i # 0
      <4>1. i \in 1..K
        BY <3>2
      <4> QED
        BY <1>4, <3>2, <4>1
    <3> QED
      BY <3>1, <3>2
  <2>2. f = [i \in 0..K |-> f[i]]
    BY <1>1
  <2>3. f = [i \in 0..K |-> IF i = 0 THEN ix.lines ELSE ApplyHunk(f[i - 1], hunks[i], ix)]
    BY <2>1, <2>2
  <2> QED
    BY <1>2, <2>3 DEF IsApplication
<1>6. PICK g : g = Application(hunks, ix)
  OBVIOUS
<1>7. IsApplication(g, hunks, ix)
  BY <1>5, <1>6 DEF Application
<1>8. \A i \in 0..K : g[i] = IF i = 0 THEN ix.lines ELSE ApplyHunk(g[i - 1], hunks[i], ix)
  BY <1>2, <1>7 DEF IsApplication
<1>9. PICK S : S = {i \in 0..K : g[i] = f[i]}
  OBVIOUS
<1>10. 0 \in S
  <2>1. 0 \in 0..K
    OBVIOUS
  <2> QED
    BY <1>3, <1>8, <1>9, <2>1
<1>11. ASSUME NEW i \in 1..K, i - 1 \in S PROVE i \in S
  <2>1. i \in 0..K /\ i # 0
    OBVIOUS
  <2>2. g[i] = ApplyHunk(g[i - 1], hunks[i], ix)
    BY <1>8, <2>1
  <2> QED
    BY <1>4, <1>9, <1>11, <2>1, <2>2
<1>12. 0..K \subseteq S
  BY <1>10, <1>11, NumberByNumber
<1>13. g[K] = Picked(t, Mix(B, R, Z[K]))
  <2>1. K \in 0..K
    OBVIOUS
  <2> QED
    BY <1>1, <1>9, <1>12, <2>1 DEF Last
<1>14. Mix(B, R, Z[K]) = R
  <2>1. K \in 1..K /\ \A k \in 1..K : A[k] \in 1..n /\ Z[k] \in A[k]..n
    BY DEF Spans
  <2>2. ASSUME NEW p \in 1..n, p > Z[K] PROVE p \in B <=> p \in R
    <3>1. ASSUME NEW k \in 1..K, p \in A[k]..Z[k] PROVE FALSE
      <4>1. k = K \/ Z[k] < A[K]
        <5>1. k # K => k < K
          OBVIOUS
        <5> QED
          BY <2>1, <5>1 DEF Spans
      <4> QED
        BY <2>1, <2>2, <3>1, <4>1
    <3> QED
      BY <3>1 DEF SameOutside
  <2>3. Z[K] \in Nat
    BY <2>1
  <2>4. ASSUME NEW p \in 1..n PROVE p \in Mix(B, R, Z[K]) <=> p \in R
    <3>1. p <= Z[K] \/ p > Z[K]
      BY <2>3
    <3> QED
      BY <2>2, <2>3, <3>1 DEF Mix
  <2>5. Mix(B, R, Z[K]) \in SUBSET (1..n)
    BY DEF Mix
  <2> QED
    BY <2>4, <2>5
<1> QED
  BY <1>1, <1>2, <1>6, <1>13, <1>14

-------------------------------------------------------------------------------
(* The patch of a diff, and what becomes of the index.                      *)

HunksIn(diff) == Cardinality(Begins(diff))
BeginOf(diff, h) == Nth(Begins(diff), h)
StopOf(diff, h) == EndOf(diff, BeginOf(diff, h))
InHunk(diff, h, p) == p \in BeginOf(diff, h)..StopOf(diff, h)
KeyOf(diff, h, p) == <<h, Spot(diff, BeginOf(diff, h), StopOf(diff, h), p)>>

(* The lines of the diff that are picked.                                   *)
PickedLines(diff, selected) ==
  {p \in DOMAIN diff : IsChange(diff[p])
     /\ \E h \in 1..HunksIn(diff) : InHunk(diff, h, p) /\ KeyOf(diff, h, p) \in selected}

(* The hunks of a diff lie in order and have all its changes.               *)
LEMMA HunksOfDiff ==
  ASSUME NEW diff, IsDiff(diff)
  PROVE  /\ HunksIn(diff) \in Nat /\ DOMAIN Hunks(diff) = 1..HunksIn(diff) /\ Len(Hunks(diff)) = HunksIn(diff)
         /\ \A h \in 1..HunksIn(diff) :
              /\ BeginOf(diff, h) \in Begins(diff) /\ BeginOf(diff, h) \in 1..Len(diff)
              /\ StopOf(diff, h) \in BeginOf(diff, h)..Len(diff)
              /\ Hunks(diff)[h] = Hunk(diff, BeginOf(diff, h))
              /\ Hunks(diff)[h].lines = HunkLines(diff, BeginOf(diff, h), StopOf(diff, h))
         /\ \A j, k \in 1..HunksIn(diff) : j < k => StopOf(diff, j) < BeginOf(diff, k)
         /\ \A c \in DOMAIN diff : IsChange(diff[c]) => \E h \in 1..HunksIn(diff) : InHunk(diff, h, c)
<1> DEFINE H == HunksIn(diff)
           S == Begins(diff)
           u == [a \in DOMAIN diff |-> Hunk(diff, a)]
<1>1. Positions(S) /\ H \in Nat
  BY BeginsInOrder DEF HunksIn
<1>2. \A h \in 1..H : BeginOf(diff, h) \in S
  BY <1>1, NthIsThere DEF HunksIn, BeginOf
<1>3. \A h \in 1..H : BeginOf(diff, h) \in 1..Len(diff) /\ StopOf(diff, h) \in BeginOf(diff, h)..Len(diff)
  BY <1>2, SpanEnds DEF StopOf
<1>4. DOMAIN Hunks(diff) = 1..H
  BY DEF Hunks, Picked, HunksIn
<1>5. ASSUME NEW h \in 1..H PROVE Hunks(diff)[h] = Hunk(diff, BeginOf(diff, h))
  <2>1. Hunks(diff)[h] = u[Nth(S, h)]
    BY DEF Hunks, Picked, HunksIn
  <2>2. Nth(S, h) \in DOMAIN diff
    BY <1>2 DEF BeginOf, Begins
  <2> QED
    BY <2>1, <2>2 DEF BeginOf
<1>6. ASSUME NEW h \in 1..H PROVE Hunks(diff)[h].lines = HunkLines(diff, BeginOf(diff, h), StopOf(diff, h))
  <2>1. PICK a : a = BeginOf(diff, h)
    OBVIOUS
  <2>2. Hunk(diff, a).lines = WithMarkers(SubSeq(diff, a, EndOf(diff, a)))
    BY DEF Hunk
  <2> QED
    BY <1>5, <2>1, <2>2, Zenon DEF HunkLines, StopOf
<1>7. Len(Hunks(diff)) = H
  <2>1. PICK x, m : x = Hunks(diff) /\ m = H
    OBVIOUS
  <2>2. x = [h \in 1..m |-> x[h]] /\ m \in Nat
    <3>1. x = [h \in 1..H |-> x[h]]
      BY <2>1 DEF Hunks, Picked, HunksIn
    <3> QED
      BY <1>1, <2>1, <3>1
  <2>3. Len(x) = m
    BY <2>2
  <2> QED
    BY <2>1, <2>3
<1>8. ASSUME NEW j \in 1..H, NEW k \in 1..H, j < k PROVE StopOf(diff, j) < BeginOf(diff, k)
  <2>1. BeginOf(diff, j) < BeginOf(diff, k)
    BY <1>1, <1>8, NthIsMonotonic DEF BeginOf, HunksIn
  <2> QED
    BY <1>2, <2>1, SpansApart DEF StopOf
<1>9. ASSUME NEW c \in DOMAIN diff, IsChange(diff[c]) PROVE \E h \in 1..H : InHunk(diff, h, c)
  <2>1. PICK a \in S : c \in a..EndOf(diff, a)
    BY <1>9, ChangesAreInSpans
  <2>2. Rank(S, a) \in 1..H /\ BeginOf(diff, Rank(S, a)) = a
    BY <1>1, NthIsThere DEF BeginOf, HunksIn
  <2> QED
    BY <2>1, <2>2 DEF InHunk, StopOf
<1> QED
  BY <1>1, <1>2, <1>3, <1>4, <1>5, <1>6, <1>7, <1>8, <1>9

(* A line is in one hunk only.                                              *)
LEMMA OneHunk ==
  ASSUME NEW diff, IsDiff(diff), NEW j \in 1..HunksIn(diff), NEW k \in 1..HunksIn(diff), NEW p,
         InHunk(diff, j, p), InHunk(diff, k, p)
  PROVE  j = k
<1>1. /\ HunksIn(diff) \in Nat /\ Len(diff) \in Nat
      /\ BeginOf(diff, j) \in 1..Len(diff) /\ StopOf(diff, j) \in BeginOf(diff, j)..Len(diff)
      /\ BeginOf(diff, k) \in 1..Len(diff) /\ StopOf(diff, k) \in BeginOf(diff, k)..Len(diff)
      /\ j < k => StopOf(diff, j) < BeginOf(diff, k)
      /\ k < j => StopOf(diff, k) < BeginOf(diff, j)
  BY HunksOfDiff, DiffLines
<1> QED
  BY <1>1 DEF InHunk

(* Where a hunk begins on the side of the index.                            *)
LEMMA StartOfHunk ==
  ASSUME NEW diff, IsDiff(diff), NEW a \in Begins(diff), NEW reverse \in BOOLEAN
  PROVE  (IF reverse THEN Hunk(diff, a).newStart ELSE Hunk(diff, a).oldStart)
           = Rank(Before(diff, reverse), a - 1)
             + (IF Part(Before(diff, reverse), a, EndOf(diff, a)) = {} THEN 0 ELSE 1)
<1> DEFINE n == Len(diff)
           e == EndOf(diff, a)
           B == Before(diff, reverse)
           On(from, to, other) == Cardinality({p \in from..to : diff[p].origin # other})
           o == Other(reverse)
<1>1. n \in Nat /\ DOMAIN diff = 1..n /\ a \in 1..n /\ e \in a..n
  BY DiffLines, SpanEnds
<1>2. B \in SUBSET (1..n) /\ \A p \in 1..n : p \in B <=> diff[p].origin # o
  BY <1>1 DEF Before
<1>3. (IF reverse THEN Hunk(diff, a).newStart ELSE Hunk(diff, a).oldStart)
        = On(1, a - 1, o) + (IF On(a, e, o) = 0 THEN 0 ELSE 1)
  BY DEF Hunk, Other
<1> HIDE DEF B, o, e, n
<1>4. On(1, a - 1, o) = Rank(B, a - 1)
  <2>1. \A p \in 1..(a - 1) : p \in 1..n
    BY <1>1
  <2>2. ASSUME NEW p \in B, p <= a - 1 PROVE p \in 1..(a - 1) /\ diff[p].origin # o
    BY <1>1, <1>2, <2>2
  <2>3. \A p \in 1..(a - 1) : diff[p].origin # o => p \in B /\ p <= a - 1
    BY <1>1, <1>2, <2>1
  <2>4. {p \in 1..(a - 1) : diff[p].origin # o} = {p \in B : p <= a - 1}
    BY <2>2, <2>3
  <2> QED
    BY <2>4 DEF Rank
<1>5. On(a, e, o) = Cardinality(Part(B, a, e))
  <2>1. \A p \in a..e : p \in 1..n
    BY <1>1
  <2>2. {p \in a..e : diff[p].origin # o} = Part(B, a, e)
    BY <1>2, <2>1 DEF Part
  <2> QED
    BY <2>2
<1>6. Cardinality(Part(B, a, e)) = 0 <=> Part(B, a, e) = {}
  BY <1>1, <1>2, RankInParts
<1> HIDE DEF On
<1> QED
  BY <1>3, <1>4, <1>5, <1>6 DEF B, e

(* What is picked in a hunk.                                                *)
LEMMA PickedInHunk ==
  ASSUME NEW diff, IsDiff(diff), NEW selected, NEW h \in 1..HunksIn(diff)
  PROVE  PickedIn(diff, h, BeginOf(diff, h), StopOf(diff, h), selected)
           = Part(PickedLines(diff, selected), BeginOf(diff, h), StopOf(diff, h))
<1>1. PICK a, e : a = BeginOf(diff, h) /\ e = StopOf(diff, h)
  OBVIOUS
<1>2. a \in 1..Len(diff) /\ e \in a..Len(diff) /\ Len(diff) \in Nat /\ DOMAIN diff = 1..Len(diff)
  BY <1>1, HunksOfDiff, DiffLines
<1>3. \A p \in a..e : p \in DOMAIN diff /\ InHunk(diff, h, p)
  BY <1>1, <1>2 DEF InHunk
<1>4. \A p \in a..e : KeyOf(diff, h, p) = <<h, Place(SubSeq(diff, a, e), p - a + 1)>>
  BY <1>1 DEF KeyOf, Spot
<1>5. ASSUME NEW p \in a..e
      PROVE  p \in PickedLines(diff, selected) <=> IsChange(diff[p]) /\ KeyOf(diff, h, p) \in selected
  <2>1. ASSUME NEW k \in 1..HunksIn(diff), InHunk(diff, k, p) PROVE k = h
    BY <1>3, <2>1, OneHunk
  <2> QED
    BY <1>3, <2>1 DEF PickedLines
<1>6. PickedIn(diff, h, a, e, selected) = Part(PickedLines(diff, selected), a, e)
  BY <1>4, <1>5 DEF PickedIn, Part
<1> QED
  BY <1>1, <1>6

(* The hunks of the new patch, before they are numbered.                    *)
BuildOf(patch, selected, reverse, h) ==
  [start |-> IF reverse THEN patch.hunks[h].newStart ELSE patch.hunks[h].oldStart,
   body |-> Body(h, patch.hunks[h].lines, selected, reverse)]
ChangedHunks(patch, selected, reverse) ==
  {h \in DOMAIN patch.hunks : HasChange(BuildOf(patch, selected, reverse, h).body)}
Builds(patch, selected, reverse) ==
  Picked([h \in DOMAIN patch.hunks |-> BuildOf(patch, selected, reverse, h)],
         ChangedHunks(patch, selected, reverse))
Rejects(patch, selected) ==
  \E h \in DOMAIN patch.hunks : RejectAmbiguous(h, patch.hunks[h].lines, selected)

(* Synthesize, with its builds named.                                       *)
LEMMA Synthesized ==
  ASSUME NEW patch, NEW selected, NEW reverse
  PROVE  Synthesize(patch, selected, reverse) =
           IF Rejects(patch, selected) \/ Builds(patch, selected, reverse) = <<>>
           THEN Refused
           ELSE [refused |-> FALSE,
                 isNew |-> IF reverse THEN patch.isDeleted ELSE patch.isNew,
                 isDeleted |-> (IF reverse THEN patch.isNew ELSE patch.isDeleted)
                                 /\ DeletesEverything(patch, Builds(patch, selected, reverse)),
                 hunks |-> Numbered(Builds(patch, selected, reverse))]
BY DEF Synthesize, Rejects, Builds, BuildOf, ChangedHunks

(* A hunk that leaves nothing is all of the diff.                           *)
LEMMA NothingLeft ==
  ASSUME NEW diff, IsDiff(diff), NEW reverse \in BOOLEAN, NEW P \in SUBSET DOMAIN diff,
         \A p \in P : IsChange(diff[p]), NEW a \in Begins(diff),
         Part(Changed(Before(diff, reverse), P), a, EndOf(diff, a)) = {}
  PROVE  a = 1 /\ EndOf(diff, a) = Len(diff)
<1>1. a \in 1..Len(diff) /\ EndOf(diff, a) \in a..Len(diff)
  BY SpanEnds
<1>2. ASSUME NEW p \in a..EndOf(diff, a) PROVE IsChange(diff[p])
  <2>1. p \in DOMAIN diff /\ diff[p].origin \in Origins
    BY <1>1, DiffLines
  <2>2. p \notin Changed(Before(diff, reverse), P)
    BY DEF Part
  <2>3. diff[p].origin = " " => p \in Before(diff, reverse) /\ p \notin P
    BY <2>1 DEF Before, Other, IsChange
  <2> QED
    BY <2>1, <2>2, <2>3 DEF Changed, IsChange, Origins
<1> QED
  BY <1>2, WithoutContext

(* The build of a hunk describes its stretch, and it changes something      *)
(* when a line of the hunk is picked.                                       *)
LEMMA BuildIsDescribed ==
  ASSUME NEW diff, IsDiff(diff), NEW reverse \in BOOLEAN, NEW selected,
         NEW patch, patch.hunks = Hunks(diff), NEW h \in 1..HunksIn(diff)
  PROVE  LET B == Before(diff, reverse)
             P == PickedLines(diff, selected)
         IN /\ Describes(BuildOf(patch, selected, reverse, h), BeginOf(diff, h), StopOf(diff, h),
                         B, Changed(B, P), LinesOf(diff))
            /\ h \in ChangedHunks(patch, selected, reverse) <=> \E p \in P : InHunk(diff, h, p)
<1>1. PICK a, e, B, P, R, t :
        /\ a = BeginOf(diff, h) /\ e = StopOf(diff, h) /\ B = Before(diff, reverse)
        /\ P = PickedLines(diff, selected) /\ R = Changed(B, P) /\ t = LinesOf(diff)
  OBVIOUS
<1>2. /\ a \in Begins(diff) /\ a \in 1..Len(diff) /\ e \in a..Len(diff) /\ e = EndOf(diff, a)
      /\ h \in DOMAIN patch.hunks /\ patch.hunks[h] = Hunk(diff, a)
      /\ patch.hunks[h].lines = HunkLines(diff, a, e)
  BY <1>1, HunksOfDiff DEF StopOf
<1>3. PICK build : build = BuildOf(patch, selected, reverse, h)
  OBVIOUS
<1>4. build.body = Body(h, HunkLines(diff, a, e), selected, reverse)
  BY <1>2, <1>3 DEF BuildOf
<1>5. PickedIn(diff, h, a, e, selected) = Part(P, a, e)
  BY <1>1, PickedInHunk
<1>6. Changed(B, Part(P, a, e)) \cap a..e = Part(R, a, e) /\ B \cap a..e = Part(B, a, e)
  BY <1>1 DEF Changed, Part
<1>7. /\ Read(build.body, "+") = Picked(t, Part(B, a, e)) /\ OldCount(build.body) = Cardinality(Part(B, a, e))
      /\ Read(build.body, "-") = Picked(t, Part(R, a, e)) /\ NewCount(build.body) = Cardinality(Part(R, a, e))
      /\ HasChange(build.body) <=> Part(P, a, e) # {}
  <2>1. PICK body, Q : /\ body = Body(h, HunkLines(diff, a, e), selected, reverse)
                       /\ Q = PickedIn(diff, h, a, e, selected)
    OBVIOUS
  <2>2. ReadsAs(body, B, Q, a, e, t)
    BY <1>1, <1>2, <2>1, BodyIsRead
  <2> QED
    BY <1>1, <1>4, <1>5, <1>6, <2>1, <2>2, Zenon DEF ReadsAs
<1>8. build.start = Rank(B, a - 1) + (IF Part(B, a, e) = {} THEN 0 ELSE 1)
  <2>1. build.start = IF reverse THEN Hunk(diff, a).newStart ELSE Hunk(diff, a).oldStart
    BY <1>2, <1>3 DEF BuildOf
  <2> QED
    BY <1>1, <1>2, <2>1, StartOfHunk
<1>9. Part(R, a, e) = {} => a = 1
  <2>1. P \in SUBSET DOMAIN diff /\ \A p \in P : IsChange(diff[p])
    BY <1>1 DEF PickedLines
  <2> QED
    BY <1>1, <1>2, <2>1, NothingLeft
<1>10. Describes(build, a, e, B, R, t)
  BY <1>7, <1>8, <1>9, Zenon DEF Describes
<1>11. h \in ChangedHunks(patch, selected, reverse) <=> \E p \in P : InHunk(diff, h, p)
  <2>1. h \in ChangedHunks(patch, selected, reverse) <=> HasChange(build.body)
    BY <1>2, <1>3 DEF ChangedHunks
  <2>2. Part(P, a, e) # {} <=> \E p \in P : InHunk(diff, h, p)
    BY <1>1 DEF Part, InHunk
  <2> QED
    BY <1>7, <2>1, <2>2
<1> QED
  BY <1>1, <1>3, <1>10, <1>11, Zenon

(* The hunks that are built, and where they lie in the diff.                *)
BuiltAs(diff, patch, selected, reverse, K, A, Z) ==
  /\ Len(Builds(patch, selected, reverse)) = K /\ DOMAIN Builds(patch, selected, reverse) = 1..K
  /\ Spans(A, Z, K, Len(diff))
  /\ SameOutside(A, Z, K, Len(diff), Before(diff, reverse),
                 Changed(Before(diff, reverse), PickedLines(diff, selected)))
  /\ AllDescribed(Builds(patch, selected, reverse), A, Z, K, Before(diff, reverse),
                  Changed(Before(diff, reverse), PickedLines(diff, selected)), LinesOf(diff))
  /\ K # 0 <=> PickedLines(diff, selected) # {}
  /\ K = Cardinality(ChangedHunks(patch, selected, reverse))
  /\ \A k \in 1..K : A[k] \in Begins(diff) /\ Z[k] = EndOf(diff, A[k])

(* The builds of a patch are those of stretches in order, outside of which  *)
(* no line is picked.                                                       *)
LEMMA BuildsAreDescribed ==
  ASSUME NEW diff, IsDiff(diff), NEW reverse \in BOOLEAN, NEW selected,
         NEW patch, patch.hunks = Hunks(diff)
  PROVE  \E K, A, Z : K \in Nat /\ BuiltAs(diff, patch, selected, reverse, K, A, Z)
<1> DEFINE H == HunksIn(diff)
           C == ChangedHunks(patch, selected, reverse)
           K == Cardinality(C)
           builds == Builds(patch, selected, reverse)
           A == [k \in 1..K |-> BeginOf(diff, Nth(C, k))]
           Z == [k \in 1..K |-> StopOf(diff, Nth(C, k))]
           B == Before(diff, reverse)
           P == PickedLines(diff, selected)
           R == Changed(B, P)
           n == Len(diff)
           t == LinesOf(diff)
<1>1. /\ H \in Nat /\ DOMAIN patch.hunks = 1..H
      /\ \A h \in 1..H : /\ BeginOf(diff, h) \in Begins(diff) /\ BeginOf(diff, h) \in 1..n
                         /\ StopOf(diff, h) \in BeginOf(diff, h)..n
      /\ \A j, k \in 1..H : j < k => StopOf(diff, j) < BeginOf(diff, k)
      /\ \A c \in DOMAIN diff : IsChange(diff[c]) => \E h \in 1..H : InHunk(diff, h, c)
  BY HunksOfDiff
<1>2. ASSUME NEW h \in 1..H
      PROVE  /\ Describes(BuildOf(patch, selected, reverse, h), BeginOf(diff, h), StopOf(diff, h), B, R, t)
             /\ h \in C <=> \E p \in P : InHunk(diff, h, p)
  BY <1>2, BuildIsDescribed
<1>3. C \in SUBSET (1..H)
  BY <1>1 DEF ChangedHunks
<1>4. Positions(C) /\ K \in Nat /\ (K = 0 <=> C = {})
  <2> HIDE DEF C
  <2> QED
    BY <1>1, <1>3, PartsOfStretch, SomeAreCounted
<1>5. ASSUME NEW k \in 1..K PROVE Nth(C, k) \in C /\ Nth(C, k) \in 1..H
  <2> HIDE DEF C
  <2> QED
    BY <1>3, <1>4, NthIsThere
<1>6. builds = [k \in 1..K |-> BuildOf(patch, selected, reverse, Nth(C, k))]
  <2>1. builds = [k \in 1..K |-> [h \in DOMAIN patch.hunks |-> BuildOf(patch, selected, reverse, h)][Nth(C, k)]]
    BY DEF Builds, Picked
  <2>2. \A k \in 1..K : [h \in DOMAIN patch.hunks |-> BuildOf(patch, selected, reverse, h)][Nth(C, k)]
                          = BuildOf(patch, selected, reverse, Nth(C, k))
    BY <1>1, <1>5
  <2> HIDE DEF builds, C, K
  <2> QED
    BY <2>1, <2>2
<1> HIDE DEF builds, C, B, P, t, n, H
<1>7. Len(builds) = K /\ DOMAIN builds = 1..K
  <2> HIDE DEF K
  <2>1. DOMAIN builds = 1..K
    BY <1>6
  <2>2. builds = [k \in 1..K |-> builds[k]]
    BY <1>6
  <2>3. Len(builds) = K
    BY <1>4, <2>2
  <2> QED
    BY <2>1, <2>3
<1>8. \A k \in 1..K : A[k] = BeginOf(diff, Nth(C, k)) /\ Z[k] = StopOf(diff, Nth(C, k))
  OBVIOUS
<1> HIDE DEF A, Z
<1>9. Spans(A, Z, K, n)
  <2>1. \A k \in 1..K : A[k] \in 1..n /\ Z[k] \in A[k]..n
    BY <1>1, <1>5, <1>8
  <2>2. ASSUME NEW j \in 1..K, NEW k \in 1..K, j < k PROVE Z[j] < A[k]
    <3>1. Nth(C, j) < Nth(C, k)
      BY <1>4, <2>2, NthIsMonotonic
    <3> QED
      BY <1>1, <1>5, <1>8, <3>1
  <2> QED
    BY <2>1, <2>2 DEF Spans
<1>10. ASSUME NEW p \in P PROVE \E k \in 1..K : p \in A[k]..Z[k]
  <2>1. PICK h \in 1..H : InHunk(diff, h, p)
    BY DEF P, PickedLines, H
  <2>2. h \in C
    BY <1>2, <2>1
  <2>3. Rank(C, h) \in 1..K /\ Nth(C, Rank(C, h)) = h
    BY <1>4, <2>2, NthIsThere
  <2>4. A[Rank(C, h)] = BeginOf(diff, h) /\ Z[Rank(C, h)] = StopOf(diff, h)
    BY <1>8, <2>3
  <2>5. p \in A[Rank(C, h)]..Z[Rank(C, h)]
    BY <2>1, <2>4 DEF InHunk
  <2> QED
    BY <2>3, <2>5
<1>11. SameOutside(A, Z, K, n, B, R)
  <2>1. ASSUME NEW p \in 1..n, \A k \in 1..K : p \notin A[k]..Z[k] PROVE p \in B <=> p \in R
    <3>1. p \notin P
      BY <1>10, <2>1
    <3> QED
      BY <3>1 DEF Changed
  <2> QED
    BY <2>1 DEF SameOutside
<1>12. AllDescribed(builds, A, Z, K, B, R, t)
  <2>1. ASSUME NEW k \in 1..K PROVE Describes(builds[k], A[k], Z[k], B, R, t)
    <3>1. builds[k] = BuildOf(patch, selected, reverse, Nth(C, k))
      BY <1>6
    <3> HIDE DEF R
    <3> QED
      BY <1>2, <1>5, <1>8, <3>1
  <2> QED
    BY <2>1 DEF AllDescribed
<1>13. K # 0 <=> P # {}
  <2>1. ASSUME NEW p \in P PROVE K # 0
    BY <1>4, <1>10
  <2>2. ASSUME K # 0 PROVE P # {}
    <3>1. PICK h \in C : h \in 1..H
      BY <1>3, <1>4, <2>2
    <3> QED
      BY <1>2, <3>1
  <2> QED
    BY <2>1, <2>2
<1>14. \A k \in 1..K : A[k] \in Begins(diff) /\ Z[k] = EndOf(diff, A[k])
  BY <1>1, <1>5, <1>8 DEF StopOf
<1>15. PICK x, y, m : x = A /\ y = Z /\ m = K
  OBVIOUS
<1>16. /\ m \in Nat /\ Len(builds) = m /\ DOMAIN builds = 1..m /\ Spans(x, y, m, n)
       /\ SameOutside(x, y, m, n, B, R) /\ AllDescribed(builds, x, y, m, B, R, t)
       /\ m # 0 <=> P # {}
       /\ m = Cardinality(C)
       /\ \A k \in 1..m : x[k] \in Begins(diff) /\ y[k] = EndOf(diff, x[k])
  BY <1>4, <1>7, <1>9, <1>11, <1>12, <1>13, <1>14, <1>15
<1>17. BuiltAs(diff, patch, selected, reverse, m, x, y)
  BY <1>16 DEF builds, B, P, t, n, C, BuiltAs
<1> QED
  BY <1>16, <1>17

(* All the lines taken away: then all the hunks are among the ones built,   *)
(* and each leaves nothing.                                                 *)
LEMMA WhenEverythingGoes ==
  ASSUME NEW diff, IsDiff(diff), NEW reverse \in BOOLEAN, NEW selected,
         NEW patch, patch.hunks = Hunks(diff), PickedLines(diff, selected) # {}
  PROVE  DeletesEverything(patch, Builds(patch, selected, reverse))
           <=> Changed(Before(diff, reverse), PickedLines(diff, selected)) = {}
<1> DEFINE builds == Builds(patch, selected, reverse)
           B == Before(diff, reverse)
           P == PickedLines(diff, selected)
           R == Changed(B, P)
           n == Len(diff)
           t == LinesOf(diff)
           C == ChangedHunks(patch, selected, reverse)
           H == HunksIn(diff)
<1>1. P \in SUBSET DOMAIN diff /\ \A p \in P : IsChange(diff[p])
  BY DEF PickedLines
<1>2. n \in Nat /\ DOMAIN diff = 1..n /\ B \in SUBSET (1..n) /\ R \in SUBSET (1..n)
  <2>1. n \in Nat /\ DOMAIN diff = 1..n
    BY DiffLines
  <2> QED
    BY <1>1, <2>1 DEF Before, Changed
<1>30. PICK K, A, Z : K \in Nat /\ BuiltAs(diff, patch, selected, reverse, K, A, Z)
  BY BuildsAreDescribed
<1>3. /\ Len(builds) = K /\ DOMAIN builds = 1..K /\ Spans(A, Z, K, n)
      /\ AllDescribed(builds, A, Z, K, B, R, t) /\ K # 0
      /\ K = Cardinality(C)
      /\ \A k \in 1..K : A[k] \in Begins(diff) /\ Z[k] = EndOf(diff, A[k])
  BY <1>30 DEF BuiltAs
<1>4. Len(patch.hunks) = H /\ H \in Nat /\ DOMAIN patch.hunks = 1..H
  BY HunksOfDiff
<1> HIDE DEF builds, B, P, R, n, t, C, H
<1>5. ASSUME NEW k \in 1..K
      PROVE  /\ A[k] \in 1..n /\ Z[k] \in A[k]..n
             /\ NewCount(builds[k].body) = 0 <=> Part(R, A[k], Z[k]) = {}
  <2>1. A[k] \in 1..n /\ Z[k] \in A[k]..n
    BY <1>3 DEF Spans
  <2>2. NewCount(builds[k].body) = Cardinality(Part(R, A[k], Z[k]))
    BY <1>3 DEF AllDescribed, Describes
  <2> QED
    BY <1>2, <2>1, <2>2, RankInParts
<1>6. ASSUME DeletesEverything(patch, builds) PROVE R = {}
  <2>1. 1 \in 1..K /\ NewCount(builds[1].body) = 0
    BY <1>3, <1>6 DEF DeletesEverything
  <2>2. Part(R, A[1], Z[1]) = {} /\ A[1] \in Begins(diff) /\ Z[1] = EndOf(diff, A[1])
    BY <1>3, <1>5, <2>1
  <2>3. A[1] = 1 /\ Z[1] = n
    BY <1>1, <2>2, NothingLeft DEF R, B, n
  <2> QED
    BY <1>2, <2>2, <2>3 DEF Part
<1>7. ASSUME R = {} PROVE DeletesEverything(patch, builds)
  <2>1. ASSUME NEW k \in 1..K PROVE NewCount(builds[k].body) = 0
    <3>1. Part(R, A[k], Z[k]) = {}
      BY <1>7 DEF Part
    <3> QED
      BY <1>5, <3>1
  <2>2. K = H
    <3>1. PICK p \in P : TRUE
      BY DEF P
    <3>2. PICK c \in 1..H : InHunk(diff, c, p)
      BY <3>1 DEF P, PickedLines, H
    <3>3. BeginOf(diff, c) = 1 /\ StopOf(diff, c) = n
      <4>1. Part(R, BeginOf(diff, c), StopOf(diff, c)) = {} /\ BeginOf(diff, c) \in Begins(diff)
        BY <1>7, HunksOfDiff DEF Part, H
      <4> QED
        BY <1>1, <4>1, NothingLeft DEF R, B, n, StopOf
    <3>4. ASSUME NEW h \in 1..H PROVE h = c
      <4>1. BeginOf(diff, h) \in 1..n /\ StopOf(diff, h) \in BeginOf(diff, h)..n
        BY HunksOfDiff DEF H, n
      <4>2. InHunk(diff, h, BeginOf(diff, h)) /\ InHunk(diff, c, BeginOf(diff, h))
        BY <1>2, <3>3, <4>1 DEF InHunk
      <4> QED
        BY <4>2, OneHunk DEF H
    <3>5. c \in C
      BY <3>1, <3>2, BuildIsDescribed DEF C, P, H
    <3>6. C = 1..H /\ H = 1
      <4>1. C \subseteq 1..H
        BY <1>4 DEF C, ChangedHunks
      <4>2. C = 1..H
        BY <3>4, <3>5, <4>1
      <4>3. 1 \in 1..H /\ H \in 1..H
        BY <1>4, <3>2
      <4> QED
        BY <3>4, <4>2, <4>3
    <3>7. 1..1 = {1}
      OBVIOUS
    <3>8. Cardinality(C) = 1
      BY <3>6, <3>7, FS_Singleton
    <3> QED
      BY <1>3, <3>6, <3>8
  <2> QED
    BY <1>3, <1>4, <2>1, <2>2 DEF DeletesEverything
<1> QED
  BY <1>6, <1>7 DEF builds, B, P, R

(* A patch that is not refused has changes, applies, and leaves the lines   *)
(* of the index but for the ones picked in it, and the picked ones that it  *)
(* does not have.                                                           *)
Outcome(diff, P, reverse, deletes) ==
  IF deletes /\ Changed(Before(diff, reverse), P) = {} THEN [present |-> FALSE, lines |-> <<>>]
  ELSE [present |-> TRUE, lines |-> Picked(LinesOf(diff), Changed(Before(diff, reverse), P))]

(* A choice is refused when it is ambiguous or empty, and not otherwise.    *)
LEMMA Refusals ==
  ASSUME NEW diff, IsDiff(diff), NEW reverse \in BOOLEAN, NEW selected,
         NEW patch, patch.hunks = Hunks(diff)
  PROVE  Synthesize(patch, selected, reverse).refused
           <=> Rejects(patch, selected) \/ PickedLines(diff, selected) = {}
<1> DEFINE builds == Builds(patch, selected, reverse)
           P == PickedLines(diff, selected)
<1>1. PICK K, A, Z : K \in Nat /\ BuiltAs(diff, patch, selected, reverse, K, A, Z)
  BY BuildsAreDescribed
<1>2. Len(builds) = K /\ DOMAIN builds = 1..K /\ (K # 0 <=> P # {})
  BY <1>1 DEF BuiltAs
<1>3. builds = [k \in DOMAIN builds |-> builds[k]]
  BY DEF Builds, Picked
<1> HIDE DEF builds, P
<1>4. builds = <<>> <=> P = {}
  <2>1. CASE K = 0
    BY <1>2, <1>3, <2>1
  <2>2. CASE K # 0
    BY <1>2, <2>2
  <2> QED
    BY <2>1, <2>2
<1> QED
  BY <1>4, Synthesized DEF Refused, builds, P

(* A version of the file is what the patch says it is made for.             *)
IsPatchFor(patch, diff, reverse, ix) ==
  /\ patch.hunks = Hunks(diff) /\ patch.isNew \in BOOLEAN /\ patch.isDeleted \in BOOLEAN
  /\ ix.present \in BOOLEAN /\ (ix.present <=> ~(IF reverse THEN patch.isDeleted ELSE patch.isNew))
  /\ ix.lines = Picked(LinesOf(diff), Before(diff, reverse))

(* The lines at some positions of a diff.                                   *)
LEMMA LinesOfDiff ==
  ASSUME NEW diff, IsDiff(diff), NEW S \in SUBSET DOMAIN diff
  PROVE  /\ Holding(LinesOf(diff), DOMAIN diff, TextLines) /\ Positions(S)
         /\ Picked(LinesOf(diff), S) \in Seq(TextLines)
         /\ Len(Picked(LinesOf(diff), S)) = Cardinality(S)
         /\ Range(Picked(LinesOf(diff), S)) = {diff[p].line : p \in S}
         /\ Picked(LinesOf(diff), S) # <<>> <=> S # {}
<1> DEFINE t == LinesOf(diff)
<1>1. \A p \in DOMAIN diff : t[p] = diff[p].line /\ t[p] \in TextLines
  BY DiffLines DEF LinesOf
<1>2. Positions(S)
  BY BeginsInOrder, PartsOfPositions
<1>3. Holding(t, DOMAIN diff, TextLines) /\ Holding(t, S, TextLines)
  BY <1>1 DEF Holding
<1> HIDE DEF t
<1>4. /\ Picked(t, S) \in Seq(TextLines) /\ Len(Picked(t, S)) = Cardinality(S)
      /\ Range(Picked(t, S)) = {t[p] : p \in S}
  BY <1>2, <1>3, PickedIsSeq
<1>5. {t[p] : p \in S} = {diff[p].line : p \in S}
  BY <1>1
<1>6. Picked(t, S) # <<>> <=> S # {}
  <2>1. Cardinality(S) \in Nat /\ (Cardinality(S) = 0 <=> S = {})
    BY <1>2, SomeAreCounted
  <2>2. Picked(t, S) = <<>> <=> Len(Picked(t, S)) = 0
    BY <1>4
  <2> QED
    BY <1>4, <2>1, <2>2
<1> QED
  BY <1>2, <1>3, <1>4, <1>5, <1>6 DEF t

(* A patch that is synthesised applies, and its outcome is the index with   *)
(* the picked lines exchanged.                                              *)
LEMMA PatchApplies ==
  ASSUME NEW diff, IsDiff(diff), NEW reverse \in BOOLEAN, NEW selected, NEW patch, NEW ix,
         IsPatchFor(patch, diff, reverse, ix),
         ~Rejects(patch, selected), PickedLines(diff, selected) # {}
  PROVE  LET outcome == Outcome(diff, PickedLines(diff, selected), reverse,
                                IF reverse THEN patch.isNew ELSE patch.isDeleted)
         IN /\ Apply(Synthesize(patch, selected, reverse), ix) = outcome
            /\ outcome # Failure
            /\ Applied(patch, selected, reverse, ix) = outcome
<1> DEFINE builds == Builds(patch, selected, reverse)
           B == Before(diff, reverse)
           P == PickedLines(diff, selected)
           R == Changed(B, P)
           n == Len(diff)
           t == LinesOf(diff)
           s == Synthesize(patch, selected, reverse)
           deletes == IF reverse THEN patch.isNew ELSE patch.isDeleted
           outcome == Outcome(diff, P, reverse, deletes)
<1>1. n \in Nat /\ DOMAIN diff = 1..n /\ B \in SUBSET (1..n) /\ R \in SUBSET (1..n)
  <2>1. n \in Nat /\ DOMAIN diff = 1..n
    BY DiffLines
  <2> QED
    BY <2>1 DEF Before, Changed, PickedLines
<1>2. Holding(t, 1..n, TextLines) /\ Picked(t, R) \in Seq(TextLines) /\ (R = {} => Picked(t, R) = <<>>)
  <2>1. R \in SUBSET DOMAIN diff
    BY <1>1
  <2> HIDE DEF R
  <2> QED
    BY <1>1, <2>1, LinesOfDiff
<1>3. PICK K, A, Z : K \in Nat /\ BuiltAs(diff, patch, selected, reverse, K, A, Z)
  BY BuildsAreDescribed DEF IsPatchFor
<1>4. /\ Len(builds) = K /\ DOMAIN builds = 1..K /\ Spans(A, Z, K, n) /\ SameOutside(A, Z, K, n, B, R)
      /\ AllDescribed(builds, A, Z, K, B, R, t) /\ K # 0
  BY <1>3 DEF BuiltAs
<1>5. ~s.refused
  BY Refusals DEF IsPatchFor
<1>6. /\ s.isNew = IF reverse THEN patch.isDeleted ELSE patch.isNew
      /\ s.isDeleted = (deletes /\ DeletesEverything(patch, builds))
      /\ s.hunks = Numbered(builds)
  <2>1. s = [refused |-> FALSE,
             isNew |-> IF reverse THEN patch.isDeleted ELSE patch.isNew,
             isDeleted |-> deletes /\ DeletesEverything(patch, builds),
             hunks |-> Numbered(builds)]
    BY <1>5, Synthesized DEF Refused
  <2> HIDE DEF s, builds, deletes
  <2> QED
    BY <2>1
<1>7. DeletesEverything(patch, builds) <=> R = {}
  BY WhenEverythingGoes DEF IsPatchFor
<1> HIDE DEF builds, B, R, n, t
<1>8. Application(s.hunks, ix)[Len(s.hunks)] = Picked(t, R)
  <2>1. ix.lines = Picked(t, B)
    BY DEF IsPatchFor, t, B
  <2>2. Application(Numbered(builds), ix)[Len(Numbered(builds))] = Picked(t, R)
    <3>1. K \in Nat
      BY <1>3
    <3> QED
      BY <1>1, <1>2, <1>4, <2>1, <3>1, HunksApply
  <2> QED
    BY <1>6, <2>2
<1> HIDE DEF s, P, deletes
<1>9. Apply(s, ix) = IF Picked(t, R) = Failure.lines \/ s.isNew = ix.present THEN Failure
                     ELSE IF s.isDeleted THEN [present |-> FALSE, lines |-> <<>>]
                     ELSE [present |-> TRUE, lines |-> Picked(t, R)]
  BY <1>8, ApplyInTurn, Zenon
<1>10. Picked(t, R) # Failure.lines /\ s.isNew # ix.present
  <2>1. s.isNew # ix.present
    BY <1>6, Zenon DEF IsPatchFor
  <2> QED
    BY <1>2, <2>1, TextIsNoFailure
<1>11. s.isDeleted <=> deletes /\ R = {}
  BY <1>6, <1>7, Zenon
<1>12. outcome = IF deletes /\ R = {} THEN [present |-> FALSE, lines |-> <<>>]
                 ELSE [present |-> TRUE, lines |-> Picked(t, R)]
  BY DEF Outcome, R, B, t
<1>13. Apply(s, ix) = outcome
  <2>1. Apply(s, ix) = IF s.isDeleted THEN [present |-> FALSE, lines |-> <<>>]
                       ELSE [present |-> TRUE, lines |-> Picked(t, R)]
    BY <1>9, <1>10, Zenon
  <2>2. PICK u, v : u = [present |-> FALSE, lines |-> <<>>] /\ v = [present |-> TRUE, lines |-> Picked(t, R)]
    OBVIOUS
  <2>3. Apply(s, ix) = (IF s.isDeleted THEN u ELSE v) /\ outcome = (IF deletes /\ R = {} THEN u ELSE v)
    BY <1>12, <2>1, <2>2, Zenon
  <2> HIDE DEF outcome
  <2>4. CASE s.isDeleted
    BY <1>11, <2>3, <2>4, Zenon
  <2>5. CASE ~s.isDeleted
    BY <1>11, <2>3, <2>5, Zenon
  <2> QED
    BY <2>4, <2>5
<1>14. outcome # Failure
  <2>1. <<>> # Failure.lines
    <3>1. <<>> \in Seq(TextLines)
      OBVIOUS
    <3> QED
      BY <3>1, TextIsNoFailure
  <2>2. outcome.lines \in {<<>>, Picked(t, R)}
    BY <1>12
  <2> QED
    BY <1>10, <2>1, <2>2
<1>15. Applied(patch, selected, reverse, ix) = outcome
  BY <1>5, <1>13, <1>14, Zenon DEF Applied, s
<1> QED
  BY <1>13, <1>14, <1>15 DEF s, outcome, P, deletes

-------------------------------------------------------------------------------
(* The lines of the file.                                                   *)

LEMMA FileIs ==
  ASSUME file \in Files
  PROVE  \E n \in Nat \ {0} :
           /\ DOMAIN file = 1..n
           /\ \A i \in 1..n : /\ file[i].text = i /\ file[i].ends \in BOOLEAN
                              /\ file[i].sides \in {{"head"}, {"work"}, {"head", "work"}}
                              /\ \/ file[i].ends
                                 \/ \A s \in file[i].sides : \A j \in 1..n : s \in file[j].sides => j <= i
           /\ \A i \in 1..(n - 1) : ~(file[i].sides = {"work"} /\ file[i + 1].sides = {"head"})
<1> DEFINE Shapes(n) == {f \in [1..n -> {{"head"}, {"work"}, {"head", "work"}}] :
                           \A i \in 1..n - 1 : ~(f[i] = {"work"} /\ f[i + 1] = {"head"})}
           MayLack(f, i) == \A s \in f[i] : \A j \in DOMAIN f : s \in f[j] => j <= i
           Endings(f) == {e \in [DOMAIN f -> BOOLEAN] : \A i \in DOMAIN f : e[i] \/ MayLack(f, i)}
<1> DEFINE FilesOf(n, f) == {[i \in 1..n |-> [text |-> i, sides |-> f[i], ends |-> e[i]]] : e \in Endings(f)}
<1>1. file \in UNION {UNION {FilesOf(n, f) : f \in Shapes(n)} : n \in 1..MaxLines}
  BY DEF Files
<1> HIDE DEF FilesOf, Shapes
<1>2. PICK n \in 1..MaxLines : file \in UNION {FilesOf(n, f) : f \in Shapes(n)}
  BY <1>1
<1>3. PICK f \in Shapes(n) : file \in FilesOf(n, f)
  BY <1>2
<1>4. PICK e \in Endings(f) : file = [i \in 1..n |-> [text |-> i, sides |-> f[i], ends |-> e[i]]]
  BY <1>3 DEF FilesOf
<1> USE DEF Shapes
<1>5. n \in Nat \ {0}
  BY PartialStagingAssumption DEF PartialStagingAssumption
<1>6. DOMAIN f = 1..n /\ DOMAIN file = 1..n
  BY <1>4
<1>7. ASSUME NEW i \in 1..n
      PROVE  /\ file[i].text = i /\ file[i].ends = e[i] /\ file[i].sides = f[i]
             /\ e[i] \in BOOLEAN /\ f[i] \in {{"head"}, {"work"}, {"head", "work"}}
  BY <1>4, <1>6
<1>8. \A i \in 1..n : e[i] \/ \A s \in f[i] : \A j \in 1..n : s \in f[j] => j <= i
  BY <1>6
<1>9. \A i \in 1..(n - 1) : ~(f[i] = {"work"} /\ f[i + 1] = {"head"})
  OBVIOUS
<1> HIDE DEF Shapes, Endings
<1>10. \A i \in 1..n : file[i].ends \/ \A s \in file[i].sides : \A j \in 1..n : s \in file[j].sides => j <= i
  BY <1>7, <1>8
<1>11. \A i \in 1..(n - 1) : ~(file[i].sides = {"work"} /\ file[i + 1].sides = {"head"})
  <2>1. \A i \in 1..(n - 1) : i \in 1..n /\ i + 1 \in 1..n
    BY <1>5
  <2> QED
    BY <1>7, <1>9, <2>1
<1> QED
  BY <1>5, <1>6, <1>7, <1>10, <1>11

(* Each line of the file is another one.                                    *)
LEMMA FileLinesApart ==
  ASSUME file \in Files
  PROVE  /\ Positions(DOMAIN file) /\ DOMAIN FileLines = DOMAIN file
         /\ Holding(FileLines, DOMAIN file, TextLines)
         /\ \A i, j \in DOMAIN file : FileLines[i] = FileLines[j] => i = j
<1>1. PICK n \in Nat \ {0} : /\ DOMAIN file = 1..n
                             /\ \A i \in 1..n : file[i].text = i /\ file[i].ends \in BOOLEAN
  BY FileIs
<1>2. Positions(DOMAIN file)
  <2>1. n \in Nat /\ 1..n \in SUBSET (1..n)
    OBVIOUS
  <2> QED
    BY <1>1, <2>1, PartsOfStretch
<1>3. DOMAIN FileLines = DOMAIN file /\ \A i \in DOMAIN file : FileLines[i] = [text |-> file[i].text, ends |-> file[i].ends]
  BY DEF FileLines, TextOf
<1>4. \A i \in DOMAIN file : FileLines[i] \in TextLines /\ FileLines[i].text = i
  <2>1. ASSUME NEW i \in 1..n PROVE FileLines[i] \in TextLines /\ FileLines[i].text = i
    <3>1. FileLines[i] = [text |-> i, ends |-> file[i].ends] /\ file[i].ends \in BOOLEAN /\ i \in Nat \ {0}
      BY <1>1, <1>3
    <3> QED
      BY <3>1 DEF TextLines
  <2> QED
    BY <1>1, <2>1
<1>5. \A i, j \in DOMAIN file : FileLines[i] = FileLines[j] => i = j
  BY <1>4
<1> QED
  BY <1>2, <1>3, <1>4, <1>5 DEF Holding

(* Some lines of the file in order.                                         *)
AllLines == {FileLines[i] : i \in DOMAIN file}
PlacesOf(lines) == {i \in DOMAIN file : FileLines[i] \in lines}

(* Lines in order are picked from the lines of the file, each once.         *)
LEMMA InOrderIs ==
  ASSUME file \in Files, NEW L
  PROVE  /\ Positions(PlacesOf(L)) /\ InOrder(L) = Picked(FileLines, PlacesOf(L))
         /\ InOrder(L) \in Seq(TextLines) /\ Len(InOrder(L)) = Cardinality(PlacesOf(L))
         /\ DOMAIN InOrder(L) = 1..Cardinality(PlacesOf(L))
         /\ Range(InOrder(L)) = L \cap AllLines
         /\ \A j, k \in DOMAIN InOrder(L) : InOrder(L)[j] = InOrder(L)[k] => j = k
         /\ \A k \in DOMAIN InOrder(L) : /\ Nth(PlacesOf(L), k) \in PlacesOf(L)
                                         /\ InOrder(L)[k] = FileLines[Nth(PlacesOf(L), k)]
<1> DEFINE S == PlacesOf(L)
<1>1. /\ Positions(DOMAIN file) /\ DOMAIN FileLines = DOMAIN file
      /\ Holding(FileLines, DOMAIN file, TextLines)
      /\ \A i, j \in DOMAIN file : FileLines[i] = FileLines[j] => i = j
  BY FileLinesApart
<1>2. S \in SUBSET DOMAIN file
  BY DEF PlacesOf
<1>3. InOrder(L) = Picked(FileLines, S)
  BY DEF InOrder, PlacesOf
<1>4. S = {i \in DOMAIN file : FileLines[i] \in L}
  BY DEF PlacesOf
<1> HIDE DEF S
<1>5. Positions(S) /\ Holding(FileLines, S, TextLines)
  BY <1>1, <1>2, PartsOfPositions DEF Holding
<1>6. /\ InOrder(L) \in Seq(TextLines) /\ Len(InOrder(L)) = Cardinality(S)
      /\ Range(InOrder(L)) = {FileLines[i] : i \in S}
  BY <1>3, <1>5, PickedIsSeq
<1>7. /\ DOMAIN InOrder(L) = 1..Cardinality(S)
      /\ \A k \in 1..Cardinality(S) : Nth(S, k) \in S /\ InOrder(L)[k] = FileLines[Nth(S, k)] /\ Rank(S, Nth(S, k)) = k
  BY <1>3, <1>5, PickedElements, NthIsThere
<1>8. {FileLines[i] : i \in S} = L \cap AllLines
  BY <1>4 DEF AllLines
<1>9. ASSUME NEW j \in 1..Cardinality(S), NEW k \in 1..Cardinality(S), InOrder(L)[j] = InOrder(L)[k] PROVE j = k
  <2>1. Nth(S, j) = Nth(S, k)
    BY <1>1, <1>2, <1>7, <1>9
  <2> QED
    BY <1>7, <2>1
<1> QED
  BY <1>3, <1>5, <1>6, <1>7, <1>8, <1>9 DEF S

(* Fewer of them.                                                           *)
LEMMA FewerInOrder ==
  ASSUME file \in Files, NEW L, NEW M, M \cap AllLines \subseteq L
  PROVE  InOrder(M) = Picked(InOrder(L), {k \in DOMAIN InOrder(L) : InOrder(L)[k] \in M})
<1>1. PICK S, u, T : S = PlacesOf(L) /\ u = InOrder(L) /\ T = {k \in DOMAIN u : u[k] \in M}
  OBVIOUS
<1>2. /\ Positions(S) /\ u = Picked(FileLines, S) /\ DOMAIN u = 1..Cardinality(S)
      /\ \A k \in DOMAIN u : Nth(S, k) \in S /\ u[k] = FileLines[Nth(S, k)]
  BY <1>1, InOrderIs
<1>3. \A i \in S : Rank(S, i) \in 1..Cardinality(S) /\ Nth(S, Rank(S, i)) = i
  BY <1>2, NthIsThere
<1>4. T \in SUBSET (1..Cardinality(S))
  BY <1>1, <1>2
<1>5. {Nth(S, k) : k \in T} = PlacesOf(M)
  <2>1. \A i \in S : i \in DOMAIN file /\ FileLines[i] \in L
    BY <1>1 DEF PlacesOf
  <2>2. \A i \in PlacesOf(M) : i \in S
    BY <1>1 DEF PlacesOf, AllLines
  <2>3. ASSUME NEW k \in T PROVE Nth(S, k) \in PlacesOf(M)
    BY <1>1, <1>2, <2>1 DEF PlacesOf
  <2>4. ASSUME NEW i \in PlacesOf(M) PROVE Rank(S, i) \in T /\ Nth(S, Rank(S, i)) = i
    <3>1. i \in S /\ FileLines[i] \in M
      BY <2>2 DEF PlacesOf
    <3>2. Rank(S, i) \in DOMAIN u /\ Nth(S, Rank(S, i)) = i
      BY <1>2, <1>3, <3>1
    <3>3. u[Rank(S, i)] = FileLines[i]
      BY <1>2, <3>2
    <3> QED
      BY <1>1, <3>1, <3>2, <3>3
  <2> QED
    BY <2>3, <2>4
<1>6. Picked(u, T) = Picked(FileLines, PlacesOf(M))
  BY <1>2, <1>4, <1>5, PickedTwice
<1> QED
  BY <1>1, <1>6 DEF InOrder, PlacesOf

-------------------------------------------------------------------------------
(* The diff of two versions, by the lines they have.                        *)

HasLinesInOrder(v) == v.lines = InOrder(Range(v.lines))
EitherHas(old, new) == Range(old.lines) \cup Range(new.lines)

(* A version has lines of the file only.                                    *)
LEMMA LinesOfVersion ==
  ASSUME file \in Files, NEW v, HasLinesInOrder(v)
  PROVE  Range(v.lines) \subseteq AllLines /\ (v.lines = <<>> <=> Range(v.lines) = {})
<1>1. PICK L : L = Range(v.lines)
  OBVIOUS
<1>2. v.lines = InOrder(L)
  BY <1>1 DEF HasLinesInOrder
<1>3. /\ Positions(PlacesOf(L)) /\ InOrder(L) \in Seq(TextLines) /\ Len(InOrder(L)) = Cardinality(PlacesOf(L))
      /\ Range(InOrder(L)) = L \cap AllLines
  BY InOrderIs
<1>4. L = L \cap AllLines
  BY <1>1, <1>2, <1>3
<1>5. InOrder(L) = <<>> <=> Range(InOrder(L)) = {}
  BY <1>3 DEF Range
<1> QED
  BY <1>1, <1>2, <1>4, <1>5

IsDiffOf(d, old, new) ==
  /\ IsDiff(d)
  /\ \A p \in DOMAIN d : /\ d[p].line \in EitherHas(old, new)
                         /\ d[p].origin = "-" <=> d[p].line \notin Range(new.lines)
                         /\ d[p].origin = "+" <=> d[p].line \notin Range(old.lines)
  /\ \A l \in EitherHas(old, new) : \E p \in DOMAIN d : d[p].line = l
  /\ \A p, q \in DOMAIN d : d[p].line = d[q].line => p = q

(* The diff of two versions has the lines of both, with the origins that    *)
(* they give.                                                               *)
LEMMA DiffIs ==
  ASSUME file \in Files, NEW old, NEW new, HasLinesInOrder(old), HasLinesInOrder(new)
  PROVE  /\ IsDiffOf(Diff(old, new), old, new)
         /\ LinesOf(Diff(old, new)) = InOrder(EitherHas(old, new))
<1>1. PICK A, B, L, all, d : /\ A = Range(old.lines) /\ B = Range(new.lines) /\ L = EitherHas(old, new)
                             /\ all = InOrder(L) /\ d = Diff(old, new)
  OBVIOUS
<1>2. L = A \cup B
  BY <1>1 DEF EitherHas
<1>3. L \subseteq AllLines
  BY <1>1, <1>2, LinesOfVersion
<1>4. /\ all \in Seq(TextLines) /\ Range(all) = L \cap AllLines
      /\ \A j, k \in DOMAIN all : all[j] = all[k] => j = k
  BY <1>1, InOrderIs
<1>5. Len(all) \in Nat /\ DOMAIN all = 1..Len(all) /\ \A p \in DOMAIN all : all[p] \in TextLines /\ all[p] \in L
  BY <1>3, <1>4 DEF Range
<1>6. all = [p \in DOMAIN all |-> all[p]]
  BY <1>4
<1> DEFINE Origin(t) == IF t \notin B THEN "-" ELSE IF t \notin A THEN "+" ELSE " "
<1>7. d = [p \in DOMAIN all |-> [origin |-> Origin(all[p]), line |-> all[p]]]
  BY <1>1 DEF Diff, EitherHas
<1>8. \A p \in DOMAIN all : Origin(all[p]) \in Origins
  BY DEF Origins
<1>9. /\ DOMAIN d = DOMAIN all
      /\ \A p \in DOMAIN all : d[p] = [origin |-> Origin(all[p]), line |-> all[p]]
  BY <1>7
<1>10. /\ \A p \in DOMAIN all : /\ Origin(all[p]) = "-" <=> all[p] \notin B
                                /\ Origin(all[p]) = "+" <=> all[p] \notin A
  BY <1>2, <1>5
<1> HIDE DEF Origin
<1>11. \A p \in DOMAIN all : d[p].origin = Origin(all[p]) /\ d[p].line = all[p]
  BY <1>9
<1>12. IsDiff(d)
  <2>1. d \in [1..Len(all) -> [origin : Origins, line : TextLines]]
    <3>1. \A p \in 1..Len(all) : [origin |-> Origin(all[p]), line |-> all[p]] \in [origin : Origins, line : TextLines]
      BY <1>5, <1>8
    <3> QED
      BY <1>5, <1>7, <3>1
  <2> QED
    BY <1>5, <2>1, FunctionIsSeq DEF IsDiff
<1>13. LinesOf(d) = all
  <2>1. LinesOf(d) = [p \in DOMAIN all |-> d[p].line]
    BY <1>9 DEF LinesOf
  <2>2. [p \in DOMAIN all |-> d[p].line] = [p \in DOMAIN all |-> all[p]]
    BY <1>11
  <2> QED
    BY <1>6, <2>1, <2>2
<1>14. \A l \in L : \E p \in DOMAIN d : d[p].line = l
  <2>1. \A l \in L : \E p \in DOMAIN all : all[p] = l
    BY <1>3, <1>4 DEF Range
  <2> QED
    BY <1>9, <1>11, <2>1
<1>15. \A p, q \in DOMAIN d : d[p].line = d[q].line => p = q
  BY <1>4, <1>9, <1>11
<1>16. \A p \in DOMAIN d : /\ d[p].line \in L
                           /\ d[p].origin = "-" <=> d[p].line \notin B
                           /\ d[p].origin = "+" <=> d[p].line \notin A
  BY <1>5, <1>9, <1>10, <1>11
<1> QED
  BY <1>1, <1>12, <1>13, <1>14, <1>15, <1>16 DEF IsDiffOf

(* The lines a version has afterwards.                                      *)
Exchange(V, C) == (V \cup C) \ (V \cap C)
SideOf(old, new, reverse) == IF reverse THEN new ELSE old
LinesAt(d, P) == {d[p].line : p \in P}

(* Positions changed in a diff are lines exchanged in a version.            *)
LEMMA LinesExchanged ==
  ASSUME file \in Files, NEW old, NEW new, HasLinesInOrder(old), HasLinesInOrder(new),
         NEW d, d = Diff(old, new), NEW reverse \in BOOLEAN, NEW P \in SUBSET DOMAIN d
  PROVE  LET V == Range(SideOf(old, new, reverse).lines)
             becomes == Exchange(V, LinesAt(d, P))
         IN /\ SideOf(old, new, reverse).lines = Picked(LinesOf(d), Before(d, reverse))
            /\ Picked(LinesOf(d), Changed(Before(d, reverse), P)) = InOrder(becomes)
            /\ Changed(Before(d, reverse), P) = {} <=> becomes = {}
            /\ becomes \subseteq EitherHas(old, new)
<1>1. PICK u, V, L, C, M : /\ u = SideOf(old, new, reverse) /\ V = Range(u.lines) /\ L = EitherHas(old, new)
                           /\ C = LinesAt(d, P) /\ M = Exchange(V, C)
  OBVIOUS
<1>2. IsDiffOf(d, old, new) /\ LinesOf(d) = InOrder(L)
  BY <1>1, DiffIs
<1>3. /\ \A p \in DOMAIN d : d[p].line \in L
      /\ \A l \in L : \E p \in DOMAIN d : d[p].line = l
      /\ \A p, q \in DOMAIN d : d[p].line = d[q].line => p = q
  BY <1>1, <1>2 DEF IsDiffOf
<1>4. V \subseteq L /\ HasLinesInOrder(u)
  BY <1>1 DEF SideOf, EitherHas
<1>5. C \subseteq L
  BY <1>1, <1>3 DEF LinesAt
<1>6. \A p \in DOMAIN d : p \in Before(d, reverse) <=> d[p].line \in V
  BY <1>1, <1>2 DEF IsDiffOf, Before, Other, SideOf
<1>7. \A p \in DOMAIN d : p \in P <=> d[p].line \in C
  BY <1>1, <1>3 DEF LinesAt
<1>8. DOMAIN InOrder(L) = DOMAIN d /\ \A p \in DOMAIN d : InOrder(L)[p] = d[p].line
  BY <1>2 DEF LinesOf
<1>9. InOrder(V) = Picked(InOrder(L), {k \in DOMAIN InOrder(L) : InOrder(L)[k] \in V})
  BY <1>4, FewerInOrder
<1>10. {k \in DOMAIN InOrder(L) : InOrder(L)[k] \in V} = Before(d, reverse)
  BY <1>6, <1>8 DEF Before
<1>11. M \subseteq L
  BY <1>1, <1>4, <1>5 DEF Exchange
<1>12. InOrder(M) = Picked(InOrder(L), {k \in DOMAIN InOrder(L) : InOrder(L)[k] \in M})
  BY <1>11, FewerInOrder
<1>13. \A p \in DOMAIN d : p \in Changed(Before(d, reverse), P) <=> d[p].line \in M
  BY <1>1, <1>6, <1>7 DEF Exchange, Changed
<1>14. Changed(Before(d, reverse), P) \subseteq DOMAIN d
  BY DEF Changed, Before
<1>15. {k \in DOMAIN InOrder(L) : InOrder(L)[k] \in M} = Changed(Before(d, reverse), P)
  BY <1>8, <1>13, <1>14
<1>16. Changed(Before(d, reverse), P) = {} <=> M = {}
  BY <1>3, <1>11, <1>13, <1>14
<1>17. u.lines = InOrder(V)
  BY <1>1, <1>4 DEF HasLinesInOrder
<1> QED
  BY <1>1, <1>2, <1>9, <1>10, <1>11, <1>12, <1>15, <1>16, <1>17

-------------------------------------------------------------------------------
(* The keys of a patch are those of the changes of its diff.                *)
LEMMA KeysAre ==
  ASSUME NEW diff, IsDiff(diff), NEW patch, patch.hunks = Hunks(diff)
  PROVE  /\ \A k \in Keys(patch) : \E h \in 1..HunksIn(diff) : \E p \in DOMAIN diff :
              /\ InHunk(diff, h, p) /\ IsChange(diff[p]) /\ k = KeyOf(diff, h, p)
         /\ \A h \in 1..HunksIn(diff) : \A p \in DOMAIN diff :
              InHunk(diff, h, p) =>
                /\ patch.hunks[h].lines[KeyOf(diff, h, p)[2]] = diff[p]
                /\ IsChange(diff[p]) => KeyOf(diff, h, p) \in Keys(patch)
<1>1. /\ DOMAIN Hunks(diff) = 1..HunksIn(diff) /\ Len(diff) \in Nat /\ DOMAIN diff = 1..Len(diff)
      /\ \A h \in 1..HunksIn(diff) :
           /\ BeginOf(diff, h) \in 1..Len(diff) /\ StopOf(diff, h) \in BeginOf(diff, h)..Len(diff)
           /\ Hunks(diff)[h].lines = HunkLines(diff, BeginOf(diff, h), StopOf(diff, h))
  BY HunksOfDiff, DiffLines
<1>2. ASSUME NEW h \in 1..HunksIn(diff)
      PROVE  LET a == BeginOf(diff, h)
                 e == StopOf(diff, h)
                 m == patch.hunks[h].lines
             IN /\ DOMAIN m = 1..Len(m)
                /\ \A p \in a..e : Spot(diff, a, e, p) \in 1..Len(m) /\ m[Spot(diff, a, e, p)] = diff[p]
                /\ \A i \in 1..Len(m) : \E p \in a..e : i = Spot(diff, a, e, p) \/ IsMarker(m[i])
                /\ \A p \in a..e : p \in DOMAIN diff
  <2>1. PICK a, e : a = BeginOf(diff, h) /\ e = StopOf(diff, h)
    OBVIOUS
  <2>2. a \in 1..Len(diff) /\ e \in a..Len(diff) /\ patch.hunks[h].lines = HunkLines(diff, a, e)
    BY <1>1, <2>1
  <2>3. \A p \in a..e : p \in DOMAIN diff
    BY <1>1, <2>2
  <2>4. /\ DOMAIN HunkLines(diff, a, e) = 1..Len(HunkLines(diff, a, e))
        /\ \A p \in a..e : /\ Spot(diff, a, e, p) \in 1..Len(HunkLines(diff, a, e))
                           /\ HunkLines(diff, a, e)[Spot(diff, a, e, p)] = diff[p]
        /\ \A i \in 1..Len(HunkLines(diff, a, e)) :
              \E p \in a..e : i = Spot(diff, a, e, p) \/ IsMarker(HunkLines(diff, a, e)[i])
    BY <2>2, Spots
  <2> QED
    BY <2>1, <2>2, <2>3, <2>4
<1>3. ASSUME NEW k \in Keys(patch)
      PROVE  \E h \in 1..HunksIn(diff) : \E p \in DOMAIN diff :
               InHunk(diff, h, p) /\ IsChange(diff[p]) /\ k = KeyOf(diff, h, p)
  <2>1. PICK h, i : /\ h \in 1..HunksIn(diff) /\ k = <<h, i>> /\ i \in DOMAIN patch.hunks[h].lines
                    /\ IsChange(patch.hunks[h].lines[i])
    BY <1>1 DEF Keys
  <2>2. ~IsMarker(patch.hunks[h].lines[i])
    BY <2>1 DEF IsMarker, IsChange
  <2>3. PICK p \in BeginOf(diff, h)..StopOf(diff, h) : i = Spot(diff, BeginOf(diff, h), StopOf(diff, h), p)
    BY <1>2, <2>1, <2>2
  <2>4. p \in DOMAIN diff /\ InHunk(diff, h, p) /\ patch.hunks[h].lines[i] = diff[p]
    BY <1>2, <2>1, <2>3 DEF InHunk
  <2> QED
    BY <2>1, <2>3, <2>4 DEF KeyOf
<1>4. ASSUME NEW h \in 1..HunksIn(diff), NEW p \in DOMAIN diff, InHunk(diff, h, p)
      PROVE  /\ patch.hunks[h].lines[KeyOf(diff, h, p)[2]] = diff[p]
             /\ IsChange(diff[p]) => KeyOf(diff, h, p) \in Keys(patch)
  <2>1. PICK i : i = Spot(diff, BeginOf(diff, h), StopOf(diff, h), p)
    OBVIOUS
  <2>2. i \in DOMAIN patch.hunks[h].lines /\ patch.hunks[h].lines[i] = diff[p]
    BY <1>2, <1>4, <2>1 DEF InHunk
  <2>3. KeyOf(diff, h, p) = <<h, i>> /\ h \in DOMAIN patch.hunks
    BY <1>1, <2>1 DEF KeyOf
  <2> QED
    BY <2>2, <2>3 DEF Keys
<1> QED
  BY <1>3, <1>4

(* The keys of a choice name changes of the diff.                           *)
LEMMA ChosenAreLines ==
  ASSUME NEW diff, IsDiff(diff), NEW patch, patch.hunks = Hunks(diff), NEW selected \in SUBSET Keys(patch)
  PROVE  /\ PickedLines(diff, selected) \subseteq DOMAIN diff
         /\ \A p \in PickedLines(diff, selected) : IsChange(diff[p])
         /\ Chosen(patch, selected) = LinesAt(diff, PickedLines(diff, selected))
<1>1. ASSUME NEW k \in selected
      PROVE  patch.hunks[k[1]].lines[k[2]].line \in LinesAt(diff, PickedLines(diff, selected))
  <2>1. PICK h \in 1..HunksIn(diff) : \E p \in DOMAIN diff :
          InHunk(diff, h, p) /\ IsChange(diff[p]) /\ k = KeyOf(diff, h, p)
    BY KeysAre
  <2>2. PICK p \in DOMAIN diff : InHunk(diff, h, p) /\ IsChange(diff[p]) /\ k = KeyOf(diff, h, p)
    BY <2>1
  <2>3. patch.hunks[h].lines[k[2]] = diff[p] /\ k[1] = h
    BY <2>2, KeysAre DEF KeyOf
  <2>4. p \in PickedLines(diff, selected)
    BY <2>2 DEF PickedLines
  <2> QED
    BY <2>3, <2>4 DEF LinesAt
<1>2. ASSUME NEW p \in PickedLines(diff, selected)
      PROVE  diff[p].line \in Chosen(patch, selected)
  <2>1. PICK h \in 1..HunksIn(diff) : /\ p \in DOMAIN diff /\ InHunk(diff, h, p)
                                      /\ KeyOf(diff, h, p) \in selected
    BY DEF PickedLines
  <2>2. patch.hunks[h].lines[KeyOf(diff, h, p)[2]] = diff[p] /\ KeyOf(diff, h, p)[1] = h
    BY <2>1, KeysAre DEF KeyOf
  <2> QED
    BY <2>1, <2>2 DEF Chosen
<1>3. Chosen(patch, selected) \subseteq LinesAt(diff, PickedLines(diff, selected))
  BY <1>1 DEF Chosen
<1>4. LinesAt(diff, PickedLines(diff, selected)) \subseteq Chosen(patch, selected)
  BY <1>2 DEF LinesAt
<1> QED
  BY <1>3, <1>4 DEF PickedLines

-------------------------------------------------------------------------------
(* The versions of the file and the patches between them.                   *)
OnSide(s) == {FileLines[i] : i \in {j \in DOMAIN file : s \in file[j].sides}}

(* The two sides are versions, and together have every line.                *)
LEMMA SidesAre ==
  ASSUME file \in Files
  PROVE  /\ \A s : HasLinesInOrder(Side(s)) /\ Range(Side(s).lines) = OnSide(s) /\ OnSide(s) \subseteq AllLines
         /\ AllLines = OnSide("head") \cup OnSide("work") /\ AllLines # {}
         /\ \A i \in DOMAIN file : \A s : FileLines[i] \in OnSide(s) <=> s \in file[i].sides
<1>1. PICK n \in Nat \ {0} :
        DOMAIN file = 1..n /\ \A i \in 1..n : file[i].sides \in {{"head"}, {"work"}, {"head", "work"}}
  BY FileIs
<1>2. /\ DOMAIN FileLines = DOMAIN file
      /\ \A i, j \in DOMAIN file : FileLines[i] = FileLines[j] => i = j
  BY FileLinesApart
<1>3. \A i \in DOMAIN file : \A s : FileLines[i] \in OnSide(s) <=> s \in file[i].sides
  BY <1>2 DEF OnSide
<1>4. ASSUME NEW s
      PROVE  HasLinesInOrder(Side(s)) /\ Range(Side(s).lines) = OnSide(s) /\ OnSide(s) \subseteq AllLines
  <2>1. {i \in DOMAIN file : s \in file[i].sides} = {i \in DOMAIN file : FileLines[i] \in OnSide(s)}
    BY <1>3
  <2>2. Side(s).lines = InOrder(OnSide(s))
    BY <2>1 DEF Side, InOrder
  <2>3. OnSide(s) \subseteq AllLines
    BY DEF OnSide, AllLines
  <2>4. Range(InOrder(OnSide(s))) = OnSide(s)
    <3>1. Range(InOrder(OnSide(s))) = OnSide(s) \cap AllLines
      BY InOrderIs
    <3> QED
      BY <2>3, <3>1
  <2> QED
    BY <2>2, <2>3, <2>4 DEF HasLinesInOrder
<1>5. AllLines \subseteq OnSide("head") \cup OnSide("work")
  BY <1>1, <1>3 DEF AllLines
<1>6. AllLines # {}
  <2>1. 1 \in DOMAIN file
    BY <1>1
  <2> QED
    BY <2>1 DEF AllLines
<1> QED
  BY <1>3, <1>4, <1>5, <1>6

(* A side is there when it is tracked.                                      *)
LEMMA SidesThere ==
  ASSUME NEW s
  PROVE  Side(s).present \in BOOLEAN /\ (Side(s).present <=> s \in tracked)
<1>1. Side(s).present = (s \in tracked)
  BY DEF Side
<1>2. CASE s \in tracked
  <2>1. (s \in tracked) = TRUE
    BY <1>2, Zenon
  <2>2. Side(s).present = TRUE
    BY <1>1, <2>1, Zenon
  <2> QED
    BY <1>2, <2>2
<1>3. CASE s \notin tracked
  <2>1. (s \in tracked) = FALSE
    BY <1>3, SMT
  <2>2. Side(s).present = FALSE
    BY <1>1, <2>1, Zenon
  <2> QED
    BY <1>3, <2>2
<1> QED
  BY <1>2, <1>3

OtherSide(staged) == IF staged THEN HeadSide ELSE WorkSide
OtherName(staged) == IF staged THEN "head" ELSE "work"
OldOf(staged, ix) == IF staged THEN HeadSide ELSE ix
NewOf(staged, ix) == IF staged THEN ix ELSE WorkSide
DiffFor(staged, ix) == Diff(OldOf(staged, ix), NewOf(staged, ix))

(* The changes are the lines that one of the two versions has.              *)
ChangesFor(staged, ix) ==
  (Range(ix.lines) \cup OnSide(OtherName(staged))) \ (Range(ix.lines) \cap OnSide(OtherName(staged)))

(* What is true of the patch of a version, staged or not.                   *)
LEMMA PatchOfVersion ==
  ASSUME file \in Files, NEW ix, HasLinesInOrder(ix), ix.present \in BOOLEAN, NEW staged \in BOOLEAN
  PROVE  LET d == DiffFor(staged, ix)
             patch == FilePatch(staged, ix)
         IN /\ IsDiffOf(d, OldOf(staged, ix), NewOf(staged, ix))
            /\ HasLinesInOrder(OldOf(staged, ix)) /\ HasLinesInOrder(NewOf(staged, ix))
            /\ SideOf(OldOf(staged, ix), NewOf(staged, ix), staged) = ix
            /\ IsPatchFor(patch, d, staged, ix)
            /\ (IF staged THEN patch.isNew ELSE patch.isDeleted) <=> OtherName(staged) \notin tracked
            /\ \A p \in DOMAIN d : IsChange(d[p]) <=> d[p].line \in ChangesFor(staged, ix)
            /\ \A l \in ChangesFor(staged, ix) : \E p \in DOMAIN d : d[p].line = l
<1>1. PICK old, new, d, patch : /\ old = OldOf(staged, ix) /\ new = NewOf(staged, ix) /\ d = DiffFor(staged, ix)
                                /\ patch = FilePatch(staged, ix)
  OBVIOUS
<1>2. \A s : HasLinesInOrder(Side(s)) /\ Range(Side(s).lines) = OnSide(s)
  BY SidesAre
<1>3. HasLinesInOrder(old) /\ HasLinesInOrder(new) /\ SideOf(old, new, staged) = ix
  BY <1>1, <1>2 DEF OldOf, NewOf, SideOf, HeadSide, WorkSide
<1>4. d = Diff(old, new) /\ IsDiffOf(d, old, new)
  BY <1>1, <1>3, DiffIs DEF DiffFor
<1>5. patch.hunks = Hunks(d) /\ patch.isNew = ~old.present /\ patch.isDeleted = ~new.present
  BY <1>1 DEF FilePatch, DiffFor, OldOf, NewOf
<1>6. \A s : Side(s).present \in BOOLEAN /\ (Side(s).present <=> s \in tracked)
  BY SidesThere
<1>7. patch.isNew \in BOOLEAN /\ patch.isDeleted \in BOOLEAN
  BY <1>5
<1>8. /\ ix.present <=> ~(IF staged THEN patch.isDeleted ELSE patch.isNew)
      /\ (IF staged THEN patch.isNew ELSE patch.isDeleted) <=> OtherName(staged) \notin tracked
  BY <1>1, <1>5, <1>6 DEF OldOf, NewOf, HeadSide, WorkSide, OtherName
<1>9. ix.lines = Picked(LinesOf(d), Before(d, staged))
  <2>1. {} \in SUBSET DOMAIN d
    OBVIOUS
  <2> QED
    BY <1>3, <1>4, <2>1, LinesExchanged
<1>10. IsPatchFor(patch, d, staged, ix)
  BY <1>5, <1>7, <1>8, <1>9 DEF IsPatchFor
<1>11. /\ ChangesFor(staged, ix) \subseteq EitherHas(old, new)
       /\ \A l \in EitherHas(old, new) :
            l \in ChangesFor(staged, ix) <=> l \notin Range(old.lines) \/ l \notin Range(new.lines)
  BY <1>1, <1>2 DEF OldOf, NewOf, HeadSide, WorkSide, OtherName, ChangesFor, EitherHas
<1>12. \A p \in DOMAIN d : IsChange(d[p]) <=> d[p].line \in ChangesFor(staged, ix)
  BY <1>4, <1>11 DEF IsDiffOf, IsChange
<1>13. \A l \in ChangesFor(staged, ix) : \E p \in DOMAIN d : d[p].line = l
  BY <1>4, <1>11 DEF IsDiffOf
<1> QED
  BY <1>1, <1>3, <1>4, <1>8, <1>10, <1>12, <1>13

-------------------------------------------------------------------------------
(* What becomes of a version when lines of a patch are chosen.              *)
After(ix, C, staged) ==
  IF OtherName(staged) \notin tracked /\ Exchange(Range(ix.lines), C) = {}
  THEN [present |-> FALSE, lines |-> <<>>]
  ELSE [present |-> TRUE, lines |-> InOrder(Exchange(Range(ix.lines), C))]

IsVersion(ix) == HasLinesInOrder(ix) /\ ix.present \in BOOLEAN

(* The index after any choice: it is as before when the choice is refused,  *)
(* and has the chosen lines exchanged when not.                             *)
LEMMA AppliedIs ==
  ASSUME file \in Files, NEW ix, IsVersion(ix), NEW staged \in BOOLEAN,
         NEW selected \in SUBSET Keys(FilePatch(staged, ix))
  PROVE  LET patch == FilePatch(staged, ix)
             C == Chosen(patch, selected)
             synthesized == Synthesize(patch, selected, staged)
         IN /\ C \subseteq ChangesFor(staged, ix)
            /\ synthesized.refused <=> Rejects(patch, selected) \/ C = {}
            /\ ~synthesized.refused => /\ Apply(synthesized, ix) = After(ix, C, staged)
                                       /\ After(ix, C, staged) # Failure
                                       /\ Applied(patch, selected, staged, ix) = After(ix, C, staged)
            /\ synthesized.refused => Applied(patch, selected, staged, ix) = ix
<1>1. PICK patch, d, P, C, old, new :
        /\ patch = FilePatch(staged, ix) /\ d = DiffFor(staged, ix) /\ P = PickedLines(d, selected)
        /\ C = Chosen(patch, selected) /\ old = OldOf(staged, ix) /\ new = NewOf(staged, ix)
  OBVIOUS
<1>2. /\ IsDiffOf(d, old, new) /\ HasLinesInOrder(old) /\ HasLinesInOrder(new)
      /\ SideOf(old, new, staged) = ix /\ IsPatchFor(patch, d, staged, ix)
      /\ (IF staged THEN patch.isNew ELSE patch.isDeleted) <=> OtherName(staged) \notin tracked
      /\ \A p \in DOMAIN d : IsChange(d[p]) <=> d[p].line \in ChangesFor(staged, ix)
  BY <1>1, PatchOfVersion DEF IsVersion
<1>3. IsDiff(d) /\ patch.hunks = Hunks(d) /\ d = Diff(old, new)
  BY <1>1, <1>2 DEF IsDiffOf, IsPatchFor, DiffFor
<1>4. selected \in SUBSET Keys(patch)
  BY <1>1
<1>5. P \in SUBSET DOMAIN d /\ (\A p \in P : IsChange(d[p])) /\ C = LinesAt(d, P)
  BY <1>1, <1>3, <1>4, ChosenAreLines
<1>6. C \subseteq ChangesFor(staged, ix)
  BY <1>2, <1>5 DEF LinesAt
<1>7. P = {} <=> C = {}
  BY <1>5 DEF LinesAt
<1>8. PICK synthesized : synthesized = Synthesize(patch, selected, staged)
  OBVIOUS
<1>9. synthesized.refused <=> Rejects(patch, selected) \/ C = {}
  BY <1>1, <1>3, <1>7, <1>8, Refusals
<1>10. PICK M : M = Exchange(Range(ix.lines), C)
  OBVIOUS
<1>11. /\ Picked(LinesOf(d), Changed(Before(d, staged), P)) = InOrder(M)
       /\ Changed(Before(d, staged), P) = {} <=> M = {}
  BY <1>2, <1>3, <1>5, <1>10, LinesExchanged
<1>12. PICK del : del = IF staged THEN patch.isNew ELSE patch.isDeleted
  OBVIOUS
<1>13. Outcome(d, P, staged, del) = After(ix, C, staged)
  <2>1. del <=> OtherName(staged) \notin tracked
    BY <1>2, <1>12, Zenon
  <2>2. CASE OtherName(staged) \notin tracked /\ M = {}
    BY <1>10, <1>11, <2>1, <2>2, Zenon DEF Outcome, After
  <2>3. CASE ~(OtherName(staged) \notin tracked /\ M = {})
    BY <1>10, <1>11, <2>1, <2>3, Zenon DEF Outcome, After
  <2> QED
    BY <2>2, <2>3
<1>14. ASSUME ~synthesized.refused
       PROVE  /\ Apply(synthesized, ix) = After(ix, C, staged)
              /\ After(ix, C, staged) # Failure
              /\ Applied(patch, selected, staged, ix) = After(ix, C, staged)
  <2>1. ~Rejects(patch, selected) /\ P # {}
    BY <1>7, <1>9, <1>14
  <2>2. PickedLines(d, selected) # {}
    BY <1>1, <2>1
  <2>3. LET outcome == Outcome(d, PickedLines(d, selected), staged, IF staged THEN patch.isNew ELSE patch.isDeleted)
        IN /\ Apply(Synthesize(patch, selected, staged), ix) = outcome
           /\ outcome # Failure
           /\ Applied(patch, selected, staged, ix) = outcome
    BY <1>2, <1>3, <2>1, <2>2, PatchApplies
  <2> QED
    BY <1>1, <1>8, <1>12, <1>13, <2>3
<1>15. ASSUME synthesized.refused PROVE Applied(patch, selected, staged, ix) = ix
  BY <1>8, <1>15, Zenon DEF Applied
<1> QED
  BY <1>1, <1>6, <1>8, <1>9, <1>14, <1>15

-------------------------------------------------------------------------------
(* What is always so.                                                       *)
FileInv ==
  /\ file \in Files
  /\ tracked \subseteq {"head", "work"}
  /\ \A i \in DOMAIN file : file[i].sides \subseteq tracked

OnBothSides == OnSide("head") \cap OnSide("work")

(* The lines on both sides never leave the index, and whether the file is   *)
(* in it is decided by its lines, but for an empty file on both sides.      *)
VersionInv(ix) ==
  /\ ix \in [present : BOOLEAN, lines : Seq(TextLines)]
  /\ HasLinesInOrder(ix)
  /\ OnBothSides \subseteq Range(ix.lines)
  /\ ix.present <=> (ix.lines # <<>> \/ tracked = {"head", "work"})

StagingIInv == FileInv /\ VersionInv(index)

(* Lines of the file, put in order.                                         *)
LEMMA LinesInOrder ==
  ASSUME file \in Files, NEW M, M \subseteq AllLines
  PROVE  /\ InOrder(M) \in Seq(TextLines) /\ Range(InOrder(M)) = M
         /\ InOrder(M) = InOrder(Range(InOrder(M)))
         /\ InOrder(M) = <<>> <=> M = {}
<1>1. InOrder(M) \in Seq(TextLines) /\ Range(InOrder(M)) = M \cap AllLines
  BY InOrderIs
<1>2. M \cap AllLines = M
  OBVIOUS
<1>3. Range(InOrder(M)) = M
  BY <1>1, <1>2
<1>4. InOrder(M) = <<>> <=> Range(InOrder(M)) = {}
  BY <1>1 DEF Range
<1> QED
  BY <1>1, <1>3, <1>4

(* A file that is on one side only has no lines but of that side.           *)
LEMMA OneSideOnly ==
  ASSUME FileInv, NEW s \in {"head", "work"}, tracked = {s}
  PROVE  AllLines = OnSide(s)
<1>1. PICK n \in Nat \ {0} :
        DOMAIN file = 1..n /\ \A i \in 1..n : file[i].sides \in {{"head"}, {"work"}, {"head", "work"}}
  BY FileIs DEF FileInv
<1>2. ASSUME NEW i \in DOMAIN file PROVE FileLines[i] \in OnSide(s)
  <2>1. file[i].sides \subseteq {s} /\ file[i].sides # {}
    BY <1>1 DEF FileInv
  <2> QED
    BY <2>1, SidesAre DEF FileInv
<1>3. OnSide(s) \subseteq AllLines
  BY SidesAre DEF FileInv
<1> QED
  BY <1>2, <1>3 DEF AllLines

(* A choice takes a version to a version.                                   *)
LEMMA VersionStays ==
  ASSUME FileInv, NEW ix, VersionInv(ix), NEW staged \in BOOLEAN,
         NEW C, C \subseteq ChangesFor(staged, ix), C # {}
  PROVE  /\ VersionInv(After(ix, C, staged))
         /\ Range(After(ix, C, staged).lines) = Exchange(Range(ix.lines), C)
<1>1. PICK V, O, M, after : /\ V = Range(ix.lines) /\ O = OnSide(OtherName(staged)) /\ M = Exchange(V, C)
                            /\ after = After(ix, C, staged)
  OBVIOUS
<1>2. file \in Files
  BY DEF FileInv
<1>3. V \subseteq AllLines /\ O \subseteq AllLines
  BY <1>1, <1>2, LinesOfVersion, SidesAre DEF VersionInv
<1>4. C \subseteq (V \cup O) \ (V \cap O)
  BY <1>1 DEF ChangesFor
<1>5. M \subseteq AllLines
  BY <1>1, <1>3, <1>4 DEF Exchange
<1>6. /\ InOrder(M) \in Seq(TextLines) /\ Range(InOrder(M)) = M
      /\ InOrder(M) = InOrder(Range(InOrder(M)))
      /\ InOrder(M) = <<>> <=> M = {}
  BY <1>2, <1>5, LinesInOrder
<1>7. OnBothSides \subseteq V /\ OnBothSides \subseteq O
  BY <1>1 DEF VersionInv, OnBothSides, OtherName
<1>8. OnBothSides \subseteq M
  BY <1>1, <1>4, <1>7 DEF Exchange
<1>9. after = [present |-> after.present, lines |-> InOrder(M)] /\ after.present \in BOOLEAN
  <2>1. CASE OtherName(staged) \notin tracked /\ M = {}
    BY <1>1, <1>6, <2>1 DEF After
  <2>2. CASE ~(OtherName(staged) \notin tracked /\ M = {})
    BY <1>1, <2>2 DEF After
  <2> QED
    BY <2>1, <2>2
<1>10. after.present <=> ~(OtherName(staged) \notin tracked /\ M = {})
  BY <1>1 DEF After
<1>11. after.present <=> M # {} \/ tracked = {"head", "work"}
  <2>1. CASE M # {}
    BY <1>10, <2>1
  <2>2. CASE M = {} /\ OtherName(staged) \notin tracked
    BY <1>10, <2>2 DEF OtherName
  <2>3. CASE M = {} /\ OtherName(staged) \in tracked
    <3>1. SUFFICES ASSUME tracked # {"head", "work"} PROVE FALSE
      BY <1>10, <2>3
    <3>2. OtherName(staged) \in {"head", "work"}
      BY DEF OtherName
    <3>3. tracked = {OtherName(staged)}
      BY <2>3, <3>1, <3>2 DEF FileInv, OtherName
    <3>4. V \subseteq O
      BY <1>1, <1>3, <3>2, <3>3, OneSideOnly
    <3> QED
      BY <1>1, <1>4, <2>3, <3>4 DEF Exchange
  <2> QED
    BY <2>1, <2>2, <2>3
<1>12. after \in [present : BOOLEAN, lines : Seq(TextLines)] /\ after.lines = InOrder(M)
  BY <1>6, <1>9
<1>13. HasLinesInOrder(after) /\ Range(after.lines) = M
  BY <1>6, <1>12 DEF HasLinesInOrder
<1>14. VersionInv(after)
  BY <1>6, <1>8, <1>11, <1>12, <1>13 DEF VersionInv
<1> QED
  BY <1>1, <1>13, <1>14

(* It is so to begin with: the index is HEAD's version.                     *)
LEMMA StartsSo == StagingInit => StagingIInv
<1> SUFFICES ASSUME StagingInit PROVE StagingIInv
  OBVIOUS
<1>1. FileInv /\ file \in Files
  BY DEF StagingInit, FileInv
<1>2. HasLinesInOrder(index) /\ Range(index.lines) = OnSide("head") /\ OnSide("head") \subseteq AllLines
  BY <1>1, SidesAre DEF StagingInit, HeadSide
<1>3. index.lines = InOrder(OnSide("head"))
  BY <1>2 DEF HasLinesInOrder
<1>4. index.lines \in Seq(TextLines) /\ (index.lines = <<>> <=> OnSide("head") = {})
  BY <1>1, <1>2, <1>3, LinesInOrder
<1>5. index = [present |-> index.present, lines |-> index.lines]
  BY DEF StagingInit, HeadSide, Side
<1>6. index.present \in BOOLEAN /\ (index.present <=> "head" \in tracked)
  <2>1. index.present = Side("head").present
    BY DEF StagingInit, HeadSide
  <2> QED
    BY <2>1, SidesThere
<1>7. index.present <=> (index.lines # <<>> \/ tracked = {"head", "work"})
  <2>1. CASE "head" \notin tracked
    <3>1. OnSide("head") = {}
      BY <1>1, <2>1 DEF OnSide, FileInv
    <3> QED
      BY <1>4, <1>6, <2>1, <3>1
  <2>2. CASE "head" \in tracked /\ tracked # {"head", "work"}
    <3>1. tracked = {"head"}
      BY <1>1, <2>2 DEF FileInv
    <3>2. OnSide("head") # {}
      BY <1>1, <3>1, OneSideOnly, SidesAre
    <3> QED
      BY <1>4, <1>6, <2>2, <3>2
  <2>3. CASE tracked = {"head", "work"}
    BY <1>6, <2>3
  <2> QED
    BY <2>1, <2>2, <2>3
<1>8. index \in [present : BOOLEAN, lines : Seq(TextLines)]
  BY <1>4, <1>5, <1>6
<1> QED
  BY <1>1, <1>2, <1>7, <1>8 DEF StagingIInv, VersionInv, OnBothSides

(* Staging or unstaging keeps a version a version.                          *)
LEMMA VersionApplied ==
  ASSUME FileInv, NEW ix, VersionInv(ix), NEW staged \in BOOLEAN,
         NEW selected \in SUBSET Keys(FilePatch(staged, ix))
  PROVE  VersionInv(Applied(FilePatch(staged, ix), selected, staged, ix))
<1>1. PICK patch, C, synthesized :
        /\ patch = FilePatch(staged, ix) /\ C = Chosen(patch, selected)
        /\ synthesized = Synthesize(patch, selected, staged)
  OBVIOUS
<1>2. IsVersion(ix) /\ file \in Files
  BY DEF VersionInv, IsVersion, FileInv
<1>3. /\ C \subseteq ChangesFor(staged, ix)
      /\ synthesized.refused <=> Rejects(patch, selected) \/ C = {}
      /\ ~synthesized.refused => Applied(patch, selected, staged, ix) = After(ix, C, staged)
      /\ synthesized.refused => Applied(patch, selected, staged, ix) = ix
  BY <1>1, <1>2, AppliedIs
<1>4. CASE synthesized.refused
  BY <1>1, <1>3, <1>4
<1>5. CASE ~synthesized.refused
  <2>1. C # {}
    BY <1>3, <1>5
  <2> QED
    BY <1>1, <1>3, <1>5, <2>1, VersionStays
<1> QED
  BY <1>4, <1>5

(* And every choice, staged or taken back, keeps it.                        *)
LEMMA StaysSo == StagingIInv /\ [StagingNext]_stagingVars => StagingIInv'
<1> SUFFICES ASSUME StagingIInv, [StagingNext]_stagingVars PROVE StagingIInv'
  OBVIOUS
<1>1. CASE UNCHANGED stagingVars
  BY <1>1 DEF StagingIInv, FileInv, VersionInv, stagingVars, HasLinesInOrder, InOrder, FileLines, OnBothSides, OnSide
<1>2. ASSUME file' = file, tracked' = tracked, VersionInv(index') PROVE StagingIInv'
  BY <1>2 DEF StagingIInv, FileInv, VersionInv, HasLinesInOrder, InOrder, FileLines, OnBothSides, OnSide
<1>3. ASSUME NEW selected \in SUBSET Keys(FilePatch(FALSE, index)), StagePartial(selected) PROVE StagingIInv'
  <2>1. VersionInv(index')
    BY <1>3, VersionApplied DEF StagePartial, StagingIInv
  <2> QED
    BY <1>2, <1>3, <2>1 DEF StagePartial
<1>4. ASSUME NEW selected \in SUBSET Keys(FilePatch(TRUE, index)), UnstagePartial(selected) PROVE StagingIInv'
  <2>1. VersionInv(index')
    BY <1>4, VersionApplied DEF UnstagePartial, StagingIInv
  <2> QED
    BY <1>2, <1>4, <2>1 DEF UnstagePartial
<1> QED
  BY <1>1, <1>3, <1>4 DEF StagingNext

(* After any number of stage_partial and unstage_partial: the lines on      *)
(* both sides are in the index, it has lines of the file only, in order,    *)
(* and its entry is there as its lines ask for.                             *)
THEOREM StagingInvariant == StagingSpec => []StagingIInv
BY StartsSo, StaysSo, PTL DEF StagingSpec

(* The index stays a version of the file: lines of it, in the order of the  *)
(* diff, and lines only if the file is in it.                               *)
THEOREM StagingTypeCorrect == StagingSpec => []StagingTypeOK
<1>1. StagingIInv => StagingTypeOK
  BY DEF StagingIInv, FileInv, VersionInv, StagingTypeOK, HasLinesInOrder
<1> QED
  BY <1>1, StagingInvariant, PTL

-------------------------------------------------------------------------------
(* Of an action: whatever is chosen, the patch made of it applies.          *)
LEMMA ExactlyTheChosen ==
  ASSUME StagingIInv, NEW staged \in BOOLEAN, NEW selected \in SUBSET Keys(FilePatch(staged, index)),
         ~Synthesize(FilePatch(staged, index), selected, staged).refused
  PROVE  LET after == Apply(Synthesize(FilePatch(staged, index), selected, staged), index)
         IN after # Failure /\ after.lines = Exchanged(FilePatch(staged, index), selected)
<1>1. PICK patch, C, synthesized :
        /\ patch = FilePatch(staged, index) /\ C = Chosen(patch, selected)
        /\ synthesized = Synthesize(patch, selected, staged)
  OBVIOUS
<1>2. IsVersion(index) /\ file \in Files /\ FileInv /\ VersionInv(index)
  BY DEF StagingIInv, VersionInv, IsVersion, FileInv
<1>3. /\ C \subseteq ChangesFor(staged, index)
      /\ synthesized.refused <=> Rejects(patch, selected) \/ C = {}
      /\ ~synthesized.refused => /\ Apply(synthesized, index) = After(index, C, staged)
                                 /\ After(index, C, staged) # Failure
  BY <1>1, <1>2, AppliedIs
<1>4. C # {}
  BY <1>1, <1>3
<1>5. VersionInv(After(index, C, staged)) /\ Range(After(index, C, staged).lines) = Exchange(Range(index.lines), C)
  BY <1>2, <1>3, <1>4, VersionStays
<1>6. After(index, C, staged).lines = InOrder(Exchange(Range(index.lines), C))
  BY <1>5 DEF VersionInv, HasLinesInOrder
<1>7. Exchanged(patch, selected) = InOrder(Exchange(Range(index.lines), C))
  BY <1>1 DEF Exchanged, Exchange
<1> QED
  BY <1>1, <1>3, <1>6, <1>7

(* synthesize_patch: a choice of lines that is not refused makes a patch    *)
(* that applies, and exactly the lines chosen change.                       *)
THEOREM StagingAppliesAsChosen == StagingSpec => []AppliesAsChosen
<1>1. StagingIInv => AppliesAsChosen
  <2> SUFFICES ASSUME StagingIInv PROVE AppliesAsChosen
    OBVIOUS
  <2>1. ASSUME NEW staged \in BOOLEAN, NEW selected \in SUBSET Keys(FilePatch(staged, index))
        PROVE  LET synthesized == Synthesize(FilePatch(staged, index), selected, staged)
                   after == Apply(synthesized, index)
               IN ~synthesized.refused => /\ after # Failure
                                          /\ after.lines = Exchanged(FilePatch(staged, index), selected)
    BY ExactlyTheChosen
  <2> QED
    BY <2>1 DEF AppliesAsChosen, ForEveryChoice
<1> QED
  BY <1>1, StagingInvariant, PTL

-------------------------------------------------------------------------------
(* Lines staged and taken back.                                             *)
KeysOfLines(patch, C) == {k \in Keys(patch) : patch.hunks[k[1]].lines[k[2]].line \in C}

(* The keys of some changes choose these changes and no others.             *)
LEMMA ChosenByLines ==
  ASSUME file \in Files, NEW ix, IsVersion(ix), NEW staged \in BOOLEAN,
         NEW C, C \subseteq ChangesFor(staged, ix)
  PROVE  Chosen(FilePatch(staged, ix), KeysOfLines(FilePatch(staged, ix), C)) = C
<1>1. PICK patch, d : patch = FilePatch(staged, ix) /\ d = DiffFor(staged, ix)
  OBVIOUS
<1>2. /\ IsDiff(d) /\ patch.hunks = Hunks(d)
      /\ \A p \in DOMAIN d : IsChange(d[p]) <=> d[p].line \in ChangesFor(staged, ix)
      /\ \A l \in ChangesFor(staged, ix) : \E p \in DOMAIN d : d[p].line = l
  <2>1. /\ IsDiffOf(d, OldOf(staged, ix), NewOf(staged, ix)) /\ IsPatchFor(patch, d, staged, ix)
        /\ \A p \in DOMAIN d : IsChange(d[p]) <=> d[p].line \in ChangesFor(staged, ix)
        /\ \A l \in ChangesFor(staged, ix) : \E p \in DOMAIN d : d[p].line = l
    BY <1>1, PatchOfVersion DEF IsVersion
  <2> QED
    BY <2>1 DEF IsDiffOf, IsPatchFor
<1>3. ASSUME NEW l \in C
      PROVE  \E k \in KeysOfLines(patch, C) : patch.hunks[k[1]].lines[k[2]].line = l
  <2>1. PICK p \in DOMAIN d : d[p].line = l
    BY <1>2
  <2>2. IsChange(d[p])
    BY <1>2, <2>1
  <2>3. PICK h \in 1..HunksIn(d) : InHunk(d, h, p)
    BY <1>2, <2>2, HunksOfDiff
  <2>4. PICK k : k = KeyOf(d, h, p)
    OBVIOUS
  <2>5. k \in Keys(patch) /\ patch.hunks[h].lines[k[2]] = d[p] /\ k[1] = h
    BY <1>2, <2>2, <2>3, <2>4, KeysAre DEF KeyOf
  <2>6. patch.hunks[k[1]].lines[k[2]].line = l
    BY <2>1, <2>5
  <2> QED
    BY <2>5, <2>6 DEF KeysOfLines
<1>4. C \subseteq Chosen(patch, KeysOfLines(patch, C))
  BY <1>3 DEF Chosen
<1>5. Chosen(patch, KeysOfLines(patch, C)) \subseteq C
  BY DEF Chosen, KeysOfLines
<1> QED
  BY <1>1, <1>4, <1>5

(* A version is known by its lines.                                         *)
LEMMA SameLinesSameVersion ==
  ASSUME NEW u, NEW v, VersionInv(u), VersionInv(v), Range(u.lines) = Range(v.lines)
  PROVE  u = v
<1>1. u.lines = v.lines
  BY DEF VersionInv, HasLinesInOrder
<1>2. u.present <=> v.present
  BY <1>1 DEF VersionInv
<1>3. u \in [present : BOOLEAN, lines : Seq(TextLines)] /\ v \in [present : BOOLEAN, lines : Seq(TextLines)]
  BY DEF VersionInv
<1>4. u.present = v.present
  BY <1>2, <1>3
<1> QED
  BY <1>1, <1>3, <1>4

(* Of an action and the one that mirrors it: together they change nothing.  *)
LEMMA TakenBack ==
  ASSUME StagingIInv, NEW staged \in BOOLEAN, NEW selected \in SUBSET Keys(FilePatch(staged, index)),
         NEW patch, patch = FilePatch(staged, index),
         NEW after, after = Applied(patch, selected, staged, index), after # index,
         NEW back, back = FilePatch(~staged, after),
         NEW same, same = KeysOfLines(back, Chosen(patch, selected)),
         ~Synthesize(back, same, ~staged).refused
  PROVE  Applied(back, same, ~staged, after) = index
<1>1. PICK C, V, M : C = Chosen(patch, selected) /\ V = Range(index.lines) /\ M = Exchange(V, C)
  OBVIOUS
<1>2. IsVersion(index) /\ file \in Files /\ FileInv /\ VersionInv(index)
  BY DEF StagingIInv, VersionInv, IsVersion, FileInv
<1>3. C \subseteq ChangesFor(staged, index) /\ C # {} /\ after = After(index, C, staged)
  BY <1>1, <1>2, AppliedIs
<1>4. VersionInv(after) /\ Range(after.lines) = M
  BY <1>1, <1>2, <1>3, VersionStays
<1>5. IsVersion(after) /\ (~staged) \in BOOLEAN
  BY <1>4 DEF VersionInv, IsVersion
<1>6. C \subseteq ChangesFor(~staged, after)
  <2>1. PICK O, Opp : O = OnSide(OtherName(staged)) /\ Opp = OnSide(OtherName(~staged))
    OBVIOUS
  <2>2. C \subseteq (V \cup O) \ (V \cap O)
    BY <1>1, <1>3, <2>1 DEF ChangesFor
  <2>3. ChangesFor(~staged, after) = (M \cup Opp) \ (M \cap Opp)
    BY <1>4, <2>1 DEF ChangesFor
  <2>4. O \cap Opp \subseteq V /\ V \subseteq O \cup Opp
    <3>1. O \cap Opp = OnBothSides /\ O \cup Opp = AllLines
      <4>1. CASE staged
        BY <1>2, <2>1, <4>1, SidesAre DEF OnBothSides, OtherName
      <4>2. CASE ~staged
        BY <1>2, <2>1, <4>2, SidesAre DEF OnBothSides, OtherName
      <4> QED
        BY <4>1, <4>2
    <3> QED
      BY <1>1, <1>2, <3>1, LinesOfVersion DEF VersionInv
  <2> QED
    BY <1>1, <2>2, <2>3, <2>4 DEF Exchange
<1>7. Chosen(back, same) = C
  BY <1>1, <1>2, <1>5, <1>6, ChosenByLines
<1>8. same \in SUBSET Keys(back)
  BY DEF KeysOfLines
<1>9. Applied(back, same, ~staged, after) = After(after, C, ~staged)
  <2>1. PICK mirror \in BOOLEAN : mirror = ~staged
    BY <1>5
  <2>2. back = FilePatch(mirror, after) /\ same \in SUBSET Keys(FilePatch(mirror, after))
    BY <1>8, <2>1
  <2>3. ~Synthesize(FilePatch(mirror, after), same, mirror).refused
          => Applied(FilePatch(mirror, after), same, mirror, after)
               = After(after, Chosen(FilePatch(mirror, after), same), mirror)
    BY <1>2, <1>5, <2>2, AppliedIs
  <2> QED
    BY <1>7, <2>1, <2>2, <2>3
<1>10. VersionInv(After(after, C, ~staged)) /\ Range(After(after, C, ~staged).lines) = Exchange(M, C)
  BY <1>2, <1>3, <1>4, <1>5, <1>6, VersionStays
<1>11. Exchange(M, C) = V
  BY <1>1 DEF Exchange
<1> QED
  BY <1>1, <1>2, <1>9, <1>10, <1>11, SameLinesSameVersion

(* stage_partial and unstage_partial mirror each other: lines staged and    *)
(* picked again in the staged patch leave the index as it was.              *)
THEOREM StagingUndoneByMirror == StagingSpec => []UndoneByMirror
<1>1. StagingIInv => UndoneByMirror
  <2> SUFFICES ASSUME StagingIInv PROVE UndoneByMirror
    OBVIOUS
  <2>1. ASSUME NEW staged \in BOOLEAN, NEW selected \in SUBSET Keys(FilePatch(staged, index))
        PROVE  LET patch == FilePatch(staged, index)
                   after == Applied(patch, selected, staged, index)
                   back == FilePatch(~staged, after)
                   same == {k \in Keys(back) : back.hunks[k[1]].lines[k[2]].line \in Chosen(patch, selected)}
               IN after # index /\ ~Synthesize(back, same, ~staged).refused
                    => Applied(back, same, ~staged, after) = index
    BY TakenBack DEF KeysOfLines
  <2> QED
    BY <2>1 DEF UndoneByMirror, ForEveryChoice
<1> QED
  BY <1>1, StagingInvariant, PTL

-------------------------------------------------------------------------------
(* The order of the lines of a diff.                                        *)
DeletionsFirst(d) ==
  \A p, q \in DOMAIN d :
    p < q /\ d[p].origin = "+" /\ d[q].origin = "-"
      => \E r \in DOMAIN d : p < r /\ r < q /\ d[r].origin = " "

OnlyTheLastLacks(d) ==
  \A p, q \in DOMAIN d : p < q /\ d[p].origin = "-" /\ d[q].origin = "-" => d[p].line.ends

(* A diff has its lines in the order of the file.                           *)
LEMMA PlacesInDiff ==
  ASSUME file \in Files, NEW old, NEW new, HasLinesInOrder(old), HasLinesInOrder(new),
         NEW d, d = Diff(old, new)
  PROVE  /\ \A p \in DOMAIN d : \E i \in DOMAIN file : d[p].line = FileLines[i]
         /\ \A p, q \in DOMAIN d : \A i, j \in DOMAIN file :
              d[p].line = FileLines[i] /\ d[q].line = FileLines[j] => (p < q <=> i < j)
<1>1. PICK L, S : L = EitherHas(old, new) /\ S = PlacesOf(L)
  OBVIOUS
<1>2. LinesOf(d) = InOrder(L)
  BY <1>1, DiffIs
<1>3. /\ Positions(S) /\ DOMAIN InOrder(L) = 1..Cardinality(S)
      /\ \A k \in DOMAIN InOrder(L) : Nth(S, k) \in S /\ InOrder(L)[k] = FileLines[Nth(S, k)]
  BY <1>1, InOrderIs
<1>4. S \subseteq DOMAIN file
  BY <1>1 DEF PlacesOf
<1>5. DOMAIN d = 1..Cardinality(S) /\ \A p \in DOMAIN d : d[p].line = FileLines[Nth(S, p)] /\ Nth(S, p) \in DOMAIN file
  BY <1>2, <1>3, <1>4 DEF LinesOf
<1>6. \A i, j \in DOMAIN file : FileLines[i] = FileLines[j] => i = j
  BY FileLinesApart
<1>7. ASSUME NEW p \in DOMAIN d, NEW q \in DOMAIN d, NEW i \in DOMAIN file, NEW j \in DOMAIN file,
             d[p].line = FileLines[i], d[q].line = FileLines[j]
      PROVE  p < q <=> i < j
  <2>1. Nth(S, p) = i /\ Nth(S, q) = j
    BY <1>5, <1>6, <1>7
  <2>2. p \in 1..Cardinality(S) /\ q \in 1..Cardinality(S)
    BY <1>5
  <2>3. p < q <=> Nth(S, p) < Nth(S, q)
    BY <1>3, <2>2, NthIsMonotonic
  <2> QED
    BY <2>1, <2>3
<1> QED
  BY <1>5, <1>7

(* Between a line only of the working tree and a later one only of HEAD is  *)
(* one of both.                                                             *)
LEMMA SharedBetween ==
  ASSUME file \in Files, NEW i \in DOMAIN file, NEW j \in DOMAIN file, i < j,
         file[i].sides = {"work"}, file[j].sides = {"head"}
  PROVE  \E k \in DOMAIN file : i < k /\ k < j /\ file[k].sides = {"head", "work"}
<1>1. PICK n \in Nat \ {0} :
        /\ DOMAIN file = 1..n
        /\ \A k \in 1..n : file[k].sides \in {{"head"}, {"work"}, {"head", "work"}}
        /\ \A k \in 1..(n - 1) : ~(file[k].sides = {"work"} /\ file[k + 1].sides = {"head"})
  BY FileIs
<1>2. PICK T : T = {k \in i..j : file[k].sides # {"work"}}
  OBVIOUS
<1>3. i \in 1..n /\ j \in 1..n
  BY <1>1
<1>4. {"head"} # {"work"}
  OBVIOUS
<1>5. T \in SUBSET Nat /\ j \in T
  BY <1>2, <1>3, <1>4
<1>6. PICK k \in T : \A l \in T : k <= l
  BY <1>5, LeastNumber
<1>7. k \in i..j /\ file[k].sides # {"work"} /\ k # i
  BY <1>2, <1>6
<1>8. k - 1 \in i..j /\ k - 1 \notin T /\ k - 1 \in 1..(n - 1) /\ k \in 1..n /\ (k - 1) + 1 = k
  BY <1>3, <1>6, <1>7
<1>9. file[k - 1].sides = {"work"}
  BY <1>2, <1>8
<1>10. file[k].sides # {"head"}
  BY <1>1, <1>8, <1>9
<1>11. file[k].sides = {"head", "work"}
  BY <1>1, <1>7, <1>8, <1>10
<1>12. k < j
  BY <1>3, <1>7, <1>10
<1> QED
  BY <1>1, <1>3, <1>7, <1>8, <1>11, <1>12

(* A line that only one version has is on one side only.                    *)
LEMMA OneSideLines ==
  ASSUME FileInv, NEW ix, VersionInv(ix), NEW staged \in BOOLEAN, NEW i \in DOMAIN file
  PROVE  LET old == Range(OldOf(staged, ix).lines)
             new == Range(NewOf(staged, ix).lines)
         IN /\ FileLines[i] \in new /\ FileLines[i] \notin old => file[i].sides = {"work"}
            /\ FileLines[i] \in old /\ FileLines[i] \notin new => file[i].sides = {"head"}
            /\ file[i].sides = {"head", "work"} => FileLines[i] \in old /\ FileLines[i] \in new
<1>1. PICK V : V = Range(ix.lines)
  OBVIOUS
<1>2. PICK n \in Nat \ {0} :
        DOMAIN file = 1..n /\ \A k \in 1..n : file[k].sides \in {{"head"}, {"work"}, {"head", "work"}}
  BY FileIs DEF FileInv
<1>3. /\ \A s : Range(Side(s).lines) = OnSide(s)
      /\ \A s : FileLines[i] \in OnSide(s) <=> s \in file[i].sides
  BY SidesAre DEF FileInv
<1>4. file[i].sides = {"head", "work"} => FileLines[i] \in V
  BY <1>1, <1>3 DEF VersionInv, OnBothSides
<1>5. file[i].sides \in {{"head"}, {"work"}, {"head", "work"}}
  BY <1>2
<1>6. "head" # "work"
  OBVIOUS
<1>7. CASE staged
  <2>1. Range(OldOf(staged, ix).lines) = OnSide("head") /\ Range(NewOf(staged, ix).lines) = V
    BY <1>1, <1>3, <1>7 DEF OldOf, NewOf, HeadSide
  <2> QED
    BY <1>3, <1>4, <1>5, <1>6, <2>1
<1>8. CASE ~staged
  <2>1. Range(OldOf(staged, ix).lines) = V /\ Range(NewOf(staged, ix).lines) = OnSide("work")
    BY <1>1, <1>3, <1>8 DEF OldOf, NewOf, WorkSide
  <2> QED
    BY <1>3, <1>4, <1>5, <1>6, <2>1
<1> QED
  BY <1>7, <1>8

(* In the diff of a version, nothing is deleted right after an addition: a  *)
(* line that both sides have lies between.                                  *)
LEMMA DeletionsComeFirst ==
  ASSUME FileInv, NEW ix, VersionInv(ix), NEW staged \in BOOLEAN
  PROVE  DeletionsFirst(DiffFor(staged, ix))
<1>1. PICK old, new, d : old = OldOf(staged, ix) /\ new = NewOf(staged, ix) /\ d = DiffFor(staged, ix)
  OBVIOUS
<1>2. file \in Files /\ HasLinesInOrder(ix) /\ ix.present \in BOOLEAN
  BY DEF FileInv, VersionInv
<1>3. IsDiffOf(d, old, new) /\ HasLinesInOrder(old) /\ HasLinesInOrder(new) /\ d = Diff(old, new)
  BY <1>1, <1>2, PatchOfVersion DEF DiffFor
<1>4. ASSUME NEW p \in DOMAIN d, NEW q \in DOMAIN d, p < q, d[p].origin = "+", d[q].origin = "-"
      PROVE  \E r \in DOMAIN d : p < r /\ r < q /\ d[r].origin = " "
  <2>1. PICK i \in DOMAIN file : d[p].line = FileLines[i]
    BY <1>2, <1>3, PlacesInDiff
  <2>2. PICK j \in DOMAIN file : d[q].line = FileLines[j]
    BY <1>2, <1>3, PlacesInDiff
  <2>3. /\ FileLines[i] \in Range(new.lines) /\ FileLines[i] \notin Range(old.lines)
        /\ FileLines[j] \in Range(old.lines) /\ FileLines[j] \notin Range(new.lines)
    BY <1>3, <1>4, <2>1, <2>2 DEF IsDiffOf, EitherHas
  <2>4. file[i].sides = {"work"} /\ file[j].sides = {"head"}
    BY <1>1, <2>3, OneSideLines
  <2>5. i < j
    BY <1>2, <1>3, <1>4, <2>1, <2>2, PlacesInDiff
  <2>6. PICK k \in DOMAIN file : i < k /\ k < j /\ file[k].sides = {"head", "work"}
    BY <1>2, <2>4, <2>5, SharedBetween
  <2>7. FileLines[k] \in Range(old.lines) /\ FileLines[k] \in Range(new.lines)
    BY <1>1, <2>6, OneSideLines
  <2>8. PICK r \in DOMAIN d : d[r].line = FileLines[k]
    BY <1>3, <2>7 DEF IsDiffOf, EitherHas
  <2>9. d[r].origin # "-" /\ d[r].origin # "+" /\ d[r].origin \in Origins
    BY <1>3, <2>7, <2>8, DiffLines DEF IsDiffOf
  <2>10. p < r /\ r < q
    BY <1>2, <1>3, <2>1, <2>2, <2>6, <2>8, PlacesInDiff
  <2> QED
    BY <2>9, <2>10 DEF Origins
<1>5. DeletionsFirst(d)
  BY <1>4, Zenon DEF DeletionsFirst
<1> QED
  BY <1>1, <1>5

(* HEAD has no line glued to the next.                                      *)
NotGlued(v) == \A i \in 1..(Len(v.lines) - 1) : v.lines[i].ends

(* In HEAD only the last line may lack its newline.                         *)
LEMMA HeadIsNotGlued ==
  ASSUME file \in Files
  PROVE  NotGlued(HeadSide)
<1>1. PICK n \in Nat \ {0} :
        /\ DOMAIN file = 1..n
        /\ \A i \in 1..n : \/ file[i].ends
                           \/ \A s \in file[i].sides : \A j \in 1..n : s \in file[j].sides => j <= i
  BY FileIs
<1>2. PICK L, S : L = OnSide("head") /\ S = PlacesOf(L)
  OBVIOUS
<1>3. HeadSide.lines = InOrder(L)
  BY <1>2, SidesAre DEF HasLinesInOrder, HeadSide
<1>4. /\ Positions(S) /\ Len(InOrder(L)) = Cardinality(S) /\ DOMAIN InOrder(L) = 1..Cardinality(S)
      /\ \A k \in DOMAIN InOrder(L) : Nth(S, k) \in S /\ InOrder(L)[k] = FileLines[Nth(S, k)]
  BY <1>2, InOrderIs
<1>5. Cardinality(S) \in Nat
  BY <1>4, SomeAreCounted
<1>6. \A i \in S : i \in DOMAIN file /\ "head" \in file[i].sides /\ FileLines[i].ends = file[i].ends
  BY <1>2, SidesAre DEF PlacesOf, FileLines, TextOf
<1>7. ASSUME NEW k \in 1..(Cardinality(S) - 1) PROVE InOrder(L)[k].ends
  <2>1. k \in 1..Cardinality(S) /\ k + 1 \in 1..Cardinality(S) /\ k < k + 1
    BY <1>5
  <2>2. PICK i, j : i = Nth(S, k) /\ j = Nth(S, k + 1)
    OBVIOUS
  <2>3. i \in S /\ j \in S /\ InOrder(L)[k] = FileLines[i]
    BY <1>4, <2>1, <2>2
  <2>4. i < j
    BY <1>4, <2>1, <2>2, NthIsMonotonic
  <2>5. i \in 1..n /\ j \in 1..n /\ ~(j <= i)
    BY <1>1, <1>6, <2>3, <2>4
  <2>6. file[i].ends
    BY <1>1, <1>6, <2>3, <2>5
  <2> QED
    BY <1>6, <2>3, <2>6
<1> QED
  BY <1>3, <1>4, <1>7 DEF NotGlued

(* In a diff, a line without newline is the last of its side.               *)
LEMMA OnlyTheLastMayLack ==
  ASSUME FileInv, NEW ix, VersionInv(ix), NotGlued(ix), NEW staged \in BOOLEAN
  PROVE  OnlyTheLastLacks(DiffFor(staged, ix))
<1>1. PICK old, new, d, B : /\ old = OldOf(staged, ix) /\ new = NewOf(staged, ix) /\ d = DiffFor(staged, ix)
                            /\ B = Before(d, FALSE)
  OBVIOUS
<1>2. file \in Files /\ HasLinesInOrder(ix) /\ ix.present \in BOOLEAN
  BY DEF FileInv, VersionInv
<1>3. IsDiffOf(d, old, new) /\ HasLinesInOrder(old) /\ HasLinesInOrder(new) /\ d = Diff(old, new)
  BY <1>1, <1>2, PatchOfVersion DEF DiffFor
<1>4. NotGlued(old)
  BY <1>1, <1>2, HeadIsNotGlued DEF OldOf
<1>5. old.lines = Picked(LinesOf(d), B)
  <2>1. {} \in SUBSET DOMAIN d /\ SideOf(old, new, FALSE) = old
    BY DEF SideOf
  <2>2. PICK reverse \in BOOLEAN : reverse = FALSE
    OBVIOUS
  <2>3. SideOf(old, new, reverse).lines = Picked(LinesOf(d), Before(d, reverse))
    BY <1>2, <1>3, <2>1, LinesExchanged
  <2> QED
    BY <1>1, <2>1, <2>2, <2>3
<1>6. IsDiff(d) /\ B \in SUBSET DOMAIN d
  BY <1>1, <1>3 DEF IsDiffOf, Before
<1>7. Positions(B) /\ Len(old.lines) = Cardinality(B)
  BY <1>5, <1>6, LinesOfDiff
<1>8. ASSUME NEW p \in DOMAIN d, NEW q \in DOMAIN d, p < q, d[p].origin = "-", d[q].origin = "-"
      PROVE  d[p].line.ends
  <2>1. p \in B /\ q \in B
    BY <1>1, <1>8 DEF Before, Other
  <2>2. p \in Int /\ q \in Int
    BY <1>6, <1>8, DiffLines
  <2>3. Rank(B, p) < Rank(B, q)
    BY <1>7, <1>8, <2>1, <2>2, RankIsMonotonic
  <2>4. Rank(B, p) \in 1..Cardinality(B) /\ Rank(B, q) \in 1..Cardinality(B) /\ Cardinality(B) \in Nat
    BY <1>7, <2>1, NthIsThere, SomeAreCounted
  <2>5. Rank(B, p) \in 1..(Len(old.lines) - 1)
    BY <1>7, <2>3, <2>4
  <2>6. old.lines[Rank(B, p)] = LinesOf(d)[p]
    BY <1>5, <1>7, <2>1, PickedElements
  <2> QED
    BY <1>4, <2>5, <2>6, <1>8 DEF NotGlued, LinesOf
<1> QED
  BY <1>1, <1>8 DEF OnlyTheLastLacks

-------------------------------------------------------------------------------
(* The blocks of the lines of a hunk.                                       *)
FillsFrom(S, s) == \A j \in S : \A k \in s..j : k \in S

(* A set of numbers from s on without a gap is a segment.                   *)
LEMMA FirstOnes ==
  ASSUME NEW s \in Nat, NEW n \in Nat, NEW S \in SUBSET (s..n), FillsFrom(S, s)
  PROVE  Cardinality(S) \in Nat /\ S = s..(s + Cardinality(S) - 1)
<1>1. PICK T : T = {k \in Nat : s <= k /\ k \notin S}
  OBVIOUS
<1>2. PICK z : z = IF s <= n THEN n + 1 ELSE s
  OBVIOUS
<1>3. z \in Nat /\ s <= z /\ z \notin s..n
  BY <1>2
<1>4. z \in T /\ T \in SUBSET Nat
  BY <1>1, <1>3
<1>5. PICK m \in T : \A k \in T : m <= k
  BY <1>4, LeastNumber
<1>6. m \in Nat /\ s <= m /\ m \notin S
  BY <1>1, <1>5
<1>7. \A k \in s..(m - 1) : k \in S
  <2>1. ASSUME NEW k \in s..(m - 1), k \notin S PROVE FALSE
    <3>1. k \in Nat /\ s <= k /\ ~(m <= k)
      BY <1>6
    <3> QED
      BY <1>1, <1>5, <2>1, <3>1
  <2> QED
    BY <2>1
<1>8. \A j \in S : j \in s..(m - 1)
  <2>1. ASSUME NEW j \in S, m <= j PROVE FALSE
    <3>1. m \in s..j
      BY <1>6, <2>1
    <3> QED
      BY <1>6, <3>1 DEF FillsFrom
  <2> QED
    BY <1>6, <2>1
<1>9. S = s..(m - 1)
  BY <1>7, <1>8
<1>10. Cardinality(s..(m - 1)) = m - s
  <2>1. PICK y : y = m - 1
    OBVIOUS
  <2>2. s \in Int /\ y \in Int
    BY <1>6, <2>1
  <2>3. Cardinality(s..y) = IF s > y THEN 0 ELSE y - s + 1
    BY <2>2, FS_Interval
  <2> QED
    BY <1>6, <2>1, <2>2, <2>3
<1> QED
  BY <1>6, <1>9, <1>10

StretchOf(m, s) == {j \in s..Len(m) : \A k \in s..j : m[k].origin # " "}
InBlock(m, s, o) == {j \in StretchOf(m, s) : m[j].origin = o}
BlockStarts(m) == {i \in DOMAIN m : IsChange(m[i]) /\ (i = 1 \/ m[i - 1].origin = " ")}

(* RejectAmbiguous, block by block.                                         *)
LEMMA RejectedByBlock ==
  ASSUME NEW h, NEW m, NEW selected
  PROVE  RejectAmbiguous(h, m, selected) <=>
           \E s \in BlockStarts(m) :
             /\ Cardinality(InBlock(m, s, "-")) > 1
             /\ \E i \in 0..Cardinality(InBlock(m, s, "-")) - 1 : <<h, s + i>> \notin selected
             /\ \E i \in 0..Cardinality(InBlock(m, s, "+")) - 1 :
                  <<h, s + Cardinality(InBlock(m, s, "-")) + i>> \in selected
<1> DEFINE block(i) == [start |-> i, deletions |-> Cardinality(InBlock(m, i, "-")),
                        additions |-> Cardinality(InBlock(m, i, "+"))]
<1>1. ChangeBlocks(m) = {block(i) : i \in BlockStarts(m)}
  BY DEF ChangeBlocks, BlockStarts, InBlock, StretchOf
<1>2. \A i : /\ block(i).start = i /\ block(i).deletions = Cardinality(InBlock(m, i, "-"))
             /\ block(i).additions = Cardinality(InBlock(m, i, "+"))
  OBVIOUS
<1>3. \A b : b \in ChangeBlocks(m) <=> \E i \in BlockStarts(m) : b = block(i)
  BY <1>1
<1> HIDE DEF block
<1> QED
  BY <1>2, <1>3 DEF RejectAmbiguous

(* What a line of a hunk is.                                                *)
LineHere(diff, a, e, m, i, p) ==
  /\ p \in DOMAIN diff /\ Spot(diff, a, e, p) \in DOMAIN m /\ m[Spot(diff, a, e, p)] = diff[p]
  /\ \/ i = Spot(diff, a, e, p)
     \/ i = Spot(diff, a, e, p) + 1 /\ m[i].origin = "eofnl" /\ ~diff[p].line.ends

(* A line of a hunk is a line of the diff or its marker.                    *)
LEMMA LineOrMarker ==
  ASSUME NEW diff, IsDiff(diff), NEW a \in 1..Len(diff), NEW e \in a..Len(diff),
         NEW m, m = HunkLines(diff, a, e), NEW i \in DOMAIN m
  PROVE  /\ DOMAIN m = 1..Len(m) /\ Len(m) \in Nat /\ i \in Nat
         /\ \E p \in a..e : LineHere(diff, a, e, m, i, p)
<1>1. Len(m) \in Nat /\ DOMAIN m = 1..Len(m)
  BY Spots
<1>2. \A p \in a..e : Spot(diff, a, e, p) \in 1..Len(m) /\ m[Spot(diff, a, e, p)] = diff[p]
  BY Spots
<1>3. \A k \in 1..Len(m) : \E p \in a..e :
        \/ k = Spot(diff, a, e, p)
        \/ k = Spot(diff, a, e, p) + 1 /\ IsMarker(m[k]) /\ ~diff[p].line.ends
  <2>1. \A k \in 1..Len(HunkLines(diff, a, e)) : \E p \in a..e :
          \/ k = Spot(diff, a, e, p)
          \/ k = Spot(diff, a, e, p) + 1 /\ IsMarker(HunkLines(diff, a, e)[k]) /\ ~diff[p].line.ends
    BY Spots
  <2> QED
    BY <2>1
<1>4. \A p \in a..e : p \in DOMAIN diff
  BY DiffLines
<1>5. i \in 1..Len(m)
  BY <1>1
<1>6. PICK p \in a..e :
        \/ i = Spot(diff, a, e, p)
        \/ i = Spot(diff, a, e, p) + 1 /\ IsMarker(m[i]) /\ ~diff[p].line.ends
  BY <1>3, <1>5
<1>7. p \in DOMAIN diff /\ Spot(diff, a, e, p) \in DOMAIN m /\ m[Spot(diff, a, e, p)] = diff[p]
  BY <1>1, <1>2, <1>4
<1>8. LineHere(diff, a, e, m, i, p)
  BY <1>6, <1>7 DEF IsMarker, LineHere
<1> QED
  BY <1>1, <1>5, <1>8

(* A deletion has a deletion before it, up to the start of the block.       *)
LEMMA DeletionsStandTogether ==
  ASSUME NEW diff, IsDiff(diff), DeletionsFirst(diff), OnlyTheLastLacks(diff),
         NEW a \in 1..Len(diff), NEW e \in a..Len(diff), NEW m, m = HunkLines(diff, a, e),
         NEW s \in DOMAIN m, IsChange(m[s]), NEW j \in InBlock(m, s, "-"), NEW k \in s..j
  PROVE  k \in InBlock(m, s, "-")
<1>1. s \in Nat /\ DOMAIN m = 1..Len(m) /\ Len(m) \in Nat
  BY LineOrMarker
<1>2. j \in s..Len(m) /\ (\A l \in s..j : m[l].origin # " ") /\ m[j].origin = "-"
  BY DEF InBlock, StretchOf
<1>3. PICK n \in Nat : n = Len(m)
  BY <1>1
<1>4. s \in 1..n /\ j \in s..n /\ k \in s..j
  BY <1>1, <1>2, <1>3
<1>5. j \in Nat /\ k \in Nat /\ s <= k /\ k <= j /\ k \in s..n /\ \A l \in s..k : l \in s..j
  BY <1>4
<1>6. j \in DOMAIN m /\ k \in DOMAIN m
  <2>1. j \in 1..n /\ k \in 1..n
    BY <1>4
  <2> QED
    BY <1>1, <1>3, <2>1
<1>7. \A l \in s..k : m[l].origin # " "
  BY <1>2, <1>5
<1>8. SUFFICES ASSUME m[k].origin # "-" PROVE FALSE
  <2>1. k \in StretchOf(m, s)
    BY <1>3, <1>7, <1>5 DEF StretchOf
  <2> QED
    BY <2>1 DEF InBlock
<1>9. k < j
  <2>1. k # j
    BY <1>2, <1>8
  <2> QED
    BY <1>5, <2>1
<1>10. PICK q \in a..e : LineHere(diff, a, e, m, j, q)
  BY <1>6, LineOrMarker
<1>11. /\ q \in DOMAIN diff /\ m[Spot(diff, a, e, q)] = diff[q]
      /\ (j = Spot(diff, a, e, q) \/ m[j].origin = "eofnl")
  BY <1>10 DEF LineHere
<1>12. j = Spot(diff, a, e, q) /\ diff[q].origin = "-"
  BY <1>2, <1>11
<1>13. PICK p \in a..e : LineHere(diff, a, e, m, k, p)
  BY <1>6, LineOrMarker
<1>14. /\ p \in DOMAIN diff /\ Spot(diff, a, e, p) \in DOMAIN m /\ m[Spot(diff, a, e, p)] = diff[p]
      /\ \/ k = Spot(diff, a, e, p)
         \/ k = Spot(diff, a, e, p) + 1 /\ m[k].origin = "eofnl" /\ ~diff[p].line.ends
  BY <1>13 DEF LineHere
<1>15. PICK x, y : x = Spot(diff, a, e, p) /\ y = Spot(diff, a, e, q)
  OBVIOUS
<1>16. x \in Nat /\ y = j /\ x <= k /\ s <= x
  <2>1. x \in Nat
    BY <1>1, <1>14, <1>15
  <2>2. CASE k = x
    BY <1>5, <1>12, <1>15, <2>1, <2>2
  <2>3. CASE k = x + 1 /\ m[k].origin = "eofnl"
    <3>1. k # s
      BY <2>3 DEF IsChange
    <3> QED
      BY <1>1, <1>5, <1>12, <1>15, <2>1, <2>3, <3>1
  <2> QED
    BY <1>14, <1>15, <2>2, <2>3
<1>17. \A u, v \in a..e : u < v => Spot(diff, a, e, u) < Spot(diff, a, e, v)
  BY Spots
<1>18. p \in Int /\ q \in Int /\ a \in Int /\ e \in Int
  BY DiffLines
<1>19. p < q
  <2>1. q < p => y < x
    BY <1>15, <1>17
  <2>2. q = p => y = x
    BY <1>15
  <2> QED
    BY <1>5, <1>9, <1>16, <1>18, <2>1, <2>2
<1>20. x \in s..j /\ diff[p].origin # " "
  <2>1. x \in s..j
    BY <1>1, <1>5, <1>16
  <2>2. m[x] = diff[p]
    BY <1>14, <1>15
  <2> QED
    BY <1>2, <2>1, <2>2
<1>21. diff[p].origin # "+"
  <2>1. SUFFICES ASSUME diff[p].origin = "+" PROVE FALSE
    OBVIOUS
  <2>2. PICK r \in DOMAIN diff : p < r /\ r < q /\ diff[r].origin = " "
    <3>1. \A u, v \in DOMAIN diff : u < v /\ diff[u].origin = "+" /\ diff[v].origin = "-"
             => \E r \in DOMAIN diff : u < r /\ r < v /\ diff[r].origin = " "
      BY Zenon DEF DeletionsFirst
    <3>2. p \in DOMAIN diff /\ q \in DOMAIN diff /\ diff[q].origin = "-"
      BY <1>11, <1>12, <1>14
    <3> QED
      BY <1>19, <2>1, <3>1, <3>2, Zenon
  <2>3. r \in Int
    BY DiffLines
  <2>4. r \in a..e
    <3>1. a <= p /\ q <= e
      OBVIOUS
    <3>2. p < r /\ r < q
      BY <2>2
    <3>3. a <= r /\ r <= e
      BY <1>18, <2>3, <3>1, <3>2
    <3> QED
      BY <1>18, <2>3, <3>3
  <2>5. PICK z : z = Spot(diff, a, e, r)
    OBVIOUS
  <2>6. z \in 1..Len(m) /\ m[z] = diff[r]
    BY <2>4, <2>5, Spots
  <2>7. x < z /\ z < y
    BY <1>15, <1>17, <2>2, <2>4, <2>5
  <2>8. z \in s..j
    BY <1>1, <1>5, <1>16, <2>6, <2>7
  <2> QED
    BY <1>2, <2>2, <2>6, <2>8
<1>22. diff[p].origin = "-"
  <2>1. diff[p].origin \in Origins
    BY <1>14, DiffLines
  <2> QED
    BY <1>20, <1>21, <2>1 DEF Origins
<1>23. k # x
  BY <1>8, <1>14, <1>15, <1>22
<1>24. diff[p].line.ends
  BY <1>11, <1>12, <1>14, <1>19, <1>22 DEF OnlyTheLastLacks
<1> QED
  BY <1>14, <1>15, <1>23, <1>24

(* The deletions of a block stand together at its beginning.                *)
LEMMA DeletionsOfBlock ==
  ASSUME NEW diff, IsDiff(diff), DeletionsFirst(diff), OnlyTheLastLacks(diff),
         NEW a \in 1..Len(diff), NEW e \in a..Len(diff), NEW m, m = HunkLines(diff, a, e),
         NEW s \in DOMAIN m, IsChange(m[s])
  PROVE  /\ Cardinality(InBlock(m, s, "-")) \in Nat
         /\ InBlock(m, s, "-") = s..(s + Cardinality(InBlock(m, s, "-")) - 1)
<1>1. s \in Nat /\ DOMAIN m = 1..Len(m) /\ Len(m) \in Nat
  BY LineOrMarker
<1>2. PICK S : S = InBlock(m, s, "-")
  OBVIOUS
<1>3. S \in SUBSET (s..Len(m))
  BY <1>2 DEF InBlock, StretchOf
<1>4. FillsFrom(S, s)
  <2>1. \A j \in S : \A k \in s..j : k \in S
    BY <1>2, DeletionsStandTogether
  <2> QED
    BY <2>1, Zenon DEF FillsFrom
<1>5. PICK n \in Nat : n = Len(m)
  BY <1>1
<1>6. S \in SUBSET (s..n)
  BY <1>3, <1>5
<1>7. Cardinality(S) \in Nat /\ S = s..(s + Cardinality(S) - 1)
  BY <1>1, <1>4, <1>5, <1>6, FirstOnes
<1> QED
  BY <1>2, <1>7

-------------------------------------------------------------------------------
(* All the lines of a patch.                                                *)

LinesOfHunk(d, h) == HunkLines(d, BeginOf(d, h), StopOf(d, h))

(* The same of a hunk of a patch.                                           *)
LEMMA HunkOfPatch ==
  ASSUME FileInv, NEW ix, VersionInv(ix), NotGlued(ix), NEW staged \in BOOLEAN,
         NEW h \in DOMAIN FilePatch(staged, ix).hunks,
         NEW m, m = FilePatch(staged, ix).hunks[h].lines,
         NEW s \in BlockStarts(m)
  PROVE  /\ m \in Seq(PatchLines) /\ Len(m) \in Nat /\ DOMAIN m = 1..Len(m)
         /\ s \in Nat \ {0} /\ s \in DOMAIN m
         /\ Cardinality(InBlock(m, s, "-")) \in Nat
         /\ InBlock(m, s, "-") = s..(s + Cardinality(InBlock(m, s, "-")) - 1)
<1>1. PICK d, a, e : d = DiffFor(staged, ix) /\ a = BeginOf(d, h) /\ e = StopOf(d, h)
  OBVIOUS
<1>2. /\ IsDiffOf(d, OldOf(staged, ix), NewOf(staged, ix)) /\ IsPatchFor(FilePatch(staged, ix), d, staged, ix)
  BY <1>1, PatchOfVersion DEF VersionInv, FileInv
<1>3. IsDiff(d) /\ FilePatch(staged, ix).hunks = Hunks(d)
  BY <1>2 DEF IsDiffOf, IsPatchFor
<1>4. h \in 1..HunksIn(d)
  BY <1>3, HunksOfDiff
<1>5. a \in 1..Len(d) /\ e \in a..Len(d) /\ m = HunkLines(d, a, e)
  BY <1>1, <1>3, <1>4, HunksOfDiff
<1>6. DeletionsFirst(d) /\ OnlyTheLastLacks(d)
  BY <1>1, DeletionsComeFirst, OnlyTheLastMayLack
<1>7. m \in Seq(PatchLines) /\ Len(m) \in Nat /\ DOMAIN m = 1..Len(m)
  BY <1>3, <1>5, Spots
<1>8. s \in DOMAIN m /\ IsChange(m[s])
  BY DEF BlockStarts
<1>9. /\ Cardinality(InBlock(m, s, "-")) \in Nat
      /\ InBlock(m, s, "-") = s..(s + Cardinality(InBlock(m, s, "-")) - 1)
  BY <1>3, <1>5, <1>6, <1>8, DeletionsOfBlock
<1>10. s \in Nat \ {0}
  BY <1>7, <1>8
<1> QED
  BY <1>7, <1>8, <1>9, <1>10

(* The choice of everything is never ambiguous.                             *)
LEMMA WholeIsNotRejected ==
  ASSUME FileInv, NEW ix, VersionInv(ix), NotGlued(ix), NEW staged \in BOOLEAN,
         NEW patch, patch = FilePatch(staged, ix)
  PROVE  ~Rejects(patch, Keys(patch))
<1>1. SUFFICES ASSUME NEW h \in DOMAIN patch.hunks, RejectAmbiguous(h, patch.hunks[h].lines, Keys(patch)) PROVE FALSE
  BY DEF Rejects
<1>2. PICK m : m = patch.hunks[h].lines
  OBVIOUS
<1>3. PICK s \in BlockStarts(m) :
        \E i \in 0..Cardinality(InBlock(m, s, "-")) - 1 : <<h, s + i>> \notin Keys(patch)
  BY <1>1, <1>2, RejectedByBlock
<1>4. PICK i \in 0..Cardinality(InBlock(m, s, "-")) - 1 : <<h, s + i>> \notin Keys(patch)
  BY <1>3
<1>5. PICK c, D : c = Cardinality(InBlock(m, s, "-")) /\ D = InBlock(m, s, "-")
  OBVIOUS
<1>6. s \in Nat /\ c \in Nat /\ D = s..(s + c - 1) /\ DOMAIN m = 1..Len(m)
  BY <1>2, <1>5, HunkOfPatch
<1>7. s + i \in s..(s + c - 1)
  BY <1>4, <1>5, <1>6
<1>8. s + i \in D
  BY <1>6, <1>7
<1>9. s + i \in s..Len(m) /\ m[s + i].origin = "-"
  BY <1>5, <1>8 DEF InBlock, StretchOf
<1>10. s + i \in DOMAIN m
  <2>1. s \in Nat \ {0} /\ Len(m) \in Nat
    BY <1>2, HunkOfPatch
  <2>2. PICK k : k = s + i
    OBVIOUS
  <2>3. k \in 1..Len(m)
    BY <1>9, <2>1, <2>2
  <2> QED
    BY <1>6, <2>2, <2>3
<1>11. IsChange(m[s + i])
  BY <1>9 DEF IsChange
<1>12. <<h, s + i>> \in Keys(patch)
  BY <1>2, <1>10, <1>11 DEF Keys
<1> QED
  BY <1>4, <1>12

(* The sides are versions as the invariant has them.                        *)
LEMMA SidesAreVersions ==
  ASSUME FileInv, NEW s \in {"head", "work"}
  PROVE  VersionInv(Side(s)) /\ Range(Side(s).lines) = OnSide(s)
<1>1. file \in Files
  BY DEF FileInv
<1>2. HasLinesInOrder(Side(s)) /\ Range(Side(s).lines) = OnSide(s) /\ OnSide(s) \subseteq AllLines
  BY <1>1, SidesAre
<1>3. Side(s).lines = InOrder(OnSide(s))
  BY <1>2 DEF HasLinesInOrder
<1>4. Side(s).lines \in Seq(TextLines) /\ (Side(s).lines = <<>> <=> OnSide(s) = {})
  BY <1>1, <1>2, <1>3, LinesInOrder
<1>5. Side(s) = [present |-> Side(s).present, lines |-> Side(s).lines]
  BY DEF Side
<1>6. Side(s).present \in BOOLEAN /\ (Side(s).present <=> s \in tracked)
  BY SidesThere
<1>7. Side(s).present <=> (Side(s).lines # <<>> \/ tracked = {"head", "work"})
  <2>1. CASE s \notin tracked
    <3>1. OnSide(s) = {}
      BY <2>1 DEF OnSide, FileInv
    <3> QED
      BY <1>4, <1>6, <2>1, <3>1
  <2>2. CASE s \in tracked /\ tracked # {"head", "work"}
    <3>1. tracked = {s}
      BY <2>2 DEF FileInv
    <3>2. OnSide(s) # {}
      BY <1>1, <3>1, OneSideOnly, SidesAre
    <3> QED
      BY <1>4, <1>6, <2>2, <3>2
  <2>3. CASE tracked = {"head", "work"}
    BY <1>6, <2>3
  <2> QED
    BY <2>1, <2>2, <2>3
<1>8. Side(s) \in [present : BOOLEAN, lines : Seq(TextLines)]
  BY <1>4, <1>5, <1>6
<1>9. OnBothSides \subseteq OnSide(s)
  BY DEF OnBothSides
<1> QED
  BY <1>2, <1>7, <1>8, <1>9 DEF VersionInv

(* Of an action: everything chosen takes the index to the other side.       *)
LEMMA AllOfThem ==
  ASSUME StagingIInv, NotGlued(index), NEW staged \in BOOLEAN,
         NEW patch, patch = FilePatch(staged, index), Keys(patch) # {}
  PROVE  Applied(patch, Keys(patch), staged, index) = IF staged THEN HeadSide ELSE WorkSide
<1>1. PICK C, O, V, name : /\ C = Chosen(patch, Keys(patch)) /\ O = OnSide(OtherName(staged)) /\ V = Range(index.lines)
                           /\ name = OtherName(staged)
  OBVIOUS
<1>2. IsVersion(index) /\ file \in Files /\ FileInv /\ VersionInv(index)
  BY DEF StagingIInv, VersionInv, IsVersion, FileInv
<1>3. PICK selected : selected = Keys(patch)
  OBVIOUS
<1>4. selected \in SUBSET Keys(FilePatch(staged, index))
  BY <1>3
<1>5. /\ C \subseteq ChangesFor(staged, index)
      /\ Synthesize(patch, selected, staged).refused <=> Rejects(patch, selected) \/ C = {}
      /\ ~Synthesize(patch, selected, staged).refused
           => Applied(patch, selected, staged, index) = After(index, C, staged)
  BY <1>1, <1>2, <1>3, <1>4, AppliedIs
<1>6. ChangesFor(staged, index) \subseteq C
  <2>1. Chosen(patch, KeysOfLines(patch, ChangesFor(staged, index))) = ChangesFor(staged, index)
    BY <1>2, ChosenByLines
  <2>2. KeysOfLines(patch, ChangesFor(staged, index)) \subseteq Keys(patch)
    BY DEF KeysOfLines
  <2> QED
    BY <1>1, <2>1, <2>2 DEF Chosen
<1>7. C # {}
  BY <1>1 DEF Chosen
<1>8. ~Rejects(patch, selected)
  BY <1>2, <1>3, WholeIsNotRejected
<1>9. Applied(patch, Keys(patch), staged, index) = After(index, C, staged)
  BY <1>3, <1>5, <1>7, <1>8
<1>10. VersionInv(After(index, C, staged)) /\ Range(After(index, C, staged).lines) = Exchange(V, C)
  BY <1>1, <1>2, <1>5, <1>7, VersionStays
<1>11. Exchange(V, C) = O
  <2>1. C = (V \cup O) \ (V \cap O)
    BY <1>1, <1>5, <1>6 DEF ChangesFor
  <2> QED
    BY <2>1 DEF Exchange
<1>12. name \in {"head", "work"}
  BY <1>1 DEF OtherName
<1>13. VersionInv(Side(name)) /\ Range(Side(name).lines) = O
  BY <1>1, <1>2, <1>12, SidesAreVersions
<1>14. After(index, C, staged) = Side(name)
  BY <1>10, <1>11, <1>13, SameLinesSameVersion
<1>15. Side(name) = IF staged THEN HeadSide ELSE WorkSide
  BY <1>1 DEF OtherName, HeadSide, WorkSide
<1> QED
  BY <1>9, <1>14, <1>15

(* All the lines of a patch together are not refused and take the index to  *)
(* the other side.                                                          *)
THEOREM StagingWholeIsReached == StagingSpec => []WholeIsReached
<1>1. StagingIInv => WholeIsReached
  <2> SUFFICES ASSUME StagingIInv PROVE WholeIsReached
    OBVIOUS
  <2>1. ASSUME ~Glued(index), NEW staged \in BOOLEAN, NEW selected \in SUBSET Keys(FilePatch(staged, index)),
               selected = Keys(FilePatch(staged, index)), selected # {}
        PROVE  Applied(FilePatch(staged, index), selected, staged, index) = IF staged THEN HeadSide ELSE WorkSide
    <3>1. NotGlued(index)
      BY <2>1 DEF NotGlued, Glued
    <3> QED
      BY <2>1, <3>1, AllOfThem
  <2> QED
    BY <2>1 DEF WholeIsReached, ForEveryChoice
<1> QED
  BY <1>1, StagingInvariant, PTL

-------------------------------------------------------------------------------
(* A choice that would turn the order of the lines.                         *)

IsContext(l) == l.origin = " "
Unbroken(m, i, k) == \A l \in i..k : ~IsContext(m[l])

(* Changes that no context line parts are of one block.                     *)
LEMMA TurnedInBlock ==
  ASSUME NEW m, NEW n \in Nat, DOMAIN m = 1..n, \A l \in 1..n : IsChange(m[l]) \/ IsContext(m[l]),
         NEW i \in 1..n, NEW j \in 1..n, NEW k \in 1..n, i < k, j < k,
         Unbroken(m, i, k), Unbroken(m, j, k)
  PROVE  \E s \in BlockStarts(m) : s \in 1..i /\ s \in 1..j /\ Unbroken(m, s, k)
<1>1. PICK T : T = {x \in 1..k : Unbroken(m, x, k)}
  OBVIOUS
<1>2. i \in Nat /\ j \in Nat /\ k \in Nat /\ i \in 1..k /\ j \in 1..k
  OBVIOUS
<1>3. T \in SUBSET Nat /\ i \in T /\ j \in T
  BY <1>1, <1>2
<1>4. PICK s \in T : \A x \in T : s <= x
  BY <1>3, LeastNumber
<1>5. s \in 1..k /\ Unbroken(m, s, k)
  BY <1>1, <1>4
<1>6. s \in 1..n /\ s \in s..k
  BY <1>2, <1>5
<1>7. IsChange(m[s])
  BY <1>5, <1>6 DEF Unbroken
<1>8. ASSUME s # 1 PROVE IsContext(m[s - 1])
  <2>1. PICK x : x = s - 1
    OBVIOUS
  <2>2. x \in 1..k /\ ~(s <= x)
    BY <1>2, <1>5, <1>8, <2>1
  <2>3. x \notin T
    BY <1>4, <2>2
  <2>4. PICK l \in x..k : IsContext(m[l])
    BY <1>1, <2>2, <2>3 DEF Unbroken
  <2>5. l = x \/ l \in s..k
    BY <1>2, <1>5, <2>1, <2>2
  <2> QED
    BY <1>5, <2>1, <2>4, <2>5 DEF Unbroken
<1>9. s \in BlockStarts(m)
  BY <1>6, <1>7, <1>8 DEF BlockStarts, IsContext
<1>10. s \in 1..i /\ s \in 1..j
  BY <1>2, <1>3, <1>4, <1>5
<1> QED
  BY <1>5, <1>9, <1>10

(* The lines of a block.                                                    *)
LEMMA InBlockIs ==
  ASSUME NEW m, NEW s, NEW o, NEW x
  PROVE  x \in InBlock(m, s, o) <=> x \in s..Len(m) /\ Unbroken(m, s, x) /\ m[x].origin = o
BY DEF InBlock, StretchOf, Unbroken, IsContext

(* Without markers a block of several deletions, one of them left out, and  *)
(* an addition picked are counted as they stand.                            *)
LEMMA TurnedIsAmbiguous ==
  ASSUME NEW h, NEW m, NEW selected, NEW n \in Nat, n = Len(m), DOMAIN m = 1..n,
         \A l \in 1..n : IsChange(m[l]) \/ IsContext(m[l]),
         NEW s \in BlockStarts(m), s \in Nat,
         NEW c \in Nat, c = Cardinality(InBlock(m, s, "-")), InBlock(m, s, "-") = s..(s + c - 1),
         NEW i \in s..n, NEW j \in s..n, NEW k \in s..n, i < k, j < k, i # j, Unbroken(m, s, k),
         m[i].origin = "-", m[j].origin = "-", m[k].origin = "+",
         <<h, i>> \notin selected, <<h, k>> \in selected
  PROVE  RejectAmbiguous(h, m, selected)
<1>1. PICK D, A : D = InBlock(m, s, "-") /\ A = InBlock(m, s, "+")
  OBVIOUS
<1>2. i \in Nat /\ j \in Nat /\ k \in Nat /\ s <= i /\ s <= j /\ s <= k /\ k <= n
  OBVIOUS
<1>3. \A x \in s..k : x \in s..n /\ Unbroken(m, s, x)
  <2>1. ASSUME NEW x \in s..k PROVE x \in s..n /\ \A l \in s..x : l \in s..k
    BY <1>2
  <2> QED
    BY <2>1 DEF Unbroken
<1>4. i \in D /\ j \in D
  <2>1. i \in s..k /\ j \in s..k
    BY <1>2
  <2> QED
    BY <1>1, <1>3, <2>1, InBlockIs
<1>5. i \in s..(s + c - 1) /\ j \in s..(s + c - 1)
  BY <1>1, <1>4
<1>6. c > 1
  BY <1>2, <1>5
<1>7. i - s \in 0..c - 1 /\ s + (i - s) = i
  BY <1>2, <1>5
<1>8. k \notin D
  BY <1>1, InBlockIs
<1>9. k \notin s..(s + c - 1)
  BY <1>1, <1>8
<1>10. s + c <= k
  BY <1>2, <1>9
<1>11. \A x \in (s + c)..k : x \in A
  <2>1. ASSUME NEW x \in (s + c)..k PROVE x \in A
    <3>1. x \in s..k /\ x \notin s..(s + c - 1)
      BY <1>2
    <3>2. x \in s..n /\ Unbroken(m, s, x)
      BY <1>3, <3>1
    <3>3. x \notin D
      BY <1>1, <3>1
    <3>4. m[x].origin # "-"
      BY <1>1, <3>2, <3>3, InBlockIs
    <3>5. x \in 1..n /\ x \in s..x
      <4>1. s \in 1..n
        BY DEF BlockStarts
      <4> QED
        BY <3>2, <4>1
    <3>6. IsChange(m[x])
      BY <3>2, <3>5 DEF Unbroken
    <3>7. m[x].origin = "+"
      BY <3>4, <3>6 DEF IsChange
    <3> QED
      BY <1>1, <3>2, <3>7, InBlockIs
  <2> QED
    BY <2>1
<1>12. A \subseteq s..n
  BY <1>1, InBlockIs
<1>13. IsFiniteSet(A) /\ Cardinality(A) \in Nat
  <2>1. IsFiniteSet(s..n)
    BY FS_Interval
  <2> QED
    BY <1>12, <2>1, FS_Subset, FS_CardinalityType
<1>14. PICK f : f = s + c
  OBVIOUS
<1>15. f \in Nat /\ f <= k
  BY <1>10, <1>14
<1>16. Cardinality(f..k) = k - f + 1
  <2>1. Cardinality(f..k) = IF f > k THEN 0 ELSE k - f + 1
    <3>1. f \in Int /\ k \in Int
      BY <1>2, <1>15
    <3> QED
      BY <3>1, FS_Interval
  <2> QED
    BY <1>2, <1>15, <2>1
<1>17. Cardinality(f..k) <= Cardinality(A)
  <2>1. f..k \in SUBSET A
    BY <1>11, <1>14
  <2> QED
    BY <1>13, <2>1, FS_Subset
<1>18. PICK r \in Nat : r = Cardinality(A)
  BY <1>13
<1>19. k - f + 1 <= r
  BY <1>16, <1>17, <1>18
<1>20. k - f \in 0..r - 1 /\ f + (k - f) = k
  BY <1>2, <1>15, <1>19
<1>21. \E x \in 0..c - 1 : <<h, s + x>> \notin selected
  BY <1>7
<1>22. \E x \in 0..r - 1 : <<h, s + c + x>> \in selected
  BY <1>14, <1>20
<1> QED
  BY <1>1, <1>6, <1>18, <1>21, <1>22, RejectedByBlock

(* Where every line ends with a newline, no patch has a marker.             *)
LEMMA WithoutMarkers ==
  ASSUME FileInv, NEW ix, VersionInv(ix), NEW staged \in BOOLEAN, \A i \in DOMAIN file : file[i].ends,
         NEW h \in DOMAIN FilePatch(staged, ix).hunks, NEW m, m = FilePatch(staged, ix).hunks[h].lines
  PROVE  \A l \in DOMAIN m : IsChange(m[l]) \/ IsContext(m[l])
<1>1. PICK d, old, new, a, e : /\ d = DiffFor(staged, ix) /\ old = OldOf(staged, ix) /\ new = NewOf(staged, ix)
                               /\ a = BeginOf(d, h) /\ e = StopOf(d, h)
  OBVIOUS
<1>2. file \in Files /\ HasLinesInOrder(ix) /\ ix.present \in BOOLEAN
  BY DEF FileInv, VersionInv
<1>3. /\ IsDiffOf(d, old, new) /\ IsPatchFor(FilePatch(staged, ix), d, staged, ix)
      /\ HasLinesInOrder(old) /\ HasLinesInOrder(new) /\ d = Diff(old, new)
  BY <1>1, <1>2, PatchOfVersion DEF DiffFor
<1>4. IsDiff(d) /\ FilePatch(staged, ix).hunks = Hunks(d)
  BY <1>3 DEF IsDiffOf, IsPatchFor
<1>5. a \in 1..Len(d) /\ e \in a..Len(d) /\ m = HunkLines(d, a, e)
  BY <1>1, <1>4, HunksOfDiff
<1>6. ASSUME NEW l \in DOMAIN m PROVE IsChange(m[l]) \/ IsContext(m[l])
  <2>1. PICK p \in a..e : LineHere(d, a, e, m, l, p)
    BY <1>4, <1>5, LineOrMarker
  <2>2. p \in DOMAIN d
    BY <2>1 DEF LineHere
  <2>3. PICK i \in DOMAIN file : d[p].line = FileLines[i]
    BY <1>2, <1>3, <2>2, PlacesInDiff
  <2>4. d[p].line.ends
    BY <2>3 DEF FileLines, TextOf
  <2>5. m[l] = d[p]
    BY <2>1, <2>4 DEF LineHere
  <2>6. d[p].origin \in Origins
    BY <1>4, <2>2, DiffLines
  <2> QED
    BY <2>5, <2>6 DEF IsChange, IsContext, Origins
<1> QED
  BY <1>6

SameBlock(lines, i, j) == i < j /\ \A k \in i..j : lines[k].origin # " "
Deletions(lines) == {i \in DOMAIN lines : lines[i].origin = "-"}
Additions(lines) == {i \in DOMAIN lines : lines[i].origin = "+"}
TurnedIn(h, lines, selected) ==
  \E i, j \in Deletions(lines), k \in Additions(lines) :
    /\ i # j /\ SameBlock(lines, i, k) /\ SameBlock(lines, j, k)
    /\ <<h, i>> \notin selected /\ <<h, k>> \in selected

(* Of a choice: where the order would be turned, it is ambiguous.           *)
LEMMA TurnedIsRejected ==
  ASSUME StagingIInv, NotGlued(index), \A i \in DOMAIN file : file[i].ends, NEW staged \in BOOLEAN,
         NEW patch, patch = FilePatch(staged, index), NEW selected, Turned(patch, selected)
  PROVE  Rejects(patch, selected)
<1>1. PICK h \in DOMAIN patch.hunks : TurnedIn(h, patch.hunks[h].lines, selected)
  BY Zenon DEF Turned, TurnedIn, SameBlock, Deletions, Additions
<1>2. PICK m : m = patch.hunks[h].lines
  OBVIOUS
<1>3. PICK i \in DOMAIN m, j \in DOMAIN m, k \in DOMAIN m :
        /\ m[i].origin = "-" /\ m[j].origin = "-" /\ m[k].origin = "+"
        /\ i # j /\ i < k /\ j < k /\ Unbroken(m, i, k) /\ Unbroken(m, j, k)
        /\ <<h, i>> \notin selected /\ <<h, k>> \in selected
  <2>1. PICK i \in Deletions(m), j \in Deletions(m), k \in Additions(m) :
          /\ i # j /\ SameBlock(m, i, k) /\ SameBlock(m, j, k)
          /\ <<h, i>> \notin selected /\ <<h, k>> \in selected
    BY <1>1, <1>2, Zenon DEF TurnedIn
  <2>2. /\ i \in DOMAIN m /\ j \in DOMAIN m /\ k \in DOMAIN m
        /\ m[i].origin = "-" /\ m[j].origin = "-" /\ m[k].origin = "+"
    BY DEF Deletions, Additions
  <2>3. i < k /\ j < k /\ Unbroken(m, i, k) /\ Unbroken(m, j, k)
    BY <2>1, Zenon DEF SameBlock, Unbroken, IsContext
  <2> QED
    BY <2>1, <2>2, <2>3
<1>4. FileInv /\ VersionInv(index)
  BY DEF StagingIInv
<1>5. \A l \in DOMAIN m : IsChange(m[l]) \/ IsContext(m[l])
  BY <1>2, <1>4, WithoutMarkers
<1>6. PICK d : d = DiffFor(staged, index)
  OBVIOUS
<1>7. IsDiff(d) /\ patch.hunks = Hunks(d)
  <2>1. IsDiffOf(d, OldOf(staged, index), NewOf(staged, index)) /\ IsPatchFor(patch, d, staged, index)
    BY <1>4, <1>6, PatchOfVersion DEF VersionInv, FileInv
  <2> QED
    BY <2>1 DEF IsDiffOf, IsPatchFor
<1>8. PICK n \in Nat : n = Len(m) /\ DOMAIN m = 1..n
  <2>1. /\ BeginOf(d, h) \in 1..Len(d) /\ StopOf(d, h) \in BeginOf(d, h)..Len(d)
        /\ m = HunkLines(d, BeginOf(d, h), StopOf(d, h))
    BY <1>2, <1>7, HunksOfDiff
  <2>2. /\ Len(HunkLines(d, BeginOf(d, h), StopOf(d, h))) \in Nat
        /\ DOMAIN HunkLines(d, BeginOf(d, h), StopOf(d, h)) = 1..Len(HunkLines(d, BeginOf(d, h), StopOf(d, h)))
    BY <1>7, <2>1, Spots
  <2> QED
    BY <2>1, <2>2
<1>9. PICK s \in BlockStarts(m) : s \in 1..i /\ s \in 1..j /\ Unbroken(m, s, k)
  BY <1>3, <1>5, <1>8, TurnedInBlock
<1>10. PICK c : c = Cardinality(InBlock(m, s, "-"))
  OBVIOUS
<1>11. s \in Nat /\ c \in Nat /\ InBlock(m, s, "-") = s..(s + c - 1)
  BY <1>2, <1>4, <1>10, HunkOfPatch
<1>12. i \in s..n /\ j \in s..n /\ k \in s..n
  <2>1. i \in 1..n /\ j \in 1..n /\ k \in 1..n
    BY <1>8
  <2>2. i < k /\ j < k
    BY <1>3
  <2> QED
    BY <1>9, <1>11, <2>1, <2>2
<1>13. RejectAmbiguous(h, m, selected)
  BY <1>3, <1>5, <1>8, <1>9, <1>10, <1>11, <1>12, TurnedIsAmbiguous
<1> QED
  BY <1>2, <1>13 DEF Rejects

(* _reject_ambiguous_selection: a choice that would turn the order of the   *)
(* lines is refused, in a file whose lines all end with a newline.          *)
THEOREM StagingOrderNeverTurned == StagingSpec => []OrderNeverTurned
<1>1. StagingIInv => OrderNeverTurned
  <2> SUFFICES ASSUME StagingIInv, \A i \in DOMAIN file : file[i].ends, ~Glued(index),
                      NEW staged \in BOOLEAN, NEW selected \in SUBSET Keys(FilePatch(staged, index)),
                      Turned(FilePatch(staged, index), selected)
               PROVE  Synthesize(FilePatch(staged, index), selected, staged).refused
    BY DEF OrderNeverTurned, ForEveryChoice
  <2>1. NotGlued(index)
    BY DEF NotGlued, Glued
  <2>2. Rejects(FilePatch(staged, index), selected)
    BY <2>1, TurnedIsRejected
  <2>3. IsVersion(index) /\ file \in Files
    BY DEF StagingIInv, VersionInv, IsVersion, FileInv
  <2> QED
    BY <2>2, <2>3, AppliedIs
<1> QED
  BY <1>1, StagingInvariant, PTL

=============================================================================
