---------------------------- MODULE SessionProofs ----------------------------
(***************************************************************************)
(* Proofs about Session, for any repositories, jobs and queues.             *)
(*                                                                         *)
(* That the list is current when all is quiet does not say what makes it so *)
(* while the work goes on.  The strengthening names it: a list that is out  *)
(* of date is owed a reload, by the flag, by a success that is still to be  *)
(* handled or by a loader that has not read yet; a merge under way has the  *)
(* flag set; and no other queue writes to the repository on the screen.     *)
(***************************************************************************)
EXTENDS Session, FiniteSetTheorems, TLAPS

AllJobs(Q) == [queue : Q, kind : Kinds, stage : Stages]
Frames(js) == [job : DOMAIN js, outcome : Outcomes]

(* A merge of the window's queue that is not done has the flag set.         *)
MergesFlagged ==
  \A k \in DOMAIN jobs :
    jobs[k].queue = queue /\ jobs[k].kind = "merge" /\ jobs[k].stage # "done" => flag

(* The jobs left for the repository on the screen are in the window's queue.*)
OneQueue ==
  ~split =>
    \A k \in DOMAIN jobs :
      jobs[k].stage # "done" /\ queues[jobs[k].queue] = repo => jobs[k].queue = queue

(* A success that has the flag set when it is handled: a job's whose signal *)
(* is queued, or a suspended emission's.                                    *)
Announced(js, st) ==
  \/ \E k \in DOMAIN js :
       js[k].queue = queue /\ js[k].kind = "commit" /\ js[k].stage = "succeeded"
  \/ \E n \in DOMAIN st :
       /\ js[st[n].job].queue = queue /\ js[st[n].job].kind = "commit"
       /\ st[n].outcome = "succeeded"

(* What the last write that asks for a reload has left is no version to     *)
(* come; with it, all is shown but what failed writes have done since.      *)
OwedIsPast == \A r \in Repos : owed[r] <= version[r]
UpToDate(v) == owed[repo] <= v /\ v <= version[repo]

Coming ==
  /\ loads[loader] # NoLoad
  /\ loads[loader].repo = repo
  /\ loads[loader].seen = Unread \/ UpToDate(loads[loader].seen)

Current ==
  /\ loads[loader] = NoLoad
  /\ shown.repo = repo /\ UpToDate(shown.version)

FreshOrOwed == ~split => flag \/ Announced(jobs, stack) \/ Coming \/ Current

IInv ==
  /\ TypeOK
  /\ queues[queue] = repo
  /\ FlagIsOwed
  /\ MergesFlagged
  /\ OneQueue
  /\ OwedIsPast
  /\ FreshOrOwed

-------------------------------------------------------------------------------
(* A set of numbers has a least one: of the segments up to its members one  *)
(* contains no other, since finite sets are well founded.                   *)
LEMMA LeastIsThere ==
  ASSUME NEW S \in SUBSET Nat, S # {}
  PROVE  Min(S) \in S /\ \A k \in S : Min(S) <= k
<1> DEFINE R == StrictSubsetOrdering(Nat)
           Segments == {0..n : n \in S}
<1>1. IsWellFoundedOn(R, FiniteSubsetsOf(Nat))
  BY FS_StrictSubsetOrderingWellFounded
<1>2. Segments \subseteq FiniteSubsetsOf(Nat) /\ Segments # {}
  <2>1. ASSUME NEW n \in S PROVE 0..n \in FiniteSubsetsOf(Nat)
    <3>1. n \in Int /\ 0 \in Int /\ 0..n \subseteq Nat
      OBVIOUS
    <3>2. IsFiniteSet(0..n)
      BY <3>1, FS_Interval
    <3> QED
      BY <3>1, <3>2 DEF FiniteSubsetsOf
  <2> QED
    BY <2>1
<1>3. PICK x \in Segments : \A y \in Segments : <<y, x>> \notin R
  <2> HIDE DEF R, Segments
  <2> QED
    BY <1>1, <1>2, WFMin
<1>4. PICK n \in S : x = 0..n
  BY <1>3
<1>5. ASSUME NEW k \in S, k < n PROVE FALSE
  <2>1. 0..k \subseteq 0..n /\ n \in 0..n /\ n \notin 0..k
    BY <1>5
  <2>2. <<0..k, 0..n>> \in R
    BY <2>1 DEF StrictSubsetOrdering
  <2> QED
    BY <1>3, <1>4, <2>2
<1>6. n \in S /\ \A k \in S : n <= k
  BY <1>4, <1>5
<1> QED
  BY <1>6 DEF Min

(* `_start_next_if_idle` starts a waiting job of its queue, or none.        *)
LEMMA StartNextFacts ==
  ASSUME NEW Q, NEW js \in Seq(AllJobs(Q)), NEW q
  PROVE  /\ StartNext(js, q) \in Seq(AllJobs(Q))
         /\ Len(StartNext(js, q)) = Len(js)
         /\ \A k \in DOMAIN js :
              /\ StartNext(js, q)[k].queue = js[k].queue
              /\ StartNext(js, q)[k].kind = js[k].kind
              /\ \/ StartNext(js, q)[k].stage = js[k].stage
                 \/ js[k].stage = "waiting" /\ StartNext(js, q)[k].stage = "running"
<1> DEFINE waiting == JobsOf(js, q, {"waiting"})
           active == JobsOf(js, q, {"running", "succeeded", "failed"})
           m == Min(waiting)
<1>1. CASE active # {} \/ waiting = {}
  BY <1>1 DEF StartNext
<1>2. CASE active = {} /\ waiting # {}
  <2>1. waiting \subseteq Nat
    BY DEF JobsOf
  <2>2. m \in waiting
    BY <1>2, <2>1, LeastIsThere
  <2>3. m \in DOMAIN js /\ js[m].stage = "waiting" /\ js[m] \in AllJobs(Q)
    BY <2>2 DEF JobsOf
  <2> DEFINE v == [js[m] EXCEPT !.stage = "running"]
  <2>4. StartNext(js, q) = [js EXCEPT ![m] = v]
    BY <1>2 DEF StartNext
  <2>5. v \in AllJobs(Q) /\ v.queue = js[m].queue /\ v.kind = js[m].kind /\ v.stage = "running"
    BY <2>3 DEF AllJobs, Stages
  <2> HIDE DEF v, m
  <2> QED
    BY <2>3, <2>4, <2>5
<1> QED
  BY <1>1, <1>2

(* `submit` adds a job that waits or runs.                                  *)
LEMMA EnqueueFacts ==
  ASSUME NEW Q, NEW js \in Seq(AllJobs(Q)), NEW q \in Q, NEW kind \in Kinds
  PROVE  LET new == Enqueue(js, q, kind)
             n == Len(js) + 1
         IN  /\ new \in Seq(AllJobs(Q)) /\ Len(new) = n
             /\ DOMAIN new = DOMAIN js \cup {n} /\ n \notin DOMAIN js
             /\ \A k \in DOMAIN js :
                  /\ new[k].queue = js[k].queue /\ new[k].kind = js[k].kind
                  /\ \/ new[k].stage = js[k].stage
                     \/ js[k].stage = "waiting" /\ new[k].stage = "running"
             /\ new[n].queue = q /\ new[n].kind = kind /\ new[n].stage \in {"waiting", "running"}
<1> DEFINE w == [queue |-> q, kind |-> kind, stage |-> "waiting"]
           a == Append(js, w)
           n == Len(js) + 1
<1>1. w \in AllJobs(Q) /\ w.queue = q /\ w.kind = kind /\ w.stage = "waiting"
  BY DEF AllJobs, Stages
<1>2. Enqueue(js, q, kind) = StartNext(a, q)
  BY DEF Enqueue
<1> HIDE DEF w
<1>3. /\ a \in Seq(AllJobs(Q)) /\ Len(a) = n /\ DOMAIN a = DOMAIN js \cup {n}
      /\ n \notin DOMAIN js /\ a[n] = w /\ \A k \in DOMAIN js : a[k] = js[k]
  BY <1>1
<1> HIDE DEF a
<1>4. /\ StartNext(a, q) \in Seq(AllJobs(Q)) /\ Len(StartNext(a, q)) = Len(a)
      /\ DOMAIN StartNext(a, q) = DOMAIN a
      /\ \A k \in DOMAIN a :
           /\ StartNext(a, q)[k].queue = a[k].queue
           /\ StartNext(a, q)[k].kind = a[k].kind
           /\ \/ StartNext(a, q)[k].stage = a[k].stage
              \/ a[k].stage = "waiting" /\ StartNext(a, q)[k].stage = "running"
  BY <1>3, StartNextFacts
<1>5. n \in DOMAIN a
  BY <1>3
<1> HIDE DEF n
<1> QED
  BY <1>1, <1>2, <1>3, <1>4, <1>5 DEF n
(* What a sequence of jobs consists of.                                     *)
LEMMA JobFacts ==
  ASSUME NEW Q, NEW js \in Seq(AllJobs(Q)), NEW k \in DOMAIN js
  PROVE  js[k].queue \in Q /\ js[k].kind \in Kinds /\ js[k].stage \in Stages
<1>1. js[k] \in AllJobs(Q)
  OBVIOUS
<1> QED
  BY <1>1 DEF AllJobs

(* What a stack of suspended emissions consists of.                         *)
LEMMA FrameFacts ==
  ASSUME NEW js, NEW st \in Seq(Frames(js)), NEW n \in DOMAIN st
  PROVE  st[n].job \in DOMAIN js /\ st[n].outcome \in Outcomes
<1>1. st[n] \in Frames(js)
  OBVIOUS
<1> QED
  BY <1>1 DEF Frames

(* Whether a queue is busy does not depend on whether it has started its    *)
(* next job.                                                                *)
LEMMA BusyStays ==
  ASSUME NEW Q, NEW js \in Seq(AllJobs(Q)), NEW q, NEW p
  PROVE  Busy(StartNext(js, q), p) <=> Busy(js, p)
<1> DEFINE new == StartNext(js, q)
<1>1. /\ DOMAIN new = DOMAIN js
      /\ \A k \in DOMAIN js :
           /\ new[k].queue = js[k].queue
           /\ \/ new[k].stage = js[k].stage
              \/ js[k].stage = "waiting" /\ new[k].stage = "running"
  BY StartNextFacts
<1> HIDE DEF new
<1>2. \A k \in DOMAIN js : js[k].stage \in Stages
  BY JobFacts
<1>3. \A k \in DOMAIN js : new[k].stage \in Stages \ {"done"} <=> js[k].stage \in Stages \ {"done"}
  BY <1>1, <1>2 DEF Stages
<1> QED
  BY <1>1, <1>3 DEF new, Busy, JobsOf

(* A job that is not done keeps its queue busy.                             *)
LEMMA UndoneIsBusy ==
  ASSUME NEW Q, NEW js \in Seq(AllJobs(Q)), NEW k \in DOMAIN js, js[k].stage # "done"
  PROVE  Busy(js, js[k].queue)
<1>1. js[k].stage \in Stages \ {"done"}
  BY JobFacts
<1> QED
  BY <1>1 DEF Busy, JobsOf

(* `_start_loading`: the new loader has not read yet.                       *)
LEMMA LoadFacts ==
  ASSUME TypeOK, NEW r \in Repos, Load(r)
  PROVE  /\ loader' \in {0, 1}
         /\ loads' \in [{0, 1} -> [repo : Repos, seen : Nat \cup {Unread}] \cup {NoLoad}]
         /\ loads'[loader'] = [repo |-> r, seen |-> Unread]
         /\ loads'[loader'] # NoLoad
         /\ shown' = Nothing
<1> DEFINE new == [repo |-> r, seen |-> Unread]
<1>1. loader' = 1 - loader /\ loads' = [loads EXCEPT ![loader'] = new] /\ shown' = Nothing
  BY DEF Load
<1>2. new \in [repo : Repos, seen : Nat \cup {Unread}] /\ new # NoLoad
  BY DEF NoLoad, Unread
<1> HIDE DEF new
<1>3. loader' \in {0, 1}
  BY <1>1 DEF TypeOK
<1> QED
  BY <1>1, <1>2, <1>3 DEF TypeOK, new

-------------------------------------------------------------------------------
(* `open_repository`, with the jobs as they are when it is called.          *)
LEMMA OpenKeeps ==
  ASSUME TypeOK, queues[queue] = repo, NEW r \in Repos, NEW fl \in BOOLEAN,
         NEW js \in Seq(AllJobs(DOMAIN queues)), Len(js) <= MaxJobs,
         Open(r, js, fl), jobs' = js, version' = version, owed' = owed, OwedIsPast, stack' \in Seq(Frames(js)),
         \A k \in DOMAIN js :
           js[k].queue = queue /\ js[k].kind = "merge" /\ js[k].stage # "done" => fl,
         ~split => \A k \in DOMAIN js :
           js[k].stage # "done" /\ queues[js[k].queue] = repo => js[k].queue = queue
  PROVE  IInv'
<1>1. /\ repo' = r /\ flag' = (fl /\ Busy(js, queue')) /\ Load(r)
  BY DEF Open
<1>2. /\ loader' \in {0, 1}
      /\ loads' \in [{0, 1} -> [repo : Repos, seen : Nat \cup {Unread}] \cup {NoLoad}]
      /\ loads'[loader'] = [repo |-> r, seen |-> Unread]
      /\ loads'[loader'] # NoLoad
      /\ shown' = Nothing
  BY <1>1, LoadFacts
<1>3. FreshOrOwed'
  BY <1>1, <1>2 DEF FreshOrOwed, Coming
<1>4. FlagIsOwed'
  BY <1>1 DEF FlagIsOwed
<1>5. flag' \in BOOLEAN
  BY <1>1
<1>6. /\ queues \in Seq(Repos) /\ Len(queues) \in 1..MaxQueues /\ queue \in DOMAIN queues
      /\ MaxQueues \in Nat /\ DOMAIN queues = 1..Len(queues) /\ split \in BOOLEAN
      /\ version \in [Repos -> Nat] /\ owed \in [Repos -> Nat]
  BY SessionAssumption DEF SessionAssumption, TypeOK
<1>7. \A k \in DOMAIN js : js[k].queue \in DOMAIN queues
  BY JobFacts
<1>8. CASE queues[queue] = r
  <2>1. queue' = queue /\ queues' = queues /\ split' = split /\ r = repo
    BY <1>8 DEF Open
  <2>2. TypeOK'
    BY <1>1, <1>2, <1>5, <1>6, <2>1 DEF TypeOK, AllJobs, Frames
  <2>3. MergesFlagged'
    BY <1>1, <2>1, UndoneIsBusy DEF MergesFlagged
  <2>4. OneQueue'
    BY <1>1, <2>1 DEF OneQueue
  <2> QED
    BY <1>1, <1>3, <1>4, <2>1, <2>2, <2>3, <2>4 DEF IInv, OwedIsPast
<1>9. CASE queues[queue] # r
  <2>1. /\ Len(queues) < MaxQueues /\ queues' = Append(queues, r) /\ queue' = Len(queues) + 1
        /\ split' = (split \/ \E q \in DOMAIN queues : queues[q] = r /\ Busy(js, q))
    BY <1>9 DEF Open
  <2>2. /\ queues' \in Seq(Repos) /\ Len(queues') = queue' /\ queue' \in 1..MaxQueues
        /\ DOMAIN queues' = DOMAIN queues \cup {queue'} /\ queue' \notin DOMAIN queues
        /\ queues'[queue'] = r /\ \A q \in DOMAIN queues : queues'[q] = queues[q]
    BY <1>6, <2>1
  <2>3. js \in Seq(AllJobs(DOMAIN queues'))
    <3>1. AllJobs(DOMAIN queues) \subseteq AllJobs(DOMAIN queues')
      BY <2>2 DEF AllJobs
    <3> QED
      BY <3>1
  <2>4. split' \in BOOLEAN
    BY <2>1, <1>6
  <2>5. TypeOK'
    BY <1>1, <1>2, <1>5, <1>6, <2>2, <2>3, <2>4 DEF TypeOK, AllJobs, Frames
  <2>6. MergesFlagged'
    BY <1>7, <2>2 DEF MergesFlagged
  <2>7. OneQueue'
    <3> SUFFICES ASSUME ~split', NEW k \in DOMAIN js, js[k].stage # "done",
                        queues'[js[k].queue] = r
                 PROVE  FALSE
      BY <1>1 DEF OneQueue
    <3>1. Busy(js, js[k].queue) /\ queues[js[k].queue] = r
      BY <1>7, <2>2, UndoneIsBusy
    <3> QED
      BY <1>7, <2>1, <3>1
  <2> QED
    BY <1>1, <1>3, <1>4, <2>2, <2>5, <2>6, <2>7 DEF IInv, OwedIsPast
<1> QED
  BY <1>8, <1>9

(* The rest of `_on_done`, whatever happened in its slots: the flag that    *)
(* they leave is owed, unless it is redeemed at once.                       *)
LEMMA AfterSlotsKeeps ==
  ASSUME TypeOK, queues[queue] = repo, NEW j \in DOMAIN jobs, NEW fl \in BOOLEAN,
         NEW js \in Seq(AllJobs(DOMAIN queues)), Len(js) <= MaxJobs,
         AfterSlots(j, js, fl), version' = version, owed' = owed, OwedIsPast, stack' \in Seq(Frames(js)),
         fl /\ jobs[j].queue # queue =>
           \/ Busy(js, queue)
           \/ \E n \in DOMAIN stack' : js[stack'[n].job].queue = queue,
         \A k \in DOMAIN js :
           js[k].queue = queue /\ js[k].kind = "merge" /\ js[k].stage # "done" => fl,
         ~split => \A k \in DOMAIN js :
           js[k].stage # "done" /\ queues[js[k].queue] = repo => js[k].queue = queue,
         ~split => fl \/ Announced(js, stack') \/ Coming \/ Current
  PROVE  IInv'
<1>1. PICK q, s : q = jobs[j].queue /\ s = StartNext(js, q)
  OBVIOUS
<1>2. /\ s \in Seq(AllJobs(DOMAIN queues)) /\ Len(s) = Len(js) /\ DOMAIN s = DOMAIN js
      /\ \A k \in DOMAIN js :
           /\ s[k].queue = js[k].queue
           /\ s[k].kind = js[k].kind
           /\ \/ s[k].stage = js[k].stage
              \/ js[k].stage = "waiting" /\ s[k].stage = "running"
  BY <1>1, StartNextFacts
<1>3. Busy(s, queue) <=> Busy(js, queue)
  BY <1>1, BusyStays
<1>4. jobs' = s /\ stack' \in Seq(Frames(s)) /\ repo \in Repos
  BY <1>1, <1>2 DEF AfterSlots, Frames, TypeOK
<1>5. /\ \A k \in DOMAIN s :
           s[k].queue = queue /\ s[k].kind = "merge" /\ s[k].stage # "done" => fl
      /\ ~split => \A k \in DOMAIN s :
           s[k].stage # "done" /\ queues[s[k].queue] = repo => s[k].queue = queue
  BY <1>2
<1>6. CASE q = queue /\ ~Busy(s, q) /\ fl
  <2>1. PICK r : r = repo
    OBVIOUS
  <2>2. Open(r, s, FALSE)
    BY <1>1, <1>6, <2>1 DEF AfterSlots, Open, Load
  <2>3. \A k \in DOMAIN s : s[k].queue = queue => s[k].stage = "done"
    BY <1>2, <1>6, UndoneIsBusy
  <2> QED
    BY <1>2, <1>4, <1>5, <2>1, <2>2, <2>3, OpenKeeps
<1>7. CASE ~(q = queue /\ ~Busy(s, q) /\ fl)
  <2>1. /\ flag' = fl /\ repo' = repo /\ queues' = queues /\ queue' = queue /\ loads' = loads
        /\ loader' = loader /\ shown' = shown /\ split' = split
    BY <1>1, <1>7 DEF AfterSlots, NoReload
  <2>2. TypeOK'
    BY <1>2, <1>4, <2>1 DEF TypeOK, AllJobs, Frames
  <2>3. FlagIsOwed'
    <3>1. CASE q = queue
      BY <1>4, <1>7, <2>1, <3>1 DEF FlagIsOwed
    <3>2. CASE fl /\ q # queue
      <4>1. CASE Busy(js, queue)
        BY <1>3, <1>4, <2>1, <4>1 DEF FlagIsOwed
      <4>2. CASE \E n \in DOMAIN stack' : js[stack'[n].job].queue = queue
        <5>1. PICK n \in DOMAIN stack' : js[stack'[n].job].queue = queue
          BY <4>2
        <5>2. stack'[n] \in Range(stack') /\ s[stack'[n].job].queue = queue
          BY <1>2, <5>1, FrameFacts DEF Range
        <5> QED
          BY <1>4, <2>1, <5>2 DEF FlagIsOwed
      <4> QED
        BY <1>1, <3>2, <4>1, <4>2
    <3> QED
      BY <2>1, <3>1, <3>2 DEF FlagIsOwed
  <2>4. MergesFlagged' /\ OneQueue'
    BY <1>4, <1>5, <2>1 DEF MergesFlagged, OneQueue
  <2>5. FreshOrOwed'
    <3>1. Announced(js, stack') => Announced(jobs, stack)'
      <4>1. \A n \in DOMAIN stack' : stack'[n].job \in DOMAIN js
        BY FrameFacts
      <4> QED
        BY <1>2, <1>4, <2>1, <4>1 DEF Announced
    <3>2. (Coming => Coming') /\ (Current => Current')
      BY <2>1 DEF Coming, Current, UpToDate
    <3> QED
      BY <2>1, <3>1, <3>2 DEF FreshOrOwed
  <2> QED
    BY <2>1, <2>2, <2>3, <2>4, <2>5 DEF IInv, OwedIsPast
<1> QED
  BY <1>6, <1>7
-------------------------------------------------------------------------------
(* What TypeOK says of jobs and stack, in the terms of the lemmas.          *)
LEMMA TypeFacts ==
  ASSUME TypeOK
  PROVE  /\ jobs \in Seq(AllJobs(DOMAIN queues)) /\ Len(jobs) <= MaxJobs /\ Len(jobs) \in Nat
         /\ stack \in Seq(Frames(jobs)) /\ DOMAIN jobs = 1..Len(jobs)
         /\ repo \in Repos /\ flag \in BOOLEAN /\ queue \in DOMAIN queues /\ MaxJobs \in Nat
         /\ version \in [Repos -> Nat] /\ owed \in [Repos -> Nat] /\ queues \in Seq(Repos)
BY SessionAssumption DEF SessionAssumption, TypeOK, AllJobs, Frames

(* What a job submitted to the queue of the window adds to the jobs.        *)
Adds(new, n, kind) ==
  /\ new \in Seq(AllJobs(DOMAIN queues)) /\ Len(new) = n
  /\ DOMAIN new = DOMAIN jobs \cup {n} /\ n \notin DOMAIN jobs
  /\ \A k \in DOMAIN jobs :
       /\ new[k].queue = jobs[k].queue /\ new[k].kind = jobs[k].kind
       /\ \/ new[k].stage = jobs[k].stage
          \/ jobs[k].stage = "waiting" /\ new[k].stage = "running"
  /\ new[n].queue = queue /\ new[n].kind = kind /\ new[n].stage \in {"waiting", "running"}

(* `submit` to the queue of the window.                                     *)
LEMMA NewJobFacts ==
  ASSUME TypeOK, NEW kind \in Kinds, NEW new, NEW n, new = Enqueue(jobs, queue, kind),
         n = Len(jobs) + 1
  PROVE  Adds(new, n, kind)
<1> DEFINE e == Enqueue(jobs, queue, kind)
           m == Len(jobs) + 1
<1>1. /\ e \in Seq(AllJobs(DOMAIN queues)) /\ Len(e) = m
      /\ DOMAIN e = DOMAIN jobs \cup {m} /\ m \notin DOMAIN jobs
      /\ \A k \in DOMAIN jobs :
           /\ e[k].queue = jobs[k].queue /\ e[k].kind = jobs[k].kind
           /\ \/ e[k].stage = jobs[k].stage
              \/ jobs[k].stage = "waiting" /\ e[k].stage = "running"
      /\ e[m].queue = queue /\ e[m].kind = kind /\ e[m].stage \in {"waiting", "running"}
  BY TypeFacts, EnqueueFacts
<1>2. e = new /\ m = n
  OBVIOUS
<1> HIDE DEF e, m
<1> QED
  BY <1>1, <1>2 DEF Adds

(* `_submit_write`: whoever submits keeps the window's queue busy.          *)
LEMMA SubmitsKeeps ==
  ASSUME IInv, NEW kind \in Kinds, Submits(kind)
  PROVE  IInv'
<1> DEFINE new == Enqueue(jobs, queue, kind)
           n == Len(jobs) + 1
<1>1. /\ Len(jobs) < MaxJobs /\ jobs' = new /\ flag' = (flag \/ kind = "merge")
      /\ stack' = stack /\ version' = version /\ owed' = owed /\ repo' = repo /\ queues' = queues
      /\ queue' = queue /\ loads' = loads /\ loader' = loader /\ shown' = shown
      /\ split' = split
  BY DEF Submits, NoReload
<1>2. /\ new \in Seq(AllJobs(DOMAIN queues)) /\ Len(new) = n
      /\ DOMAIN new = DOMAIN jobs \cup {n} /\ n \notin DOMAIN jobs
      /\ \A k \in DOMAIN jobs :
           /\ new[k].queue = jobs[k].queue /\ new[k].kind = jobs[k].kind
           /\ \/ new[k].stage = jobs[k].stage
              \/ jobs[k].stage = "waiting" /\ new[k].stage = "running"
      /\ new[n].queue = queue /\ new[n].kind = kind /\ new[n].stage \in {"waiting", "running"}
  BY TypeFacts, EnqueueFacts DEF IInv
<1> HIDE DEF new
<1>3. Len(new) <= MaxJobs /\ n \in DOMAIN new
  BY <1>1, <1>2, TypeFacts DEF IInv
<1> HIDE DEF n
<1>4. TypeOK'
  <2>1. stack \in Seq(Frames(new))
    <3>1. Frames(jobs) \subseteq Frames(new)
      BY <1>2 DEF Frames
    <3> QED
      BY <3>1, TypeFacts DEF IInv
  <2>2. flag' \in BOOLEAN
    BY <1>1
  <2> QED
    BY <1>1, <1>2, <1>3, <2>1, <2>2 DEF IInv, TypeOK, AllJobs, Frames
<1>5. FlagIsOwed'
  <2>1. Busy(new, queue)
    BY <1>2, <1>3, UndoneIsBusy
  <2> QED
    BY <1>1, <2>1 DEF FlagIsOwed
<1>6. MergesFlagged'
  <2> SUFFICES ASSUME NEW k \in DOMAIN new, new[k].queue = queue, new[k].kind = "merge",
                      new[k].stage # "done"
               PROVE  flag \/ kind = "merge"
    BY <1>1 DEF MergesFlagged
  <2> QED
    BY <1>2 DEF IInv, MergesFlagged
<1>7. OneQueue'
  BY <1>1, <1>2 DEF IInv, OneQueue
<1>8. FreshOrOwed'
  <2>1. Announced(jobs, stack) => Announced(new, stack)
    BY <1>2, TypeFacts, FrameFacts DEF IInv, Announced
  <2>2. Announced(jobs, stack)' <=> Announced(new, stack)
    BY <1>1 DEF Announced
  <2> QED
    BY <1>1, <2>1, <2>2 DEF IInv, FreshOrOwed, Coming, Current, UpToDate, OwedIsPast
<1> QED
  BY <1>1, <1>4, <1>5, <1>6, <1>7, <1>8 DEF IInv, OwedIsPast

(* `open_repository` by the user, the watcher, a fetch or a clone.          *)
LEMMA OpensKeeps ==
  ASSUME IInv, NEW r \in Repos, Opens(r)
  PROVE  IInv'
<1>1. PICK js, fl : js = jobs /\ fl = flag
  OBVIOUS
<1>2. Open(r, js, fl)
  BY <1>1 DEF Opens, Open
<1>3. jobs' = js /\ stack' = stack /\ version' = version /\ owed' = owed
  BY <1>1 DEF Opens
<1>4. /\ js \in Seq(AllJobs(DOMAIN queues)) /\ Len(js) <= MaxJobs /\ fl \in BOOLEAN
      /\ stack' \in Seq(Frames(js)) /\ TypeOK /\ queues[queue] = repo /\ OwedIsPast
  BY <1>1, <1>3, TypeFacts DEF IInv
<1>5. /\ \A k \in DOMAIN js :
           js[k].queue = queue /\ js[k].kind = "merge" /\ js[k].stage # "done" => fl
      /\ ~split => \A k \in DOMAIN js :
           js[k].stage # "done" /\ queues[js[k].queue] = repo => js[k].queue = queue
  BY <1>1 DEF IInv, MergesFlagged, OneQueue
<1> QED
  BY <1>2, <1>3, <1>4, <1>5, OpenKeeps

(* A job's step to another stage.                                           *)
LEMMA StageFacts ==
  ASSUME TypeOK, NEW j \in DOMAIN jobs, NEW to \in Stages
  PROVE  LET js == [jobs EXCEPT ![j].stage = to]
         IN  /\ js \in Seq(AllJobs(DOMAIN queues)) /\ Len(js) = Len(jobs)
             /\ DOMAIN js = DOMAIN jobs
             /\ js[j].queue = jobs[j].queue /\ js[j].kind = jobs[j].kind /\ js[j].stage = to
             /\ \A k \in DOMAIN jobs : k # j => js[k] = jobs[k]
<1> DEFINE v == [jobs[j] EXCEPT !.stage = to]
           js == [jobs EXCEPT ![j] = v]
<1>1. jobs \in Seq(AllJobs(DOMAIN queues)) /\ jobs[j] \in AllJobs(DOMAIN queues)
  BY TypeFacts
<1>2. /\ v \in AllJobs(DOMAIN queues) /\ v.queue = jobs[j].queue /\ v.kind = jobs[j].kind
      /\ v.stage = to
  BY <1>1 DEF AllJobs
<1> HIDE DEF v
<1>3. /\ js \in Seq(AllJobs(DOMAIN queues)) /\ Len(js) = Len(jobs) /\ DOMAIN js = DOMAIN jobs
      /\ js[j] = v /\ \A k \in DOMAIN jobs : k # j => js[k] = jobs[k]
  BY <1>1, <1>2
<1> QED
  BY <1>2, <1>3 DEF v

(* A job ends: what is owed to the list moves on only by a write that has,  *)
(* or is about to have, the flag set.                                       *)
LEMMA JobEndsKeeps ==
  ASSUME IInv, NEW j \in DOMAIN jobs, NEW outcome \in Outcomes, NEW changes \in BOOLEAN,
         JobEnds(j, outcome, changes)
  PROVE  IInv'
<1> DEFINE js == [jobs EXCEPT ![j].stage = outcome]
<1>1. /\ jobs[j].stage = "running" /\ jobs' = js /\ flag' = flag /\ stack' = stack
      /\ repo' = repo /\ queues' = queues /\ queue' = queue /\ loads' = loads
      /\ loader' = loader /\ shown' = shown /\ split' = split
  BY DEF JobEnds, NoReload
<1>2. /\ js \in Seq(AllJobs(DOMAIN queues)) /\ Len(js) = Len(jobs) /\ DOMAIN js = DOMAIN jobs
      /\ js[j].queue = jobs[j].queue /\ js[j].kind = jobs[j].kind /\ js[j].stage = outcome
      /\ \A k \in DOMAIN jobs : k # j => js[k] = jobs[k]
  <2>1. TypeOK /\ outcome \in Stages
    BY DEF IInv, Outcomes, Stages
  <2> QED
    BY <2>1, StageFacts
<1> HIDE DEF js
<1>3. outcome \in {"succeeded", "failed"}
  BY DEF Outcomes
<1>4. /\ version' \in [Repos -> Nat] /\ owed' \in [Repos -> Nat] /\ OwedIsPast'
      /\ version[repo] <= version'[repo]
      /\ \/ owed'[repo] = owed[repo]
         \/ /\ queues[jobs[j].queue] = repo
            /\ \/ outcome = "succeeded" /\ jobs[j].kind # "stage"
               \/ jobs[j].kind = "merge"
  <2>1. /\ version \in [Repos -> Nat] /\ owed \in [Repos -> Nat] /\ repo \in Repos
        /\ \A x \in Repos : owed[x] <= version[x]
    BY TypeFacts DEF IInv, OwedIsPast
  <2>2. PICK r : r = queues[jobs[j].queue]
    OBVIOUS
  <2>3. r \in Repos
    BY <2>2, TypeFacts, JobFacts DEF IInv
  <2>4. CASE changes
    <3>1. version' = [version EXCEPT ![r] = version[r] + 1]
      BY <2>2, <2>4 DEF JobEnds
    <3>2. version'[r] = version[r] + 1 /\ version'[r] \in Nat /\ version' \in [Repos -> Nat]
      BY <2>1, <2>3, <3>1
    <3>3. \A x \in Repos : version[x] <= version'[x]
      BY <2>1, <2>3, <3>1
    <3>4. \/ owed' = owed
          \/ /\ owed' = [owed EXCEPT ![r] = version'[r]]
             /\ \/ outcome = "succeeded" /\ jobs[j].kind # "stage"
                \/ jobs[j].kind = "merge"
      BY <2>2, <2>4 DEF JobEnds
    <3>5. /\ owed' \in [Repos -> Nat]
          /\ \A x \in Repos : owed'[x] = owed[x] \/ (x = r /\ owed'[x] = version'[x])
      BY <2>1, <2>3, <3>2, <3>4
    <3>6. \A x \in Repos : owed'[x] <= version'[x]
      <4> SUFFICES ASSUME NEW x \in Repos PROVE owed'[x] <= version'[x]
        OBVIOUS
      <4>1. /\ owed[x] \in Nat /\ version[x] \in Nat /\ version'[x] \in Nat
            /\ owed[x] <= version[x] /\ version[x] <= version'[x]
        BY <2>1, <3>2, <3>3
      <4> QED
        BY <3>5, <4>1
    <3>7. \/ owed'[repo] = owed[repo]
          \/ /\ r = repo
             /\ \/ outcome = "succeeded" /\ jobs[j].kind # "stage"
                \/ jobs[j].kind = "merge"
      BY <2>1, <2>3, <3>4
    <3> QED
      BY <2>1, <2>2, <3>2, <3>3, <3>5, <3>6, <3>7 DEF OwedIsPast
  <2>5. CASE ~changes
    <3>1. version' = version /\ owed' = owed
      BY <2>5 DEF JobEnds
    <3> QED
      BY <2>1, <3>1 DEF OwedIsPast
  <2> QED
    BY <2>4, <2>5
<1>5. TypeOK'
  <2>1. stack \in Seq(Frames(js))
    BY <1>2, TypeFacts DEF IInv, Frames
  <2>2. Len(js) <= MaxJobs
    BY <1>2, TypeFacts DEF IInv
  <2> QED
    BY <1>1, <1>2, <1>4, <2>1, <2>2 DEF IInv, TypeOK, AllJobs, Frames
<1>6. FlagIsOwed'
  <2>1. CASE Busy(jobs, queue)
    <3>1. PICK k \in DOMAIN jobs : jobs[k].queue = queue /\ jobs[k].stage # "done"
      BY <2>1 DEF Busy, JobsOf
    <3>2. js[k].queue = queue /\ js[k].stage # "done" /\ k \in DOMAIN js
      BY <1>2, <1>3, <3>1
    <3>3. Busy(js, queue)
      BY <1>2, <3>2, UndoneIsBusy
    <3> QED
      BY <1>1, <3>3 DEF FlagIsOwed
  <2>2. CASE \E f \in Range(stack) : jobs[f.job].queue = queue
    <3>1. PICK f \in Range(stack) : jobs[f.job].queue = queue
      BY <2>2
    <3>2. f.job \in DOMAIN jobs
      BY TypeFacts, FrameFacts DEF IInv, Range
    <3> QED
      BY <1>1, <1>2, <3>1, <3>2 DEF FlagIsOwed
  <2> QED
    BY <1>1, <2>1, <2>2 DEF IInv, FlagIsOwed
<1>7. MergesFlagged' /\ OneQueue'
  BY <1>1, <1>2, <1>3 DEF IInv, MergesFlagged, OneQueue
<1>8. FreshOrOwed'
  <2> SUFFICES ASSUME ~split PROVE flag \/ Announced(js, stack) \/ Coming' \/ Current'
    BY <1>1 DEF FreshOrOwed, Announced
  <2>1. CASE owed'[repo] = owed[repo]
    <3>1. Announced(jobs, stack) => Announced(js, stack)
      BY <1>1, <1>2, TypeFacts, FrameFacts DEF IInv, Announced
    <3>2. ASSUME NEW v \in Int, UpToDate(v) PROVE owed'[repo'] <= v /\ v <= version'[repo']
      <4>1. version[repo] \in Nat /\ version'[repo] \in Nat /\ owed[repo] \in Nat
        BY <1>4, TypeFacts DEF IInv
      <4>2. owed[repo] <= v /\ v <= version[repo]
        BY <3>2 DEF UpToDate
      <4> QED
        BY <1>1, <1>4, <2>1, <4>1, <4>2
    <3>3. shown.version \in Int
      BY DEF IInv, TypeOK, Nothing
    <3>4. loads[loader] # NoLoad => loads[loader].seen \in Int
      <4>1. loads[loader] \in [repo : Repos, seen : Nat \cup {Unread}] \cup {NoLoad}
        BY DEF IInv, TypeOK
      <4> QED
        BY <4>1 DEF Unread
    <3>5. (Coming => Coming') /\ (Current => Current')
      BY <1>1, <3>2, <3>3, <3>4 DEF Coming, Current, UpToDate
    <3> QED
      BY <1>1, <3>1, <3>5 DEF IInv, FreshOrOwed
  <2>2. CASE owed'[repo] # owed[repo]
    <3>1. /\ jobs[j].queue = queue
          /\ (outcome = "succeeded" /\ jobs[j].kind # "stage") \/ jobs[j].kind = "merge"
      BY <1>1, <1>4, <2>2 DEF IInv, OneQueue
    <3>2. jobs[j].kind \in {"commit", "merge", "stage"}
      BY TypeFacts, JobFacts DEF IInv, Kinds
    <3>3. CASE jobs[j].kind = "commit"
      BY <1>2, <3>1, <3>3 DEF Announced
    <3>4. CASE jobs[j].kind = "merge"
      BY <1>1, <3>1, <3>4 DEF IInv, MergesFlagged
    <3> QED
      BY <3>1, <3>2, <3>3, <3>4
  <2> QED
    BY <2>1, <2>2
<1> QED
  BY <1>1, <1>4, <1>5, <1>6, <1>7, <1>8 DEF IInv

(* `_on_done`: the success that was queued becomes that of a suspended      *)
(* emission, or has the flag set at once.                                   *)
LEMMA OnDoneKeeps ==
  ASSUME IInv, NEW j \in DOMAIN jobs, NEW dialog \in BOOLEAN, OnDone(j, dialog)
  PROVE  IInv'
<1> DEFINE done == [jobs EXCEPT ![j].stage = "done"]
<1>1. PICK js, outcome : js = done /\ outcome = jobs[j].stage
  OBVIOUS
<1>2. outcome \in Outcomes /\ version' = version /\ owed' = owed
  BY <1>1 DEF OnDone, Outcomes
<1>3. /\ js \in Seq(AllJobs(DOMAIN queues)) /\ Len(js) = Len(jobs) /\ DOMAIN js = DOMAIN jobs
      /\ js[j].queue = jobs[j].queue /\ js[j].kind = jobs[j].kind /\ js[j].stage = "done"
      /\ \A k \in DOMAIN jobs : k # j => js[k] = jobs[k]
  <2>1. TypeOK /\ "done" \in Stages
    BY DEF IInv, Stages
  <2> QED
    BY <1>1, <2>1, StageFacts
<1> HIDE DEF done
<1>4. /\ stack \in Seq(Frames(js)) /\ stack \in Seq(Frames(jobs)) /\ Len(js) <= MaxJobs
      /\ jobs \in Seq(AllJobs(DOMAIN queues))
  BY <1>3, TypeFacts DEF IInv, Frames
<1>5. CASE dialog
  <2>1. PICK f : f = [job |-> j, outcome |-> outcome]
    OBVIOUS
  <2>2. /\ stack' = <<f>> \o stack /\ jobs' = js /\ flag' = flag /\ jobs[j].queue = queue
        /\ repo' = repo /\ queues' = queues /\ queue' = queue /\ loads' = loads
        /\ loader' = loader /\ shown' = shown /\ split' = split
    BY <1>1, <1>5, <2>1 DEF OnDone, NoReload, done
  <2>3. f \in Frames(js) /\ f.job = j /\ f.outcome = outcome
    BY <1>2, <1>3, <2>1 DEF Frames
  <2>4. /\ stack' \in Seq(Frames(js)) /\ 1 \in DOMAIN stack' /\ stack'[1] = f
        /\ \A n \in DOMAIN stack : n + 1 \in DOMAIN stack' /\ stack'[n + 1] = stack[n]
    BY <1>4, <2>2, <2>3
  <2>5. TypeOK'
    BY <1>2, <1>3, <1>4, <2>2, <2>4 DEF IInv, TypeOK, AllJobs, Frames
  <2>6. FlagIsOwed'
    <3>1. f \in Range(stack') /\ js[f.job].queue = queue
      BY <1>3, <2>2, <2>3, <2>4 DEF Range
    <3> QED
      BY <2>2, <3>1 DEF FlagIsOwed
  <2>7. MergesFlagged' /\ OneQueue'
    BY <1>3, <2>2 DEF IInv, MergesFlagged, OneQueue
  <2>8. FreshOrOwed'
    <3>1. ASSUME Announced(jobs, stack) PROVE Announced(js, stack')
      <4>1. ASSUME NEW k \in DOMAIN jobs, jobs[k].queue = queue, jobs[k].kind = "commit",
                   jobs[k].stage = "succeeded"
            PROVE  Announced(js, stack')
        <5>1. CASE k = j
          BY <1>1, <1>3, <2>3, <2>4, <4>1, <5>1 DEF Announced
        <5>2. CASE k # j
          BY <1>3, <4>1, <5>2 DEF Announced
        <5> QED
          BY <5>1, <5>2
      <4>2. ASSUME NEW n \in DOMAIN stack, jobs[stack[n].job].queue = queue,
                   jobs[stack[n].job].kind = "commit", stack[n].outcome = "succeeded"
            PROVE  Announced(js, stack')
        <5>1. stack[n].job \in DOMAIN jobs
          BY <1>4, FrameFacts
        <5>2. js[stack[n].job].queue = queue /\ js[stack[n].job].kind = "commit"
          BY <1>3, <4>2, <5>1
        <5> QED
          BY <2>4, <4>2, <5>2 DEF Announced
      <4> QED
        BY <3>1, <4>1, <4>2 DEF Announced
    <3>2. Announced(jobs, stack)' <=> Announced(js, stack')
      BY <2>2 DEF Announced
    <3> QED
      BY <1>2, <2>2, <3>1, <3>2 DEF IInv, FreshOrOwed, Coming, Current, UpToDate, OwedIsPast
  <2> QED
    BY <1>2, <2>2, <2>5, <2>6, <2>7, <2>8 DEF IInv, OwedIsPast
<1>6. CASE ~dialog
  <2>1. PICK fl : fl = FlagAfter(j, outcome)
    OBVIOUS
  <2>2. /\ fl \in BOOLEAN /\ (flag => fl) /\ (jobs[j].queue # queue => (fl <=> flag))
        /\ (jobs[j].queue = queue /\ outcome = "succeeded" /\ jobs[j].kind = "commit" => fl)
    BY <2>1, TypeFacts DEF IInv, FlagAfter
  <2>3. stack' = stack /\ AfterSlots(j, js, fl)
    BY <1>1, <1>6, <2>1 DEF OnDone, AfterSlots, done
  <2>4. fl /\ jobs[j].queue # queue =>
          \/ Busy(js, queue)
          \/ \E n \in DOMAIN stack' : js[stack'[n].job].queue = queue
    <3> SUFFICES ASSUME flag, jobs[j].queue # queue
                 PROVE  \/ Busy(js, queue)
                        \/ \E n \in DOMAIN stack : js[stack[n].job].queue = queue
      BY <2>2, <2>3
    <3>1. CASE Busy(jobs, queue)
      <4>1. PICK k \in DOMAIN jobs : jobs[k].queue = queue /\ jobs[k].stage # "done"
        BY <3>1 DEF Busy, JobsOf
      <4>2. k \in DOMAIN js /\ js[k].queue = queue /\ js[k].stage # "done"
        BY <1>3, <4>1
      <4> QED
        BY <1>3, <4>2, UndoneIsBusy
    <3>2. CASE \E f \in Range(stack) : jobs[f.job].queue = queue
      <4>1. PICK n \in DOMAIN stack : jobs[stack[n].job].queue = queue
        BY <3>2 DEF Range
      <4>2. stack[n].job \in DOMAIN jobs
        BY <1>4, FrameFacts
      <4> QED
        BY <1>3, <4>1, <4>2
    <3> QED
      BY <3>1, <3>2 DEF IInv, FlagIsOwed
  <2>5. /\ \A k \in DOMAIN js :
             js[k].queue = queue /\ js[k].kind = "merge" /\ js[k].stage # "done" => fl
        /\ ~split => \A k \in DOMAIN js :
             js[k].stage # "done" /\ queues[js[k].queue] = repo => js[k].queue = queue
    BY <1>3, <2>2 DEF IInv, MergesFlagged, OneQueue
  <2>6. ~split => fl \/ Announced(js, stack') \/ Coming \/ Current
    <3> SUFFICES ASSUME Announced(jobs, stack) PROVE fl \/ Announced(js, stack)
      BY <2>2, <2>3 DEF IInv, FreshOrOwed
    <3>1. ASSUME NEW k \in DOMAIN jobs, jobs[k].queue = queue, jobs[k].kind = "commit",
                 jobs[k].stage = "succeeded"
          PROVE  fl \/ Announced(js, stack)
      <4>1. CASE k = j
        BY <1>1, <2>2, <3>1, <4>1
      <4>2. CASE k # j
        BY <1>3, <3>1, <4>2 DEF Announced
      <4> QED
        BY <4>1, <4>2
    <3>2. ASSUME NEW n \in DOMAIN stack, jobs[stack[n].job].queue = queue,
                 jobs[stack[n].job].kind = "commit", stack[n].outcome = "succeeded"
          PROVE  fl \/ Announced(js, stack)
      <4>1. stack[n].job \in DOMAIN jobs
        BY <1>4, FrameFacts
      <4>2. js[stack[n].job].queue = queue /\ js[stack[n].job].kind = "commit"
        BY <1>3, <3>2, <4>1
      <4> QED
        BY <3>2, <4>2 DEF Announced
    <3> QED
      BY <3>1, <3>2 DEF Announced
  <2>7. TypeOK /\ queues[queue] = repo /\ OwedIsPast /\ stack' \in Seq(Frames(js))
    BY <1>4, <2>3 DEF IInv
  <2> QED
    BY <1>2, <1>3, <1>4, <2>2, <2>3, <2>4, <2>5, <2>6, <2>7, AfterSlotsKeeps
<1> QED
  BY <1>5, <1>6

(* The dialog of a suspended emission closes, having submitted or not: the  *)
(* success it stood for has the flag set now.                               *)
LEMMA DialogClosesKeeps ==
  ASSUME IInv, NEW resubmits \in BOOLEAN, DialogCloses(resubmits)
  PROVE  IInv'
<1> DEFINE more == IF resubmits THEN Enqueue(jobs, queue, "commit") ELSE jobs
<1>1. PICK f, js, fl : f = Head(stack) /\ js = more /\ fl = FlagAfter(f.job, f.outcome)
  OBVIOUS
<1>2. /\ stack # <<>> /\ stack' = Tail(stack)
      /\ resubmits => Len(jobs) < MaxJobs
  BY DEF DialogCloses
<1>3. /\ jobs \in Seq(AllJobs(DOMAIN queues)) /\ Len(jobs) <= MaxJobs /\ Len(jobs) \in Nat
      /\ stack \in Seq(Frames(jobs)) /\ queue \in DOMAIN queues /\ TypeOK
      /\ queues[queue] = repo /\ MaxJobs \in Nat
  BY TypeFacts DEF IInv
<1>4. /\ 1 \in DOMAIN stack /\ f = stack[1] /\ stack' \in Seq(Frames(jobs))
      /\ \A n \in DOMAIN stack : n # 1 => n - 1 \in DOMAIN stack' /\ stack'[n - 1] = stack[n]
  BY <1>1, <1>2, <1>3
<1>5. PICK j : j = f.job
  OBVIOUS
<1>6. j \in DOMAIN jobs
  BY <1>3, <1>4, <1>5, FrameFacts
<1>7. AfterSlots(j, js, fl)
  BY <1>1, <1>5 DEF DialogCloses, AfterSlots
<1>8. /\ js \in Seq(AllJobs(DOMAIN queues)) /\ Len(js) <= MaxJobs /\ DOMAIN jobs \subseteq DOMAIN js
      /\ \A k \in DOMAIN jobs :
           /\ js[k].queue = jobs[k].queue /\ js[k].kind = jobs[k].kind
           /\ \/ js[k].stage = jobs[k].stage
              \/ jobs[k].stage = "waiting" /\ js[k].stage = "running"
      /\ \A k \in DOMAIN js \ DOMAIN jobs : js[k].queue = queue /\ js[k].kind = "commit"
  <2>1. CASE resubmits
    <3>1. js = Enqueue(jobs, queue, "commit") /\ "commit" \in Kinds /\ Len(jobs) + 1 <= MaxJobs
      BY <1>1, <1>2, <1>3, <2>1 DEF Kinds
    <3>2. PICK n : n = Len(jobs) + 1
      OBVIOUS
    <3>3. PICK kind : kind = "commit"
      OBVIOUS
    <3>4. TypeOK /\ kind \in Kinds /\ js = Enqueue(jobs, queue, kind)
      BY <1>3, <3>1, <3>3
    <3>5. Adds(js, n, kind)
      BY <3>2, <3>4, NewJobFacts
    <3> QED
      BY <3>1, <3>2, <3>3, <3>5 DEF Adds
  <2>2. CASE ~resubmits
    BY <1>1, <1>3, <2>2
  <2> QED
    BY <2>1, <2>2
<1> HIDE DEF more
<1>9. stack' \in Seq(Frames(js))
  <2>1. Frames(jobs) \subseteq Frames(js)
    BY <1>8 DEF Frames
  <2> QED
    BY <1>4, <2>1
<1>10. /\ fl \in BOOLEAN /\ (flag => fl) /\ (jobs[j].queue # queue => (fl <=> flag))
       /\ (jobs[j].queue = queue /\ f.outcome = "succeeded" /\ jobs[j].kind = "commit" => fl)
  BY <1>1, <1>5, TypeFacts DEF IInv, FlagAfter
<1>11. fl /\ jobs[j].queue # queue =>
         \/ Busy(js, queue)
         \/ \E n \in DOMAIN stack' : js[stack'[n].job].queue = queue
  <2> SUFFICES ASSUME flag, jobs[j].queue # queue
               PROVE  \/ Busy(js, queue)
                      \/ \E n \in DOMAIN stack' : js[stack'[n].job].queue = queue
    BY <1>10
  <2>1. CASE Busy(jobs, queue)
    <3>1. PICK k \in DOMAIN jobs : jobs[k].queue = queue /\ jobs[k].stage # "done"
      BY <2>1 DEF Busy, JobsOf
    <3>2. k \in DOMAIN js /\ js[k].queue = queue /\ js[k].stage # "done"
      BY <1>8, <3>1
    <3> QED
      BY <1>8, <3>2, UndoneIsBusy
  <2>2. CASE \E g \in Range(stack) : jobs[g.job].queue = queue
    <3>1. PICK n \in DOMAIN stack : jobs[stack[n].job].queue = queue
      BY <2>2 DEF Range
    <3>2. n # 1 /\ stack[n].job \in DOMAIN jobs
      BY <1>3, <1>4, <1>5, <3>1, FrameFacts
    <3> QED
      BY <1>4, <1>8, <3>1, <3>2
  <2> QED
    BY <2>1, <2>2 DEF IInv, FlagIsOwed
<1>12. /\ \A k \in DOMAIN js :
            js[k].queue = queue /\ js[k].kind = "merge" /\ js[k].stage # "done" => fl
       /\ ~split => \A k \in DOMAIN js :
            js[k].stage # "done" /\ queues[js[k].queue] = repo => js[k].queue = queue
  BY <1>8, <1>10 DEF IInv, MergesFlagged, OneQueue
<1>13. ~split => fl \/ Announced(js, stack') \/ Coming \/ Current
  <2> SUFFICES ASSUME Announced(jobs, stack) PROVE fl \/ Announced(js, stack')
    BY <1>10 DEF IInv, FreshOrOwed
  <2>1. ASSUME NEW k \in DOMAIN jobs, jobs[k].queue = queue, jobs[k].kind = "commit",
               jobs[k].stage = "succeeded"
        PROVE  Announced(js, stack')
    BY <1>8, <2>1 DEF Announced
  <2>2. ASSUME NEW n \in DOMAIN stack, jobs[stack[n].job].queue = queue,
               jobs[stack[n].job].kind = "commit", stack[n].outcome = "succeeded"
        PROVE  fl \/ Announced(js, stack')
    <3>1. CASE n = 1
      BY <1>4, <1>5, <1>10, <2>2, <3>1
    <3>2. CASE n # 1
      <4>1. stack[n].job \in DOMAIN jobs
        BY <1>3, FrameFacts
      <4>2. js[stack[n].job].queue = queue /\ js[stack[n].job].kind = "commit"
        BY <1>8, <2>2, <4>1
      <4> QED
        BY <1>4, <2>2, <3>2, <4>2 DEF Announced
    <3> QED
      BY <3>1, <3>2
  <2> QED
    BY <2>1, <2>2 DEF Announced
<1>14. OwedIsPast /\ version' = version /\ owed' = owed
  BY DEF IInv, DialogCloses
<1> QED
  BY <1>2, <1>3, <1>6, <1>7, <1>8, <1>9, <1>10, <1>11, <1>12, <1>13, <1>14, AfterSlotsKeeps

(* A loader reads, and its answer is shown if it is still the window's.     *)
LEMMA LoaderKeeps ==
  ASSUME IInv, NEW l \in {0, 1}, LoaderReads(l) \/ OnLoaded(l)
  PROVE  IInv'
<1>1. /\ repo' = repo /\ queues' = queues /\ queue' = queue /\ jobs' = jobs /\ flag' = flag
      /\ stack' = stack /\ version' = version /\ owed' = owed /\ loader' = loader /\ split' = split
  BY DEF LoaderReads, OnLoaded
<1>2. FlagIsOwed' /\ MergesFlagged' /\ OneQueue' /\ OwedIsPast' /\ queues'[queue'] = repo'
  BY <1>1 DEF IInv, FlagIsOwed, MergesFlagged, OneQueue, OwedIsPast
<1>3. /\ loads \in [{0, 1} -> [repo : Repos, seen : Nat \cup {Unread}] \cup {NoLoad}]
      /\ shown \in [repo : Repos, version : Nat] \cup {Nothing}
      /\ version \in [Repos -> Nat] /\ loader \in {0, 1}
  BY DEF IInv, TypeOK
<1>4. CASE LoaderReads(l)
  <2>1. PICK v : v = loads[l]
    OBVIOUS
  <2>2. v.seen = Unread /\ v \in [repo : Repos, seen : Nat \cup {Unread}]
    BY <1>3, <1>4, <2>1 DEF LoaderReads, NoLoad, Unread
  <2>3. PICK w : w = [v EXCEPT !.seen = version[v.repo]]
    OBVIOUS
  <2>4. /\ w \in [repo : Repos, seen : Nat \cup {Unread}] /\ w.repo = v.repo
        /\ w.seen = version[v.repo] /\ w # NoLoad
    BY <1>3, <2>2, <2>3 DEF NoLoad
  <2>5. loads' = [loads EXCEPT ![l] = w] /\ shown' = shown
    BY <1>4, <2>1, <2>3 DEF LoaderReads
  <2>6. TypeOK'
    BY <1>1, <1>3, <2>4, <2>5 DEF IInv, TypeOK
  <2>7. FreshOrOwed'
    <3>1. Announced(jobs, stack)' <=> Announced(jobs, stack)
      BY <1>1 DEF Announced
    <3>2. CASE l = loader
      <4>1. Coming => Coming'
        BY <1>1, <1>3, <2>1, <2>4, <2>5, <3>2 DEF Coming, UpToDate, IInv, TypeOK, OwedIsPast
      <4>2. ~Current
        BY <2>1, <2>2, <3>2 DEF Current, NoLoad, Unread
      <4> QED
        BY <1>1, <3>1, <4>1, <4>2 DEF IInv, FreshOrOwed
    <3>3. CASE l # loader
      <4>1. loads'[loader'] = loads[loader]
        BY <1>1, <1>3, <2>5, <3>3
      <4> QED
        BY <1>1, <2>5, <3>1, <4>1 DEF IInv, FreshOrOwed, Coming, Current, UpToDate, OwedIsPast
    <3> QED
      BY <3>2, <3>3
  <2> QED
    BY <1>2, <2>6, <2>7 DEF IInv
<1>5. CASE OnLoaded(l)
  <2>1. PICK v : v = loads[l]
    OBVIOUS
  <2>2. /\ v # NoLoad /\ v.seen # Unread /\ v \in [repo : Repos, seen : Nat \cup {Unread}]
        /\ loads' = [loads EXCEPT ![l] = NoLoad]
        /\ shown' = IF l = loader THEN [repo |-> v.repo, version |-> v.seen] ELSE shown
    BY <1>3, <1>5, <2>1 DEF OnLoaded
  <2>3. shown' \in [repo : Repos, version : Nat] \cup {Nothing}
    BY <1>3, <2>2
  <2>4. TypeOK'
    BY <1>1, <1>3, <2>2, <2>3 DEF IInv, TypeOK
  <2>5. FreshOrOwed'
    <3>1. Announced(jobs, stack)' <=> Announced(jobs, stack)
      BY <1>1 DEF Announced
    <3>2. CASE l = loader
      <4>1. Coming => Current'
        BY <1>1, <1>3, <2>1, <2>2, <3>2 DEF Coming, Current, UpToDate
      <4>2. ~Current
        BY <2>1, <2>2, <3>2 DEF Current
      <4> QED
        BY <1>1, <3>1, <4>1, <4>2 DEF IInv, FreshOrOwed
    <3>3. CASE l # loader
      <4>1. loads'[loader'] = loads[loader] /\ shown' = shown
        BY <1>1, <1>3, <2>2, <3>3
      <4> QED
        BY <1>1, <3>1, <4>1 DEF IInv, FreshOrOwed, Coming, Current, UpToDate, OwedIsPast
    <3> QED
      BY <3>2, <3>3
  <2> QED
    BY <1>2, <2>4, <2>5 DEF IInv
<1> QED
  BY <1>4, <1>5

-------------------------------------------------------------------------------
(* At the start the list shows the repository as it is.                     *)
LEMMA IInvAtStart == Init => IInv
<1> SUFFICES ASSUME Init PROVE IInv
  OBVIOUS
<1>1. /\ repo = LastRepository /\ LastRepository \in Repos /\ queues = <<LastRepository>>
      /\ queue = 1 /\ jobs = <<>> /\ flag = FALSE /\ stack = <<>> /\ loader = 0
      /\ version = [r \in Repos |-> 0] /\ owed = [r \in Repos |-> 0]
      /\ loads = [l \in {0, 1} |-> NoLoad]
      /\ shown = [repo |-> LastRepository, version |-> 0] /\ split = FALSE
      /\ MaxJobs \in Nat /\ MaxQueues \in Nat \ {0}
  BY SessionAssumption DEF SessionAssumption, Init
<1>2. TypeOK
  <2>1. /\ queues \in Seq(Repos) /\ Len(queues) = 1 /\ 1 \in DOMAIN queues
        /\ jobs \in Seq([queue : DOMAIN queues, kind : Kinds, stage : Stages]) /\ Len(jobs) = 0
        /\ stack \in Seq([job : DOMAIN jobs, outcome : Outcomes])
    <3>1. \A S : <<>> \in Seq(S) /\ Len(<<>>) = 0
      OBVIOUS
    <3>2. LastRepository \in Repos => <<LastRepository>> \in Seq(Repos)
      OBVIOUS
    <3>3. Len(<<LastRepository>>) = 1 /\ DOMAIN <<LastRepository>> = {1}
      OBVIOUS
    <3>4. queues \in Seq(Repos) /\ Len(queues) = 1 /\ 1 \in DOMAIN queues
      BY <1>1, <3>2, <3>3
    <3>5. jobs \in Seq([queue : DOMAIN queues, kind : Kinds, stage : Stages]) /\ Len(jobs) = 0
      BY <1>1, <3>1
    <3>6. stack \in Seq([job : DOMAIN jobs, outcome : Outcomes])
      BY <1>1, <3>1
    <3> QED
      BY <3>4, <3>5, <3>6
  <2>2. /\ version \in [Repos -> Nat] /\ owed \in [Repos -> Nat]
        /\ loads \in [{0, 1} -> [repo : Repos, seen : Nat \cup {Unread}] \cup {NoLoad}]
        /\ shown \in [repo : Repos, version : Nat]
    BY <1>1
  <2>3. /\ repo \in Repos /\ Len(queues) \in 1..MaxQueues /\ queue \in DOMAIN queues
        /\ Len(jobs) <= MaxJobs /\ flag \in BOOLEAN /\ loader \in {0, 1} /\ split \in BOOLEAN
    <3>1. repo \in Repos /\ Len(queues) \in 1..MaxQueues
      BY <1>1, <2>1
    <3>2. queue \in DOMAIN queues
      BY <1>1, <2>1
    <3>3. Len(jobs) <= MaxJobs
      BY <1>1, <2>1
    <3>4. flag \in BOOLEAN /\ loader \in {0, 1} /\ split \in BOOLEAN
      BY <1>1
    <3> QED
      BY <3>1, <3>2, <3>3, <3>4
  <2>4. shown \in [repo : Repos, version : Nat] \cup {Nothing}
    BY <2>2
  <2> QED
    BY <2>1, <2>2, <2>3, <2>4, Zenon DEF TypeOK
<1>3. FlagIsOwed /\ MergesFlagged /\ OneQueue /\ OwedIsPast
  BY <1>1 DEF FlagIsOwed, MergesFlagged, OneQueue, OwedIsPast
<1>4. Current
  BY <1>1 DEF Current, UpToDate
<1> QED
  BY <1>1, <1>2, <1>3, <1>4 DEF IInv, FreshOrOwed

(* Nothing changes what the invariant speaks of.                            *)
LEMMA StutterKeeps == IInv /\ UNCHANGED vars => IInv'
<1> SUFFICES ASSUME IInv, UNCHANGED vars PROVE IInv'
  OBVIOUS
<1>1. /\ repo' = repo /\ queues' = queues /\ queue' = queue /\ jobs' = jobs /\ flag' = flag
      /\ stack' = stack /\ version' = version /\ owed' = owed /\ loads' = loads /\ loader' = loader
      /\ shown' = shown /\ split' = split
  BY DEF vars
<1> QED
  BY <1>1 DEF IInv, TypeOK, FlagIsOwed, MergesFlagged, OneQueue, OwedIsPast, FreshOrOwed,
     Announced, Coming, Current, UpToDate

(* Every step keeps the invariant.                                          *)
LEMMA NextKeeps == IInv /\ [Next]_vars => IInv'
<1> SUFFICES ASSUME IInv, [Next]_vars PROVE IInv'
  OBVIOUS
<1>1. ASSUME NEW k \in Kinds, Submits(k) PROVE IInv'
  BY <1>1, SubmitsKeeps
<1>2. ASSUME NEW r \in Repos, Opens(r) PROVE IInv'
  BY <1>2, OpensKeeps
<1>3. ASSUME NEW j \in DOMAIN jobs, Works(j) \/ Reports(j) PROVE IInv'
  <2>1. CASE Works(j)
    BY <2>1, JobEndsKeeps DEF Works
  <2>2. CASE Reports(j)
    BY <2>2, OnDoneKeeps DEF Reports
  <2> QED
    BY <1>3, <2>1, <2>2
<1>4. ASSUME NEW b \in BOOLEAN, DialogCloses(b) PROVE IInv'
  BY <1>4, DialogClosesKeeps
<1>5. ASSUME NEW l \in {0, 1}, LoaderReads(l) \/ OnLoaded(l) PROVE IInv'
  BY <1>5, LoaderKeeps
<1> QED
  BY <1>1, <1>2, <1>3, <1>4, <1>5, StutterKeeps DEF Next

(* The invariant holds of every state the window can be in.                 *)
THEOREM SessionInvariant == Spec => []IInv
<1>1. Init => IInv
  BY IInvAtStart
<1>2. IInv /\ [Next]_vars => IInv'
  BY NextKeeps
<1> QED
  BY <1>1, <1>2, PTL DEF Spec

(* Every variable keeps its type, for any number of jobs and queues.        *)
THEOREM TypeCorrect == Spec => []TypeOK
<1>1. IInv => TypeOK
  BY DEF IInv
<1> QED
  BY <1>1, SessionInvariant, PTL

(* A pending reload has somebody to redeem it.                              *)
THEOREM ReloadIsOwed == Spec => []FlagIsOwed
<1>1. IInv => FlagIsOwed
  BY DEF IInv
<1> QED
  BY <1>1, SessionInvariant, PTL

(* Once the writes are done and followed by their reload, the list is       *)
(* current: nothing is announced any more, and the flag would be owed.      *)
THEOREM QuietIsFresh == Spec => []FreshWhenQuiet
<1>1. IInv => FreshWhenQuiet
  <2> SUFFICES ASSUME IInv, Quiet, ~split
               PROVE  shown.repo = repo /\ shown.version \in owed[repo]..version[repo]
    BY DEF FreshWhenQuiet
  <2>1. stack = <<>> /\ ~Busy(jobs, queue) /\ loads[loader] = NoLoad
    BY DEF Quiet
  <2>2. ~flag
    BY <2>1 DEF IInv, FlagIsOwed, Range
  <2>3. ~Announced(jobs, stack)
    <3>1. \A k \in DOMAIN jobs : jobs[k].queue = queue => jobs[k].stage = "done"
      BY <2>1, TypeFacts, UndoneIsBusy DEF IInv
    <3> QED
      BY <2>1, <3>1 DEF Announced
  <2>4. ~Coming
    BY <2>1 DEF Coming
  <2> QED
    <3>1. shown.repo = repo /\ owed[repo] <= shown.version /\ shown.version <= version[repo]
      BY <2>2, <2>3, <2>4 DEF IInv, FreshOrOwed, Current, UpToDate
    <3>2. owed[repo] \in Nat /\ version[repo] \in Nat /\ shown.version \in Int
      BY TypeFacts DEF IInv, TypeOK, Nothing
    <3> QED
      BY <3>1, <3>2
<1> QED
  BY <1>1, SessionInvariant, PTL

-------------------------------------------------------------------------------
(* The jobs of a queue are done in the order of their submission: what is   *)
(* begun has only done ones before it.                                      *)
InOrder(js) ==
  \A i, j \in DOMAIN js :
    i < j /\ js[i].queue = js[j].queue /\ js[j].stage # "waiting" => js[i].stage = "done"

(* One queue at most has jobs left for a repository.                        *)
Alone(js, qs) ==
  \A i, j \in DOMAIN js :
    /\ js[i].stage # "done" /\ js[j].stage # "done"
    /\ qs[js[i].queue] = qs[js[j].queue]
    => js[i].queue = js[j].queue

QueuesAreSerial == InOrder(jobs)
SerialInv == QueuesAreSerial /\ (~split => Alone(jobs, queues))

(* `_start_next_if_idle` starts the first job that is left.                 *)
LEMMA StartNextInOrder ==
  ASSUME NEW Q, NEW js \in Seq(AllJobs(Q)), NEW q, InOrder(js)
  PROVE  InOrder(StartNext(js, q))
<1> DEFINE waiting == JobsOf(js, q, {"waiting"})
           active == JobsOf(js, q, {"running", "succeeded", "failed"})
<1>1. CASE active # {} \/ waiting = {}
  BY <1>1 DEF StartNext
<1>2. CASE active = {} /\ waiting # {}
  <2>1. PICK m : m = Min(waiting)
    OBVIOUS
  <2>2. waiting \subseteq Nat
    BY DEF JobsOf
  <2>3. m \in waiting /\ \A k \in waiting : m <= k
    BY <1>2, <2>1, <2>2, LeastIsThere
  <2>4. m \in DOMAIN js /\ js[m].stage = "waiting" /\ js[m].queue = q /\ js[m] \in AllJobs(Q)
    BY <2>3 DEF JobsOf
  <2>5. PICK new : new = StartNext(js, q)
    OBVIOUS
  <2>6. new = [js EXCEPT ![m].stage = "running"]
    BY <1>2, <2>1, <2>5 DEF StartNext
  <2>7. /\ DOMAIN new = DOMAIN js /\ \A k \in DOMAIN js : k # m => new[k] = js[k]
        /\ new[m].queue = q
    BY <2>4, <2>6 DEF AllJobs
  <2>8. ASSUME NEW i \in DOMAIN js, js[i].queue = q, i < m PROVE js[i].stage = "done"
    <3>1. i \notin waiting
      BY <2>2, <2>3, <2>8
    <3>2. i \notin active /\ js[i].stage \in Stages
      BY <1>2, JobFacts
    <3> QED
      BY <2>8, <3>1, <3>2 DEF JobsOf, Stages
  <2>9. ASSUME NEW i \in DOMAIN new, NEW j \in DOMAIN new, i < j, new[i].queue = new[j].queue,
               new[j].stage # "waiting"
        PROVE  new[i].stage = "done"
    <3>1. CASE j = m
      BY <2>4, <2>7, <2>8, <2>9, <3>1
    <3>2. CASE j # m
      <4>1. js[i].queue = js[j].queue /\ js[j].stage # "waiting"
        BY <2>4, <2>7, <2>9, <3>2
      <4>2. js[i].stage = "done"
        BY <2>7, <2>9, <4>1 DEF InOrder
      <4> QED
        BY <2>4, <2>7, <2>9, <4>2
    <3> QED
      BY <3>1, <3>2
  <2> QED
    BY <2>5, <2>9 DEF InOrder
<1> QED
  BY <1>1, <1>2

(* `submit` puts a job last.                                                *)
LEMMA EnqueueInOrder ==
  ASSUME NEW Q, NEW js \in Seq(AllJobs(Q)), NEW q \in Q, NEW kind \in Kinds, InOrder(js)
  PROVE  InOrder(Enqueue(js, q, kind))
<1>1. PICK w : w = [queue |-> q, kind |-> kind, stage |-> "waiting"]
  OBVIOUS
<1>2. w \in AllJobs(Q) /\ w.stage = "waiting"
  BY <1>1 DEF AllJobs, Stages
<1>3. PICK a : a = Append(js, w)
  OBVIOUS
<1>4. /\ a \in Seq(AllJobs(Q)) /\ Len(js) \in Nat /\ DOMAIN js = 1..Len(js)
      /\ DOMAIN a = 1..Len(js) + 1 /\ a[Len(js) + 1] = w
      /\ \A k \in DOMAIN js : a[k] = js[k]
  BY <1>2, <1>3
<1>5. InOrder(a)
  <2> SUFFICES ASSUME NEW i \in DOMAIN a, NEW j \in DOMAIN a, i < j, a[i].queue = a[j].queue,
                      a[j].stage # "waiting"
               PROVE  a[i].stage = "done"
    BY DEF InOrder
  <2>1. j # Len(js) + 1
    BY <1>2, <1>4
  <2>2. i \in DOMAIN js /\ j \in DOMAIN js
    BY <1>4, <2>1
  <2> QED
    BY <1>4, <2>2 DEF InOrder
<1>6. InOrder(StartNext(a, q))
  BY <1>4, <1>5, StartNextInOrder
<1> QED
  BY <1>1, <1>3, <1>6 DEF Enqueue

(* A job that is begun goes on.                                             *)
LEMMA StageInOrder ==
  ASSUME TypeOK, InOrder(jobs), NEW j \in DOMAIN jobs, jobs[j].stage \notin {"waiting", "done"},
         NEW to \in Stages
  PROVE  InOrder([jobs EXCEPT ![j].stage = to])
<1>1. PICK js : js = [jobs EXCEPT ![j].stage = to]
  OBVIOUS
<1>2. /\ DOMAIN js = DOMAIN jobs /\ js[j].queue = jobs[j].queue
      /\ \A k \in DOMAIN jobs : k # j => js[k] = jobs[k]
  BY <1>1, StageFacts
<1> SUFFICES ASSUME NEW i \in DOMAIN js, NEW k \in DOMAIN js, i < k, js[i].queue = js[k].queue,
                    js[k].stage # "waiting"
             PROVE  js[i].stage = "done"
  BY <1>1 DEF InOrder
<1>3. i \in Nat /\ k \in Nat /\ i # k
  BY <1>2, TypeFacts
<1>4. jobs[i].queue = jobs[k].queue /\ jobs[k].stage # "waiting"
  BY <1>2
<1>5. jobs[i].stage = "done"
  BY <1>2, <1>4 DEF InOrder
<1> QED
  BY <1>2, <1>5

(* Jobs that are done give nobody company.                                  *)
LEMMA AloneStays ==
  ASSUME NEW js, NEW new, NEW qs, Alone(js, qs), DOMAIN new = DOMAIN js,
         \A k \in DOMAIN js : new[k].queue = js[k].queue /\ (js[k].stage = "done" => new[k].stage = "done")
  PROVE  Alone(new, qs)
BY DEF Alone

(* A job submitted to the window's queue is for the repository on the       *)
(* screen, and no other queue has jobs left for that.                       *)
LEMMA EnqueueAlone ==
  ASSUME IInv, ~split, Alone(jobs, queues), NEW kind \in Kinds
  PROVE  Alone(Enqueue(jobs, queue, kind), queues)
<1>1. PICK new, n : new = Enqueue(jobs, queue, kind) /\ n = Len(jobs) + 1
  OBVIOUS
<1>2. /\ DOMAIN new = DOMAIN jobs \cup {n} /\ n \notin DOMAIN jobs
      /\ \A k \in DOMAIN jobs :
           /\ new[k].queue = jobs[k].queue /\ new[k].kind = jobs[k].kind
           /\ \/ new[k].stage = jobs[k].stage
              \/ jobs[k].stage = "waiting" /\ new[k].stage = "running"
      /\ new[n].queue = queue
  <2>1. TypeOK
    BY DEF IInv
  <2>2. Adds(new, n, kind)
    BY <1>1, <2>1, NewJobFacts
  <2> QED
    BY <2>2 DEF Adds
<1>3. \A k \in DOMAIN jobs :
        new[k].stage # "done" => jobs[k].stage # "done"
  BY <1>2
<1>4. queues[queue] = repo
      /\ \A k \in DOMAIN jobs :
           jobs[k].stage # "done" /\ queues[jobs[k].queue] = repo => jobs[k].queue = queue
  BY DEF IInv, OneQueue
<1> SUFFICES ASSUME NEW i \in DOMAIN new, NEW k \in DOMAIN new,
                    new[i].stage # "done", new[k].stage # "done",
                    queues[new[i].queue] = queues[new[k].queue]
             PROVE  new[i].queue = new[k].queue
  BY <1>1 DEF Alone
<1>5. ASSUME NEW x \in DOMAIN new, x # n PROVE x \in DOMAIN jobs /\ new[x].queue = jobs[x].queue
  BY <1>2, <1>5
<1>6. CASE i = n /\ k = n
  BY <1>6
<1>7. CASE i = n /\ k # n
  BY <1>2, <1>3, <1>4, <1>5, <1>7
<1>8. CASE i # n /\ k = n
  BY <1>2, <1>3, <1>4, <1>5, <1>8
<1>9. CASE i # n /\ k # n
  BY <1>3, <1>5, <1>9 DEF Alone
<1> QED
  BY <1>6, <1>7, <1>8, <1>9

(* `open_repository`: a second queue for a repository is counted as such.   *)
LEMMA OpenKeepsSerial ==
  ASSUME TypeOK, NEW js \in Seq(AllJobs(DOMAIN queues)), InOrder(js), ~split => Alone(js, queues),
         NEW r, NEW fl, Open(r, js, fl), jobs' = js
  PROVE  SerialInv'
<1>1. split \in BOOLEAN /\ (split => split')
  BY DEF Open, TypeOK
<1>2. \A k \in DOMAIN js : queues'[js[k].queue] = queues[js[k].queue]
  <2>1. \A q \in DOMAIN queues : queues'[q] = queues[q]
    <3>1. CASE queues[queue] = r
      BY <3>1 DEF Open
    <3>2. CASE queues[queue] # r
      <4>1. queues' = Append(queues, r) /\ queues \in Seq(Repos)
        BY <3>2 DEF Open, TypeOK
      <4> QED
        BY <4>1
    <3> QED
      BY <3>1, <3>2
  <2> QED
    BY <2>1, JobFacts
<1>3. ~split' => Alone(js, queues')
  BY <1>1, <1>2 DEF Alone
<1> QED
  BY <1>3 DEF SerialInv, QueuesAreSerial

(* The rest of `_on_done`.                                                  *)
LEMMA AfterSlotsKeepsSerial ==
  ASSUME TypeOK, NEW js \in Seq(AllJobs(DOMAIN queues)), InOrder(js), ~split => Alone(js, queues),
         NEW j, NEW fl, AfterSlots(j, js, fl)
  PROVE  SerialInv'
<1>1. PICK q, s, r : q = jobs[j].queue /\ s = StartNext(js, q) /\ r = repo
  OBVIOUS
<1>2. /\ s \in Seq(AllJobs(DOMAIN queues)) /\ Len(s) = Len(js) /\ DOMAIN s = DOMAIN js
      /\ \A k \in DOMAIN js :
           /\ s[k].queue = js[k].queue
           /\ \/ s[k].stage = js[k].stage
              \/ js[k].stage = "waiting" /\ s[k].stage = "running"
  BY <1>1, StartNextFacts
<1>3. \A k \in DOMAIN js : js[k].stage = "done" => s[k].stage = "done"
  BY <1>2
<1>4. InOrder(s) /\ (~split => Alone(s, queues)) /\ jobs' = s
  BY <1>1, <1>2, <1>3, StartNextInOrder, AloneStays DEF AfterSlots
<1>5. CASE q = queue /\ ~Busy(s, q) /\ fl
  <2>1. Open(r, s, FALSE)
    BY <1>1, <1>5 DEF AfterSlots, Open, Load
  <2> QED
    BY <1>2, <1>4, <2>1, OpenKeepsSerial
<1>6. CASE ~(q = queue /\ ~Busy(s, q) /\ fl)
  BY <1>1, <1>4, <1>6 DEF AfterSlots, NoReload, SerialInv, QueuesAreSerial
<1> QED
  BY <1>5, <1>6

(* Every step keeps the queues serial, each and, unless one was made while  *)
(* another of its repository was busy, together.                            *)
LEMMA NextKeepsSerial == IInv /\ SerialInv /\ [Next]_vars => SerialInv'
<1> SUFFICES ASSUME IInv, SerialInv, [Next]_vars PROVE SerialInv'
  OBVIOUS
<1>1. /\ jobs \in Seq(AllJobs(DOMAIN queues)) /\ InOrder(jobs) /\ (~split => Alone(jobs, queues))
      /\ TypeOK /\ queue \in DOMAIN queues /\ stack \in Seq(Frames(jobs))
  BY TypeFacts DEF IInv, SerialInv, QueuesAreSerial
<1>2. ASSUME NEW k \in Kinds, Submits(k) PROVE SerialInv'
  <2>1. jobs' = Enqueue(jobs, queue, k) /\ queues' = queues /\ split' = split
    BY <1>2 DEF Submits, NoReload
  <2>2. InOrder(Enqueue(jobs, queue, k))
    BY <1>1, EnqueueInOrder
  <2>3. ~split => Alone(Enqueue(jobs, queue, k), queues)
    BY <1>1, EnqueueAlone
  <2> QED
    BY <2>1, <2>2, <2>3 DEF SerialInv, QueuesAreSerial
<1>3. ASSUME NEW r \in Repos, Opens(r) PROVE SerialInv'
  <2>1. Open(r, jobs, flag) /\ jobs' = jobs
    BY <1>3 DEF Opens
  <2> QED
    BY <1>1, <2>1, OpenKeepsSerial
<1>4. ASSUME NEW j \in DOMAIN jobs, Works(j) PROVE SerialInv'
  <2>1. PICK to \in Outcomes, changes \in BOOLEAN : JobEnds(j, to, changes)
    BY <1>4 DEF Works
  <2>2. PICK js : js = [jobs EXCEPT ![j].stage = to]
    OBVIOUS
  <2>3. jobs[j].stage = "running" /\ jobs' = js /\ queues' = queues /\ split' = split
    BY <2>1, <2>2 DEF JobEnds, NoReload
  <2>4. to \in Stages
    BY DEF Outcomes, Stages
  <2>5. InOrder(js)
    BY <1>1, <2>2, <2>3, <2>4, StageInOrder
  <2>6. DOMAIN js = DOMAIN jobs
        /\ \A k \in DOMAIN jobs : js[k].queue = jobs[k].queue /\ (jobs[k].stage = "done" => js[k].stage = "done")
    BY <1>1, <2>2, <2>3, <2>4, StageFacts
  <2>7. ~split => Alone(js, queues)
    BY <1>1, <2>6, AloneStays
  <2> QED
    BY <2>3, <2>5, <2>7 DEF SerialInv, QueuesAreSerial
<1>5. ASSUME NEW j \in DOMAIN jobs, Reports(j) PROVE SerialInv'
  <2>1. PICK dialog \in BOOLEAN : OnDone(j, dialog)
    BY <1>5 DEF Reports
  <2>2. PICK js, fl : js = [jobs EXCEPT ![j].stage = "done"] /\ fl = FlagAfter(j, jobs[j].stage)
    OBVIOUS
  <2>3. jobs[j].stage \in {"succeeded", "failed"} /\ "done" \in Stages
    BY <2>1 DEF OnDone, Stages
  <2>4. InOrder(js)
    BY <1>1, <2>2, <2>3, StageInOrder
  <2>5. /\ js \in Seq(AllJobs(DOMAIN queues)) /\ DOMAIN js = DOMAIN jobs
        /\ \A k \in DOMAIN jobs : js[k].queue = jobs[k].queue /\ (jobs[k].stage = "done" => js[k].stage = "done")
    BY <1>1, <2>2, <2>3, StageFacts
  <2>6. ~split => Alone(js, queues)
    BY <1>1, <2>5, AloneStays
  <2>7. CASE dialog
    <3>1. jobs' = js /\ queues' = queues /\ split' = split
      BY <2>1, <2>2, <2>7 DEF OnDone, NoReload
    <3> QED
      BY <2>4, <2>6, <3>1 DEF SerialInv, QueuesAreSerial
  <2>8. CASE ~dialog
    <3>1. AfterSlots(j, js, fl)
      BY <2>1, <2>2, <2>8 DEF OnDone
    <3> QED
      BY <1>1, <2>4, <2>5, <2>6, <3>1, AfterSlotsKeepsSerial
  <2> QED
    BY <2>7, <2>8
<1>6. ASSUME NEW b \in BOOLEAN, DialogCloses(b) PROVE SerialInv'
  <2>1. PICK js, kind : kind = "commit" /\ js = IF b THEN Enqueue(jobs, queue, kind) ELSE jobs
    OBVIOUS
  <2>2. kind \in Kinds
    BY <2>1 DEF Kinds
  <2>3. js \in Seq(AllJobs(DOMAIN queues)) /\ InOrder(js) /\ (~split => Alone(js, queues))
    BY <1>1, <2>1, <2>2, EnqueueFacts, EnqueueInOrder, EnqueueAlone
  <2>4. PICK j, fl : j = Head(stack).job /\ fl = FlagAfter(Head(stack).job, Head(stack).outcome)
    OBVIOUS
  <2>5. AfterSlots(j, js, fl)
    BY <1>6, <2>1, <2>4 DEF DialogCloses
  <2> QED
    BY <1>1, <2>3, <2>5, AfterSlotsKeepsSerial
<1>7. ASSUME NEW l \in {0, 1}, LoaderReads(l) \/ OnLoaded(l) PROVE SerialInv'
  BY <1>7 DEF LoaderReads, OnLoaded, SerialInv, QueuesAreSerial
<1>8. CASE UNCHANGED vars
  BY <1>8 DEF vars, SerialInv, QueuesAreSerial
<1> QED
  BY <1>2, <1>3, <1>4, <1>5, <1>6, <1>7, <1>8 DEF Next

(* So the queues stay from the beginning.                                   *)
LEMMA SerialInvariant == Spec => []SerialInv
<1>1. Init => SerialInv
  BY DEF Init, SerialInv, QueuesAreSerial, InOrder, Alone
<1> QED
  BY <1>1, NextKeepsSerial, SessionInvariant, PTL DEF Spec

(* WriteQueue, seen from the window: the jobs of every queue, those that    *)
(* were abandoned included, run one after the other in the order of their   *)
(* submission.                                                              *)
THEOREM QueuesStaySerial == Spec => []QueuesAreSerial
<1>1. SerialInv => QueuesAreSerial
  BY DEF SerialInv
<1> QED
  BY <1>1, SerialInvariant, PTL

(* write_queue.py:3-4: two writes at once to a repository take a queue that *)
(* was made while another one of the same repository had jobs left, by      *)
(* leaving the repository and coming back.  There is no other way.          *)
THEOREM OneWriterUnlessReopened == Spec => [](~split => OneWriterPerRepo)
<1>1. IInv /\ SerialInv => (~split => OneWriterPerRepo)
  <2> SUFFICES ASSUME IInv, SerialInv, ~split, NEW i \in DOMAIN jobs, NEW j \in DOMAIN jobs, i # j,
                      jobs[i].stage = "running", jobs[j].stage = "running",
                      queues[jobs[i].queue] = queues[jobs[j].queue]
               PROVE  FALSE
    BY DEF OneWriterPerRepo
  <2>1. jobs[i].queue = jobs[j].queue
    BY DEF SerialInv, Alone
  <2>2. i \in Nat /\ j \in Nat
    BY TypeFacts DEF IInv
  <2>3. i < j \/ j < i
    BY <2>2
  <2> QED
    BY <2>1, <2>3 DEF SerialInv, QueuesAreSerial, InOrder
<1> QED
  BY <1>1, SessionInvariant, SerialInvariant, PTL
===============================================================================
