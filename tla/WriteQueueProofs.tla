--------------------------- MODULE WriteQueueProofs ---------------------------
(***************************************************************************)
(* Proofs about WriteQueue, for every number of jobs.                       *)
(*                                                                         *)
(* The invariants the runs check are not inductive: that at most one job    *)
(* runs says nothing of the job the next `_start_next_if_idle` pops.  The   *)
(* strengthening is that the queue never loses count.  Ids grow by one, so  *)
(* `_pending` always holds the last Len(pending) ids that were handed out,  *)
(* in order, and the phase of a job is known from its id alone: unborn from *)
(* `_next_id` on, waiting above `Started`, in flight if and only if it is   *)
(* the active one (which can only be `Started`), handled otherwise.         *)
(***************************************************************************)
EXTENDS WriteQueue, TLAPS

(* The youngest job that has left `_pending`, when n is the next id.        *)
Started(pend, n) == n - 1 - Len(pend)

InFlight == {"pooled", "running", "posted"}

(* The ledger is stated of given values, because `submit` establishes it    *)
(* halfway, between the append and the start of the next job.               *)
Ledger(act, pend, n, ph) ==
  /\ pend \in Seq(Jobs)
  /\ act \in Jobs \cup {NoJob}
  /\ n \in 1..(MaxJobs + 1)
  /\ ph \in [Jobs -> Phases]
  /\ Len(pend) <= n - 1
  /\ \A i \in 1..Len(pend) : pend[i] = Started(pend, n) + i
  /\ \A j \in Jobs :
       /\ ph[j] = "unborn" <=> n <= j
       /\ ph[j] = "waiting" <=> Started(pend, n) < j /\ j < n
       /\ ph[j] \in InFlight <=> j = act
  /\ act # NoJob => act = Started(pend, n)

IInv ==
  /\ Ledger(active, pending, nextId, phase)
  /\ stack \in Seq(Frames)
  /\ owed \in BOOLEAN
  /\ NoStall
  /\ IdleNotLost

-------------------------------------------------------------------------------
(* `_start_next_if_idle` keeps the ledger, and leaves the queue with an     *)
(* active job unless nothing was waiting.                                   *)
LEMMA StartKeepsLedger ==
  ASSUME NEW act, NEW pend, NEW n, NEW ph,
         Ledger(act, pend, n, ph),
         StartNextIfIdle(act, pend, ph)
  PROVE  /\ Ledger(active', pending', n, phase')
         /\ active' = NoJob => pend = <<>> /\ pending' = <<>>
<1>1. CASE act # NoJob \/ pend = <<>>
  BY <1>1 DEF StartNextIfIdle
<1>2. CASE ~(act # NoJob \/ pend = <<>>)
  <2> DEFINE j == Head(pend)
  <2>1. /\ act = NoJob /\ pend # <<>>
        /\ active' = j
        /\ pending' = Tail(pend)
        /\ phase' = [ph EXCEPT ![j] = "pooled"]
    BY <1>2 DEF StartNextIfIdle
  <2>2. /\ j \in Jobs
        /\ j = pend[1]
        /\ Len(pend) \in Nat \ {0}
        /\ Tail(pend) \in Seq(Jobs)
        /\ Len(Tail(pend)) = Len(pend) - 1
        /\ \A i \in 1..(Len(pend) - 1) : Tail(pend)[i] = pend[i + 1]
    BY <2>1 DEF Ledger
  <2>3. /\ j = Started(pend, n) + 1
        /\ Started(Tail(pend), n) = Started(pend, n) + 1
    BY <2>1, <2>2, JobsAssumption DEF Ledger, Started, Jobs
  <2>4. /\ Len(Tail(pend)) <= n - 1
        /\ \A i \in 1..Len(Tail(pend)) : Tail(pend)[i] = Started(Tail(pend), n) + i
    BY <2>2, <2>3, JobsAssumption DEF Ledger, Started, Jobs
  <2>5. ASSUME NEW k \in Jobs
        PROVE  /\ phase'[k] = "unborn" <=> n <= k
               /\ phase'[k] = "waiting" <=> Started(Tail(pend), n) < k /\ k < n
               /\ phase'[k] \in InFlight <=> k = j
    BY <2>1, <2>2, <2>3, JobsAssumption
    DEF Ledger, Started, Jobs, NoJob, InFlight, Phases
  <2>6. j # NoJob /\ phase' \in [Jobs -> Phases]
    BY <2>1, <2>2, JobsAssumption DEF Jobs, NoJob, Ledger, Phases
  <2> QED
    BY <2>1, <2>2, <2>3, <2>4, <2>5, <2>6 DEF Ledger
<1> QED
  BY <1>1, <1>2

(* Popping the innermost frame, and pushing one.                            *)
LEMMA StackFacts ==
  ASSUME stack \in Seq(Frames), NEW f \in Frames
  PROVE  /\ <<f>> \o stack \in Seq(Frames)
         /\ f.kind = "emit" => \E i \in DOMAIN (<<f>> \o stack) :
                                  (<<f>> \o stack)[i].kind = "emit"
         /\ stack # <<>> =>
              /\ Head(stack) \in Frames
              /\ Tail(stack) \in Seq(Frames)
              /\ <<f>> \o Tail(stack) \in Seq(Frames)
              /\ Head(stack).kind = "idle" /\ Emitting =>
                   \E i \in DOMAIN Tail(stack) : Tail(stack)[i].kind = "emit"
<1>1. <<f>> \in Seq(Frames) /\ Len(<<f>>) = 1 /\ <<f>>[1] = f
  OBVIOUS
<1>2. /\ <<f>> \o stack \in Seq(Frames)
      /\ Len(<<f>> \o stack) = 1 + Len(stack)
      /\ (<<f>> \o stack)[1] = f
  BY <1>1
<1>3. ASSUME stack # <<>>
      PROVE  /\ Head(stack) = stack[1] /\ Head(stack) \in Frames
             /\ Tail(stack) \in Seq(Frames)
             /\ Len(Tail(stack)) = Len(stack) - 1
             /\ \A i \in 1..Len(Tail(stack)) : Tail(stack)[i] = stack[i + 1]
  BY <1>3
<1>4. ASSUME stack # <<>>, Head(stack).kind = "idle", Emitting
      PROVE  \E i \in DOMAIN Tail(stack) : Tail(stack)[i].kind = "emit"
  <2>1. PICK i \in DOMAIN stack : stack[i].kind = "emit"
    BY <1>4 DEF Emitting
  <2>2. i \in Nat /\ i >= 2 /\ i - 1 \in 1..Len(Tail(stack))
    BY <2>1, <1>3, <1>4
  <2>3. Tail(stack)[i - 1].kind = "emit" /\ i - 1 \in DOMAIN Tail(stack)
    BY <2>1, <2>2, <1>3, <1>4
  <2> QED BY <2>3
<1>5. ASSUME stack # <<>> PROVE <<f>> \o Tail(stack) \in Seq(Frames)
  BY <1>1, <1>3, <1>5
<1> QED
  BY <1>2, <1>3, <1>4, <1>5

(* What kinds the frames of a stack can be of.                              *)
LEMMA FrameKinds ==
  ASSUME stack \in Seq(Frames), stack # <<>>
  PROVE  Head(stack).kind \in {"emit", "idle"}
<1>1. Head(stack) \in Frames
  OBVIOUS
<1> QED
  BY <1>1 DEF Frames

-------------------------------------------------------------------------------
(* An empty queue keeps the ledger.                                         *)
LEMMA InitIInv == Init => IInv
<1> SUFFICES ASSUME Init PROVE IInv
  OBVIOUS
<1>1. Ledger(active, pending, nextId, phase)
  BY JobsAssumption DEF Init, Ledger, Started, Jobs, NoJob, InFlight, Phases
<1>2. stack \in Seq(Frames)
  BY DEF Init
<1>3. owed \in BOOLEAN
  BY DEF Init
<1>4. NoStall /\ IdleNotLost
  BY Zenon DEF Init, NoStall, IdleNotLost
<1> QED
  BY <1>1, <1>2, <1>3, <1>4 DEF IInv

(* `submit` appends the new id: the ledger of the state in which            *)
(* `_start_next_if_idle` is called.                                         *)
LEMMA SubmitKeepsLedger ==
  ASSUME IInv, Submit
  PROVE  Ledger(active, Append(pending, nextId), nextId + 1,
                [phase EXCEPT ![nextId] = "waiting"])
<1> DEFINE pend == Append(pending, nextId)
           ph == [phase EXCEPT ![nextId] = "waiting"]
<1>1. /\ nextId \in Jobs
  BY JobsAssumption DEF Submit, IInv, Ledger, Jobs
<1>2. /\ pend \in Seq(Jobs) /\ pend # <<>>
      /\ Len(pend) = Len(pending) + 1
      /\ \A i \in 1..Len(pending) : pend[i] = pending[i]
      /\ pend[Len(pending) + 1] = nextId
      /\ Len(pending) \in Nat
      /\ Started(pend, nextId + 1) = Started(pending, nextId)
  BY <1>1, JobsAssumption DEF IInv, Ledger, Started, Jobs
<1>3. ASSUME NEW k \in Jobs
      PROVE  /\ ph[k] = "unborn" <=> nextId + 1 <= k
             /\ ph[k] = "waiting" <=> Started(pend, nextId + 1) < k /\ k < nextId + 1
             /\ ph[k] \in InFlight <=> k = active
  BY <1>1, <1>2, JobsAssumption DEF IInv, Ledger, Started, Jobs, NoJob, InFlight, Phases
<1>4. ASSUME NEW i \in 1..Len(pend)
      PROVE  pend[i] = Started(pend, nextId + 1) + i
  <2>1. Started(pend, nextId + 1) + Len(pending) + 1 = nextId
    BY <1>1, <1>2 DEF Started, Jobs
  <2>2. CASE i \in 1..Len(pending)
    BY <1>2, <2>2 DEF IInv, Ledger
  <2>3. CASE i = Len(pending) + 1
    BY <1>1, <1>2, <2>1, <2>3 DEF Jobs, Started
  <2> QED
    BY <1>2, <2>2, <2>3
<1> QED
  BY <1>1, <1>2, <1>3, <1>4, JobsAssumption DEF IInv, Ledger, Jobs, Phases

(* `submit` keeps the invariant.                                            *)
LEMMA SubmitIInv == IInv /\ Submit => IInv'
<1> SUFFICES ASSUME IInv, Submit PROVE IInv'
  OBVIOUS
<1> DEFINE pend == Append(pending, nextId)
           ph == [phase EXCEPT ![nextId] = "waiting"]
<1>1. /\ pend # <<>>
      /\ StartNextIfIdle(active, pend, ph)
      /\ nextId' = nextId + 1
      /\ stack' = stack /\ owed' = owed
  BY DEF Submit, IInv, Ledger
<1>2. Ledger(active, pend, nextId + 1, ph)
  BY SubmitKeepsLedger
<1>3. /\ Ledger(active', pending', nextId + 1, phase')
      /\ active' = NoJob => pend = <<>>
  <2> HIDE DEF pend, ph
  <2> QED
    BY <1>1, <1>2, StartKeepsLedger
<1> QED
  BY <1>1, <1>3 DEF IInv, NoStall, IdleNotLost, IsBusy

(* The pool's two steps keep the invariant.                                 *)
LEMMA PoolIInv ==
  ASSUME IInv, NEW j \in Jobs, Begin(j) \/ Finish(j)
  PROVE  IInv'
<1>1. /\ phase[j] \in InFlight
      /\ phase' = [phase EXCEPT ![j] = phase'[j]] /\ phase'[j] \in InFlight
      /\ UNCHANGED <<pending, active, nextId, stack, owed>>
  BY DEF Begin, Finish, IInv, Ledger, InFlight
<1>2. Ledger(active', pending', nextId', phase')
  BY <1>1 DEF IInv, Ledger, InFlight, Phases
<1> QED
  BY <1>1, <1>2 DEF IInv, NoStall, IdleNotLost, IsBusy, Emitting

(* The first half of `_on_done` keeps the invariant.                        *)
LEMMA OnDoneIInv ==
  ASSUME IInv, NEW j \in Jobs, NEW m \in BOOLEAN, OnDone(j, m)
  PROVE  IInv'
<1> DEFINE f == [kind |-> "emit", modal |-> m]
<1>1. /\ j = active /\ active # NoJob
      /\ phase' = [phase EXCEPT ![j] = "handled"]
      /\ active' = NoJob
      /\ stack' = <<f>> \o stack
      /\ owed' = TRUE
      /\ UNCHANGED <<pending, nextId>>
  BY JobsAssumption DEF OnDone, IInv, Ledger, InFlight, Jobs, NoJob
<1>2. f \in Frames
  BY DEF Frames
<1>3. stack' \in Seq(Frames) /\ Emitting'
  BY <1>1, <1>2, StackFacts DEF IInv, Emitting
<1>4. Ledger(active', pending', nextId', phase')
  BY <1>1, JobsAssumption DEF IInv, Ledger, InFlight, Phases, Jobs, NoJob
<1> QED
  BY <1>1, <1>3, <1>4 DEF IInv, NoStall, IdleNotLost

(* The second half of `_on_done` keeps the invariant.                       *)
LEMMA ReturnIInv ==
  ASSUME IInv, NEW m \in BOOLEAN, Return(m)
  PROVE  IInv'
<1>1. CASE Head(stack).kind = "emit"
  <2> DEFINE f == [kind |-> "idle", modal |-> m]
  <2>1. stack # <<>> /\ AfterEmit(m)
    BY <1>1 DEF Return
  <2>2. /\ Ledger(active', pending', nextId', phase')
        /\ active' = NoJob => pending' = <<>>
    BY <2>1, StartKeepsLedger DEF AfterEmit, IInv
  <2>3. f \in Frames
    BY DEF Frames
  <2>4. stack' \in Seq(Frames) /\ owed' \in BOOLEAN
    BY <2>1, <2>3, StackFacts DEF AfterEmit, IInv
  <2>5. ~IsBusy(active', pending') => owed' = FALSE
    BY <2>1 DEF AfterEmit
  <2> QED
    BY <2>2, <2>4, <2>5 DEF IInv, NoStall, IdleNotLost, IsBusy
<1>2. CASE Head(stack).kind = "idle"
  <2>1. stack # <<>> /\ AfterIdle
    BY <1>2 DEF Return
  <2>2. [kind |-> "idle", modal |-> m] \in Frames
    BY DEF Frames
  <2>3. stack' \in Seq(Frames) /\ (Emitting => Emitting')
    BY <1>2, <2>1, <2>2, StackFacts DEF IInv, AfterIdle, Emitting
  <2> QED
    BY <2>1, <2>3 DEF AfterIdle, IInv, NoStall, IdleNotLost, IsBusy
<1>3. stack # <<>> => Head(stack).kind \in {"emit", "idle"}
  BY FrameKinds DEF IInv
<1> QED
  BY <1>1, <1>2, <1>3 DEF Return

(* Every step keeps the invariant.                                          *)
LEMMA StepIInv == IInv /\ [Next]_vars => IInv'
<1> SUFFICES ASSUME IInv, [Next]_vars PROVE IInv'
  OBVIOUS
<1>1. CASE Submit
  BY <1>1, SubmitIInv
<1>2. CASE \E j \in Jobs : Begin(j) \/ Finish(j)
  BY <1>2, PoolIInv
<1>3. CASE \E j \in Jobs, m \in BOOLEAN : OnDone(j, m)
  BY <1>3, OnDoneIInv
<1>4. CASE \E m \in BOOLEAN : SlotReturns(m) \/ DialogCloses(m)
  BY <1>4, ReturnIInv DEF SlotReturns, DialogCloses
<1>5. CASE UNCHANGED vars
  BY <1>5 DEF vars, IInv, NoStall, IdleNotLost, IsBusy, Emitting
<1> QED
  BY <1>1, <1>2, <1>3, <1>4, <1>5 DEF Next

(* The queue never loses count, whatever the slots of its signals do.       *)
THEOREM LedgerKept == Spec => []IInv
  BY InitIInv, StepIInv, PTL DEF Spec

(* What the runs check as invariants follows from the inductive one.        *)
LEMMA IInvImplies ==
  IInv => TypeOK /\ OneWriter /\ CompletionIsActive /\ NoStall /\ IdleNotLost
<1> SUFFICES ASSUME IInv
             PROVE  TypeOK /\ OneWriter /\ CompletionIsActive /\ NoStall /\ IdleNotLost
  OBVIOUS
<1>1. TypeOK
  BY DEF IInv, Ledger, TypeOK
<1>2. OneWriter /\ CompletionIsActive
  BY DEF IInv, Ledger, OneWriter, CompletionIsActive, InFlight
<1> QED
  BY <1>1, <1>2 DEF IInv

(* Every state variable keeps its type.                                     *)
THEOREM TypeCorrect == Spec => []TypeOK
  BY LedgerKept, IInvImplies, PTL

(* At most one job of a queue writes at a time (write_queue.py:3).          *)
THEOREM Serialised == Spec => []OneWriter
  BY LedgerKept, IInvImplies, PTL

(* The guard at the head of `_on_done` never drops a completion.            *)
THEOREM GuardIsDefensive == Spec => []CompletionIsActive
  BY LedgerKept, IInvImplies, PTL

(* Jobs wait without an active one only under a suspended `_on_done`.       *)
THEOREM NeverStalls == Spec => []NoStall
  BY LedgerKept, IInvImplies, PTL

(* The last completion before the queue falls quiet is followed by idle().  *)
THEOREM RefreshNotLost == Spec => []IdleNotLost
  BY LedgerKept, IInvImplies, PTL
-------------------------------------------------------------------------------
(* idle() is emitted only when nothing waits, runs or is to be reported: it *)
(* is emitted with no active job and nothing pending, and then the ledger   *)
(* leaves only jobs that are handled or not yet born.                       *)
LEMMA IdleStep ==
  ASSUME IInv, [Next]_vars, EmitsIdle, NEW j \in Jobs
  PROVE  phase[j] \in {"unborn", "handled"}
<1>1. ASSUME NEW m \in BOOLEAN, Return(m)
      PROVE  phase[j] \in {"unborn", "handled"}
  <2>1. Head(stack).kind = "emit" /\ stack # <<>> /\ stack' # <<>> /\ Len(stack') = Len(stack)
    BY DEF EmitsIdle
  <2>2. AfterEmit(m)
    BY <1>1, <2>1 DEF Return
  <2>3. stack' # Tail(stack)
    BY <2>1 DEF IInv
  <2>4. ~IsBusy(active', pending')
    BY <2>2, <2>3 DEF AfterEmit
  <2>5. /\ Ledger(active', pending', nextId, phase')
        /\ active' = NoJob => pending = <<>>
    BY <2>2, StartKeepsLedger DEF AfterEmit, IInv
  <2>6. active = NoJob /\ pending = <<>>
    BY <2>2, <2>4, <2>5 DEF AfterEmit, StartNextIfIdle, IsBusy
  <2> QED
    BY <2>6, JobsAssumption
    DEF IInv, Ledger, Started, Jobs, NoJob, InFlight, Phases
<1>2. ASSUME UNCHANGED stack PROVE FALSE
  BY <1>2 DEF EmitsIdle
<1>3. ASSUME NEW k \in Jobs, NEW m \in BOOLEAN, OnDone(k, m) PROVE FALSE
  <2>1. stack' = stack \/ stack' = <<[kind |-> "emit", modal |-> m]>> \o stack
    BY <1>3 DEF OnDone
  <2>2. stack' = <<[kind |-> "emit", modal |-> m]>> \o stack => Len(stack') = Len(stack) + 1
    BY DEF IInv, Frames
  <2> QED
    BY <1>2, <2>1, <2>2 DEF EmitsIdle, IInv
<1>4. Submit \/ (\E k \in Jobs : Begin(k) \/ Finish(k)) \/ UNCHANGED vars => UNCHANGED stack
  BY DEF Submit, Begin, Finish, vars
<1> QED
  BY <1>1, <1>2, <1>3, <1>4 DEF Next, SlotReturns, DialogCloses

(* The reload that idle() triggers never races with a write of the queue.   *)
THEOREM IdleNeverRaces == Spec => IdleIsQuiet
<1>1. IInv /\ [Next]_vars => [EmitsIdle => \A j \in Jobs : phase[j] \in {"unborn", "handled"}]_vars
  BY IdleStep
<1> QED
  BY <1>1, LedgerKept, PTL DEF Spec, IdleIsQuiet

-------------------------------------------------------------------------------
(* Each step of the queue is a step of the serial executor, or leaves what  *)
(* the repository sees alone.                                               *)
LEMMA InitRefines == Init => Serial!Init
  BY DEF Init, Serial!Init, InPhase, Phases

(* What `_start_next_if_idle` does is invisible: it only moves a job from   *)
(* waiting to pooled.                                                       *)
LEMMA StartIsInvisible ==
  ASSUME NEW act, NEW pend, NEW n, NEW ph,
         Ledger(act, pend, n, ph),
         StartNextIfIdle(act, pend, ph)
  PROVE  \A j \in Jobs :
           \/ phase'[j] = ph[j]
           \/ ph[j] = "waiting" /\ phase'[j] = "pooled"
<1>1. CASE act # NoJob \/ pend = <<>>
  BY <1>1 DEF StartNextIfIdle
<1>2. CASE ~(act # NoJob \/ pend = <<>>)
  <2>1. /\ phase' = [ph EXCEPT ![Head(pend)] = "pooled"]
        /\ Head(pend) = pend[1] /\ Head(pend) \in Jobs
        /\ Len(pend) \in Nat \ {0}
    BY <1>2 DEF StartNextIfIdle, Ledger
  <2>2. ph[Head(pend)] = "waiting"
    BY <2>1, JobsAssumption DEF Ledger, Started, Jobs
  <2> QED
    BY <2>1, <2>2 DEF Ledger
<1> QED
  BY <1>1, <1>2
(* A job that the ledger says is in flight comes after handled jobs only.   *)
LEMMA EarlierAreHandled ==
  ASSUME IInv, NEW j \in Jobs, phase[j] \in InFlight
  PROVE  /\ \A k \in Jobs : phase[k] \in InFlight => k = j
         /\ \A k \in 1..(j - 1) : k \in Jobs /\ phase[k] = "handled"
<1>1. j = active /\ j = Started(pending, nextId) /\ j < nextId
  <2>1. j = active
    BY DEF IInv, Ledger
  <2>2. j # NoJob /\ Len(pending) \in Nat /\ nextId \in Nat
    BY JobsAssumption DEF IInv, Ledger, Jobs, NoJob
  <2> QED
    BY <2>1, <2>2 DEF IInv, Ledger, Started
<1>2. \A k \in Jobs : phase[k] \in InFlight => k = j
  BY <1>1 DEF IInv, Ledger
<1>3. ASSUME NEW k \in 1..(j - 1)
      PROVE  k \in Jobs /\ phase[k] = "handled"
  <2>1. k \in Jobs /\ k < j /\ k < nextId
    BY <1>1, JobsAssumption DEF Jobs, IInv, Ledger
  <2>2. phase[k] \in Phases /\ phase[k] # "unborn" /\ phase[k] # "waiting" /\ phase[k] \notin InFlight
    BY <1>1, <2>1, JobsAssumption DEF IInv, Ledger, Jobs
  <2> QED
    BY <2>1, <2>2 DEF Phases, InFlight
<1> QED
  BY <1>2, <1>3

(* Under the invariant a step of the queue is one of the serial executor,   *)
(* or invisible to it.                                                      *)
LEMMA StepRefines == IInv /\ [Next]_vars => [Serial!Next]_(Serial!vars)
<1> SUFFICES ASSUME IInv, [Next]_vars
             PROVE  Serial!Next \/ UNCHANGED Serial!vars
  BY DEF Serial!vars
<1> USE DEF InPhase, Serial!Jobs, Jobs
<1>1. CASE Submit
  <2>1. nextId \in Jobs /\ phase[nextId] = "unborn"
    BY <1>1, JobsAssumption DEF Submit, IInv, Ledger
  <2> DEFINE ph == [phase EXCEPT ![nextId] = "waiting"]
             Moved(j) == phase[j] = "waiting" /\ phase'[j] = "pooled"
  <2>2. /\ StartNextIfIdle(active, Append(pending, nextId), ph)
        /\ Ledger(active, Append(pending, nextId), nextId + 1, ph)
    BY <1>1, SubmitKeepsLedger DEF Submit
  <2>3. \A j \in Jobs : phase'[j] = ph[j] \/ (ph[j] = "waiting" /\ phase'[j] = "pooled")
    <3> HIDE DEF ph
    <3> QED
      BY <2>2, StartIsInvisible
  <2>4. /\ \A j \in Jobs : j # nextId => phase'[j] = phase[j] \/ Moved(j)
        /\ phase'[nextId] \in {"waiting", "pooled"}
    BY <2>1, <2>3 DEF IInv, Ledger
  <2>5. InPhase(Phases \ {"unborn"}) = 1..(nextId - 1)
    BY JobsAssumption DEF IInv, Ledger, Phases
  <2>6. InPhase(Phases \ {"unborn"})' = InPhase(Phases \ {"unborn"}) \cup {nextId}
    BY <2>1, <2>4 DEF Phases
  <2>7. /\ InPhase({"running"})' = InPhase({"running"})
        /\ InPhase({"posted", "handled"})' = InPhase({"posted", "handled"})
        /\ InPhase({"handled"})' = InPhase({"handled"})
    BY <2>1, <2>4
  <2>8. \E k \in Jobs : Serial!Submit(k)
    BY <2>1, <2>5, <2>6, <2>7 DEF Serial!Submit, Serial!Earlier
  <2> QED
    BY <2>8 DEF Serial!Next
<1>2. ASSUME NEW j \in Jobs, Begin(j)
      PROVE  Serial!Next
  <2>1. /\ phase[j] = "pooled" /\ phase' = [phase EXCEPT ![j] = "running"]
        /\ \A k \in Jobs : phase[k] \in InFlight => k = j
        /\ \A k \in 1..(j - 1) : k \in Jobs /\ phase[k] = "handled"
    BY <1>2, EarlierAreHandled DEF Begin, InFlight
  <2>2. Serial!Begin(j)
    BY <2>1 DEF Serial!Begin, Serial!Earlier, IInv, Ledger, Phases, InFlight
  <2> QED
    BY <2>2 DEF Serial!Next
<1>3. ASSUME NEW j \in Jobs, Finish(j)
      PROVE  Serial!Next
  <2>1. /\ phase[j] = "running" /\ phase' = [phase EXCEPT ![j] = "posted"]
        /\ \A k \in Jobs : phase[k] \in InFlight => k = j
    BY <1>3, EarlierAreHandled DEF Finish, InFlight
  <2>2. Serial!End(j)
    BY <2>1 DEF Serial!End, IInv, Ledger, Phases, InFlight
  <2> QED
    BY <2>2 DEF Serial!Next
<1>4. ASSUME NEW j \in Jobs, NEW m \in BOOLEAN, OnDone(j, m)
      PROVE  Serial!Next
  <2>1. /\ phase[j] = "posted" /\ phase' = [phase EXCEPT ![j] = "handled"]
        /\ \A k \in 1..(j - 1) : k \in Jobs /\ phase[k] = "handled"
    BY <1>4, EarlierAreHandled DEF OnDone, InFlight
  <2>2. Serial!Report(j)
    BY <2>1 DEF Serial!Report, Serial!Earlier, IInv, Ledger, Phases, InFlight
  <2> QED
    BY <2>2 DEF Serial!Next
<1>5. ASSUME NEW m \in BOOLEAN, Return(m)
      PROVE  UNCHANGED Serial!vars
  <2>1. CASE AfterIdle
    BY <2>1 DEF AfterIdle, Serial!vars
  <2>2. CASE AfterEmit(m)
    <3>1. \A j \in Jobs : \/ phase'[j] = phase[j]
                          \/ phase[j] = "waiting" /\ phase'[j] = "pooled"
      BY <2>2, StartIsInvisible DEF AfterEmit, IInv
    <3> QED
      BY <3>1 DEF Serial!vars, Phases
  <2>3. Head(stack).kind \in {"emit", "idle"}
    BY <1>5, FrameKinds DEF Return, IInv
  <2> QED
    BY <1>5, <2>1, <2>2, <2>3 DEF Return
<1>6. UNCHANGED vars => UNCHANGED Serial!vars
  BY DEF vars, Serial!vars
<1> QED
  BY <1>1, <1>2, <1>3, <1>4, <1>5, <1>6 DEF Next, SlotReturns, DialogCloses

(* The queue implements the serial executor.                                *)
THEOREM Implements == Spec => ImplementsSerial
  BY InitRefines, StepRefines, LedgerKept, PTL DEF Spec, Serial!Spec, ImplementsSerial
===============================================================================
