------------------------------ MODULE WriteQueue ------------------------------
(***************************************************************************)
(* application/write_queue.py: the queue that serialises the writes to one  *)
(* repository.                                                              *)
(*                                                                         *)
(* The queue belongs to the UI thread.  `submit` and `_on_done` run there;  *)
(* the body of a job runs on a thread of the pool, and its `succeeded` or   *)
(* `failed` signal is queued to the UI thread's event loop.  The queue's    *)
(* own signals are direct connections: a slot may open a modal dialog,      *)
(* whose nested event loop runs other slots, submits jobs and delivers      *)
(* completions while `_on_done` is suspended in the middle.  `stack` holds  *)
(* the suspended calls, innermost first.                                    *)
(*                                                                         *)
(* A job's outcome is left out: `_on_done` treats a success and a failure   *)
(* alike but for the signal's name.                                         *)
(***************************************************************************)
EXTENDS Naturals, Sequences

CONSTANT MaxJobs   \* bound on the number of jobs ever submitted

ASSUME JobsAssumption == MaxJobs \in Nat

Jobs == 1..MaxJobs

NoJob == 0         \* `_active is None`; `_next_id` starts at 1

Phases == {"unborn", "waiting", "pooled", "running", "posted", "handled"}

(* A suspended call of `_on_done`: inside the emission of job_succeeded or  *)
(* job_failed ("emit") or of idle ("idle"); `modal` when the slot is in a   *)
(* dialog, so that a nested event loop is running.                          *)
Frames == [kind : {"emit", "idle"}, modal : BOOLEAN]

VARIABLES
  pending,   \* _pending: the ids waiting, oldest first
  active,    \* _active: the job given to the pool, or NoJob
  nextId,    \* _next_id
  phase,     \* how far each job has come
  stack,     \* the suspended calls of the UI thread, innermost first
  owed       \* history: a completion was reported and no idle() followed yet

vars == <<pending, active, nextId, phase, stack, owed>>

Init ==
  /\ pending = <<>>
  /\ active = NoJob
  /\ nextId = 1
  /\ phase = [j \in Jobs |-> "unborn"]
  /\ stack = <<>>
  /\ owed = FALSE

-------------------------------------------------------------------------------
(* `is_busy`, of the given values of `_active` and `_pending`.              *)
IsBusy(act, pend) == act # NoJob \/ pend # <<>>

(* A faulty form of the next operator: it takes the newest job (`pop` for   *)
(* `popleft`).                                                              *)
StartNextIfIdle_Newest(act, pend, ph) ==
  IF act # NoJob \/ pend = <<>>
  THEN active' = act /\ pending' = pend /\ phase' = ph
  ELSE /\ active' = pend[Len(pend)]
       /\ pending' = SubSeq(pend, 1, Len(pend) - 1)
       /\ phase' = [ph EXCEPT ![pend[Len(pend)]] = "pooled"]

(* `_start_next_if_idle`, from the given `_active`, `_pending` and phases.   *)
StartNextIfIdle(act, pend, ph) ==
  IF act # NoJob \/ pend = <<>>
  THEN /\ active' = act
       /\ pending' = pend
       /\ phase' = ph
  ELSE /\ active' = Head(pend)
       /\ pending' = Tail(pend)
       /\ phase' = [ph EXCEPT ![Head(pend)] = "pooled"]

(* `submit`: by the user, or by a slot on the stack.                        *)
Submit ==
  /\ nextId <= MaxJobs
  /\ nextId' = nextId + 1
  /\ StartNextIfIdle(active, Append(pending, nextId),
                     [phase EXCEPT ![nextId] = "waiting"])
  /\ UNCHANGED <<stack, owed>>

(* The pool gives the job a thread, which opens an engine of its own.       *)
Begin(j) ==
  /\ phase[j] = "pooled"
  /\ phase' = [phase EXCEPT ![j] = "running"]
  /\ UNCHANGED <<pending, active, nextId, stack, owed>>

(* The job returns or raises: either way one signal is queued to the UI.    *)
Finish(j) ==
  /\ phase[j] = "running"
  /\ phase' = [phase EXCEPT ![j] = "posted"]
  /\ UNCHANGED <<pending, active, nextId, stack, owed>>

(* An event loop is running: the outermost, or that of a dialog.            *)
LoopRuns == IF stack = <<>> THEN TRUE ELSE Head(stack).modal

(* `_on_done`, up to the emission of the job's signal; `m`: a slot of the   *)
(* signal opens a dialog.  The event of a runnable that is not the active   *)
(* one is dropped.                                                          *)
OnDone(j, m) ==
  /\ LoopRuns
  /\ phase[j] = "posted"
  /\ phase' = [phase EXCEPT ![j] = "handled"]
  /\ IF j = active
     THEN /\ active' = NoJob
          /\ stack' = <<[kind |-> "emit", modal |-> m]>> \o stack
          /\ owed' = TRUE
     ELSE UNCHANGED <<active, stack, owed>>
  /\ UNCHANGED <<pending, nextId>>

(* Faulty forms of the next operator: idle() is decided by `_pending` alone *)
(* and forgets the job a slot has started; the next job is not started; the *)
(* test of `is_busy` is inverted.                                           *)
AfterEmit_PendingOnly(m) ==
  /\ StartNextIfIdle(active, pending, phase)
  /\ IF pending # <<>>
     THEN stack' = Tail(stack) /\ UNCHANGED owed
     ELSE /\ stack' = <<[kind |-> "idle", modal |-> m]>> \o Tail(stack)
          /\ owed' = FALSE
  /\ UNCHANGED nextId

AfterEmit_NoRestart(m) ==
  /\ UNCHANGED <<active, pending, phase, nextId>>
  /\ IF IsBusy(active, pending)
     THEN stack' = Tail(stack) /\ UNCHANGED owed
     ELSE /\ stack' = <<[kind |-> "idle", modal |-> m]>> \o Tail(stack)
          /\ owed' = FALSE

AfterEmit_Inverted(m) ==
  /\ StartNextIfIdle(active, pending, phase)
  /\ IF ~IsBusy(active', pending')
     THEN stack' = Tail(stack) /\ UNCHANGED owed
     ELSE /\ stack' = <<[kind |-> "idle", modal |-> m]>> \o Tail(stack)
          /\ owed' = FALSE
  /\ UNCHANGED nextId

(* `_on_done`, after the emission: the next job is started and idle() is    *)
(* emitted if, *now*, there is nothing left to do.  `m`: a slot of idle()   *)
(* opens a dialog.                                                          *)
AfterEmit(m) ==
  /\ StartNextIfIdle(active, pending, phase)
  /\ IF IsBusy(active', pending')
     THEN /\ stack' = Tail(stack)
          /\ UNCHANGED owed
     ELSE /\ stack' = <<[kind |-> "idle", modal |-> m]>> \o Tail(stack)
          /\ owed' = FALSE
  /\ UNCHANGED nextId

(* `_on_done` returns after the emission of idle().                         *)
AfterIdle ==
  /\ stack' = Tail(stack)
  /\ UNCHANGED <<pending, active, nextId, phase, owed>>

(* The innermost slot returns: at once, or when the user closes its dialog. *)
Return(m) ==
  /\ stack # <<>>
  /\ CASE Head(stack).kind = "emit" -> AfterEmit(m)
       [] Head(stack).kind = "idle" -> AfterIdle

SlotReturns(m) == stack # <<>> /\ ~Head(stack).modal /\ Return(m)
DialogCloses(m) == stack # <<>> /\ Head(stack).modal /\ Return(m)

Next ==
  \/ Submit
  \/ \E j \in Jobs : Begin(j) \/ Finish(j)
  \/ \E j \in Jobs, m \in BOOLEAN : OnDone(j, m)
  \/ \E m \in BOOLEAN : SlotReturns(m) \/ DialogCloses(m)

Spec == Init /\ [][Next]_vars

(* The pool runs what it is given, a job ends, the event loop delivers what *)
(* is posted and a slot without a dialog returns.  Nobody has to submit.    *)
Progress ==
  /\ \A j \in Jobs :
       /\ WF_vars(Begin(j))
       /\ WF_vars(Finish(j))
       /\ WF_vars(\E m \in BOOLEAN : OnDone(j, m))
  /\ WF_vars(\E m \in BOOLEAN : SlotReturns(m))

(* The user closes, sooner or later, the dialogs the slots open.            *)
UserAnswers == WF_vars(\E m \in BOOLEAN : DialogCloses(m))

FairSpec == Spec /\ Progress /\ UserAnswers
UnansweredSpec == Spec /\ Progress
-------------------------------------------------------------------------------
(* Every variable has its type.                                             *)
TypeOK ==
  /\ pending \in Seq(Jobs)
  /\ active \in Jobs \cup {NoJob}
  /\ nextId \in 1..(MaxJobs + 1)
  /\ phase \in [Jobs -> Phases]
  /\ stack \in Seq(Frames)
  /\ owed \in BOOLEAN

(* Two jobs of one queue never write at the same time, however deep the     *)
(* slots of job_succeeded and idle re-enter `submit` (write_queue.py:3).    *)
OneWriter ==
  \A j, k \in Jobs : phase[j] = "running" /\ phase[k] = "running" => j = k

(* The guard at the head of `_on_done` is, as its comment says, defensive:  *)
(* a completion that arrives is always that of the active job.              *)
CompletionIsActive ==
  \A j \in Jobs : phase[j] = "posted" => j = active

Emitting == \E i \in DOMAIN stack : stack[i].kind = "emit"

(* The queue does not stall: jobs wait while none is active only as long as *)
(* a slot of job_succeeded or job_failed holds up an `_on_done`, which then *)
(* starts the next one.                                                     *)
NoStall == active = NoJob /\ pending # <<>> => Emitting

(* No refresh is lost: when everything is done and no `_on_done` remains to *)
(* be finished, an idle() followed the last completion that was reported.   *)
IdleNotLost == ~IsBusy(active, pending) /\ owed => Emitting

EmitsIdle ==
  /\ stack # <<>> /\ stack' # <<>>
  /\ Len(stack') = Len(stack)
  /\ Head(stack').kind = "idle" /\ Head(stack).kind = "emit"

(* idle() makes the window reload the repository, so it is never emitted    *)
(* while a job waits, writes or has still to be reported, one that a slot   *)
(* started during the emission included.                                    *)
IdleIsQuiet ==
  [][EmitsIdle => \A j \in Jobs : phase[j] \in {"unborn", "handled"}]_vars

(* Each job submitted is run, and its outcome reported.                     *)
EveryJobReported ==
  \A j \in Jobs : phase[j] = "waiting" ~> phase[j] = "handled"

(* What write_queue.py:7 says: a job that fails does not hold the later     *)
(* ones hostage.  It does until the user closes the dialog that reports it. *)
NobodyHostage ==
  \A j \in Jobs : phase[j] = "waiting" ~> phase[j] # "waiting"

(* What the repository and the submitter see of the queue.                  *)
InPhase(ps) == {j \in Jobs : phase[j] \in ps}

Serial == INSTANCE SerialExecutor WITH
  submitted <- InPhase(Phases \ {"unborn"}),
  writing   <- InPhase({"running"}),
  written   <- InPhase({"posted", "handled"}),
  reported  <- InPhase({"handled"})

(* The queue is a serial executor: one job at a time, in submission order,  *)
(* each reported once and in order.                                         *)
ImplementsSerial == Serial!Spec
===============================================================================
