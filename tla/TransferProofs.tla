---------------------------- MODULE TransferProofs ----------------------------
(***************************************************************************)
(* Proofs about Transfer, for any number of workers and of files saved, and *)
(* any destination.                                                         *)
(*                                                                         *)
(* The strengthening has two parts.  What one worker knows of its git and   *)
(* of its cancellation (Sound) is the same for all workers and depends on   *)
(* nothing else, so that a worker's own step is judged by its record alone. *)
(* What is in the destination ties the clones together: the files of one    *)
(* clone at most, and its references only with its files.                   *)
(***************************************************************************)
EXTENDS Transfer, TLAPS

Gits == {"none", "running", "receiving", "done", "failed", "killed"}
Outcomes == {"none", "ok", "error"}
Killers == {"none", "sent", "failed"}

Records ==
  [kind : {"fetch", "clone"}, at : Stages, cancelled : BOOLEAN, stopped : BOOLEAN,
   aborted : BOOLEAN, held : BOOLEAN, killer : Killers, git : Gits, stray : BOOLEAN,
   started : BOOLEAN, outcome : Outcomes, recorded : BOOLEAN,
   told : SUBSET {"finished", "failed", "retired"}, raised : BOOLEAN, littered : BOOLEAN,
   created : BOOLEAN, cleanable : BOOLEAN]

(* git runs only under a worker that waits for it or is about to, or when a *)
(* kill by the worker has raised.                                           *)
GitIsWaitedFor(w) ==
  /\ w.at \in {"queued", "made", "ready"} => w.git = "none"
  /\ Alive(w) => w.at \in {"spawned", "waiting"} \/ w.raised
  /\ w.at = "waiting" => w.held
  /\ w.at \in {"settled", "tidying"} => w.outcome # "none"
  /\ w.outcome = "ok" => w.git = "done"

(* A cancel() that has returned has met the worker before its engine, then  *)
(* _cancelled stops it, or before its git, then _aborted does, or has sent  *)
(* a killer, which may have failed.                                         *)
CancelIsMet(w) ==
  /\ w.stopped => w.cancelled
  /\ w.stopped /\ w.at \in {"ready", "spawned"} => w.aborted
  /\ w.stopped /\ w.at = "waiting" => w.killer # "none" \/ ~Alive(w)

(* The engine of a clone is published before its git starts, and what git   *)
(* has moved is recorded before the worker retires, unless the worker has   *)
(* been left by a kill that raised.                                         *)
TrafficIsKnown(w) ==
  /\ w.at = "made" => w.kind = "clone"
  /\ w.kind = "clone" /\ w.at \in {"ready", "spawned", "waiting", "draining", "reaping"} => w.started
  /\ w.kind = "clone" /\ w.git # "none" => w.started
  /\ w.at \in {"tidying", "retired", "gone"} /\ w.git # "none" =>
       w.recorded \/ w.raised

Sound(w) == GitIsWaitedFor(w) /\ CancelIsMet(w) /\ TrafficIsKnown(w)

Destinations == [exists : BOOLEAN, files : SUBSET ({User} \cup Ids), complete : 0..MaxWorkers]

Typed ==
  /\ worker \in Seq(Records) /\ Len(worker) <= MaxWorkers
  /\ dest \in Destinations
  /\ slot \in 0..Len(worker)
  /\ cancelling \in 0..Len(worker)
  /\ saves \in 0..MaxSaves

(* The files of one clone at most, which has run git; references only among *)
(* its files.                                                               *)
OneCloneInside ==
  /\ dest.files # {} => dest.exists
  /\ dest.complete # None => dest.complete \in dest.files
  /\ \A i, j \in dest.files \ {User} : i = j
  /\ \A i \in dest.files \ {User} :
       i \in DOMAIN worker /\ worker[i].kind = "clone" /\ worker[i].git # "none"

(* While there is a file of the user's from before, no clone may clean and  *)
(* none has got in.                                                         *)
UsersPlaceIsLeft ==
  saves = 0 /\ User \in dest.files =>
    \A i \in DOMAIN worker : ~worker[i].cleanable /\ worker[i].git # "receiving"

DoneIsComplete ==
  \A i \in DOMAIN worker :
    worker[i].kind = "clone" /\ worker[i].git = "done" => dest.complete # None

IInv ==
  /\ Typed
  /\ \A i \in DOMAIN worker : Sound(worker[i])
  /\ cancelling # None => worker[cancelling].cancelled
  /\ OneCloneInside
  /\ UsersPlaceIsLeft
  /\ DoneIsComplete
  /\ NoLeftover

(* A worker keeps what it was made with and its failures; its git does not go *)
(* back, and gets no further with the destination.                          *)
Follows(v, w) ==
  /\ v.kind = w.kind /\ v.cleanable = w.cleanable /\ (w.raised => v.raised) /\ (w.littered => v.littered)
  /\ w.cancelled => v.cancelled
  /\ w.git # "none" => v.git # "none"
  /\ v.git = "receiving" => w.git = "receiving"
  /\ v.git = "done" => w.git = "done" \/ v.kind # "clone" \/ dest.complete # None

Safe(v, w) == v \in Records /\ Sound(v) /\ Follows(v, w)

(* ... and does not come to its end.                                        *)
Kept(v, w) == Safe(v, w) /\ (v.at = "gone" => w.at = "gone")

-------------------------------------------------------------------------------
(* Every worker has an id and a record.                                     *)
LEMMA WorkerFacts ==
  ASSUME Typed
  PROVE  /\ worker \in Seq(Records) /\ Len(worker) \in Nat /\ DOMAIN worker = 1..Len(worker)
         /\ \A i \in DOMAIN worker : worker[i] \in Records
         /\ \A i \in DOMAIN worker : i \in Ids /\ i # None
<1>1. worker \in Seq(Records) /\ Len(worker) \in Nat /\ DOMAIN worker = 1..Len(worker)
  BY DEF Typed
<1>2. \A i \in DOMAIN worker : worker[i] \in Records
  BY <1>1
<1>3. \A i \in DOMAIN worker : i \in Ids /\ i # None
  BY <1>1, TransferAssumption DEF Typed, Ids, None, TransferAssumption
<1> QED
  BY <1>1, <1>2, <1>3

(* One worker moves, the others stay as they are.                           *)
LEMMA OneMoves ==
  ASSUME Typed, NEW i \in DOMAIN worker, NEW v \in Records,
         worker' = [worker EXCEPT ![i] = v]
  PROVE  /\ worker' \in Seq(Records) /\ Len(worker') = Len(worker)
         /\ DOMAIN worker' = DOMAIN worker
         /\ worker'[i] = v
         /\ \A k \in DOMAIN worker : k # i => worker'[k] = worker[k]
BY WorkerFacts

(* A step of one worker that stays away from the destination is judged by   *)
(* the worker's record.                                                     *)
LEMMA RecordDecides ==
  ASSUME IInv, NEW i \in DOMAIN worker, NEW v, Safe(v, worker[i]),
         \/ v.at = "gone" => worker[i].at = "gone"
         \/ i \notin dest.files \/ dest.complete # None \/ ~v.cleanable,
         worker' = [worker EXCEPT ![i] = v],
         dest' = dest, saves' = saves,
         slot' \in {slot, None},
         cancelling' \in {cancelling, None} \/ (cancelling' = i /\ v.cancelled)
  PROVE  IInv'
<1> USE DEF IInv, Safe
<1>1. /\ worker' \in Seq(Records) /\ Len(worker') = Len(worker)
      /\ DOMAIN worker' = DOMAIN worker
      /\ worker'[i] = v
      /\ \A k \in DOMAIN worker : k # i => worker'[k] = worker[k]
  BY OneMoves
<1>2. Len(worker) \in Nat /\ DOMAIN worker = 1..Len(worker)
  BY WorkerFacts
<1>3. Typed'
  BY <1>1, <1>2 DEF Typed, None
<1>4. \A k \in DOMAIN worker' : Sound(worker'[k])
  BY <1>1
<1>5. cancelling' # None => worker'[cancelling'].cancelled
  <2>1. cancelling # None => cancelling \in DOMAIN worker
    BY <1>2 DEF Typed, None
  <2> QED
    BY <1>1, <2>1 DEF Follows
<1>6. OneCloneInside'
  BY <1>1 DEF OneCloneInside, Follows
<1>7. UsersPlaceIsLeft'
  BY <1>1 DEF UsersPlaceIsLeft, Follows
<1>8. DoneIsComplete'
  BY <1>1 DEF DoneIsComplete, Follows
<1>9. NoLeftover'
  BY <1>1 DEF NoLeftover, Follows
<1> QED
  BY <1>3, <1>4, <1>5, <1>6, <1>7, <1>8, <1>9

-------------------------------------------------------------------------------
(* What the steps make of a sound record.                                   *)
LEMMA Fits ==
  ASSUME NEW v \in Records, NEW w, v.at # "gone",
         GitIsWaitedFor(v), CancelIsMet(v), TrafficIsKnown(v), Follows(v, w)
  PROVE  Kept(v, w)
BY DEF Kept, Safe, Sound

(* A worker cancelled before it begins only retires.                       *)
LEMMA Beginning ==
  ASSUME NEW w \in Records, Sound(w), w.at = "queued"
  PROVE  /\ w.cancelled => Kept([w EXCEPT !.at = "retired", !.told = {"retired"}], w)
         /\ w.kind = "clone" => Kept([w EXCEPT !.at = "made"], w)
         /\ ~w.cancelled => Kept([w EXCEPT !.at = "ready"], w) \/ w.kind = "clone"
BY DEF Kept, Safe, Sound, GitIsWaitedFor, CancelIsMet, TrafficIsKnown, Follows,
       Alive, Records, Stages, Gits, Outcomes, Killers

(* A clone that is cancelled before its engine is settled.                 *)
LEMMA Operating ==
  ASSUME NEW w \in Records, Sound(w), w.at = "made"
  PROVE  /\ Kept(Settled(w, "error"), w)
         /\ ~w.cancelled => Kept([w EXCEPT !.at = "ready", !.started = TRUE], w)
BY DEF Kept, Safe, Sound, GitIsWaitedFor, CancelIsMet, TrafficIsKnown, Follows,
       Alive, Settled, Records, Stages, Gits, Outcomes, Killers

(* git starts, or is not there.                                            *)
LEMMA Spawning ==
  ASSUME NEW w \in Records, Sound(w), w.at = "ready"
  PROVE  /\ Kept([w EXCEPT !.at = "spawned", !.git = "running"], w)
         /\ Kept(Settled(w, "error"), w)
<1>1. Kept([w EXCEPT !.at = "spawned", !.git = "running"], w)
  <2> DEFINE v == [w EXCEPT !.at = "spawned", !.git = "running"]
  <2>1. v \in Records /\ v.at # "gone"
    BY DEF Records, Stages, Gits, Outcomes, Killers, Settled
  <2>2. GitIsWaitedFor(v)
    BY DEF Records, Sound, GitIsWaitedFor, Alive, Settled
  <2>3. CancelIsMet(v)
    BY DEF Records, Sound, GitIsWaitedFor, CancelIsMet, Alive, Settled
  <2>4. TrafficIsKnown(v)
    BY DEF Records, Sound, GitIsWaitedFor, TrafficIsKnown, Settled
  <2>5. Follows(v, w)
    BY DEF Records, Follows, Settled
  <2> QED
    BY <2>1, <2>2, <2>3, <2>4, <2>5 DEF Kept, Safe, Sound
<1>2. Kept(Settled(w, "error"), w)
  <2> DEFINE v == Settled(w, "error")
  <2>1. v \in Records /\ v.at # "gone"
    BY DEF Records, Stages, Gits, Outcomes, Killers, Settled
  <2>2. GitIsWaitedFor(v)
    BY DEF Records, Sound, GitIsWaitedFor, Alive, Settled
  <2>3. CancelIsMet(v)
    BY DEF Records, Sound, GitIsWaitedFor, CancelIsMet, Alive, Settled
  <2>4. TrafficIsKnown(v)
    BY DEF Records, Sound, GitIsWaitedFor, TrafficIsKnown, Settled
  <2>5. Follows(v, w)
    BY DEF Records, Follows, Settled
  <2> QED
    BY <2>1, <2>2, <2>3, <2>4, <2>5 DEF Kept, Safe, Sound
<1> QED
  BY <1>1, <1>2

(* One step after another.                                                  *)
LEMMA KeptTwice ==
  ASSUME NEW w, NEW u, Kept(u, w), NEW v, Kept(v, u)
  PROVE  Kept(v, w)
BY DEF Kept, Safe, Follows

(* git ends, by itself in failure or killed, and with it the thread's work. *)
LEMMA Ending ==
  ASSUME NEW w \in Records, Sound(w), Alive(w), NEW how \in {"killed", "failed"}
  PROVE  /\ Kept(Ended(w, how), w) /\ ~Alive(Ended(w, how))
         /\ Ended(w, how).at = w.at /\ Ended(w, how).git = how
<1> DEFINE v == Ended(w, how)
<1>1. /\ v = [w EXCEPT !.git = how, !.killer = "none"]
      /\ v \in Records /\ v.git = how /\ v.at = w.at /\ ~Alive(v)
  BY DEF Ended, Records, Gits, Killers, Alive
<1>2. GitIsWaitedFor(v) /\ CancelIsMet(v)
  BY <1>1 DEF Records, Sound, GitIsWaitedFor, CancelIsMet, Alive
<1>3. TrafficIsKnown(v)
  BY <1>1 DEF Records, Sound, TrafficIsKnown, Alive
<1>4. Follows(v, w)
  BY <1>1 DEF Records, Follows, Alive
<1> HIDE DEF v
<1>5. Kept(v, w)
  BY <1>1, <1>2, <1>3, <1>4 DEF Kept, Safe, Sound
<1> QED
  BY <1>1, <1>5 DEF v

(* A kill that works leaves no git alive.                                   *)
LEMMA Killing ==
  ASSUME NEW w \in Records, Sound(w)
  PROVE  /\ Kept(Killed(w), w) /\ ~Alive(Killed(w)) /\ Killed(w).at = w.at
         /\ Killed(w) \in Records /\ Sound(Killed(w))
<1>1. CASE Alive(w)
  BY <1>1, Ending DEF Killed, Kept, Safe
<1>2. CASE ~Alive(w)
  BY <1>2 DEF Killed, Kept, Safe, Follows
<1> QED
  BY <1>1, <1>2

(* One that raises ends the wait, whatever has become of git.               *)
LEMMA Raising ==
  ASSUME NEW w \in Records, Sound(w), w.at \in {"spawned", "waiting"}, NEW v \in KillRaises(w)
  PROVE  Kept(v, w)
<1> DEFINE Left(u) == [u EXCEPT !.at = "settled", !.outcome = "error", !.held = FALSE,
                                !.stray = FALSE, !.raised = TRUE]
<1>1. PICK u \in {w, Killed(w)} : v = Left(u)
  BY DEF KillRaises, Settled
<1>2. u \in Records /\ Sound(u) /\ Kept(u, w) /\ u.at = w.at
  BY <1>1, Killing DEF Kept, Safe, Follows
<1>3. /\ v \in Records /\ v.at = "settled" /\ v.outcome = "error" /\ v.raised
      /\ v.git = u.git /\ v.kind = u.kind /\ v.started = u.started /\ v.cancelled = u.cancelled
      /\ v.stopped = u.stopped /\ v.cleanable = u.cleanable /\ (u.littered => v.littered)
  BY <1>1, <1>2 DEF Records, Stages, Outcomes
<1>4. Sound(v)
  BY <1>2, <1>3 DEF Sound, GitIsWaitedFor, CancelIsMet, TrafficIsKnown
<1>5. Kept(v, u)
  BY <1>3, <1>4 DEF Kept, Safe, Follows
<1> QED
  BY <1>2, <1>5, KeptTwice

(* The process is published, or killed when an abort has come before.       *)
LEMMA Registering ==
  ASSUME NEW w \in Records, Sound(w), w.at = "spawned"
  PROVE  /\ ~w.aborted => Kept([w EXCEPT !.at = "waiting", !.held = TRUE], w)
         /\ Kept([Killed(w) EXCEPT !.at = "reaping"], w)
<1>1. ASSUME ~w.aborted
      PROVE  Kept([w EXCEPT !.at = "waiting", !.held = TRUE], w)
  <2> DEFINE v == [w EXCEPT !.at = "waiting", !.held = TRUE]
  <2>1. v \in Records /\ v.at # "gone"
    BY <1>1 DEF Records, Stages, Gits, Outcomes, Killers, Settled
  <2>2. GitIsWaitedFor(v)
    BY <1>1 DEF Records, Sound, GitIsWaitedFor, Alive, Settled
  <2>3. CancelIsMet(v)
    BY <1>1 DEF Records, Sound, GitIsWaitedFor, CancelIsMet, Alive, Settled
  <2>4. TrafficIsKnown(v)
    BY <1>1 DEF Records, Sound, GitIsWaitedFor, TrafficIsKnown, Settled
  <2>5. Follows(v, w)
    BY <1>1 DEF Records, Follows, Settled
  <2> QED
    BY <2>1, <2>2, <2>3, <2>4, <2>5 DEF Kept, Safe, Sound
<1>2. PICK u : u = Killed(w)
  OBVIOUS
<1>3. u \in Records /\ Sound(u) /\ ~Alive(u) /\ u.at = "spawned" /\ Kept(u, w)
  BY <1>2, Killing
<1>4. Kept([u EXCEPT !.at = "reaping"], u)
  BY <1>3 DEF Kept, Safe, Sound, GitIsWaitedFor, CancelIsMet, TrafficIsKnown, Follows,
       Alive, Settled, Records, Stages, Gits, Outcomes, Killers
<1> QED
  BY <1>1, <1>2, <1>3, <1>4, KeptTwice

(* `communicate` has come back.                                             *)
LEMMA Reaping ==
  ASSUME NEW w \in Records, Sound(w), w.at = "reaping"
  PROVE  Kept(Settled(w, "error"), w)
<1> DEFINE v == Settled(w, "error")
<1>1. v \in Records /\ v.at # "gone"
  BY DEF Records, Stages, Gits, Outcomes, Killers, Settled
<1>2. GitIsWaitedFor(v)
  BY DEF Records, Sound, GitIsWaitedFor, Alive, Settled
<1>3. CancelIsMet(v)
  BY DEF Records, Sound, GitIsWaitedFor, CancelIsMet, Alive, Settled
<1>4. TrafficIsKnown(v)
  BY DEF Records, Sound, GitIsWaitedFor, TrafficIsKnown, Settled
<1>5. Follows(v, w)
  BY DEF Records, Follows, Settled
<1> QED
  BY <1>1, <1>2, <1>3, <1>4, <1>5 DEF Kept, Safe, Sound

(* The wait ends with the end of git, or with its death.                    *)
LEMMA Waiting ==
  ASSUME NEW w \in Records, Sound(w), w.at = "waiting"
  PROVE  /\ ~Alive(w) => Kept([w EXCEPT !.at = "draining"], w)
         /\ Kept([Killed(w) EXCEPT !.at = "draining", !.outcome = "error"], w)
<1>1. ASSUME ~Alive(w) PROVE Kept([w EXCEPT !.at = "draining"], w)
  BY <1>1 DEF Kept, Safe, Sound, GitIsWaitedFor, CancelIsMet, TrafficIsKnown, Follows,
       Alive, Settled, Records, Stages, Gits, Outcomes, Killers
<1>2. PICK u : u = Killed(w)
  OBVIOUS
<1>3. u \in Records /\ Sound(u) /\ ~Alive(u) /\ u.at = "waiting" /\ Kept(u, w)
  BY <1>2, Killing
<1>4. Kept([u EXCEPT !.at = "draining", !.outcome = "error"], u)
  <2> DEFINE v == [u EXCEPT !.at = "draining", !.outcome = "error"]
  <2>1. v \in Records /\ v.at # "gone"
    BY <1>3 DEF Records, Stages, Gits, Outcomes, Killers, Settled
  <2>2. GitIsWaitedFor(v)
    BY <1>3 DEF Records, Sound, GitIsWaitedFor, Alive, Settled
  <2>3. CancelIsMet(v)
    BY <1>3 DEF Records, Sound, GitIsWaitedFor, CancelIsMet, Alive, Settled
  <2>4. TrafficIsKnown(v)
    BY <1>3 DEF Records, Sound, GitIsWaitedFor, TrafficIsKnown, Settled
  <2>5. Follows(v, u)
    BY <1>3 DEF Records, Follows, Settled
  <2> QED
    BY <2>1, <2>2, <2>3, <2>4, <2>5 DEF Kept, Safe, Sound
<1> QED
  BY <1>1, <1>2, <1>3, <1>4, KeptTwice

(* A child detaches itself.                                                 *)
LEMMA Straying ==
  ASSUME NEW w \in Records, Sound(w)
  PROVE  Kept([w EXCEPT !.stray = TRUE], w)
<1> DEFINE v == [w EXCEPT !.stray = TRUE]
<1>1. v \in Records /\ v.at = w.at
  BY DEF Records, Stages, Gits, Outcomes, Killers, Settled
<1>2. GitIsWaitedFor(v)
  BY DEF Records, Sound, GitIsWaitedFor, Alive, Settled
<1>3. CancelIsMet(v)
  BY DEF Records, Sound, GitIsWaitedFor, CancelIsMet, Alive, Settled
<1>4. TrafficIsKnown(v)
  BY DEF Records, Sound, GitIsWaitedFor, TrafficIsKnown, Settled
<1>5. Follows(v, w)
  BY DEF Records, Follows, Settled
<1> QED
  BY <1>1, <1>2, <1>3, <1>4, <1>5 DEF Kept, Safe, Sound

(* The exit is judged: it is well only if git ended well.                  *)
LEMMA Draining ==
  ASSUME NEW w \in Records, Sound(w), w.at = "draining"
  PROVE  Kept(Drained(w), w)
<1>1. CASE w.outcome = "none" /\ ~w.aborted /\ w.git = "done"
  <2>1. Drained(w) = Settled([w EXCEPT !.held = FALSE, !.stray = FALSE], "ok")
    BY <1>1 DEF Drained
  <2>2. Kept(Settled([w EXCEPT !.held = FALSE, !.stray = FALSE], "ok"), w)
    <3> DEFINE v == Settled([w EXCEPT !.held = FALSE, !.stray = FALSE], "ok")
    <3>1. v \in Records /\ v.at # "gone"
      BY <1>1 DEF Records, Stages, Gits, Outcomes, Killers, Settled
    <3>2. GitIsWaitedFor(v)
      BY <1>1 DEF Records, Sound, GitIsWaitedFor, Alive, Settled
    <3>3. CancelIsMet(v)
      BY <1>1 DEF Records, Sound, GitIsWaitedFor, CancelIsMet, Alive, Settled
    <3>4. TrafficIsKnown(v)
      BY <1>1 DEF Records, Sound, GitIsWaitedFor, TrafficIsKnown, Settled
    <3>5. Follows(v, w)
      BY <1>1 DEF Records, Follows, Settled
    <3> QED
      BY <3>1, <3>2, <3>3, <3>4, <3>5 DEF Kept, Safe, Sound
  <2> QED
    BY <2>1, <2>2
<1>2. CASE ~(w.outcome = "none" /\ ~w.aborted /\ w.git = "done")
  <2>1. Drained(w) = Settled([w EXCEPT !.held = FALSE, !.stray = FALSE], "error")
    BY <1>2 DEF Drained
  <2>2. Kept(Settled([w EXCEPT !.held = FALSE, !.stray = FALSE], "error"), w)
    <3> DEFINE v == Settled([w EXCEPT !.held = FALSE, !.stray = FALSE], "error")
    <3>1. v \in Records /\ v.at # "gone"
      BY DEF Records, Stages, Gits, Outcomes, Killers, Settled
    <3>2. GitIsWaitedFor(v)
      BY DEF Records, Sound, GitIsWaitedFor, Alive, Settled
    <3>3. CancelIsMet(v)
      BY DEF Records, Sound, GitIsWaitedFor, CancelIsMet, Alive, Settled
    <3>4. TrafficIsKnown(v)
      BY DEF Records, Sound, GitIsWaitedFor, TrafficIsKnown, Settled
    <3>5. Follows(v, w)
      BY DEF Records, Follows, Settled
    <3> QED
      BY <3>1, <3>2, <3>3, <3>4, <3>5 DEF Kept, Safe, Sound
  <2> QED
    BY <2>1, <2>2
<1> QED
  BY <1>1, <1>2

(* The traffic is recorded, then who has not cancelled is told.             *)
LEMMA Reporting ==
  ASSUME NEW w \in Records, Sound(w), w.at = "settled",
         NEW r \in BOOLEAN, r <=> Measured(w),
         NEW t \in {w.told, {"finished"}, {"failed"}}
  PROVE  Kept([w EXCEPT !.at = "tidying", !.recorded = r, !.told = t], w)
<1> SUFFICES ASSUME NEW v, v = [w EXCEPT !.at = "tidying", !.recorded = r, !.told = t]
             PROVE  Kept(v, w)
  OBVIOUS
<1>1. v \in Records
  BY DEF Records, Stages
<1>2. GitIsWaitedFor(v) /\ CancelIsMet(v)
  BY DEF Records, Sound, GitIsWaitedFor, CancelIsMet, Alive
<1>3. TrafficIsKnown(v)
  BY DEF Records, Sound, TrafficIsKnown, Measured
<1>4. Follows(v, w) /\ v.at # "gone"
  BY DEF Records, Follows
<1> QED
  BY <1>1, <1>2, <1>3, <1>4, Fits

(* The last signal.                                                        *)
LEMMA Retiring ==
  ASSUME NEW w \in Records, Sound(w), w.at = "tidying"
  PROVE  Kept([w EXCEPT !.at = "retired", !.told = @ \cup {"retired"}], w)
<1> SUFFICES ASSUME NEW v, v = [w EXCEPT !.at = "retired", !.told = @ \cup {"retired"}]
             PROVE  Kept(v, w)
  OBVIOUS
<1>1. v \in Records
  BY DEF Records, Stages
<1>2. GitIsWaitedFor(v) /\ CancelIsMet(v)
  BY DEF Records, Sound, GitIsWaitedFor, CancelIsMet, Alive
<1>3. TrafficIsKnown(v)
  BY DEF Records, Sound, TrafficIsKnown
<1>4. Follows(v, w) /\ v.at # "gone"
  BY DEF Records, Follows
<1> QED
  BY <1>1, <1>2, <1>3, <1>4, Fits

(* The thread of abort() has failed.                                        *)
LEMMA FailingToKill ==
  ASSUME NEW w \in Records, Sound(w)
  PROVE  Kept([w EXCEPT !.killer = "failed"], w)
BY DEF Kept, Safe, Sound, GitIsWaitedFor, CancelIsMet, TrafficIsKnown, Follows,
       Alive, Settled, Records, Stages, Gits, Outcomes, Killers

(* cancel() marks the worker, then aborts the engine that it finds.        *)
LEMMA Cancelling ==
  ASSUME NEW w \in Records, Sound(w)
  PROVE  /\ Kept([w EXCEPT !.cancelled = TRUE], w)
         /\ w.cancelled => Kept(IF ~Reachable(w) THEN [w EXCEPT !.stopped = TRUE]
                                ELSE [w EXCEPT !.stopped = TRUE, !.aborted = TRUE,
                                               !.killer = IF w.held /\ Alive(w) THEN "sent" ELSE "none"], w)
<1>1. Kept([w EXCEPT !.cancelled = TRUE], w)
  <2> DEFINE v == [w EXCEPT !.cancelled = TRUE]
  <2>1. v \in Records /\ v.cancelled /\ Sound(w)
    BY DEF Records
  <2>2. Sound(v) /\ Follows(v, w)
    BY DEF Kept, Safe, Sound, GitIsWaitedFor, CancelIsMet, TrafficIsKnown, Follows,
       Alive, Records, Stages, Gits, Outcomes, Killers
  <2> QED
    BY <2>1, <2>2 DEF Kept, Safe, Records
<1>2. ASSUME w.cancelled, ~Reachable(w)
      PROVE  Kept([w EXCEPT !.stopped = TRUE], w)
  <2> DEFINE v == [w EXCEPT !.stopped = TRUE]
  <2>1. v \in Records /\ v.at = w.at
    BY <1>2 DEF Records, Stages, Gits, Outcomes, Killers, Settled
  <2>2. GitIsWaitedFor(v)
    BY <1>2 DEF Records, Sound, GitIsWaitedFor, Alive, Settled
  <2>3. CancelIsMet(v)
    BY <1>2 DEF Records, Sound, GitIsWaitedFor, TrafficIsKnown, CancelIsMet, Alive, Reachable
  <2>4. TrafficIsKnown(v)
    BY <1>2 DEF Records, Sound, GitIsWaitedFor, TrafficIsKnown, Settled
  <2>5. Follows(v, w)
    BY <1>2 DEF Records, Follows, Settled
  <2> QED
    BY <2>1, <2>2, <2>3, <2>4, <2>5 DEF Kept, Safe, Sound
<1>3. ASSUME w.cancelled, Reachable(w)
      PROVE  Kept([w EXCEPT !.stopped = TRUE, !.aborted = TRUE, !.killer = IF w.held /\ Alive(w) THEN "sent" ELSE "none"], w)
  <2>1. CASE w.held /\ Alive(w)
    <3>1. Kept([w EXCEPT !.stopped = TRUE, !.aborted = TRUE, !.killer = "sent"], w)
      <4> DEFINE v == [w EXCEPT !.stopped = TRUE, !.aborted = TRUE, !.killer = "sent"]
      <4>1. v \in Records /\ v.at = w.at
        BY <1>3, <2>1 DEF Records, Stages, Gits, Outcomes, Killers, Settled
      <4>2. GitIsWaitedFor(v)
        BY <1>3, <2>1 DEF Records, Sound, GitIsWaitedFor, Alive, Settled
      <4>3. CancelIsMet(v)
        BY <1>3, <2>1 DEF Records, Sound, GitIsWaitedFor, CancelIsMet, Alive, Settled
      <4>4. TrafficIsKnown(v)
        BY <1>3, <2>1 DEF Records, Sound, GitIsWaitedFor, TrafficIsKnown, Settled
      <4>5. Follows(v, w)
        BY <1>3, <2>1 DEF Records, Follows, Settled
      <4> QED
        BY <4>1, <4>2, <4>3, <4>4, <4>5 DEF Kept, Safe, Sound
    <3> QED
      BY <2>1, <3>1
  <2>2. CASE ~(w.held /\ Alive(w))
    <3> DEFINE v == [w EXCEPT !.stopped = TRUE, !.aborted = TRUE, !.killer = "none"]
    <3>1. v \in Records /\ GitIsWaitedFor(v)
      BY DEF Records, Killers, Sound, GitIsWaitedFor, Alive
    <3>2. CancelIsMet(v)
      BY <1>3, <2>2 DEF Records, Sound, GitIsWaitedFor, CancelIsMet, Alive
    <3>3. TrafficIsKnown(v)
      BY DEF Records, Sound, TrafficIsKnown
    <3>4. Follows(v, w)
      BY DEF Records, Follows
    <3>5. (w.held /\ Alive(w)) = FALSE
      BY <2>2
    <3> QED
      BY <3>1, <3>2, <3>3, <3>4, <3>5 DEF Kept, Safe, Sound, Records
  <2> QED
    BY <2>1, <2>2
<1> QED
  BY <1>1, <1>2, <1>3

-------------------------------------------------------------------------------
(* A step of a worker, or of its git, beside the destination.               *)
LEMMA StepKeeps ==
  ASSUME IInv, NEW i \in DOMAIN worker, NEW v, Kept(v, worker[i]), Steps(i, v), dest' = dest
  PROVE  IInv'
BY RecordDecides DEF Steps, Kept

(* What RecordDecides asks of a worker before its step.                     *)
LEMMA SoundRecord ==
  ASSUME IInv, NEW i \in DOMAIN worker
  PROVE  worker[i] \in Records /\ Sound(worker[i])
BY WorkerFacts DEF IInv

(* The first half of `run`: from the pool to a git that is published.       *)
LEMMA RunKeeps ==
  ASSUME IInv, NEW i \in Ids, Begins(i) \/ OperatesClone(i) \/ Spawns(i) \/ Registers(i) \/ Reaps(i)
  PROVE  IInv'
<1> DEFINE w == worker[i]
<1>1. i \in DOMAIN worker /\ w \in Records /\ Sound(w) /\ dest' = dest
  BY SoundRecord DEF Begins, OperatesClone, Spawns, Registers, Reaps, At
<1>2. CASE Begins(i)
  <2>1. w.at = "queued"
    BY <1>2 DEF Begins, At
  <2>2. CASE w.cancelled
    <3>1. Steps(i, [w EXCEPT !.at = "retired", !.told = {"retired"}])
      BY <1>2, <2>2 DEF Begins
    <3> QED
      BY <1>1, <2>1, <2>2, <3>1, Beginning, StepKeeps
  <2>3. CASE ~w.cancelled /\ w.kind = "clone"
    <3>1. Steps(i, [w EXCEPT !.at = "made"])
      BY <1>2, <2>3 DEF Begins
    <3> QED
      BY <1>1, <2>1, <2>3, <3>1, Beginning, StepKeeps
  <2>4. CASE ~w.cancelled /\ w.kind # "clone"
    <3>1. w.kind = "fetch"
      BY <1>1, <2>4 DEF Records
    <3>2. Steps(i, [w EXCEPT !.at = "ready"])
      BY <1>2, <2>4, <3>1 DEF Begins
    <3> QED
      BY <1>1, <2>1, <2>4, <3>2, Beginning, StepKeeps
  <2> QED
    BY <2>2, <2>3, <2>4
<1>3. CASE OperatesClone(i)
  <2>1. w.at = "made"
    BY <1>3 DEF OperatesClone, At
  <2>2. CASE w.cancelled
    <3>1. Steps(i, Settled(w, "error"))
      BY <1>3, <2>2 DEF OperatesClone
    <3> QED
      BY <1>1, <2>1, <3>1, Operating, StepKeeps
  <2>3. CASE ~w.cancelled
    <3>1. Steps(i, [w EXCEPT !.at = "ready", !.started = TRUE])
      BY <1>3, <2>3 DEF OperatesClone
    <3> QED
      BY <1>1, <2>1, <2>3, <3>1, Operating, StepKeeps
  <2> QED
    BY <2>2, <2>3
<1>4. CASE Spawns(i)
  <2>1. w.at = "ready"
    BY <1>4 DEF Spawns, At
  <2>2. CASE Steps(i, [w EXCEPT !.at = "spawned", !.git = "running"])
    BY <1>1, <2>1, <2>2, Spawning, StepKeeps
  <2>3. CASE Steps(i, Settled(w, "error"))
    BY <1>1, <2>1, <2>3, Spawning, StepKeeps
  <2> QED
    BY <1>4, <2>2, <2>3 DEF Spawns
<1>5. CASE Registers(i)
  <2>1. w.at = "spawned"
    BY <1>5 DEF Registers, At
  <2>2. CASE ~w.aborted /\ Steps(i, [w EXCEPT !.at = "waiting", !.held = TRUE])
    BY <1>1, <2>1, <2>2, Registering, StepKeeps
  <2>3. CASE Steps(i, [Killed(w) EXCEPT !.at = "reaping"])
    BY <1>1, <2>1, <2>3, Registering, StepKeeps
  <2>4. ASSUME NEW v \in KillRaises(w), Steps(i, v) PROVE IInv'
    BY <1>1, <2>1, <2>4, Raising, StepKeeps
  <2> QED
    BY <1>5, <2>2, <2>3, <2>4 DEF Registers
<1>6. CASE Reaps(i)
  <2>1. w.at = "reaping" /\ Steps(i, Settled(w, "error"))
    BY <1>6 DEF Reaps, At
  <2> QED
    BY <1>1, <2>1, Reaping, StepKeeps
<1> QED
  BY <1>2, <1>3, <1>4, <1>5, <1>6

(* The second half: the wait, the report and the last signal.               *)
LEMMA EndKeeps ==
  ASSUME IInv, NEW i \in Ids,
         \/ NoticesEnd(i) \/ WatchdogKills(i) \/ Drains(i) \/ Reports(i) \/ Retires(i)
         \/ Kills(i) \/ ChildStrays(i)
  PROVE  IInv'
<1> DEFINE w == worker[i]
<1>1. i \in DOMAIN worker /\ w \in Records /\ Sound(w) /\ dest' = dest
  BY SoundRecord
  DEF NoticesEnd, WatchdogKills, Drains, Reports, Retires, Kills, ChildStrays, Running, At
<1>2. CASE NoticesEnd(i)
  <2>1. w.at = "waiting" /\ ~Alive(w) /\ Steps(i, [w EXCEPT !.at = "draining"])
    BY <1>2 DEF NoticesEnd, At
  <2> QED
    BY <1>1, <2>1, Waiting, StepKeeps
<1>3. CASE WatchdogKills(i)
  <2>1. w.at = "waiting"
    BY <1>3 DEF WatchdogKills, At
  <2>2. CASE Steps(i, [Killed(w) EXCEPT !.at = "draining", !.outcome = "error"])
    BY <1>1, <2>1, <2>2, Waiting, StepKeeps
  <2>3. ASSUME NEW v \in KillRaises(w), Steps(i, v) PROVE IInv'
    BY <1>1, <2>1, <2>3, Raising, StepKeeps
  <2> QED
    BY <1>3, <2>2, <2>3 DEF WatchdogKills
<1>4. CASE Drains(i)
  <2>1. w.at = "draining" /\ Steps(i, Drained(w))
    BY <1>4 DEF Drains, At
  <2> QED
    BY <1>1, <2>1, Draining, StepKeeps
<1>5. CASE Reports(i)
  <2> DEFINE recorded == Measured(w)
             v(t) == [w EXCEPT !.at = "tidying", !.recorded = recorded, !.told = t]
  <2>1. w.at = "settled"
    BY <1>5 DEF Reports, At
  <2>2. \E t \in {w.told, {"finished"}, {"failed"}} : Steps(i, v(t))
    <3> DEFINE u == [w EXCEPT !.at = "tidying", !.recorded = recorded]
    <3>1. /\ u = v(w.told)
          /\ \A t : [u EXCEPT !.told = t] = v(t)
          /\ u.cancelled = w.cancelled /\ u.outcome = w.outcome
      BY <1>1 DEF Records
    <3>2. Steps(i, CASE u.cancelled -> u
                     [] ~u.cancelled /\ u.outcome = "ok" -> [u EXCEPT !.told = {"finished"}]
                     [] OTHER -> [u EXCEPT !.told = {"failed"}])
      BY <1>5 DEF Reports
    <3>3. CASE u.cancelled
      BY <3>1, <3>2, <3>3
    <3>4. CASE ~u.cancelled /\ u.outcome = "ok"
      BY <3>1, <3>2, <3>4
    <3>5. CASE ~u.cancelled /\ u.outcome # "ok"
      BY <3>1, <3>2, <3>5
    <3> QED
      BY <3>3, <3>4, <3>5
  <2>3. \A t \in {w.told, {"finished"}, {"failed"}} : Kept(v(t), w)
    <3>1. recorded \in BOOLEAN
      BY <1>1 DEF Records, Measured
    <3> QED
      BY <1>1, <2>1, <3>1, Reporting
  <2> HIDE DEF v
  <2> QED
    BY <1>1, <2>2, <2>3, StepKeeps
<1>6. CASE Retires(i)
  <2>1. w.at = "tidying" /\ Steps(i, [w EXCEPT !.at = "retired", !.told = @ \cup {"retired"}])
    BY <1>6 DEF Retires, At
  <2> QED
    BY <1>1, <2>1, Retiring, StepKeeps
<1>7. CASE Kills(i)
  <2>1. CASE Steps(i, Killed(w))
    BY <1>1, <2>1, Killing, StepKeeps
  <2>2. CASE Steps(i, [w EXCEPT !.killer = "failed"])
    BY <1>1, <2>2, FailingToKill, StepKeeps
  <2> QED
    BY <1>7, <2>1, <2>2 DEF Kills
<1>8. CASE ChildStrays(i)
  <2>1. Steps(i, [w EXCEPT !.stray = TRUE])
    BY <1>8 DEF ChildStrays
  <2> QED
    BY <1>1, <2>1, Straying, StepKeeps
<1> QED
  BY <1>2, <1>3, <1>4, <1>5, <1>6, <1>7, <1>8

-------------------------------------------------------------------------------
(* The UI thread.                                                           *)

(* A new worker knows nothing yet; it may clean only where no file is.      *)
LEMMA UserStartsKeeps ==
  ASSUME IInv, NEW kind \in Kinds, UserStarts(kind)
  PROVE  IInv'
<1> USE DEF IInv
<1> DEFINE new == Worker(kind)
           n == Len(worker) + 1
<1>1. /\ worker' = Append(worker, new) /\ slot' = n
      /\ UNCHANGED <<dest, cancelling, saves>> /\ cancelling = None
      /\ Len(worker) < MaxWorkers
  BY DEF UserStarts, UiFree
<1>2. new \in Records
  BY TransferAssumption
  DEF Worker, Kinds, Records, TransferAssumption, Stages, Gits, Outcomes, Killers, Typed
<1>3. /\ Sound(new) /\ new.git = "none" /\ new.at = "queued"
      /\ dest.files # {} => ~new.cleanable
  BY DEF Worker, Sound, GitIsWaitedFor, CancelIsMet, TrafficIsKnown, Alive
<1> HIDE DEF new
<1>4. /\ worker' \in Seq(Records) /\ Len(worker') = n /\ DOMAIN worker' = 1..n
      /\ worker'[n] = new
      /\ \A i \in DOMAIN worker : i \in DOMAIN worker' /\ worker'[i] = worker[i]
      /\ \A i \in DOMAIN worker' : i \in DOMAIN worker \/ i = n
      /\ n \in Nat
  BY <1>1, <1>2, WorkerFacts
<1>5. Typed'
  BY <1>1, <1>4, TransferAssumption DEF Typed, TransferAssumption, None
<1>6. \A i \in DOMAIN worker' : Sound(worker'[i])
  BY <1>3, <1>4
<1>7. OneCloneInside' /\ UsersPlaceIsLeft' /\ DoneIsComplete' /\ NoLeftover'
  BY <1>1, <1>3, <1>4 DEF OneCloneInside, UsersPlaceIsLeft, DoneIsComplete, NoLeftover
<1> QED
  BY <1>1, <1>5, <1>6, <1>7

(* cancel() marks the worker that the slot holds.                           *)
LEMMA UserCancelsKeeps ==
  ASSUME IInv, UserCancels
  PROVE  IInv'
<1>1. slot \in DOMAIN worker
  BY WorkerFacts DEF IInv, Typed, UserCancels, None
<1> DEFINE v == [worker[slot] EXCEPT !.cancelled = TRUE]
<1>2. Kept(v, worker[slot]) /\ v.cancelled
  BY <1>1, SoundRecord, Cancelling DEF Records
<1>3. /\ worker' = [worker EXCEPT ![slot] = v]
      /\ cancelling' = slot /\ slot' = None /\ dest' = dest /\ saves' = saves
  BY DEF UserCancels
<1> HIDE DEF v
<1> QED
  BY <1>1, <1>2, <1>3, RecordDecides DEF Kept

(* cancel() aborts the engine that it finds.                                *)
LEMMA AbortsKeeps ==
  ASSUME IInv, Aborts
  PROVE  IInv'
<1>1. cancelling \in DOMAIN worker /\ worker[cancelling].cancelled
  BY WorkerFacts DEF IInv, Typed, Aborts, None
<1> DEFINE w == worker[cancelling]
           v == IF ~Reachable(w) THEN [w EXCEPT !.stopped = TRUE]
                ELSE [w EXCEPT !.stopped = TRUE, !.aborted = TRUE,
                               !.killer = IF w.held /\ Alive(w) THEN "sent" ELSE "none"]
<1>2. Kept(v, w)
  BY <1>1, SoundRecord, Cancelling
<1>3. /\ worker' = [worker EXCEPT ![cancelling] = v]
      /\ cancelling' = None /\ slot' = slot /\ dest' = dest /\ saves' = saves
  BY DEF Aborts
<1> HIDE DEF v
<1> QED
  BY <1>1, <1>2, <1>3, RecordDecides DEF Kept

(* The window lets go of a worker.                                          *)
LEMMA LetsGoKeeps ==
  ASSUME IInv, LetsGo
  PROVE  IInv'
<1> USE DEF IInv, LetsGo
<1>1. Typed'
  BY WorkerFacts DEF Typed, None
<1>2. OneCloneInside' /\ UsersPlaceIsLeft' /\ DoneIsComplete' /\ NoLeftover'
  BY DEF OneCloneInside, UsersPlaceIsLeft, DoneIsComplete, NoLeftover
<1> QED
  BY <1>1, <1>2

-------------------------------------------------------------------------------
(* The destination.                                                         *)

(* The user saves a file beside whatever is there.                          *)
LEMMA UserSavesKeeps ==
  ASSUME IInv, UserSaves
  PROVE  IInv'
<1> USE DEF IInv
<1>1. /\ saves' = saves + 1 /\ saves < MaxSaves
      /\ UNCHANGED <<worker, slot, cancelling>>
      /\ dest' = [dest EXCEPT !.exists = TRUE, !.files = @ \cup {User}]
  BY DEF UserSaves
<1>2. /\ dest'.exists = TRUE /\ dest'.files = dest.files \cup {User}
      /\ dest'.complete = dest.complete
      /\ dest' \in Destinations
  BY <1>1 DEF Typed, Destinations
<1>3. Typed'
  BY <1>1, <1>2, TransferAssumption DEF Typed, TransferAssumption
<1>4. OneCloneInside' /\ DoneIsComplete'
  BY <1>1, <1>2 DEF OneCloneInside, DoneIsComplete
<1>5. UsersPlaceIsLeft'
  BY <1>1, TransferAssumption DEF UsersPlaceIsLeft, Typed, TransferAssumption
<1>6. NoLeftover'
  BY <1>1, <1>2, WorkerFacts DEF NoLeftover, User, None
<1> QED
  BY <1>1, <1>3, <1>4, <1>5, <1>6

(* A clone moves into an empty destination.                                 *)
LEMMA GitMakesKeeps ==
  ASSUME IInv, NEW i \in Ids, GitMakes(i)
  PROVE  IInv'
<1> USE DEF IInv
<1> DEFINE w == worker[i]
           v == [w EXCEPT !.git = "receiving"]
<1>1. /\ i \in DOMAIN worker /\ w \in Records /\ Sound(w)
      /\ w.git = "running" /\ w.kind = "clone" /\ dest.files = {}
      /\ dest' = [dest EXCEPT !.exists = TRUE, !.files = {i}]
      /\ worker' = [worker EXCEPT ![i] = v] /\ UNCHANGED <<slot, cancelling, saves>>
  BY SoundRecord DEF GitMakes, Running, Steps
<1>2. /\ v \in Records /\ v.git = "receiving" /\ v.kind = "clone" /\ v.at = w.at
      /\ v.cancelled = w.cancelled /\ v.cleanable = w.cleanable /\ v.raised = w.raised /\ v.littered = w.littered
  BY <1>1 DEF Records, Gits
<1>3. Sound(v) /\ (v.at \in {"spawned", "waiting"} \/ v.raised)
  BY <1>1 DEF Sound, GitIsWaitedFor, CancelIsMet, TrafficIsKnown, Alive, Records
<1> HIDE DEF v
<1>4. /\ worker' \in Seq(Records) /\ Len(worker') = Len(worker)
      /\ DOMAIN worker' = DOMAIN worker
      /\ worker'[i] = v
      /\ \A k \in DOMAIN worker : k # i => worker'[k] = worker[k]
  BY <1>1, <1>2, OneMoves
<1>5. /\ dest'.exists = TRUE /\ dest'.files = {i} /\ dest'.complete = dest.complete
      /\ dest' \in Destinations
  BY <1>1 DEF Typed, Destinations
<1>6. Typed'
  BY <1>1, <1>4, <1>5 DEF Typed
<1>7. \A k \in DOMAIN worker' : Sound(worker'[k])
  BY <1>3, <1>4
<1>8. cancelling # None => worker'[cancelling].cancelled
  BY <1>2, <1>4, WorkerFacts DEF Typed, None
<1>9. dest.complete = None
  BY <1>1 DEF OneCloneInside
<1>10. OneCloneInside'
  BY <1>1, <1>2, <1>4, <1>5, <1>9 DEF OneCloneInside
<1>11. UsersPlaceIsLeft'
  BY <1>1, <1>5, WorkerFacts DEF UsersPlaceIsLeft, User, None
<1>12. DoneIsComplete'
  BY <1>2, <1>4, <1>5 DEF DoneIsComplete
<1>13. NoLeftover'
  BY <1>3, <1>4, <1>5 DEF NoLeftover
<1> QED
  BY <1>1, <1>6, <1>7, <1>8, <1>10, <1>11, <1>12, <1>13

(* Its references are written.                                              *)
LEMMA GitCompletesKeeps ==
  ASSUME IInv, NEW i \in Ids, GitCompletes(i)
  PROVE  IInv' /\ (dest.complete # None => dest'.complete = dest.complete)
<1> USE DEF IInv
<1>1. /\ i \in dest.files /\ i \in DOMAIN worker
      /\ dest' = [dest EXCEPT !.complete = i] /\ UNCHANGED <<worker, slot, cancelling, saves>>
  BY DEF GitCompletes, Receiving, Running
<1>2. i # None /\ i \in 0..MaxWorkers
  BY <1>1, WorkerFacts, TransferAssumption DEF Ids, None, TransferAssumption
<1>3. /\ dest'.exists = dest.exists /\ dest'.files = dest.files /\ dest'.complete = i
      /\ dest' \in Destinations
  BY <1>1, <1>2 DEF Typed, Destinations
<1>4. Typed'
  BY <1>1, <1>3 DEF Typed
<1>5. OneCloneInside' /\ UsersPlaceIsLeft' /\ DoneIsComplete' /\ NoLeftover'
  BY <1>1, <1>2, <1>3 DEF OneCloneInside, UsersPlaceIsLeft, DoneIsComplete, NoLeftover
<1>6. dest.complete # None => dest.complete = i
  BY <1>1, <1>2 DEF OneCloneInside, User, None
<1> QED
  BY <1>1, <1>3, <1>4, <1>5, <1>6

(* A destination without references is emptied, by git or after it, or left *)
(* with remains by a removal that failed.                                   *)
LEMMA EmptiedKeeps ==
  ASSUME IInv, NEW i \in DOMAIN worker, NEW v, Safe(v, worker[i]),
         worker' = [worker EXCEPT ![i] = v], UNCHANGED <<slot, cancelling, saves>>,
         dest.complete = None, dest'.complete = None, dest' \in Destinations,
         dest'.files \subseteq dest.files, dest'.files # {} => dest'.exists,
         i \in dest'.files => v.littered
  PROVE  IInv'
<1> USE DEF IInv, Safe
<1>1. /\ worker' \in Seq(Records) /\ Len(worker') = Len(worker)
      /\ DOMAIN worker' = DOMAIN worker
      /\ worker'[i] = v
      /\ \A k \in DOMAIN worker : k # i => worker'[k] = worker[k]
  BY OneMoves
<1>2. Typed'
  BY <1>1 DEF Typed
<1>3. \A k \in DOMAIN worker' : Sound(worker'[k])
  BY <1>1
<1>4. cancelling # None => worker'[cancelling].cancelled
  BY <1>1, WorkerFacts DEF Typed, None, Follows
<1>5. OneCloneInside'
  BY <1>1 DEF OneCloneInside, Follows
<1>6. UsersPlaceIsLeft'
  BY <1>1 DEF UsersPlaceIsLeft, Follows
<1>7. DoneIsComplete'
  BY <1>1 DEF DoneIsComplete, Follows
<1>8. NoLeftover'
  BY <1>1 DEF NoLeftover
<1> QED
  BY <1>1, <1>2, <1>3, <1>4, <1>5, <1>6, <1>7, <1>8

(* git ends: well, leaving what it has, or emptying what it made.           *)
LEMMA GitEndsKeeps ==
  ASSUME IInv, NEW i \in Ids, GitEnds(i)
  PROVE  /\ IInv'
         /\ dest.complete # None => dest' = dest
         /\ User \in dest.files /\ saves = 0 => dest' = dest
<1> DEFINE w == worker[i]
<1>1. i \in DOMAIN worker /\ w \in Records /\ Sound(w) /\ Alive(w)
  BY SoundRecord DEF GitEnds, Running
<1>2. CASE /\ w.kind = "clone" => dest.complete = i
           /\ Steps(i, Ended(w, "done")) /\ UNCHANGED dest
  <2> DEFINE v == Ended(w, "done")
  <2>1. w.kind # "clone" \/ dest.complete # None
    BY <1>1, <1>2, WorkerFacts DEF IInv
  <2>2. v \in Records /\ GitIsWaitedFor(v) /\ CancelIsMet(v)
    BY <1>1 DEF Ended, Records, Gits, Killers, Sound, GitIsWaitedFor, CancelIsMet, Alive
  <2>3. TrafficIsKnown(v)
    BY <1>1 DEF Ended, Records, Sound, GitIsWaitedFor, TrafficIsKnown, Alive
  <2>4. Follows(v, w) /\ v.at = w.at
    BY <1>1, <2>1 DEF Ended, Records, Follows
  <2> HIDE DEF v
  <2>5. IInv'
    BY <1>1, <1>2, <2>2, <2>3, <2>4, StepKeeps DEF v, Kept, Safe, Sound
  <2> QED
    BY <1>2, <2>5
<1>3. CASE /\ Steps(i, Ended(w, "failed"))
           /\ dest' = IF Receiving(i) /\ dest.complete = None
                      THEN [dest EXCEPT !.files = {}, !.exists = ~w.created]
                      ELSE dest
  <2>1. PICK v : v = Ended(w, "failed")
    OBVIOUS
  <2>2. Kept(v, w) /\ Steps(i, v)
    BY <1>1, <1>3, <2>1, Ending
  <2>3. CASE Receiving(i) /\ dest.complete = None
    <3>1. dest'.files = {} /\ dest'.complete = None /\ dest' \in Destinations
      BY <1>1, <1>3, <2>3 DEF IInv, Typed, Records, Destinations
    <3>2. IInv'
      BY <1>1, <2>2, <2>3, <3>1, EmptiedKeeps DEF Kept, Steps
    <3>3. ~(User \in dest.files /\ saves = 0)
      BY <1>1, <2>3 DEF IInv, UsersPlaceIsLeft, Receiving
    <3> QED
      BY <2>3, <3>2, <3>3
  <2>4. CASE ~(Receiving(i) /\ dest.complete = None)
    <3>1. dest' = dest
      BY <1>3, <2>4
    <3>2. IInv'
      BY <1>1, <2>2, <3>1, StepKeeps
    <3> QED
      BY <3>1, <3>2
  <2> QED
    BY <2>3, <2>4
<1> QED
  BY <1>2, <1>3 DEF GitEnds

(* A clone cleans up and is gone.                                           *)
LEMMA CleansKeeps ==
  ASSUME IInv, NEW i \in Ids, Cleans(i)
  PROVE  /\ IInv'
         /\ dest.complete # None => dest' = dest
         /\ User \in dest.files /\ saves = 0 => dest' = dest
<1> DEFINE w == worker[i]
           v == [w EXCEPT !.at = "gone"]
           marked == [v EXCEPT !.littered = TRUE]
           partial == /\ w.cleanable /\ w.outcome # "ok" /\ dest.exists
                      /\ IF ~w.started THEN dest.files = {} ELSE ~HasRepository
<1>1. i \in DOMAIN worker /\ w \in Records /\ Sound(w) /\ w.at = "retired"
  BY SoundRecord DEF Cleans, At
<1>2. Safe(v, w) /\ v.cleanable = w.cleanable
  BY <1>1 DEF Safe, Records, Stages, Sound, GitIsWaitedFor, CancelIsMet, TrafficIsKnown, Alive, Follows
<1>3. Safe(marked, w) /\ marked.littered
  BY <1>1 DEF Safe, Records, Stages, Sound, GitIsWaitedFor, CancelIsMet, TrafficIsKnown,
       Alive, Follows
<1>4. \/ dest' = (IF partial THEN Cleaned(w) ELSE dest) /\ Steps(i, v)
      \/ partial /\ dest' \in Remains(w) /\ Steps(i, marked)
  BY DEF Cleans
<1> HIDE DEF v, marked
<1>5. ASSUME partial
      PROVE  /\ dest.complete = None /\ ~(User \in dest.files /\ saves = 0)
             /\ dest.exists /\ dest \in Destinations
  BY <1>1, <1>5 DEF IInv, Typed, OneCloneInside, UsersPlaceIsLeft, HasRepository
<1>6. CASE partial /\ dest' = Cleaned(w) /\ Steps(i, v)
  <2> DEFINE e == ~w.created
  <2>1. e \in BOOLEAN /\ None \in 0..MaxWorkers
    BY TransferAssumption DEF None, TransferAssumption
  <2>2. dest' = [exists |-> e, files |-> {}, complete |-> None]
    BY <1>6 DEF Cleaned
  <2> HIDE DEF e
  <2>3. dest'.files = {} /\ dest'.complete = None /\ dest' \in Destinations
    BY <2>1, <2>2 DEF Destinations
  <2>4. IInv'
    BY <1>1, <1>2, <1>5, <1>6, <2>3, EmptiedKeeps DEF Steps
  <2> QED
    BY <1>5, <1>6, <2>4
<1>7. CASE partial /\ dest' \in Remains(w) /\ Steps(i, marked)
  <2>1. PICK F \in SUBSET dest.files : dest' = [dest EXCEPT !.files = F]
    BY <1>7 DEF Remains
  <2>2. /\ dest'.files = F /\ dest'.exists /\ dest'.complete = None
        /\ dest' \in Destinations
    BY <1>5, <1>7, <2>1 DEF Destinations
  <2>3. IInv'
    BY <1>1, <1>3, <1>5, <1>7, <2>1, <2>2, EmptiedKeeps DEF Steps
  <2> QED
    BY <1>5, <1>7, <2>3
<1>8. CASE ~partial /\ dest' = dest /\ Steps(i, v)
  <2>1. ASSUME i \in dest.files, dest.complete = None, w.cleanable
        PROVE  FALSE
    <3>1. w.kind = "clone" /\ w.git # "none"
      BY <1>1, <2>1, WorkerFacts DEF IInv, OneCloneInside, User, None
    <3>2. w.started /\ dest.exists
      BY <1>1, <2>1, <3>1 DEF IInv, Sound, TrafficIsKnown, OneCloneInside
    <3>3. w.outcome # "ok"
      BY <1>1, <2>1, <3>1 DEF IInv, Sound, GitIsWaitedFor, DoneIsComplete
    <3> QED
      BY <1>8, <2>1, <3>2, <3>3 DEF HasRepository
  <2>2. IInv'
    BY <1>1, <1>2, <1>8, <2>1, RecordDecides DEF Steps
  <2> QED
    BY <1>8, <2>2
<1> QED
  BY <1>4, <1>6, <1>7, <1>8

-------------------------------------------------------------------------------
(* Nobody has started anything.                                             *)
LEMMA FirstIInv ==
  ASSUME Init PROVE IInv
<1>1. PICK f \in {"absent", "empty", "files"} : dest = Places[f]
  BY TransferAssumption DEF Init, TransferAssumption
<1> DEFINE Fresh(e, fs) == [exists |-> e, files |-> fs, complete |-> None]
<1>2. /\ dest.exists \in BOOLEAN /\ dest.files \in {{}, {User}} /\ dest.complete = None
      /\ dest.files # {} => dest.exists
      /\ dest \in Destinations
  <2>1. None \in 0..MaxWorkers
    BY TransferAssumption DEF None, TransferAssumption
  <2>2. CASE f = "absent"
    <3>1. dest = Fresh(FALSE, {})
      BY <1>1, <2>2 DEF Places
    <3> QED
      BY <2>1, <3>1 DEF Destinations
  <2>3. CASE f = "empty"
    <3>1. dest = Fresh(TRUE, {})
      BY <1>1, <2>3 DEF Places
    <3> QED
      BY <2>1, <3>1 DEF Destinations
  <2>4. CASE f = "files"
    <3>1. dest = Fresh(TRUE, {User})
      BY <1>1, <2>4 DEF Places
    <3> QED
      BY <2>1, <3>1 DEF Destinations
  <2> QED
    BY <2>2, <2>3, <2>4
<1>3. Typed
  BY <1>2, TransferAssumption DEF Init, Typed, None, TransferAssumption
<1> QED
  BY <1>2, <1>3
  DEF Init, IInv, OneCloneInside, UsersPlaceIsLeft, DoneIsComplete, NoLeftover

(* All steps together; those that change the destination spare what is      *)
(* complete and what was the user's.                                        *)
LEMMA EveryStepKeeps ==
  ASSUME IInv, [Next]_vars
  PROVE  /\ IInv'
         /\ dest.complete # None => dest'.complete = dest.complete
         /\ User \in dest.files /\ saves = 0 => User \in dest'.files
<1> DEFINE Goal == /\ IInv'
                   /\ dest.complete # None => dest'.complete = dest.complete
                   /\ User \in dest.files /\ saves = 0 => User \in dest'.files
<1>1. ASSUME NEW kind \in Kinds, UserStarts(kind) PROVE Goal
  BY <1>1, UserStartsKeeps DEF UserStarts
<1>2. CASE UserCancels
  BY <1>2, UserCancelsKeeps DEF UserCancels
<1>3. CASE Aborts
  BY <1>3, AbortsKeeps DEF Aborts
<1>4. CASE LetsGo
  BY <1>4, LetsGoKeeps DEF LetsGo
<1>5. CASE UserSaves
  <2>1. dest' = [dest EXCEPT !.exists = TRUE, !.files = @ \cup {User}]
    BY <1>5 DEF UserSaves
  <2>2. dest'.complete = dest.complete /\ User \in dest'.files
    BY <2>1 DEF IInv, Typed
  <2> QED
    BY <1>5, <2>2, UserSavesKeeps
<1>6. ASSUME NEW i \in Ids,
             Begins(i) \/ OperatesClone(i) \/ Spawns(i) \/ Registers(i) \/ Reaps(i)
      PROVE  Goal
  BY <1>6, RunKeeps DEF Begins, OperatesClone, Spawns, Registers, Reaps
<1>7. ASSUME NEW i \in Ids,
             \/ NoticesEnd(i) \/ WatchdogKills(i) \/ Drains(i) \/ Reports(i) \/ Retires(i)
             \/ Kills(i) \/ ChildStrays(i)
      PROVE  Goal
  BY <1>7, EndKeeps
  DEF NoticesEnd, WatchdogKills, Drains, Reports, Retires, Kills, ChildStrays
<1>8. ASSUME NEW i \in Ids, Cleans(i) PROVE Goal
  BY <1>8, CleansKeeps
<1>9. ASSUME NEW i \in Ids, GitMakes(i) PROVE Goal
  <2>1. dest' = [dest EXCEPT !.exists = TRUE, !.files = {i}] /\ dest.files = {}
    BY <1>9 DEF GitMakes
  <2>2. dest'.complete = dest.complete
    BY <2>1 DEF IInv, Typed
  <2> QED
    BY <1>9, <2>1, <2>2, GitMakesKeeps
<1>10. ASSUME NEW i \in Ids, GitCompletes(i) PROVE Goal
  <2>1. dest' = [dest EXCEPT !.complete = i]
    BY <1>10 DEF GitCompletes
  <2>2. dest'.files = dest.files
    BY <2>1 DEF IInv, Typed
  <2> QED
    BY <1>10, <2>2, GitCompletesKeeps
<1>11. ASSUME NEW i \in Ids, GitEnds(i) PROVE Goal
  BY <1>11, GitEndsKeeps
<1>12. CASE UNCHANGED vars
  BY <1>12
  DEF vars, IInv, Typed, OneCloneInside, UsersPlaceIsLeft, DoneIsComplete, NoLeftover
<1> QED
  BY <1>1, <1>2, <1>3, <1>4, <1>5, <1>6, <1>7, <1>8, <1>9, <1>10, <1>11, <1>12
  DEF Next, WorkerSteps

(* The strengthening holds of every state, whatever git, the killer, the    *)
(* user and another clone do meanwhile.                                     *)
THEOREM TransferInvariant == Spec => []IInv
<1>1. Init => IInv
  BY FirstIInv
<1>2. IInv /\ [Next]_vars => IInv'
  BY EveryStepKeeps
<1> QED
  BY <1>1, <1>2, PTL DEF Spec

(* Every variable keeps its type.                                           *)
THEOREM TypeCorrect == Spec => []TypeOK
<1>1. IInv => TypeOK
  <2> SUFFICES ASSUME IInv PROVE TypeOK
    OBVIOUS
  <2>1. Len(worker) \in 0..MaxWorkers /\ slot \in 0..MaxWorkers /\ cancelling \in 0..MaxWorkers
    BY WorkerFacts, TransferAssumption DEF IInv, Typed, TransferAssumption
  <2>2. \A i \in DOMAIN worker :
          /\ worker[i].at \in Stages
          /\ worker[i].git \in {"none", "running", "receiving", "done", "failed", "killed"}
          /\ worker[i].outcome \in {"none", "ok", "error"}
          /\ worker[i].told \subseteq {"finished", "failed", "retired"}
          /\ worker[i].killer \in {"none", "sent", "failed"}
    BY WorkerFacts DEF IInv, Records, Gits, Outcomes, Killers
  <2>3. \A i \in DOMAIN worker : worker[i].at \in {"settled", "tidying"} => worker[i].outcome # "none"
    BY DEF IInv, Sound, GitIsWaitedFor
  <2>4. /\ dest.exists \in BOOLEAN /\ dest.files \subseteq {User} \cup Ids
        /\ dest.files # {} => dest.exists
        /\ saves \in 0..MaxSaves
    BY DEF IInv, Typed, OneCloneInside, Destinations
  <2> QED
    BY <2>1, <2>2, <2>3, <2>4 DEF TypeOK
<1> QED
  BY <1>1, TransferInvariant, PTL

(* `cancel`, `abort`, `_run`: whenever the cancellation comes, when cancel()*)
(* has returned and its thread is done no git is waited for that runs,      *)
(* unless the kill of the thread raised.                                    *)
THEOREM CancellationReachesGit == Spec => []CancelReaches
<1>1. IInv => CancelReaches
  BY WorkerFacts DEF IInv, Sound, CancelIsMet, CancelReaches, Records, Killers
<1> QED
  BY <1>1, TransferInvariant, PTL

(* `_wait_for`, `_run`: a git outlives its worker only after a kill by the  *)
(* worker that raised.                                                      *)
THEOREM NothingOutlives == Spec => []NoOrphan
<1>1. IInv => NoOrphan
  BY DEF IInv, Sound, GitIsWaitedFor, NoOrphan, Over
<1> QED
  BY <1>1, TransferInvariant, PTL

(* `_run_guarded`, `_run_measured`: what a git has moved is recorded, but   *)
(* for such a kill.                                                         *)
THEOREM TrafficIsRecorded == Spec => []TrafficRecorded
<1>1. IInv => TrafficRecorded
  BY DEF IInv, Sound, TrafficIsKnown, TrafficRecorded
<1> QED
  BY <1>1, TransferInvariant, PTL

(* `_clean_partial_clone`: the remains of a clone stay only when a removal  *)
(* failed or git goes on.                                                   *)
THEOREM NothingIsLeft == Spec => []NoLeftover
<1>1. IInv => NoLeftover
  BY DEF IInv
<1> QED
  BY <1>1, TransferInvariant, PTL

(* `_has_complete_repository`, `_decide_cleanup_policy`: a complete clone   *)
(* and the user's files from before are spared.                             *)
THEOREM CleaningIsSparing == Spec => CleaningSpares
<1>1. IInv /\ [Next]_vars =>
        [/\ dest.complete # None => dest.complete' = dest.complete
         /\ User \in dest.files /\ saves = 0 => User \in dest.files']_vars
  BY EveryStepKeeps
<1> QED
  BY <1>1, TransferInvariant, PTL DEF Spec, CleaningSpares
===============================================================================
