--------------------------- MODULE RemoteSlotProofs ---------------------------
(***************************************************************************)
(* Proofs about RemoteSlot, for any repositories and any number of workers  *)
(* and prefetches.                                                          *)
(*                                                                         *)
(* What the runs check speaks of the transfers that go on; the              *)
(* strengthening says what the window may rely on when a signal comes late: *)
(* the signal is of a worker that has got that far, a worker that waits has *)
(* not been started and waits for a prefetch, the login dialog finds the    *)
(* slot free, and a request that may be repeated has been made once.        *)
(***************************************************************************)
EXTENDS RemoteSlot, FiniteSetTheorems, TLAPS

Reports == {"finished"} \cup Errors
Retirements == {"retired", "relay"}

(* The signals that the workers may have emitted.                           *)
Emitted ==
  {e \in [type : Reports \cup Retirements, worker : DOMAIN worker] :
     /\ e.type \in Reports => /\ worker[e.worker].stage \in {"maintaining", "retired"}
                              /\ worker[e.worker].kind # "prefetch"
     /\ e.type \in Retirements => /\ worker[e.worker].stage = "retired"
                                  /\ worker[e.worker].kind = "prefetch"}

Typed ==
  /\ worker \in Seq(Workers) /\ Len(worker) <= MaxWorkers
  /\ repo \in Repos
  /\ fetch \in 0..Len(worker)
  /\ prefetch \in 0..Len(worker)
  /\ pending \in [worker : 0..Len(worker), retry : 0..requests]
  /\ retry \in 0..requests
  /\ prefetchOn \in BOOLEAN /\ enabled \in BOOLEAN /\ shown \in BOOLEAN
  /\ dialog \in 0..requests
  /\ requests \in 0..Len(worker)
  /\ dropped \subseteq 1..requests

(* A prefetch serves no request, and is the only one that is promoted; a    *)
(* request is repeated in its own repository.                               *)
RequestsKnown ==
  /\ \A i \in DOMAIN worker :
       /\ worker[i].kind = "prefetch" <=> worker[i].request = None
       /\ worker[i].request \in 0..requests
       /\ worker[i].relayed => worker[i].kind = "prefetch"
  /\ \A i, j \in DOMAIN worker :
       worker[i].request = worker[j].request /\ worker[i].request # None =>
         worker[i].repo = worker[j].repo

(* The slots are of the repository on the screen, and when both are taken   *)
(* they hold the same prefetch; nothing runs outside of them.               *)
SlotsHold ==
  /\ fetch # None => worker[fetch].repo = repo
  /\ prefetch # None => worker[prefetch].repo = repo /\ worker[prefetch].kind = "prefetch"
  /\ fetch # None /\ prefetch # None => fetch = prefetch
  /\ Transferring \subseteq {fetch, prefetch}

(* Whoever waits has not been started, and waits for a prefetch.            *)
WaitingWaits ==
  pending.worker # None =>
    /\ worker[pending.worker].stage = "new"
    /\ worker[pending.worker].kind # "prefetch"
    /\ worker[pending.worker].repo = repo
    /\ pending.retry \in {None, worker[pending.worker].request}
    /\ fetch # None => worker[fetch].kind = "prefetch"
    /\ dialog = None

(* Request n has been made once; it has been made, at most, twice.          *)
MadeOnce(n) ==
  \A i, j \in DOMAIN worker : worker[i].request = n /\ worker[j].request = n => i = j

MadeTwice(n) ==
  \A i, j, k \in DOMAIN worker :
    worker[i].request = n /\ worker[j].request = n /\ worker[k].request = n =>
      i = j \/ j = k \/ i = k

RetriesLeft ==
  /\ \A n \in 1..requests : MadeTwice(n)
  /\ retry # None => MadeOnce(retry) /\ (fetch # None => worker[fetch].request = retry)
  /\ pending.worker # None /\ pending.retry # None => MadeOnce(pending.retry)

(* The dialog keeps the slot free, and its request has not been given up.   *)
LoginIsOwed ==
  dialog # None =>
    /\ fetch = None
    /\ dialog \notin dropped
    /\ MadeOnce(dialog)
    /\ \A i \in DOMAIN worker : worker[i].request = dialog => worker[i].repo = repo

IInv ==
  /\ Typed
  /\ RequestsKnown
  /\ events \in Seq(Emitted)
  /\ SlotsHold
  /\ WaitingWaits
  /\ RetriesLeft
  /\ LoginIsOwed
  /\ fetch # None => Serving(fetch) \cap dropped = {}
  /\ EnabledMeansFree

-------------------------------------------------------------------------------
(* Every worker has an id and a record.                                     *)
LEMMA WorkerFacts ==
  ASSUME Typed
  PROVE  /\ worker \in Seq(Workers) /\ Len(worker) \in Nat /\ DOMAIN worker = 1..Len(worker)
         /\ \A i \in DOMAIN worker : worker[i] \in Workers /\ i # None
         /\ fetch # None => fetch \in DOMAIN worker
         /\ prefetch # None => prefetch \in DOMAIN worker
         /\ pending.worker # None => pending.worker \in DOMAIN worker
<1>1. worker \in Seq(Workers) /\ Len(worker) \in Nat /\ DOMAIN worker = 1..Len(worker)
  BY DEF Typed
<1>2. \A i \in DOMAIN worker : worker[i] \in Workers /\ i # None
  BY <1>1 DEF None
<1>3. pending.worker \in 0..Len(worker)
  BY DEF Typed
<1> QED
  BY <1>1, <1>2, <1>3 DEF Typed, None

(* What a worker is for, and how far it has got, is never undone.           *)
Continued ==
  /\ worker' \in Seq(Workers)
  /\ DOMAIN worker \subseteq DOMAIN worker'
  /\ \A i \in DOMAIN worker :
       /\ worker'[i].kind = worker[i].kind
       /\ worker'[i].repo = worker[i].repo
       /\ worker'[i].request = worker[i].request
       /\ worker'[i].relayed => worker[i].relayed \/ worker[i].kind = "prefetch"
       /\ worker[i].stage = "retired" => worker'[i].stage = "retired"
       /\ worker[i].stage = "maintaining" => worker'[i].stage \in {"maintaining", "retired"}

(* What was emitted stays emitted.                                          *)
LEMMA EmittedStays ==
  ASSUME Typed, Continued
  PROVE  Emitted \subseteq Emitted' /\ Seq(Emitted) \subseteq Seq(Emitted')
<1>1. Emitted \subseteq Emitted'
  BY DEF Continued, Emitted
<1> QED
  BY <1>1

(* Without a new worker the requests are what they were.                    *)
LEMMA RequestsStay ==
  ASSUME Typed, RequestsKnown, Continued, Len(worker') = Len(worker), requests' = requests
  PROVE  /\ DOMAIN worker' = DOMAIN worker
         /\ RequestsKnown'
         /\ \A n : MadeOnce(n) => MadeOnce(n)'
         /\ \A n : MadeTwice(n) => MadeTwice(n)'
<1>1. DOMAIN worker' = DOMAIN worker
  BY DEF Continued
<1> QED
  BY <1>1 DEF Continued, RequestsKnown, MadeOnce, MadeTwice

(* An update changes one field of a worker's record.                        *)
LEMMA RecordFacts ==
  ASSUME NEW w \in Workers
  PROVE  /\ LET v == [w EXCEPT !.cancelled = TRUE]
            IN  /\ v \in Workers /\ v.kind = w.kind /\ v.repo = w.repo
                /\ v.request = w.request /\ v.stage = w.stage /\ v.relayed = w.relayed
                /\ v.cancelled = TRUE
         /\ LET v == [w EXCEPT !.relayed = TRUE]
            IN  /\ v \in Workers /\ v.kind = w.kind /\ v.repo = w.repo
                /\ v.request = w.request /\ v.stage = w.stage /\ v.cancelled = w.cancelled
  BY DEF Workers

(* A stage is a field of its own, too.                                      *)
LEMMA StageFacts ==
  ASSUME NEW w \in Workers, NEW to \in Stages
  PROVE  LET v == [w EXCEPT !.stage = to]
         IN  /\ v \in Workers /\ v.kind = w.kind /\ v.repo = w.repo
             /\ v.request = w.request /\ v.relayed = w.relayed
             /\ v.cancelled = w.cancelled /\ v.stage = to
  BY DEF Workers

(* `cancel`: the flag of one worker, and nothing else.                      *)
LEMMA CancelFacts ==
  ASSUME NEW ws \in Seq(Workers), NEW i \in 0..Len(ws)
  PROVE  /\ Cancel(ws, i) \in Seq(Workers) /\ Len(Cancel(ws, i)) = Len(ws)
         /\ \A k \in DOMAIN ws :
              /\ Cancel(ws, i)[k].kind = ws[k].kind
              /\ Cancel(ws, i)[k].repo = ws[k].repo
              /\ Cancel(ws, i)[k].request = ws[k].request
              /\ Cancel(ws, i)[k].stage = ws[k].stage
              /\ Cancel(ws, i)[k].relayed = ws[k].relayed
              /\ Cancel(ws, i)[k].cancelled <=> ws[k].cancelled \/ k = i
<1>1. CASE i = None
  BY <1>1 DEF Cancel, None, Workers
<1>2. CASE i # None
  <2>1. i \in DOMAIN ws
    BY <1>2 DEF None
  <2> DEFINE v == [ws[i] EXCEPT !.cancelled = TRUE]
  <2>2. /\ v \in Workers /\ v.kind = ws[i].kind /\ v.repo = ws[i].repo
        /\ v.request = ws[i].request /\ v.stage = ws[i].stage /\ v.relayed = ws[i].relayed
        /\ v.cancelled = TRUE
    <3>1. ws[i] \in Workers
      BY <2>1
    <3> QED
      BY <3>1, RecordFacts
  <2>3. Cancel(ws, i) = [ws EXCEPT ![i] = v]
    BY <1>2 DEF Cancel
  <2> HIDE DEF v
  <2> QED
    BY <2>1, <2>2, <2>3
<1> QED
  BY <1>1, <1>2

-------------------------------------------------------------------------------
(* `_start_remote` of a worker i that has not been started: one new, or the *)
(* one that has waited.  The slot is free, or its worker has retired.       *)
LEMMA StartRemoteKeeps ==
  ASSUME Typed, RequestsKnown, SlotsHold,
         NEW ws \in Seq(Workers), NEW i \in DOMAIN ws, NEW again,
         Len(worker) <= Len(ws), Len(ws) <= MaxWorkers,
         \A k \in DOMAIN worker : ws[k] = worker[k],
         \A k \in DOMAIN ws : k \in DOMAIN worker \/ k = i,
         ws[i].stage = "new", ws[i].kind # "prefetch", ws[i].repo = repo, ~ws[i].relayed,
         ws[i].request \in 1..requests', ws[i].request \notin dropped,
         \A k \in DOMAIN worker : worker[k].request = ws[i].request => worker[k].repo = repo,
         requests <= requests', requests' \in 0..Len(ws),
         again \in {None, ws[i].request},
         again # None => \A k \in DOMAIN ws : ws[k].request = again => k = i,
         \A n \in 1..requests' : \A a, b, c \in DOMAIN ws :
           ws[a].request = n /\ ws[b].request = n /\ ws[c].request = n =>
             a = b \/ b = c \/ a = c,
         fetch # None => worker[fetch].stage = "retired",
         StartRemote(ws, i, again),
         repo' = repo, dialog' = None, dropped' = dropped, prefetchOn' \in BOOLEAN,
         events' \in Seq(Emitted)
  PROVE  IInv'
<1> DEFINE OnSlots(w) ==
      /\ w \in Seq(Workers) /\ Len(w) = Len(ws)
      /\ \A k \in DOMAIN ws : w[k].kind = ws[k].kind /\ w[k].repo = ws[k].repo
                              /\ w[k].request = ws[k].request
      /\ \A k \in DOMAIN ws : w[k].relayed => ws[k].relayed \/ ws[k].kind = "prefetch"
      /\ \A k \in DOMAIN ws : k # i => w[k].stage = ws[k].stage
      /\ \A k \in DOMAIN ws : k # i /\ ws[k].cancelled => w[k].cancelled
<1>1. /\ DOMAIN ws = 1..Len(ws) /\ Len(ws) \in Nat /\ DOMAIN worker \subseteq DOMAIN ws
      /\ DOMAIN worker = 1..Len(worker) /\ Len(worker) \in Nat /\ i # None
      /\ prefetch # None => prefetch \in DOMAIN worker
      /\ fetch # None => fetch \in DOMAIN worker
  BY WorkerFacts DEF None
<1>2. shown' = TRUE /\ enabled' = FALSE
  BY DEF StartRemote
<1>3. ASSUME OnSlots(worker'), i \in DOMAIN worker => worker[i].stage = "new"
      PROVE  /\ Continued /\ events' \in Seq(Emitted')
             /\ DOMAIN worker' = DOMAIN ws
             /\ RequestsKnown'
             /\ \A n \in 1..requests' : MadeTwice(n)'
             /\ again # None => MadeOnce(again)'
  <2>1. Continued /\ DOMAIN worker' = DOMAIN ws
    BY <1>1, <1>3 DEF Continued
  <2>2. RequestsKnown'
    <3>1. \A k \in DOMAIN ws : /\ ws[k].kind = "prefetch" <=> ws[k].request = None
                               /\ ws[k].request \in 0..requests'
                               /\ ws[k].relayed => ws[k].kind = "prefetch"
      BY <1>1 DEF RequestsKnown, Typed, None
    <3>2. \A k, l \in DOMAIN ws : ws[k].request = ws[l].request /\ ws[k].request # None =>
            ws[k].repo = ws[l].repo
      BY <1>1 DEF RequestsKnown
    <3> QED
      <4>1. ASSUME NEW k \in DOMAIN worker'
            PROVE  /\ worker'[k].kind = "prefetch" <=> worker'[k].request = None
                   /\ worker'[k].request \in 0..requests'
                   /\ worker'[k].relayed => worker'[k].kind = "prefetch"
        BY <1>3, <2>1, <3>1
      <4>2. ASSUME NEW k \in DOMAIN worker', NEW l \in DOMAIN worker',
                   worker'[k].request = worker'[l].request, worker'[k].request # None
            PROVE  worker'[k].repo = worker'[l].repo
        BY <1>3, <2>1, <3>2, <4>2
      <4> QED
        BY <4>1, <4>2 DEF RequestsKnown
  <2>3. \A n \in 1..requests' : MadeTwice(n)'
    BY <1>3, <2>1 DEF MadeTwice
  <2>4. again # None => MadeOnce(again)'
    BY <1>3, <2>1 DEF MadeOnce
  <2>5. events' \in Seq(Emitted')
    BY <2>1, EmittedStays
  <2> QED
    BY <2>1, <2>2, <2>3, <2>4, <2>5
<1>4. i \in DOMAIN worker => worker[i].stage = "new"
  OBVIOUS
<1>5. CASE Promotable(ws, i)
  <2> DEFINE v == [ws[prefetch] EXCEPT !.relayed = TRUE]
  <2>1. /\ pending' = [worker |-> i, retry |-> again] /\ retry' = None
        /\ fetch' = prefetch /\ prefetch' = prefetch
        /\ worker' = [ws EXCEPT ![prefetch] = v]
    BY <1>5 DEF StartRemote, Promote
  <2>2. prefetch # None /\ prefetch \in DOMAIN worker /\ worker[prefetch].kind = "prefetch"
        /\ prefetch # i
    BY <1>1, <1>5 DEF Promotable, SlotsHold
  <2>3. /\ v \in Workers /\ v.kind = ws[prefetch].kind /\ v.repo = ws[prefetch].repo
        /\ v.request = ws[prefetch].request /\ v.stage = ws[prefetch].stage
        /\ v.cancelled = ws[prefetch].cancelled
    <3>1. ws[prefetch] \in Workers
      BY <1>1, <2>2
    <3> QED
      BY <3>1, RecordFacts
  <2> HIDE DEF v
  <2>4. OnSlots(worker') /\ worker'[i] = ws[i]
    BY <1>1, <2>1, <2>2, <2>3
  <2>5. /\ Continued /\ events' \in Seq(Emitted') /\ DOMAIN worker' = DOMAIN ws
        /\ RequestsKnown' /\ \A n \in 1..requests' : MadeTwice(n)'
        /\ again # None => MadeOnce(again)'
    BY <1>3, <1>4, <2>4
  <2>6. Typed'
    <3>1. again \in 0..requests' /\ pending'.worker = i /\ pending'.retry = again
      BY <2>1, <1>1 DEF Typed, None
    <3>2. pending' \in [worker : 0..Len(worker'), retry : 0..requests']
      BY <1>1, <2>1, <2>4, <3>1
    <3> QED
      <4>1. worker' \in Seq(Workers) /\ Len(worker') = Len(ws)
        BY <2>4
      <4>2. fetch' \in 0..Len(worker') /\ prefetch' \in 0..Len(worker')
        BY <1>1, <2>1, <2>2, <4>1
      <4>3. repo' \in Repos /\ dropped' \subseteq 1..requests' /\ requests' \in 0..Len(worker')
        BY <4>1 DEF Typed
      <4> QED
        <5>1. None \in 0..requests' /\ retry' = None /\ dialog' = None
          BY <1>1, <2>1 DEF None
        <5> QED
          BY <1>2, <3>2, <4>1, <4>2, <4>3, <5>1 DEF Typed
  <2>7. SlotsHold'
    <3>1. Transferring' \subseteq {prefetch}
      <4>1. ASSUME NEW k \in DOMAIN worker', worker'[k].stage = "started", ~worker'[k].cancelled,
                   k # prefetch
            PROVE  FALSE
        <5>1. k \in DOMAIN worker /\ k # i
          BY <2>4, <2>5, <4>1
        <5>2. worker[k].stage = "started" /\ ~worker[k].cancelled
          BY <1>1, <2>4, <4>1, <5>1
        <5> QED
          <6>1. k = fetch /\ fetch # None
            BY <1>1, <4>1, <5>1, <5>2 DEF SlotsHold, Transferring, None
          <6> QED
            BY <5>2, <6>1
      <4> QED
        BY <4>1 DEF Transferring
    <3> QED
      BY <1>1, <2>1, <2>2, <2>4, <2>5, <3>1 DEF SlotsHold
  <2>8. WaitingWaits'
    BY <1>1, <2>1, <2>2, <2>4 DEF WaitingWaits
  <2>9. RetriesLeft'
    BY <2>1, <2>5 DEF RetriesLeft
  <2>10. fetch' # None => Serving(fetch)' \cap dropped' = {}
    <3>1. Serving(fetch)' = {ws[i].request}
      BY <1>1, <2>1, <2>2, <2>4 DEF Serving
    <3> QED
      BY <3>1
  <2> QED
    BY <1>2, <2>5, <2>6, <2>7, <2>8, <2>9, <2>10 DEF IInv, LoginIsOwed, EnabledMeansFree
<1>6. CASE ~Promotable(ws, i)
  <2> DEFINE cs == Cancel(ws, prefetch)
             v == [cs[i] EXCEPT !.stage = "started"]
  <2>1. /\ pending' = NoPending /\ prefetch' = None /\ retry' = again /\ fetch' = i
        /\ worker' = [cs EXCEPT ![i] = v]
    BY <1>6 DEF StartRemote, StartAfresh
  <2>2. prefetch \in 0..Len(ws)
    BY <1>1 DEF Typed
  <2>3. /\ cs \in Seq(Workers) /\ Len(cs) = Len(ws)
        /\ \A k \in DOMAIN ws :
             /\ cs[k].kind = ws[k].kind /\ cs[k].repo = ws[k].repo
             /\ cs[k].request = ws[k].request /\ cs[k].stage = ws[k].stage
             /\ cs[k].relayed = ws[k].relayed
             /\ cs[k].cancelled <=> ws[k].cancelled \/ k = prefetch
    BY <2>2, CancelFacts
  <2> HIDE DEF cs
  <2>4. /\ v \in Workers /\ v.kind = cs[i].kind /\ v.repo = cs[i].repo
        /\ v.request = cs[i].request /\ v.relayed = cs[i].relayed /\ v.stage = "started"
    <3>1. cs[i] \in Workers /\ "started" \in Stages
      BY <1>1, <2>3 DEF Stages
    <3> QED
      BY <3>1, StageFacts
  <2> HIDE DEF v
  <2>5. OnSlots(worker')
    BY <1>1, <2>1, <2>3, <2>4
  <2>6. /\ Continued /\ events' \in Seq(Emitted') /\ DOMAIN worker' = DOMAIN ws
        /\ RequestsKnown' /\ \A n \in 1..requests' : MadeTwice(n)'
        /\ again # None => MadeOnce(again)'
    BY <1>3, <1>4, <2>5
  <2>7. Typed'
    <3>1. again \in 0..requests' /\ pending' \in [worker : 0..Len(worker'), retry : 0..requests']
      BY <1>1, <2>1, <2>5 DEF Typed, None, NoPending
    <3> QED
      <4>1. worker' \in Seq(Workers) /\ Len(worker') = Len(ws)
        BY <2>5
      <4>2. fetch' \in 0..Len(worker') /\ prefetch' \in 0..Len(worker')
        BY <1>1, <2>1, <4>1 DEF None
      <4>3. repo' \in Repos /\ dropped' \subseteq 1..requests' /\ requests' \in 0..Len(worker')
        BY <4>1 DEF Typed
      <4> QED
        <5>1. None \in 0..requests' /\ retry' = again /\ dialog' = None
          BY <1>1, <2>1 DEF None
        <5> QED
          BY <1>2, <3>1, <4>1, <4>2, <4>3, <5>1 DEF Typed
  <2>8. SlotsHold'
    <3>1. ASSUME NEW k \in Transferring', k # i PROVE FALSE
      <4>1. k \in DOMAIN worker /\ worker'[k] = cs[k]
        BY <1>1, <2>1, <2>3, <2>6, <3>1 DEF Transferring
      <4>2. k \in Transferring /\ k # prefetch /\ worker[k].stage = "started"
        BY <1>1, <2>3, <3>1, <4>1 DEF Transferring
      <4>3. k = fetch /\ fetch # None
        BY <1>1, <4>1, <4>2 DEF SlotsHold, None
      <4> QED
        BY <4>2, <4>3
    <3> QED
      BY <2>1, <2>5, <3>1 DEF SlotsHold
  <2>9. WaitingWaits' /\ RetriesLeft'
    BY <2>1, <2>5, <2>6 DEF WaitingWaits, RetriesLeft, NoPending
  <2>10. Serving(fetch)' \cap dropped' = {}
    BY <2>1, <2>5 DEF Serving
  <2> QED
    BY <1>2, <2>6, <2>7, <2>8, <2>9, <2>10 DEF IInv, LoginIsOwed, EnabledMeansFree
<1> QED
  BY <1>5, <1>6
-------------------------------------------------------------------------------
(* No worker is added or started, and no cancelled one is taken back.       *)
Quieter ==
  /\ worker' \in Seq(Workers) /\ Len(worker') = Len(worker)
  /\ requests' = requests
  /\ \A k \in DOMAIN worker :
       /\ worker'[k].kind = worker[k].kind
       /\ worker'[k].repo = worker[k].repo
       /\ worker'[k].request = worker[k].request
       /\ worker'[k].relayed <=> worker[k].relayed
       /\ worker[k].cancelled => worker'[k].cancelled
       /\ worker[k].stage = "new" => worker'[k].stage = "new"
       /\ worker[k].stage = "retired" => worker'[k].stage = "retired"
       /\ worker[k].stage = "maintaining" => worker'[k].stage \in {"maintaining", "retired"}
       /\ worker'[k].stage = "started" => worker[k].stage = "started"

(* What holds of the workers goes on to hold after such a step.             *)
LEMMA QuieterFacts ==
  ASSUME Typed, RequestsKnown, Quieter
  PROVE  /\ DOMAIN worker' = DOMAIN worker
         /\ RequestsKnown'
         /\ Transferring' \subseteq Transferring
         /\ Seq(Emitted) \subseteq Seq(Emitted')
         /\ \A n : MadeOnce(n) => MadeOnce(n)'
         /\ \A n : MadeTwice(n) => MadeTwice(n)'
<1>1. DOMAIN worker' = DOMAIN worker
  BY WorkerFacts DEF Quieter
<1>2. Continued
  BY <1>1 DEF Quieter, Continued
<1>3. Transferring' \subseteq Transferring
  BY <1>1 DEF Quieter, Transferring
<1> QED
  BY <1>1, <1>2, <1>3, RequestsStay, EmittedStays DEF Quieter

(* A step that touches no worker is one of them, and so is a cancellation.  *)
LEMMA QuietSteps ==
  ASSUME Typed, requests' = requests,
         NEW i \in 0..Len(worker), NEW j \in 0..Len(worker),
         worker' = worker \/ worker' = Cancel(Cancel(worker, i), j)
  PROVE  /\ Quieter
         /\ worker' = Cancel(Cancel(worker, i), j) =>
              \A k \in DOMAIN worker : k \in {i, j} => worker'[k].cancelled
<1>1. CASE worker' = Cancel(Cancel(worker, i), j)
  <2> DEFINE c == Cancel(worker, i)
  <2>1. /\ c \in Seq(Workers) /\ Len(c) = Len(worker)
        /\ \A k \in DOMAIN worker :
             /\ c[k].kind = worker[k].kind /\ c[k].repo = worker[k].repo
             /\ c[k].request = worker[k].request /\ c[k].stage = worker[k].stage
             /\ c[k].relayed = worker[k].relayed
             /\ c[k].cancelled <=> worker[k].cancelled \/ k = i
    BY WorkerFacts, CancelFacts
  <2> HIDE DEF c
  <2>2. /\ worker' \in Seq(Workers) /\ Len(worker') = Len(c)
        /\ \A k \in DOMAIN c :
             /\ worker'[k].kind = c[k].kind /\ worker'[k].repo = c[k].repo
             /\ worker'[k].request = c[k].request /\ worker'[k].stage = c[k].stage
             /\ worker'[k].relayed = c[k].relayed
             /\ worker'[k].cancelled <=> c[k].cancelled \/ k = j
    BY <1>1, <2>1, CancelFacts DEF c
  <2>3. DOMAIN c = DOMAIN worker
    BY <2>1, WorkerFacts
  <2> QED
    BY <2>1, <2>2, <2>3 DEF Quieter
<1>2. CASE worker' = worker /\ worker' # Cancel(Cancel(worker, i), j)
  BY <1>2, WorkerFacts DEF Quieter
<1> QED
  BY <1>1, <1>2
-------------------------------------------------------------------------------
(* A request that is served is known, and the waiting worker's is its own.  *)
LEMMA ServingFacts ==
  ASSUME IInv
  PROVE  /\ fetch # None => Serving(fetch) \subseteq 1..requests
         /\ pending.worker # None => worker[pending.worker].request \in 1..requests
<1>1. /\ DOMAIN worker = 1..Len(worker)
      /\ fetch # None => fetch \in DOMAIN worker
      /\ pending.worker # None => pending.worker \in DOMAIN worker
  BY WorkerFacts DEF IInv
<1>2. requests \in Nat
  BY DEF IInv, Typed
<1>3. \A k \in DOMAIN worker : worker[k].kind # "prefetch" => worker[k].request \in 1..requests
  BY <1>2 DEF IInv, RequestsKnown, None
<1>4. pending.worker # None => worker[pending.worker].request \in 1..requests
  BY <1>1, <1>3 DEF IInv, WaitingWaits
<1> QED
  BY <1>1, <1>3, <1>4 DEF Serving

(* `_on_cancel_remote`: the slot is let go of with what it held cancelled.  *)
LEMMA UserCancelsKeeps == IInv /\ UserCancels => IInv'
<1> SUFFICES ASSUME IInv, UserCancels PROVE IInv'
  OBVIOUS
<1>1. /\ fetch # None /\ fetch \in DOMAIN worker /\ fetch' = None /\ retry' = None
      /\ shown' = FALSE /\ enabled' = TRUE /\ dialog = None
      /\ dropped' = dropped \cup Serving(fetch)
      /\ repo' = repo /\ prefetch' = prefetch /\ pending' = pending /\ prefetchOn' = prefetchOn
      /\ dialog' = dialog /\ events' = events /\ requests' = requests
  BY WorkerFacts DEF UserCancels, UserFree, IInv
<1>2. /\ fetch \in 0..Len(worker) /\ None \in 0..Len(worker)
      /\ worker' = Cancel(Cancel(worker, None), fetch)
  BY WorkerFacts, <1>1 DEF IInv, Typed, UserCancels, Cancel, None
<1>3. Quieter /\ worker'[fetch].cancelled
  BY <1>1, <1>2, QuietSteps DEF IInv
<1>4. /\ DOMAIN worker' = DOMAIN worker /\ RequestsKnown'
      /\ Transferring' \subseteq Transferring /\ Seq(Emitted) \subseteq Seq(Emitted')
      /\ \A n : MadeOnce(n) => MadeOnce(n)'
      /\ \A n : MadeTwice(n) => MadeTwice(n)'
  BY <1>3, QuieterFacts DEF IInv
<1>5. Typed'
  <2>1. dropped' \subseteq 1..requests
    BY <1>1, ServingFacts DEF IInv, Typed
  <2> QED
    BY <1>1, <1>2, <1>3, <2>1 DEF IInv, Typed, Quieter, None
<1>6. SlotsHold'
  BY <1>1, <1>3, <1>4, WorkerFacts DEF IInv, SlotsHold, Transferring, Quieter
<1>7. WaitingWaits'
  BY <1>1, <1>3, WorkerFacts DEF IInv, WaitingWaits, Quieter
<1>8. RetriesLeft'
  BY <1>1, <1>4 DEF IInv, RetriesLeft
<1> QED
  BY <1>1, <1>4, <1>5, <1>6, <1>7, <1>8 DEF IInv, LoginIsOwed, EnabledMeansFree

(* `_set_prefetch_enabled`: what waits for the prefetch is given up with it.*)
LEMMA UserTurnsPrefetchKeeps ==
  ASSUME IInv, NEW on \in BOOLEAN, UserTurnsPrefetch(on)
  PROVE  IInv'
<1>1. /\ prefetchOn' = on /\ dialog = None
      /\ repo' = repo /\ fetch' = fetch /\ retry' = retry /\ enabled' = enabled
      /\ shown' = shown /\ dialog' = dialog /\ events' = events /\ requests' = requests
  BY DEF UserTurnsPrefetch, UserFree
<1>2. /\ prefetch \in 0..Len(worker) /\ None \in 0..Len(worker) /\ Len(worker) \in Nat
      /\ DOMAIN worker = 1..Len(worker)
      /\ fetch # None => fetch \in DOMAIN worker
      /\ prefetch # None => prefetch \in DOMAIN worker
      /\ pending.worker # None => pending.worker \in DOMAIN worker
  BY WorkerFacts DEF IInv, Typed, None
<1>3. CASE on
  <2>1. worker' = worker /\ pending' = pending /\ prefetch' = prefetch /\ dropped' = dropped
    BY <1>3 DEF UserTurnsPrefetch
  <2> QED
    BY <1>1, <2>1 DEF IInv, Typed, RequestsKnown, Emitted, SlotsHold, Transferring,
       WaitingWaits, RetriesLeft, MadeOnce, MadeTwice, LoginIsOwed, Serving, EnabledMeansFree
<1>4. CASE ~on
  <2>1. /\ pending' = NoPending /\ prefetch' = None
        /\ worker' = Cancel(Cancel(worker, None), prefetch)
        /\ dropped' = dropped \cup {worker[p].request : p \in {pending.worker} \ {None}}
    BY <1>4 DEF UserTurnsPrefetch, DropPrefetch, Cancel
  <2>2. Quieter /\ (prefetch # None => worker'[prefetch].cancelled)
    BY <1>1, <1>2, <2>1, QuietSteps DEF IInv
  <2>3. /\ DOMAIN worker' = DOMAIN worker /\ RequestsKnown'
        /\ Transferring' \subseteq Transferring /\ Seq(Emitted) \subseteq Seq(Emitted')
        /\ \A n : MadeOnce(n) => MadeOnce(n)'
        /\ \A n : MadeTwice(n) => MadeTwice(n)'
    BY <2>2, QuieterFacts DEF IInv
  <2>4. Typed'
    <3>1. dropped' \subseteq 1..requests
      BY <2>1, ServingFacts DEF IInv, Typed
    <3>2. pending' \in [worker : 0..Len(worker'), retry : 0..requests']
      BY <1>1, <1>2, <2>1, <2>2 DEF IInv, Typed, Quieter, NoPending, None
    <3> QED
      BY <1>1, <1>2, <2>1, <2>2, <3>1, <3>2 DEF IInv, Typed, Quieter
  <2>5. SlotsHold'
    <3>1. Transferring' \subseteq {fetch}
      BY <1>2, <2>2, <2>3 DEF IInv, SlotsHold, Transferring, None
    <3> QED
      BY <1>1, <1>2, <2>1, <2>2, <3>1 DEF IInv, SlotsHold, Quieter
  <2>6. WaitingWaits' /\ RetriesLeft'
    BY <1>1, <1>2, <2>1, <2>2, <2>3 DEF IInv, WaitingWaits, RetriesLeft, NoPending, Quieter
  <2>7. fetch' # None => Serving(fetch)' \cap dropped' = {}
    <3>1. CASE fetch # None /\ worker[fetch].kind = "prefetch"
      BY <1>1, <1>2, <2>1, <2>2, <3>1 DEF Serving, NoPending, Quieter
    <3>2. CASE fetch # None /\ worker[fetch].kind # "prefetch"
      <4>1. pending.worker = None
        BY <3>2 DEF IInv, WaitingWaits
      <4> QED
        BY <1>1, <1>2, <2>1, <2>2, <3>2, <4>1 DEF IInv, Serving, Quieter
    <3> QED
      BY <1>1, <3>1, <3>2
  <2> QED
    BY <1>1, <2>3, <2>4, <2>5, <2>6, <2>7 DEF IInv, LoginIsOwed, EnabledMeansFree
<1> QED
  BY <1>3, <1>4
(* `open_repository`, with the slot as it is or, after a result that is     *)
(* through with git, free.                                                  *)
LEMMA OpenKeeps ==
  ASSUME IInv, NEW r \in Repos, NEW f, NEW sh \in BOOLEAN, OpenFrom(r, f, sh),
         f = fetch \/ (f = None /\ worker[fetch].stage # "started"),
         r # repo => dialog = None,
         retry' = retry, prefetchOn' = prefetchOn, dialog' = dialog, requests' = requests,
         events' \in Seq(Emitted)
  PROVE  IInv'
<1>1. /\ prefetch \in 0..Len(worker) /\ f \in 0..Len(worker) /\ None \in 0..Len(worker)
      /\ DOMAIN worker = 1..Len(worker) /\ Len(worker) \in Nat
      /\ fetch # None => fetch \in DOMAIN worker
      /\ prefetch # None => prefetch \in DOMAIN worker
      /\ pending.worker # None => pending.worker \in DOMAIN worker
  BY WorkerFacts DEF IInv, Typed, None
<1>2. repo' = r /\ enabled' = (fetch' = None)
  BY DEF OpenFrom
<1>3. CASE r # repo
  <2>1. /\ pending' = NoPending /\ prefetch' = None /\ fetch' = None /\ shown' = (sh /\ f = None)
        /\ worker' = Cancel(Cancel(worker, prefetch), f)
        /\ dropped' = dropped \cup (IF f = None THEN {} ELSE Serving(f))
    BY <1>3 DEF OpenFrom, DropPrefetch
  <2>2. Quieter /\ (\A k \in DOMAIN worker : k \in {prefetch, f} => worker'[k].cancelled)
    BY <1>1, <2>1, QuietSteps DEF IInv
  <2>3. /\ DOMAIN worker' = DOMAIN worker /\ RequestsKnown'
        /\ Transferring' \subseteq Transferring /\ Seq(Emitted) \subseteq Seq(Emitted')
        /\ \A n : MadeOnce(n) => MadeOnce(n)'
        /\ \A n : MadeTwice(n) => MadeTwice(n)'
    BY <2>2, QuieterFacts DEF IInv
  <2>4. Typed'
    <3>1. dropped' \subseteq 1..requests
      BY <2>1, ServingFacts DEF IInv, Typed
    <3>2. pending' \in [worker : 0..Len(worker'), retry : 0..requests']
      BY <1>1, <2>1, <2>2 DEF IInv, Typed, Quieter, NoPending, None
    <3>3. shown' \in BOOLEAN /\ enabled' \in BOOLEAN
      BY <1>2, <2>1
    <3>4. fetch' \in 0..Len(worker') /\ prefetch' \in 0..Len(worker')
      BY <1>1, <2>1, <2>2 DEF Quieter
    <3> QED
      BY <1>1, <1>2, <2>2, <3>1, <3>2, <3>3, <3>4 DEF IInv, Typed, Quieter
  <2>5. SlotsHold'
    <3>1. Transferring' = {}
      BY <1>1, <2>2, <2>3 DEF IInv, SlotsHold, Transferring, None, Quieter
    <3> QED
      BY <2>1, <3>1 DEF SlotsHold
  <2>6. WaitingWaits' /\ RetriesLeft' /\ LoginIsOwed'
    BY <1>3, <2>1, <2>3 DEF IInv, WaitingWaits, RetriesLeft, LoginIsOwed, NoPending
  <2> QED
    BY <2>1, <2>3, <2>4, <2>5, <2>6 DEF IInv, EnabledMeansFree
<1>4. CASE r = repo
  <2>1. /\ fetch' = f /\ shown' = sh /\ worker' = worker /\ prefetch' = prefetch
        /\ pending' = pending /\ dropped' = dropped
    BY <1>4 DEF OpenFrom
  <2>2. Typed' /\ RequestsKnown' /\ events' \in Seq(Emitted')
    BY <1>1, <1>2, <2>1 DEF IInv, Typed, RequestsKnown, Emitted
  <2>3. SlotsHold'
    <3>1. Transferring' \subseteq {f, prefetch}
      BY <2>1 DEF IInv, SlotsHold, Transferring
    <3> QED
      BY <1>2, <1>4, <2>1, <3>1 DEF IInv, SlotsHold
  <2>4. WaitingWaits' /\ RetriesLeft' /\ LoginIsOwed'
    BY <1>2, <1>4, <2>1 DEF IInv, WaitingWaits, RetriesLeft, MadeOnce, MadeTwice, LoginIsOwed
  <2>5. fetch' # None => Serving(fetch)' \cap dropped' = {}
    BY <2>1 DEF IInv, Serving
  <2> QED
    BY <1>2, <2>2, <2>3, <2>4, <2>5 DEF IInv, EnabledMeansFree
<1> QED
  BY <1>3, <1>4

(* `_maybe_prefetch`: both slots are free, so nothing else runs.            *)
LEMMA TimerPrefetchesKeeps == IInv /\ TimerPrefetches => IInv'
<1> SUFFICES ASSUME IInv, TimerPrefetches PROVE IInv'
  OBVIOUS
<1> DEFINE w == [Worker("prefetch", repo, None) EXCEPT !.stage = "started"]
<1>1. /\ fetch = None /\ prefetch = None /\ Len(worker) < MaxWorkers
      /\ worker' = Append(worker, w) /\ prefetch' = Len(worker) + 1
      /\ repo' = repo /\ fetch' = fetch /\ pending' = pending /\ retry' = retry
      /\ prefetchOn' = prefetchOn /\ enabled' = enabled /\ shown' = shown
      /\ dialog' = dialog /\ events' = events /\ requests' = requests /\ dropped' = dropped
  BY DEF TimerPrefetches
<1>2. /\ w \in Workers /\ w.kind = "prefetch" /\ w.repo = repo /\ w.request = None
      /\ w.stage = "started" /\ w.relayed = FALSE
  <2>1. Worker("prefetch", repo, None) \in Workers /\ "started" \in Stages
    BY RemoteAssumption DEF IInv, Typed, Worker, Workers, Stages, None, RemoteAssumption
  <2> QED
    BY <2>1, StageFacts DEF Worker
<1> HIDE DEF w
<1>3. /\ DOMAIN worker = 1..Len(worker) /\ Len(worker) \in Nat
      /\ pending.worker # None => pending.worker \in DOMAIN worker
  BY WorkerFacts DEF IInv
<1>4. /\ worker' \in Seq(Workers) /\ Len(worker') = Len(worker) + 1
      /\ DOMAIN worker' = DOMAIN worker \cup {prefetch'} /\ prefetch' \notin DOMAIN worker
      /\ worker'[prefetch'] = w /\ \A k \in DOMAIN worker : worker'[k] = worker[k]
  BY <1>1, <1>2, <1>3 DEF IInv, Typed
<1>5. Continued
  BY <1>4 DEF Continued
<1>6. events' \in Seq(Emitted')
  BY <1>1, <1>5, EmittedStays DEF IInv
<1>7. Typed'
  <2>1. /\ Len(worker') <= MaxWorkers
        /\ 0..Len(worker) \subseteq 0..Len(worker') /\ prefetch' \in 0..Len(worker')
    BY <1>1, <1>3, <1>4, RemoteAssumption DEF RemoteAssumption
  <2>2. pending' \in [worker : 0..Len(worker'), retry : 0..requests']
    BY <1>1, <2>1 DEF IInv, Typed
  <2> QED
    BY <1>1, <1>4, <2>1, <2>2 DEF IInv, Typed
<1>8. RequestsKnown'
  <2>1. ASSUME NEW k \in DOMAIN worker'
        PROVE  /\ worker'[k].kind = "prefetch" <=> worker'[k].request = None
               /\ worker'[k].request \in 0..requests'
               /\ worker'[k].relayed => worker'[k].kind = "prefetch"
    BY <1>1, <1>2, <1>4 DEF IInv, Typed, RequestsKnown, None
  <2>2. ASSUME NEW k \in DOMAIN worker', NEW l \in DOMAIN worker',
               worker'[k].request = worker'[l].request, worker'[k].request # None
        PROVE  worker'[k].repo = worker'[l].repo
    BY <1>2, <1>4, <2>2 DEF IInv, RequestsKnown
  <2> QED
    BY <2>1, <2>2 DEF RequestsKnown
<1>9. SlotsHold'
  <2>1. ASSUME NEW k \in Transferring', k # prefetch' PROVE FALSE
    <3>1. k \in Transferring
      BY <1>4, <2>1 DEF Transferring
    <3> QED
      BY <1>1, <1>3, <3>1 DEF IInv, SlotsHold, Transferring, None
  <2> QED
    BY <1>1, <1>2, <1>4, <2>1 DEF SlotsHold
<1>10. \A n : n # None => (MadeOnce(n) => MadeOnce(n)') /\ (MadeTwice(n) => MadeTwice(n)')
  BY <1>2, <1>4 DEF MadeOnce, MadeTwice
<1>11. WaitingWaits'
  BY <1>1, <1>3, <1>4 DEF IInv, WaitingWaits
<1>12. RetriesLeft'
  BY <1>1, <1>10 DEF IInv, RetriesLeft, None
<1>13. LoginIsOwed'
  BY <1>1, <1>2, <1>4, <1>10 DEF IInv, LoginIsOwed
<1> QED
  BY <1>1, <1>6, <1>7, <1>8, <1>9, <1>11, <1>12, <1>13 DEF IInv, EnabledMeansFree

(* The worker of a user's operation, at the end of those constructed.       *)
LEMMA AppendFacts ==
  ASSUME Typed, Len(worker) < MaxWorkers, NEW kind \in UserKinds, NEW r \in Repos,
         NEW n \in 1..MaxWorkers
  PROVE  LET ws == Append(worker, Worker(kind, r, n))
             i == Len(worker) + 1
         IN  /\ ws \in Seq(Workers) /\ Len(ws) = i /\ i \in DOMAIN ws /\ i \notin DOMAIN worker
             /\ DOMAIN ws = DOMAIN worker \cup {i} /\ Len(ws) <= MaxWorkers
             /\ \A k \in DOMAIN worker : ws[k] = worker[k]
             /\ ws[i].stage = "new" /\ ws[i].kind = kind /\ ws[i].kind # "prefetch"
             /\ ws[i].repo = r /\ ws[i].request = n /\ ~ws[i].relayed
<1> DEFINE w == Worker(kind, r, n)
<1>1. /\ w \in Workers /\ w.stage = "new" /\ w.kind = kind /\ w.kind # "prefetch"
      /\ w.repo = r /\ w.request = n /\ w.relayed = FALSE
  BY DEF Worker, Workers, Stages, UserKinds
<1>2. DOMAIN worker = 1..Len(worker) /\ Len(worker) \in Nat /\ worker \in Seq(Workers)
  BY WorkerFacts
<1>3. MaxWorkers \in Nat
  BY RemoteAssumption DEF RemoteAssumption
<1> HIDE DEF w
<1>4. /\ Append(worker, w) \in Seq(Workers) /\ Len(Append(worker, w)) = Len(worker) + 1
      /\ \A k \in DOMAIN worker : Append(worker, w)[k] = worker[k]
      /\ Append(worker, w)[Len(worker) + 1] = w
      /\ DOMAIN Append(worker, w) = DOMAIN worker \cup {Len(worker) + 1}
  BY <1>1, <1>2
<1> QED
  BY <1>1, <1>2, <1>3, <1>4 DEF w
(* `_on_fetch` and its like: the request is a new one, and the slot is free.*)
LEMMA UserStartsKeeps ==
  ASSUME IInv, NEW kind \in UserKinds, UserStarts(kind)
  PROVE  IInv'
<1> DEFINE n == requests + 1
           i == Len(worker) + 1
           ws == Append(worker, Worker(kind, repo, n))
<1>1. /\ fetch = None /\ dialog = None /\ Len(worker) < MaxWorkers /\ requests' = n
      /\ StartRemote(ws, i, n)
      /\ repo' = repo /\ prefetchOn' = prefetchOn /\ dialog' = dialog /\ events' = events
      /\ dropped' = dropped
  BY DEF UserStarts, UserFree
<1>2. /\ Len(worker) \in Nat /\ DOMAIN worker = 1..Len(worker) /\ requests \in 0..Len(worker)
      /\ MaxWorkers \in Nat /\ n \in 1..MaxWorkers /\ n \in 0..i
      /\ n \in 1..requests' /\ requests <= requests' /\ n \notin dropped /\ n # None
      /\ repo \in Repos /\ prefetchOn \in BOOLEAN
  BY <1>1, WorkerFacts, RemoteAssumption DEF RemoteAssumption, IInv, Typed, None
<1>3. /\ ws \in Seq(Workers) /\ Len(ws) = i /\ i \in DOMAIN ws /\ i \notin DOMAIN worker
      /\ DOMAIN ws = DOMAIN worker \cup {i} /\ Len(ws) <= MaxWorkers
      /\ \A k \in DOMAIN worker : ws[k] = worker[k]
      /\ ws[i].stage = "new" /\ ws[i].kind = kind /\ ws[i].kind # "prefetch"
      /\ ws[i].repo = repo /\ ws[i].request = n /\ ~ws[i].relayed
  BY <1>1, <1>2, AppendFacts DEF IInv
<1> HIDE DEF ws
<1>4. \A k \in DOMAIN worker : worker[k].request # n
  BY <1>2 DEF IInv, RequestsKnown
<1>5. \A m \in 1..requests' : \A a, b, c \in DOMAIN ws :
        ws[a].request = m /\ ws[b].request = m /\ ws[c].request = m =>
          a = b \/ b = c \/ a = c
  <2> TAKE m \in 1..requests'
  <2>1. CASE m = n
    BY <1>3, <1>4, <2>1
  <2>2. CASE m # n
    <3>1. m \in 1..requests
      BY <1>1, <1>2, <2>2
    <3>2. MadeTwice(m)
      BY <3>1 DEF IInv, RetriesLeft
    <3> QED
      BY <1>3, <2>2, <3>2 DEF MadeTwice
  <2> QED
    BY <2>1, <2>2
<1>6. /\ \A k \in DOMAIN ws : k \in DOMAIN worker \/ k = i
      /\ \A k \in DOMAIN ws : ws[k].request = n => k = i
      /\ \A k \in DOMAIN worker : worker[k].request = ws[i].request => worker[k].repo = repo
      /\ Len(worker) <= Len(ws) /\ requests' \in 0..Len(ws)
      /\ ws[i].request \in 1..requests' /\ ws[i].request \notin dropped
      /\ n \in {None, ws[i].request} /\ requests <= requests'
  BY <1>1, <1>2, <1>3, <1>4
<1>7. events' \in Seq(Emitted) /\ prefetchOn' \in BOOLEAN /\ dialog' = None
  BY <1>1, <1>2 DEF IInv
<1> HIDE DEF n, i
<1> QED
  <2>1. /\ Typed /\ RequestsKnown /\ SlotsHold
        /\ fetch # None => worker[fetch].stage = "retired"
        /\ n # None => \A k \in DOMAIN ws : ws[k].request = n => k = i
    BY <1>1, <1>6 DEF IInv
  <2> QED
    BY <2>1, <1>1, <1>2, <1>3, <1>5, <1>6, <1>7, StartRemoteKeeps, SMTT(60)

(* `_ask_and_retry`: the request has been made once, and is made again.     *)
LEMMA UserLogsInKeeps == IInv /\ UserLogsIn => IInv'
<1> SUFFICES ASSUME IInv, UserLogsIn PROVE IInv'
  OBVIOUS
<1>1. PICK first \in DOMAIN worker :
        /\ worker[first].request = dialog
        /\ StartRemote(Append(worker, Worker(worker[first].kind, worker[first].repo, dialog)),
                       Len(worker) + 1, None)
  BY DEF UserLogsIn
<1> DEFINE i == Len(worker) + 1
           ws == Append(worker, Worker(worker[first].kind, worker[first].repo, dialog))
<1>2. /\ dialog # None /\ Len(worker) < MaxWorkers /\ dialog' = None
      /\ repo' = repo /\ prefetchOn' = prefetchOn /\ events' = events /\ requests' = requests
      /\ dropped' = dropped
  BY DEF UserLogsIn
<1>3. /\ fetch = None /\ dialog \notin dropped /\ MadeOnce(dialog)
      /\ \A k \in DOMAIN worker : worker[k].request = dialog => worker[k].repo = repo
  BY <1>2 DEF IInv, LoginIsOwed
<1>4. /\ Len(worker) \in Nat /\ DOMAIN worker = 1..Len(worker) /\ requests \in 0..Len(worker)
      /\ dialog \in 1..requests /\ dialog \in 1..MaxWorkers /\ repo \in Repos
      /\ prefetchOn \in BOOLEAN /\ worker[first] \in Workers
  BY <1>2, WorkerFacts, RemoteAssumption DEF RemoteAssumption, IInv, Typed, None
<1>5. worker[first].kind \in UserKinds /\ worker[first].repo = repo
  BY <1>1, <1>2, <1>3, <1>4 DEF IInv, RequestsKnown, Workers
<1>6. /\ ws \in Seq(Workers) /\ Len(ws) = i /\ i \in DOMAIN ws /\ i \notin DOMAIN worker
      /\ DOMAIN ws = DOMAIN worker \cup {i} /\ Len(ws) <= MaxWorkers
      /\ \A k \in DOMAIN worker : ws[k] = worker[k]
      /\ ws[i].stage = "new" /\ ws[i].kind # "prefetch"
      /\ ws[i].repo = repo /\ ws[i].request = dialog /\ ~ws[i].relayed
  BY <1>2, <1>4, <1>5, AppendFacts DEF IInv
<1>7. StartRemote(ws, i, None)
  BY <1>1
<1> HIDE DEF ws
<1>8. \A m \in 1..requests' : \A a, b, c \in DOMAIN ws :
        ws[a].request = m /\ ws[b].request = m /\ ws[c].request = m =>
          a = b \/ b = c \/ a = c
  <2> TAKE m \in 1..requests'
  <2>1. MadeTwice(m)
    BY <1>2 DEF IInv, RetriesLeft
  <2>2. CASE m = dialog
    BY <1>3, <1>6, <2>2 DEF MadeOnce
  <2>3. CASE m # dialog
    BY <1>6, <2>1, <2>3 DEF MadeTwice
  <2> QED
    BY <2>2, <2>3
<1>9. /\ \A k \in DOMAIN ws : k \in DOMAIN worker \/ k = i
      /\ \A k \in DOMAIN worker : worker[k].request = ws[i].request => worker[k].repo = repo
      /\ Len(worker) <= Len(ws) /\ requests' \in 0..Len(ws) /\ requests <= requests'
      /\ ws[i].request \in 1..requests' /\ ws[i].request \notin dropped
  BY <1>2, <1>3, <1>4, <1>6
<1>10. events' \in Seq(Emitted) /\ prefetchOn' \in BOOLEAN
  BY <1>2, <1>4 DEF IInv
<1> HIDE DEF i
<1> QED
  BY <1>2, <1>3, <1>6, <1>7, <1>8, <1>9, <1>10, StartRemoteKeeps DEF IInv

(* The login that is declined is given up; the slot is free.                *)
LEMMA UserDeclinesKeeps == IInv /\ UserDeclines => IInv'
<1> SUFFICES ASSUME IInv, UserDeclines PROVE IInv'
  OBVIOUS
<1>1. /\ dialog # None /\ dialog' = None /\ dropped' = dropped \cup {dialog}
      /\ worker' = worker /\ repo' = repo /\ fetch' = fetch /\ prefetch' = prefetch
      /\ pending' = pending /\ retry' = retry /\ prefetchOn' = prefetchOn
      /\ enabled' = enabled /\ shown' = shown /\ events' = events /\ requests' = requests
  BY DEF UserDeclines
<1>2. fetch = None /\ dialog \in 1..requests /\ None \in 0..requests
  BY <1>1 DEF IInv, LoginIsOwed, Typed, None
<1>3. Typed' /\ RequestsKnown' /\ events' \in Seq(Emitted') /\ SlotsHold'
  BY <1>1, <1>2 DEF IInv, Typed, RequestsKnown, Emitted, SlotsHold, Transferring
<1> QED
  BY <1>1, <1>2, <1>3
     DEF IInv, WaitingWaits, RetriesLeft, MadeOnce, MadeTwice, LoginIsOwed, EnabledMeansFree

-------------------------------------------------------------------------------
(* A step of worker i that ends what git does for it.                       *)
LEMMA MovesKeeps ==
  ASSUME IInv, NEW i \in DOMAIN worker, NEW to \in {"maintaining", "retired"},
         worker[i].stage \in {"started", "maintaining"},
         worker' = [worker EXCEPT ![i].stage = to], UNCHANGED UI,
         events \in Seq(Emitted') => events' \in Seq(Emitted')
  PROVE  IInv'
<1> DEFINE w == [worker[i] EXCEPT !.stage = to]
<1>1. /\ worker' = [worker EXCEPT ![i] = w]
      /\ repo' = repo /\ fetch' = fetch /\ prefetch' = prefetch
      /\ pending' = pending /\ retry' = retry /\ prefetchOn' = prefetchOn
      /\ enabled' = enabled /\ shown' = shown /\ dialog' = dialog /\ requests' = requests
      /\ dropped' = dropped
  BY DEF UI
<1>2. /\ w \in Workers /\ w.kind = worker[i].kind /\ w.repo = worker[i].repo
      /\ w.request = worker[i].request /\ w.relayed = worker[i].relayed
      /\ w.cancelled = worker[i].cancelled /\ w.stage = to
  <2>1. worker[i] \in Workers /\ to \in Stages
    BY WorkerFacts DEF IInv, Stages
  <2> QED
    BY <2>1, StageFacts
<1> HIDE DEF w
<1>3. /\ DOMAIN worker = 1..Len(worker) /\ Len(worker) \in Nat
      /\ fetch # None => fetch \in DOMAIN worker
      /\ prefetch # None => prefetch \in DOMAIN worker
      /\ pending.worker # None => pending.worker \in DOMAIN worker
  BY WorkerFacts DEF IInv
<1>4. Quieter
  <2>1. worker' \in Seq(Workers) /\ Len(worker') = Len(worker)
    <3>1. worker \in Seq(Workers)
      BY WorkerFacts DEF IInv
    <3> QED
      BY <1>1, <1>2, <3>1
  <2>2. worker'[i] = w /\ \A k \in DOMAIN worker : k # i => worker'[k] = worker[k]
    BY <1>1, <1>3
  <2> QED
    BY <1>1, <1>2, <2>1, <2>2 DEF Quieter
<1>5. /\ DOMAIN worker' = DOMAIN worker /\ RequestsKnown'
      /\ Transferring' \subseteq Transferring /\ Seq(Emitted) \subseteq Seq(Emitted')
      /\ \A n : MadeOnce(n) => MadeOnce(n)'
      /\ \A n : MadeTwice(n) => MadeTwice(n)'
  BY <1>4, QuieterFacts DEF IInv
<1>6. Typed'
  BY <1>1, <1>4 DEF IInv, Typed, Quieter
<1>7. events' \in Seq(Emitted')
  BY <1>5 DEF IInv
<1>8. SlotsHold' /\ WaitingWaits'
  BY <1>1, <1>3, <1>4, <1>5 DEF IInv, SlotsHold, WaitingWaits, Quieter
<1>9. RetriesLeft' /\ LoginIsOwed'
  BY <1>1, <1>3, <1>4, <1>5 DEF IInv, RetriesLeft, LoginIsOwed, Quieter
<1>10. fetch' # None => Serving(fetch)' \cap dropped' = {}
  BY <1>1, <1>3, <1>4 DEF IInv, Serving, Quieter
<1> QED
  BY <1>1, <1>5, <1>6, <1>7, <1>8, <1>9, <1>10 DEF IInv, EnabledMeansFree
(* `_operate` and `_maintain`: what is emitted is true of the worker then.  *)
LEMMA RunsKeeps ==
  ASSUME IInv, NEW i \in DOMAIN worker, Runs(i)
  PROVE  IInv'
<1>1. /\ worker \in Seq(Workers) /\ worker[i] \in Workers
      /\ worker[i].relayed => worker[i].kind = "prefetch"
  BY WorkerFacts DEF IInv, RequestsKnown
<1>2. ASSUME NEW to \in {"maintaining", "retired"}, worker' = [worker EXCEPT ![i].stage = to]
      PROVE  /\ i \in DOMAIN worker' /\ worker'[i].stage = to
             /\ worker'[i].kind = worker[i].kind
  <2>1. worker' = [worker EXCEPT ![i] = [worker[i] EXCEPT !.stage = to]] /\ to \in Stages
    BY <1>2 DEF Stages
  <2>2. /\ [worker[i] EXCEPT !.stage = to].stage = to
        /\ [worker[i] EXCEPT !.stage = to].kind = worker[i].kind
    BY <1>1, <2>1, StageFacts
  <2> QED
    BY <1>1, <2>1, <2>2
<1>3. ASSUME NEW to \in {"maintaining", "retired"}, worker' = [worker EXCEPT ![i].stage = to],
             NEW type \in Reports
      PROVE  Outcome(i, type) \in Seq(Emitted')
  <2>1. CASE worker[i].cancelled \/ worker[i].kind = "prefetch"
    BY <2>1 DEF Outcome
  <2>2. CASE ~worker[i].cancelled /\ worker[i].kind # "prefetch"
    <3>1. Signal(type, i) \in Emitted'
      BY <1>2, <1>3, <2>2 DEF Emitted, Signal, Reports, Retirements, Errors
    <3> QED
      BY <2>2, <3>1 DEF Outcome
  <2> QED
    BY <2>1, <2>2
<1>4. ASSUME worker' = [worker EXCEPT ![i].stage = "retired"]
      PROVE  Retirement(i) \in Seq(Emitted')
  <2>1. CASE worker[i].kind = "prefetch"
    <3>1. Signal("retired", i) \in Emitted' /\ Signal("relay", i) \in Emitted'
      BY <1>2, <1>4, <2>1 DEF Emitted, Signal, Reports, Retirements, Errors
    <3> DEFINE a == Signal("retired", i)
               b == Signal("relay", i)
    <3> HIDE DEF a, b
    <3>2. <<a>> \in Seq(Emitted') /\ <<b>> \in Seq(Emitted') /\ <<>> \in Seq(Emitted')
      BY <3>1 DEF a, b
    <3>3. Retirement(i) = <<a>> \o (IF worker[i].relayed THEN <<b>> ELSE <<>>)
      BY <2>1 DEF Retirement, a, b
    <3> QED
      BY <3>2, <3>3
  <2>2. CASE worker[i].kind # "prefetch"
    <3>1. Retirement(i) = <<>> \o <<>>
      BY <1>1, <2>2 DEF Retirement
    <3> QED
      BY <3>1
  <2> QED
    BY <2>1, <2>2
<1>5. CASE Succeeds(i)
  <2>1. CASE worker[i].cancelled
    <3>1. /\ worker[i].stage = "started" /\ worker' = [worker EXCEPT ![i].stage = "retired"]
          /\ events' = events \o Retirement(i) /\ UNCHANGED UI
      BY <1>5, <2>1 DEF Succeeds, Moves
    <3>2. events \in Seq(Emitted') => events' \in Seq(Emitted')
      BY <1>4, <3>1
    <3> QED
      BY <3>1, <3>2, MovesKeeps
  <2>2. CASE ~worker[i].cancelled
    <3>1. /\ worker[i].stage = "started" /\ worker' = [worker EXCEPT ![i].stage = "maintaining"]
          /\ events' = events \o Outcome(i, "finished") /\ UNCHANGED UI
      BY <1>5, <2>2 DEF Succeeds, Moves
    <3>2. "finished" \in Reports
      BY DEF Reports
    <3>3. events \in Seq(Emitted') => events' \in Seq(Emitted')
      BY <1>3, <3>1, <3>2
    <3> QED
      BY <3>1, <3>3, MovesKeeps
  <2> QED
    BY <2>1, <2>2
<1>6. ASSUME NEW error \in Errors, Fails(i, error) PROVE IInv'
  <2>1. /\ worker[i].stage = "started" /\ worker' = [worker EXCEPT ![i].stage = "retired"]
        /\ events' = events \o (Outcome(i, error) \o Retirement(i)) /\ UNCHANGED UI
    BY <1>6 DEF Fails, Moves
  <2>2. Outcome(i, error) \in Seq(Emitted') /\ Retirement(i) \in Seq(Emitted')
    BY <1>3, <1>4, <2>1 DEF Reports
  <2>3. events \in Seq(Emitted') => events' \in Seq(Emitted')
    BY <2>1, <2>2
  <2> QED
    BY <2>1, <2>3, MovesKeeps
<1>7. CASE Tidies(i)
  <2>1. /\ worker[i].stage = "maintaining" /\ worker' = [worker EXCEPT ![i].stage = "retired"]
        /\ events' = events \o Retirement(i) /\ UNCHANGED UI
    BY <1>7 DEF Tidies, Moves
  <2>2. events \in Seq(Emitted') => events' \in Seq(Emitted')
    BY <1>4, <2>1
  <2> QED
    BY <2>1, <2>2, MovesKeeps
<1> QED
  BY <1>5, <1>6, <1>7 DEF Runs

-------------------------------------------------------------------------------
(* A signal that is received is true of its worker still.                   *)
LEMMA ReceiveFacts ==
  ASSUME IInv, NEW type, NEW i, Receive(type, i)
  PROVE  /\ events' \in Seq(Emitted)
         /\ i \in DOMAIN worker
         /\ type \in Reports => /\ worker[i].stage \in {"maintaining", "retired"}
                                /\ worker[i].kind # "prefetch"
         /\ type \in Retirements => /\ worker[i].stage = "retired"
                                    /\ worker[i].kind = "prefetch"
<1>1. events \in Seq(Emitted) /\ events # <<>> /\ events' = Tail(events)
  BY DEF IInv, Receive
<1> HIDE DEF IInv
<1>2. Head(events) \in Emitted /\ events' \in Seq(Emitted)
  BY <1>1
<1>3. Signal(type, i) \in Emitted
  BY <1>2 DEF Receive
<1> QED
  BY <1>2, <1>3 DEF Emitted, Signal

(* When the user's own operation holds the slot, nobody waits for it.       *)
LEMMA NobodyWaits ==
  ASSUME IInv, fetch # None, worker[fetch].kind # "prefetch"
  PROVE  pending.worker = None
BY DEF IInv, WaitingWaits

(* `_on_remote_finished`, `_on_remote_failed`, `_on_prefetch_retired` and   *)
(* `_on_promoted_retired`, and the signals they drop.                       *)
LEMMA HandlesKeeps ==
  ASSUME IInv, NEW i \in DOMAIN worker, Handles(i)
  PROVE  IInv'
<1>1. /\ DOMAIN worker = 1..Len(worker) /\ Len(worker) \in Nat /\ i # None
      /\ fetch # None => fetch \in DOMAIN worker
      /\ pending.worker # None => pending.worker \in DOMAIN worker
  BY WorkerFacts DEF IInv
<1>2. CASE DropsLate({"finished"} \cup Errors, i)
  <2>1. events' \in Seq(Emitted)
    BY <1>2, ReceiveFacts DEF DropsLate
  <2>2. /\ worker' = worker /\ repo' = repo /\ fetch' = fetch /\ prefetch' = prefetch
        /\ pending' = pending /\ retry' = retry /\ prefetchOn' = prefetchOn
        /\ enabled' = enabled /\ shown' = shown /\ dialog' = dialog
        /\ requests' = requests /\ dropped' = dropped
    BY <1>2 DEF DropsLate, UI
  <2>3. Typed' /\ RequestsKnown' /\ events' \in Seq(Emitted')
    BY <2>1, <2>2 DEF IInv, Typed, RequestsKnown, Emitted
  <2> QED
    BY <2>2, <2>3 DEF IInv, SlotsHold, Transferring, WaitingWaits, RetriesLeft, MadeOnce,
       MadeTwice, LoginIsOwed, Serving, EnabledMeansFree
<1>3. ASSUME NEW r \in Repos, OnFinished(i, r) PROVE IInv'
  <2>1. /\ events' \in Seq(Emitted) /\ worker[i].stage \in {"maintaining", "retired"}
        /\ i = fetch /\ OpenFrom(r, None, FALSE)
        /\ retry' = retry /\ prefetchOn' = prefetchOn /\ dialog' = dialog
        /\ requests' = requests
    BY <1>3, ReceiveFacts DEF OnFinished, Reports
  <2>2. dialog = None
    BY <1>1, <2>1 DEF IInv, LoginIsOwed
  <2> QED
    BY <2>1, <2>2, OpenKeeps
<1>4. ASSUME NEW error \in Errors, OnFailed(i, error) PROVE IInv'
  <2>1. /\ events' \in Seq(Emitted) /\ worker[i].stage \in {"maintaining", "retired"}
        /\ worker[i].kind # "prefetch" /\ i = fetch
        /\ fetch' = None /\ shown' = FALSE /\ enabled' = TRUE
        /\ worker' = worker /\ repo' = repo /\ prefetch' = prefetch /\ pending' = pending
        /\ prefetchOn' = prefetchOn /\ requests' = requests /\ dropped' = dropped
    BY <1>4, ReceiveFacts DEF OnFailed, Reports
  <2>2. /\ dialog = None /\ pending.worker = None /\ worker[fetch].repo = repo
        /\ worker[fetch].request \notin dropped
    BY <1>1, <2>1, NobodyWaits DEF IInv, LoginIsOwed, SlotsHold, Serving
  <2>3. /\ dialog' \in 0..requests /\ retry' \in 0..requests
        /\ retry' # None => MadeOnce(retry)'
        /\ LoginIsOwed'
    <3>1. CASE error = "auth" /\ retry # None
      <4>1. dialog' = worker[fetch].request /\ retry' = None
        BY <1>4, <2>1, <3>1 DEF OnFailed
      <4>2. MadeOnce(worker[fetch].request)
        BY <1>1, <2>1, <3>1 DEF IInv, RetriesLeft
      <4>3. \A k \in DOMAIN worker :
              worker[k].request = worker[fetch].request => worker[k].repo = repo
        BY <1>1, <2>1, <2>2 DEF IInv, RequestsKnown
      <4>4. worker[fetch].request \in 0..requests /\ None \in 0..requests
        BY <1>1, <2>1 DEF IInv, RequestsKnown, Typed, None
      <4> QED
        BY <2>1, <2>2, <4>1, <4>2, <4>3, <4>4 DEF LoginIsOwed, MadeOnce
    <3>2. CASE ~(error = "auth" /\ retry # None)
      <4>1. dialog' = dialog /\ retry' = retry
        BY <1>4, <3>2 DEF OnFailed
      <4> QED
        BY <2>1, <2>2, <4>1 DEF IInv, Typed, RetriesLeft, MadeOnce, LoginIsOwed
    <3> QED
      BY <3>1, <3>2
  <2>4. Typed' /\ RequestsKnown' /\ events' \in Seq(Emitted')
    <3>1. fetch' \in 0..Len(worker')
      BY <1>1, <2>1 DEF None
    <3>2. enabled' \in BOOLEAN /\ shown' \in BOOLEAN
      BY <2>1
    <3>3. Typed'
      BY <2>1, <2>3, <3>1, <3>2 DEF IInv, Typed
    <3> QED
      BY <2>1, <3>3 DEF IInv, RequestsKnown, Emitted
  <2>5. SlotsHold'
    BY <2>1 DEF IInv, SlotsHold, Transferring
  <2>6. WaitingWaits' /\ RetriesLeft'
    BY <2>1, <2>2, <2>3 DEF IInv, WaitingWaits, RetriesLeft, MadeTwice
  <2> QED
    BY <2>1, <2>3, <2>4, <2>5, <2>6 DEF IInv, EnabledMeansFree
<1>5. CASE OnPrefetchRetired(i)
  <2>1. /\ events' \in Seq(Emitted) /\ worker[i].stage = "retired"
        /\ prefetch' = IF i = prefetch THEN None ELSE prefetch
        /\ worker' = worker /\ repo' = repo /\ fetch' = fetch /\ pending' = pending
        /\ retry' = retry /\ prefetchOn' = prefetchOn /\ enabled' = enabled
        /\ shown' = shown /\ dialog' = dialog /\ requests' = requests /\ dropped' = dropped
    BY <1>5, ReceiveFacts DEF OnPrefetchRetired, Retirements
  <2>2. Typed' /\ RequestsKnown' /\ events' \in Seq(Emitted')
    BY <2>1 DEF IInv, Typed, RequestsKnown, Emitted, None
  <2>3. SlotsHold'
    BY <2>1 DEF IInv, SlotsHold, Transferring
  <2> QED
    BY <2>1, <2>2, <2>3 DEF IInv, WaitingWaits, RetriesLeft, MadeOnce, MadeTwice,
       LoginIsOwed, Serving, EnabledMeansFree
<1>6. CASE OnRelay(i)
  <2>1. /\ events' \in Seq(Emitted) /\ worker[i].stage = "retired"
        /\ worker[i].kind = "prefetch"
        /\ repo' = repo /\ prefetchOn' = prefetchOn /\ dialog' = dialog
        /\ requests' = requests /\ dropped' = dropped
    BY <1>6, ReceiveFacts DEF OnRelay, Retirements
  <2>2. CASE i # fetch
    <3>1. /\ pending' = NoPending /\ worker' = worker /\ fetch' = fetch
          /\ prefetch' = prefetch /\ retry' = retry /\ enabled' = enabled /\ shown' = shown
      BY <1>6, <2>2 DEF OnRelay
    <3>2. Typed' /\ RequestsKnown' /\ events' \in Seq(Emitted')
      BY <2>1, <3>1 DEF IInv, Typed, RequestsKnown, Emitted, None, NoPending
    <3>3. SlotsHold' /\ WaitingWaits' /\ RetriesLeft' /\ LoginIsOwed'
      BY <2>1, <3>1 DEF IInv, SlotsHold, Transferring, WaitingWaits, RetriesLeft, MadeOnce,
         MadeTwice, LoginIsOwed, NoPending
    <3>4. fetch' # None => Serving(fetch)' \cap dropped' = {}
      BY <2>1, <3>1 DEF IInv, Serving, NoPending
    <3> QED
      BY <3>1, <3>2, <3>3, <3>4 DEF IInv, EnabledMeansFree
  <2>3. CASE i = fetch /\ pending.worker = None
    <3>1. /\ fetch' = None /\ worker' = worker /\ prefetch' = prefetch /\ pending' = pending
          /\ retry' = retry /\ enabled' = enabled /\ shown' = shown
      BY <1>6, <2>3 DEF OnRelay
    <3>2. Typed' /\ RequestsKnown' /\ events' \in Seq(Emitted')
      BY <2>1, <3>1 DEF IInv, Typed, RequestsKnown, Emitted, None
    <3>3. SlotsHold'
      BY <2>1, <2>3, <3>1 DEF IInv, SlotsHold, Transferring
    <3>4. WaitingWaits' /\ RetriesLeft' /\ LoginIsOwed'
      BY <2>1, <2>3, <3>1 DEF IInv, WaitingWaits, RetriesLeft, MadeOnce, MadeTwice, LoginIsOwed
    <3> QED
      BY <3>1, <3>2, <3>3, <3>4 DEF IInv, EnabledMeansFree
  <2>4. CASE i = fetch /\ pending.worker # None
    <3> DEFINE j == pending.worker
    <3>1. StartRemote(worker, j, pending.retry)
      BY <1>6, <2>4 DEF OnRelay
    <3>2. /\ j \in DOMAIN worker /\ worker[j].stage = "new" /\ worker[j].kind # "prefetch"
          /\ worker[j].repo = repo /\ pending.retry \in {None, worker[j].request}
          /\ dialog = None
      BY <1>1, <2>4 DEF IInv, WaitingWaits
    <3>3. ~worker[j].relayed /\ worker[j].request \in 1..requests'
      BY <2>1, <2>4, <3>2, ServingFacts DEF IInv, RequestsKnown
    <3>4. worker[j].request \notin dropped
      BY <1>1, <2>1, <2>4 DEF IInv, Serving
    <3>5. \A k \in DOMAIN worker : worker[k].request = worker[j].request => worker[k].repo = repo
      BY <3>2, <3>3 DEF IInv, RequestsKnown, None
    <3>6. pending.retry # None =>
            \A k \in DOMAIN worker : worker[k].request = pending.retry => k = j
      BY <2>4, <3>2 DEF IInv, RetriesLeft, MadeOnce
    <3>7. \A n \in 1..requests' : \A a, b, c \in DOMAIN worker :
            worker[a].request = n /\ worker[b].request = n /\ worker[c].request = n =>
              a = b \/ b = c \/ a = c
      BY <2>1 DEF IInv, RetriesLeft, MadeTwice
    <3>8. /\ Typed /\ RequestsKnown /\ SlotsHold /\ worker \in Seq(Workers)
          /\ Len(worker) <= MaxWorkers /\ Len(worker) <= Len(worker)
          /\ requests <= requests' /\ requests' \in 0..Len(worker)
          /\ prefetchOn' \in BOOLEAN /\ dialog' = None
          /\ fetch # None => worker[fetch].stage = "retired"
      BY <1>1, <2>1, <2>4, <3>2 DEF IInv, Typed
    <3> HIDE DEF j
    <3> QED
      BY <2>1, <3>1, <3>2, <3>3, <3>4, <3>5, <3>6, <3>7, <3>8, StartRemoteKeeps, SMTT(60)
  <2> QED
    BY <2>2, <2>3, <2>4
<1> QED
  BY <1>2, <1>3, <1>4, <1>5, <1>6 DEF Handles
-------------------------------------------------------------------------------
(* No worker, and everything free.                                          *)
LEMMA IInvAtStart == Init => IInv
<1> SUFFICES ASSUME Init PROVE IInv
  OBVIOUS
<1>1. /\ worker = <<>> /\ DOMAIN worker = {} /\ events = <<>> /\ requests = 0
  BY DEF Init
<1>2. Typed
  <2>1. pending \in [worker : 0..0, retry : 0..0]
    BY DEF Init, NoPending, None
  <2>2. worker \in Seq(Workers) /\ Len(worker) = 0 /\ MaxWorkers \in Nat
    BY <1>1, RemoteAssumption DEF RemoteAssumption
  <2>3. /\ repo \in Repos /\ prefetchOn \in BOOLEAN /\ enabled \in BOOLEAN /\ shown \in BOOLEAN
        /\ dropped = {}
    BY RemoteAssumption DEF RemoteAssumption, Init
  <2>4. fetch = 0 /\ prefetch = 0 /\ retry = 0 /\ dialog = 0
    BY DEF Init, None
  <2> QED
    BY <1>1, <2>1, <2>2, <2>3, <2>4 DEF Typed
<1>3. RequestsKnown /\ events \in Seq(Emitted)
  BY <1>1 DEF RequestsKnown
<1>4. SlotsHold /\ WaitingWaits /\ RetriesLeft /\ LoginIsOwed
  BY <1>1 DEF Init, SlotsHold, Transferring, WaitingWaits, RetriesLeft, LoginIsOwed, NoPending,
     None
<1> QED
  BY <1>2, <1>3, <1>4 DEF Init, IInv, EnabledMeansFree

(* Nothing changes what the invariant speaks of.                            *)
LEMMA StutterKeeps == IInv /\ UNCHANGED vars => IInv'
<1> SUFFICES ASSUME IInv, UNCHANGED vars PROVE IInv'
  OBVIOUS
<1>1. /\ worker' = worker /\ repo' = repo /\ fetch' = fetch /\ prefetch' = prefetch
      /\ pending' = pending /\ retry' = retry /\ prefetchOn' = prefetchOn
      /\ enabled' = enabled /\ shown' = shown /\ dialog' = dialog
      /\ events' = events /\ requests' = requests /\ dropped' = dropped
  BY DEF vars
<1>2. Typed' /\ RequestsKnown' /\ events' \in Seq(Emitted')
  BY <1>1 DEF IInv, Typed, RequestsKnown, Emitted
<1> QED
  BY <1>1, <1>2 DEF IInv, SlotsHold, Transferring, WaitingWaits, RetriesLeft, MadeOnce,
     MadeTwice, LoginIsOwed, Serving, EnabledMeansFree

(* Every step of the user, the timer, a worker or the event loop keeps it.  *)
LEMMA NextKeeps == IInv /\ [Next]_vars => IInv'
<1> SUFFICES ASSUME IInv, [Next]_vars PROVE IInv'
  OBVIOUS
<1>1. ASSUME NEW k \in UserKinds, UserStarts(k) PROVE IInv'
  BY <1>1, UserStartsKeeps
<1>2. ASSUME NEW on \in BOOLEAN, UserTurnsPrefetch(on) PROVE IInv'
  BY <1>2, UserTurnsPrefetchKeeps
<1>3. ASSUME NEW r \in Repos, OpensRepository(r) PROVE IInv'
  <2>1. PICK f, sh : f = fetch /\ sh = shown
    OBVIOUS
  <2>2. OpenFrom(r, f, sh)
    BY <1>3, <2>1 DEF OpensRepository, OpenFrom
  <2>3. /\ r # repo => dialog = None
        /\ retry' = retry /\ prefetchOn' = prefetchOn /\ dialog' = dialog
        /\ events' = events /\ requests' = requests
    BY <1>3 DEF OpensRepository, UserFree
  <2>4. events' \in Seq(Emitted) /\ sh \in BOOLEAN
    BY <2>1, <2>3 DEF IInv, Typed
  <2> QED
    BY <2>1, <2>2, <2>3, <2>4, OpenKeeps
<1>4. ASSUME NEW i \in Ids \cap DOMAIN worker, Runs(i) \/ Handles(i) PROVE IInv'
  BY <1>4, RunsKeeps, HandlesKeeps
<1> QED
  BY <1>1, <1>2, <1>3, <1>4, UserCancelsKeeps, TimerPrefetchesKeeps, UserLogsInKeeps,
     UserDeclinesKeeps, StutterKeeps DEF Next

(* The invariant holds of every state the window can be in.                 *)
THEOREM SlotInvariant == Spec => []IInv
<1>1. Init => IInv
  BY IInvAtStart
<1>2. IInv /\ [Next]_vars => IInv'
  BY NextKeeps
<1> QED
  BY <1>1, <1>2, PTL DEF Spec

(* Every variable keeps its type, for any number of workers.                *)
THEOREM TypeCorrect == Spec => []TypeOK
<1>1. IInv => TypeOK
  <2> SUFFICES ASSUME IInv PROVE TypeOK
    OBVIOUS
  <2>1. \A n \in DOMAIN events :
          events[n] \in [type : {"finished", "retired", "relay"} \cup Errors,
                        worker : DOMAIN worker]
    <3>1. \A n \in DOMAIN events : events[n] \in Emitted
      BY DEF IInv
    <3> QED
      BY <3>1 DEF Emitted, Reports, Retirements
  <2>2. requests \in 0..MaxWorkers
    BY WorkerFacts, RemoteAssumption DEF RemoteAssumption, IInv, Typed
  <2> QED
    BY <2>1, <2>2 DEF IInv, Typed, TypeOK
<1> QED
  BY <1>1, SlotInvariant, PTL

(* At most one transfer goes on, whatever the order of the signals.         *)
THEOREM OneAtATime == Spec => []OneTransfer
<1>1. IInv => OneTransfer
  <2> SUFFICES ASSUME IInv, NEW i \in Transferring, NEW j \in Transferring PROVE i = j
    BY DEF OneTransfer
  <2>1. i # None /\ j # None /\ {i, j} \subseteq {fetch, prefetch}
    BY WorkerFacts DEF IInv, SlotsHold, Transferring
  <2> QED
    BY <2>1 DEF IInv, SlotsHold
<1> QED
  BY <1>1, SlotInvariant, PTL

(* What goes on is in a slot and belongs to the repository on the screen.   *)
THEOREM TransfersAreHeld == Spec => []TransfersHeld
<1>1. IInv => TransfersHeld
  <2> SUFFICES ASSUME IInv, NEW i \in Transferring
               PROVE  i \in {fetch, prefetch} /\ worker[i].repo = repo
    BY DEF TransfersHeld
  <2>1. i # None
    BY WorkerFacts DEF IInv, Transferring
  <2> QED
    BY <2>1 DEF IInv, SlotsHold
<1> QED
  BY <1>1, SlotInvariant, PTL

(* What the user gave up is never served again.                             *)
THEOREM StoppedForGood == Spec => []StoppedStaysStopped
<1>1. IInv => StoppedStaysStopped
  <2> SUFFICES ASSUME IInv, NEW i \in Transferring PROVE worker[i].request \notin dropped
    BY DEF IInv, StoppedStaysStopped
  <2>1. i # None /\ i \in DOMAIN worker /\ i \in {fetch, prefetch} /\ None \notin dropped
    BY WorkerFacts DEF IInv, SlotsHold, Transferring, Typed, None
  <2>2. CASE worker[i].kind = "prefetch"
    BY <2>1, <2>2 DEF IInv, RequestsKnown
  <2>3. CASE worker[i].kind # "prefetch"
    <3>1. i = fetch
      BY <2>1, <2>3 DEF IInv, SlotsHold
    <3> QED
      BY <2>1, <2>3, <3>1 DEF IInv, Serving
  <2> QED
    BY <2>2, <2>3
<1> QED
  BY <1>1, SlotInvariant, PTL

(* A set in which, of any three elements, two are the same has at most two. *)
LEMMA AtMostTwo ==
  ASSUME NEW S, \A a, b, c \in S : a = b \/ b = c \/ a = c
  PROVE  IsFiniteSet(S) /\ Cardinality(S) <= 2
<1>1. CASE S = {}
  BY <1>1, FS_EmptySet
<1>2. CASE S # {}
  <2>1. PICK a \in S : TRUE
    BY <1>2
  <2>2. PICK b \in S : b # a \/ S = {a}
    BY <2>1
  <2>3. S = {a} \cup {b}
    BY <2>1, <2>2
  <2>4. IsFiniteSet({a}) /\ Cardinality({a}) = 1
    BY FS_Singleton
  <2>5. /\ IsFiniteSet({a} \cup {b})
        /\ Cardinality({a} \cup {b}) \in {1, 2}
    BY <2>4, FS_AddElement
  <2> QED
    BY <2>3, <2>5
<1> QED
  BY <1>1, <1>2

(* The retry at hand is of the operation in the slot, and a request is made *)
(* at most twice.                                                           *)
THEOREM RetriesAreOwn == Spec => []RetryIsOwn
<1>1. IInv => RetryIsOwn
  <2> SUFFICES ASSUME IInv, NEW n \in 1..requests
               PROVE  Cardinality({i \in DOMAIN worker : worker[i].request = n}) <= 2
    BY DEF IInv, RetriesLeft, RetryIsOwn
  <2> DEFINE S == {i \in DOMAIN worker : worker[i].request = n}
  <2>1. \A a, b, c \in S : a = b \/ b = c \/ a = c
    BY DEF IInv, RetriesLeft, MadeTwice
  <2> QED
    BY <2>1, AtMostTwo
<1> QED
  BY <1>1, SlotInvariant, PTL

(* The remote actions are enabled only while the slot is free.              *)
THEOREM EnabledWhenFree == Spec => []EnabledMeansFree
<1>1. IInv => EnabledMeansFree
  BY DEF IInv
<1> QED
  BY <1>1, SlotInvariant, PTL
===============================================================================
