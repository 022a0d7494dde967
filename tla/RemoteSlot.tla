------------------------------ MODULE RemoteSlot ------------------------------
(***************************************************************************)
(* The window's two slots for remote work (ui/main_window.py) and the       *)
(* workers that occupy them (application/remote_workers.py).                *)
(*                                                                         *)
(* `_fetch_worker` holds the operation the user asked for, `_prefetch_worker`*)
(* a background prefetch.  A user's fetch does not kill a prefetch of the   *)
(* same remote but promotes it: the prefetch takes the user's slot, the     *)
(* fetch waits in `_pending_remote` and is started when the prefetch is     *)
(* through (ADR-83).  A worker runs on a pool thread; its signals are       *)
(* queued to the UI thread's event loop, to the slots that are connected    *)
(* when the signal is emitted.                                              *)
(*                                                                         *)
(* A user's operation is "joinable" when it is a FetchWorker or PullWorker  *)
(* of the remote prefetches go to, "other" when it is a push, a clone or    *)
(* aimed at another remote.                                                 *)
(***************************************************************************)
EXTENDS Naturals, Sequences, FiniteSets

CONSTANTS
  Repos,        \* the repositories the user opens
  LastRepository, \* the one the window opens at its start
  MaxWorkers,   \* bound on the workers ever constructed
  MaxPrefetches \* bound on the prefetches among them

ASSUME RemoteAssumption ==
  /\ LastRepository \in Repos
  /\ MaxWorkers \in Nat
  /\ MaxPrefetches \in Nat

None == 0
Ids == 1..MaxWorkers

UserKinds == {"joinable", "other"}

(* new: constructed, not given to the pool; started: given to the pool, git *)
(* runs or will; maintaining: the result was reported, the repository is    *)
(* being tidied; retired: run() has returned.                               *)
Stages == {"new", "started", "maintaining", "retired"}

Workers ==
  [kind : UserKinds \cup {"prefetch"}, repo : Repos,
   request : 0..MaxWorkers,        \* the user's request it serves, or None
   stage : Stages,
   cancelled : BOOLEAN,            \* _cancelled
   relayed : BOOLEAN]              \* retired is connected to _on_promoted_retired

VARIABLES
  worker,     \* every worker constructed so far, in order
  repo,       \* _repo_path
  fetch,      \* _fetch_worker
  prefetch,   \* _prefetch_worker
  pending,    \* _pending_remote: the worker that waits and the retry it was given
  retry,      \* _remote_retry: the request it would repeat
  prefetchOn, \* the setting "prefetch_enabled"
  enabled,    \* the remote actions are enabled (_update_remote_actions)
  shown,      \* the cancel button and progress bar are shown
  dialog,     \* the request the CredentialDialog is open for
  events,     \* the signals queued to the UI thread, oldest first
  requests,   \* number of requests the user has made
  dropped     \* history: the requests given up by the user

vars == <<worker, repo, fetch, prefetch, pending, retry, prefetchOn, enabled,
          shown, dialog, events, requests, dropped>>

NoPending == [worker |-> None, retry |-> None]

Init ==
  /\ worker = <<>>
  /\ repo = LastRepository
  /\ fetch = None
  /\ prefetch = None
  /\ pending = NoPending
  /\ retry = None
  /\ prefetchOn = TRUE
  /\ enabled = TRUE
  /\ shown = FALSE
  /\ dialog = None
  /\ events = <<>>
  /\ requests = 0
  /\ dropped = {}

-------------------------------------------------------------------------------
Worker(kind, r, request) ==
  [kind |-> kind, repo |-> r, request |-> request, stage |-> "new",
   cancelled |-> FALSE, relayed |-> FALSE]

(* `cancel` of worker i among ws; of no worker, nothing.                    *)
Cancel(ws, i) == IF i = None THEN ws ELSE [ws EXCEPT ![i].cancelled = TRUE]

(* The request the user's slot serves: a promoted prefetch stands in for    *)
(* the worker that waits.                                                   *)
Serving(i) ==
  IF worker[i].kind = "prefetch" THEN {worker[p].request : p \in {pending.worker} \ {None}}
  ELSE {worker[i].request}

(* `_promote_prefetch`: may worker i of ws take over the running prefetch?  *)
Promotable(ws, i) ==
  /\ prefetch # None
  /\ ~ws[prefetch].cancelled
  /\ ws[i].kind = "joinable"

(* `_promote_prefetch`, when it may.                                        *)
Promote(ws, i, again) ==
  /\ pending' = [worker |-> i, retry |-> again]
  /\ retry' = None
  /\ fetch' = prefetch
  /\ worker' = [ws EXCEPT ![prefetch].relayed = TRUE]
  /\ UNCHANGED prefetch

(* A faulty form: the prefetch is let go of but not cancelled.              *)
StartAfresh_NoYield(ws, i, again) ==
  /\ pending' = NoPending
  /\ prefetch' = None
  /\ retry' = again
  /\ fetch' = i
  /\ worker' = [ws EXCEPT ![i].stage = "started"]

(* `_start_remote` past the promotion: the prefetch yields, i is started.   *)
StartAfresh(ws, i, again) ==
  /\ pending' = NoPending
  /\ prefetch' = None
  /\ retry' = again
  /\ fetch' = i
  /\ worker' = [Cancel(ws, prefetch) EXCEPT ![i].stage = "started"]

(* `_start_remote` of worker i of ws; `again` is the request it may repeat. *)
StartRemote(ws, i, again) ==
  /\ IF Promotable(ws, i) THEN Promote(ws, i, again) ELSE StartAfresh(ws, i, again)
  /\ shown' = TRUE
  /\ enabled' = FALSE

-------------------------------------------------------------------------------
(* A modal dialog keeps the user from everything else in the window.        *)
UserFree == dialog = None

(* `_on_fetch`, `_on_pull`, `_on_push`, `_on_clone`.                        *)
UserStarts(kind) ==
  /\ UserFree /\ enabled
  /\ fetch = None
  /\ Len(worker) < MaxWorkers
  /\ requests' = requests + 1
  /\ StartRemote(Append(worker, Worker(kind, repo, requests + 1)),
                 Len(worker) + 1, requests + 1)
  /\ UNCHANGED <<repo, prefetchOn, dialog, events, dropped>>

(* `_on_cancel_remote`.                                                     *)
UserCancels ==
  /\ UserFree /\ shown
  /\ fetch # None
  /\ worker' = Cancel(worker, fetch)
  /\ dropped' = dropped \cup Serving(fetch)
  /\ fetch' = None
  /\ retry' = None
  /\ shown' = FALSE
  /\ enabled' = TRUE
  /\ UNCHANGED <<repo, prefetch, pending, prefetchOn, dialog, events, requests>>

(* `_cancel_prefetch`, which the callers below make part of their step.     *)
DropPrefetch ==
  /\ pending' = NoPending
  /\ prefetch' = None

(* `_set_prefetch_enabled`.                                                 *)
UserTurnsPrefetch(on) ==
  /\ UserFree
  /\ prefetchOn # on
  /\ prefetchOn' = on
  /\ IF on
     THEN UNCHANGED <<worker, pending, prefetch, dropped>>
     ELSE /\ DropPrefetch
          /\ worker' = Cancel(worker, prefetch)
          /\ dropped' = dropped \cup {worker[p].request : p \in {pending.worker} \ {None}}
  /\ UNCHANGED <<repo, fetch, retry, enabled, shown, dialog, events, requests>>

(* Faulty forms: the old repository's operation is let go of but not        *)
(* cancelled; the actions are enabled whatever the slot holds.              *)
OpenFrom_NoCancel(r, f, sh) ==
  /\ repo' = r
  /\ IF r # repo
     THEN /\ DropPrefetch
          /\ worker' = Cancel(worker, prefetch)
          /\ fetch' = None
          /\ shown' = (sh /\ f = None)
          /\ dropped' = dropped \cup (IF f = None THEN {} ELSE Serving(f))
     ELSE fetch' = f /\ shown' = sh /\ UNCHANGED <<worker, prefetch, pending, dropped>>
  /\ enabled' = (fetch' = None)

OpenFrom_Enables(r, f, sh) ==
  /\ repo' = r
  /\ IF r # repo
     THEN /\ DropPrefetch
          /\ worker' = Cancel(Cancel(worker, prefetch), f)
          /\ fetch' = None
          /\ shown' = (sh /\ f = None)
          /\ dropped' = dropped \cup (IF f = None THEN {} ELSE Serving(f))
     ELSE fetch' = f /\ shown' = sh /\ UNCHANGED <<worker, prefetch, pending, dropped>>
  /\ enabled' = TRUE

(* `open_repository` as far as remote work is concerned, entered with the   *)
(* user's slot holding f and the progress shown or not.  The repository     *)
(* that is open is opened again after a write, by F5 and by the watcher.    *)
OpenFrom(r, f, sh) ==
  /\ repo' = r
  /\ IF r # repo
     THEN /\ DropPrefetch
          /\ worker' = Cancel(Cancel(worker, prefetch), f)
          /\ fetch' = None
          /\ shown' = (sh /\ f = None)
          /\ dropped' = dropped \cup (IF f = None THEN {} ELSE Serving(f))
     ELSE /\ fetch' = f
          /\ shown' = sh
          /\ UNCHANGED <<worker, prefetch, pending, dropped>>
  /\ enabled' = (fetch' = None)

OpensRepository(r) ==
  /\ UserFree \/ r = repo
  /\ OpenFrom(r, fetch, shown)
  /\ UNCHANGED <<retry, prefetchOn, dialog, events, requests>>

(* `_maybe_prefetch`, from its timer.                                       *)
TimerPrefetches ==
  /\ prefetchOn
  /\ fetch = None /\ prefetch = None
  /\ Len(worker) < MaxWorkers
  /\ Len(SelectSeq(worker, LAMBDA w : w.kind = "prefetch")) < MaxPrefetches
  /\ worker' = Append(worker, [Worker("prefetch", repo, None) EXCEPT !.stage = "started"])
  /\ prefetch' = Len(worker) + 1
  /\ UNCHANGED <<repo, fetch, pending, retry, prefetchOn, enabled, shown, dialog,
                 events, requests, dropped>>

(* A faulty form: the repetition is given the retry again.                  *)
UserLogsIn_Again ==
  /\ dialog # None
  /\ Len(worker) < MaxWorkers
  /\ dialog' = None
  /\ \E i \in DOMAIN worker :
       /\ worker[i].request = dialog
       /\ StartRemote(Append(worker, Worker(worker[i].kind, worker[i].repo, dialog)),
                      Len(worker) + 1, dialog)
  /\ UNCHANGED <<repo, prefetchOn, events, requests, dropped>>

(* `_ask_and_retry`, when the user closes the CredentialDialog.             *)
UserLogsIn ==
  /\ dialog # None
  /\ Len(worker) < MaxWorkers
  /\ dialog' = None
  /\ \E i \in DOMAIN worker :
       /\ worker[i].request = dialog
       /\ StartRemote(Append(worker, Worker(worker[i].kind, worker[i].repo, dialog)),
                      Len(worker) + 1, None)
  /\ UNCHANGED <<repo, prefetchOn, events, requests, dropped>>

UserDeclines ==
  /\ dialog # None
  /\ dialog' = None
  /\ dropped' = dropped \cup {dialog}
  /\ UNCHANGED <<worker, repo, fetch, prefetch, pending, retry, prefetchOn, enabled,
                 shown, events, requests>>

-------------------------------------------------------------------------------
(* Steps of the worker threads: `run` and `_run_guarded`.                   *)
UI == <<repo, fetch, prefetch, pending, retry, prefetchOn, enabled, shown, dialog,
        requests, dropped>>

Signal(type, i) == [type |-> type, worker |-> i]

(* A faulty form: an error does not leave the worker.                       *)
Outcome_Swallowed(i, signal) ==
  IF worker[i].cancelled \/ worker[i].kind = "prefetch" \/ signal # "finished" THEN <<>>
  ELSE <<Signal(signal, i)>>

(* The outcome of worker i, `signal`, is emitted unless it was cancelled;   *)
(* that of a prefetch changes nothing in the window (`_on_prefetch_done`).  *)
Outcome(i, signal) ==
  IF worker[i].cancelled \/ worker[i].kind = "prefetch" THEN <<>> ELSE <<Signal(signal, i)>>

(* What the last statement of `run` emits, to the slots connected by now: a *)
(* prefetch's book-keeping, then, if it was promoted, what waits for it.    *)
Retirement(i) ==
  (IF worker[i].kind = "prefetch" THEN <<Signal("retired", i)>> ELSE <<>>)
  \o (IF worker[i].relayed THEN <<Signal("relay", i)>> ELSE <<>>)

Moves(i, to, signals) ==
  /\ worker' = [worker EXCEPT ![i].stage = to]
  /\ events' = events \o signals
  /\ UNCHANGED UI

(* `_operate` returns.  The result is reported, then the repository is      *)
(* tidied; that of a cancelled worker is thrown away, and one cancelled     *)
(* before its engine was made does not operate at all.                      *)
Succeeds(i) ==
  /\ worker[i].stage = "started"
  /\ IF worker[i].cancelled
     THEN Moves(i, "retired", Retirement(i))
     ELSE Moves(i, "maintaining", Outcome(i, "finished"))

(* `_operate` raises, AuthenticationRequired or another error.              *)
Fails(i, error) ==
  /\ worker[i].stage = "started"
  /\ Moves(i, "retired", Outcome(i, error) \o Retirement(i))

(* `_maintain` returns, cancelled or not.                                   *)
Tidies(i) ==
  /\ worker[i].stage = "maintaining"
  /\ Moves(i, "retired", Retirement(i))

-------------------------------------------------------------------------------
(* Handlers of the queued signals.  They run in the nested event loop of a  *)
(* dialog as well.                                                          *)
Receive(type, i) ==
  /\ events # <<>>
  /\ Head(events) = Signal(type, i)
  /\ events' = Tail(events)

(* A signal of a worker the slot no longer holds is dropped.                *)
DropsLate(types, i) ==
  /\ \E t \in types : Receive(t, i)
  /\ i # fetch
  /\ UNCHANGED <<worker, UI>>

(* `_on_remote_finished`: a fetch that changed something opens the          *)
(* repository again, a clone opens the new one.                             *)
OnFinished(i, r) ==
  /\ Receive("finished", i)
  /\ i = fetch
  /\ r # repo => worker[i].kind = "other"
  /\ OpenFrom(r, None, FALSE)
  /\ UNCHANGED <<retry, prefetchOn, dialog, requests>>

(* `_on_remote_failed`: a missing login is asked for if there is a retry to *)
(* repeat the operation with, and the retry is used up.                     *)
OnFailed(i, error) ==
  /\ Receive(error, i)
  /\ i = fetch
  /\ fetch' = None
  /\ shown' = FALSE
  /\ enabled' = TRUE
  /\ IF error = "auth" /\ retry # None
     THEN dialog' = worker[i].request /\ retry' = None
     ELSE UNCHANGED <<dialog, retry>>
  /\ UNCHANGED <<worker, repo, prefetch, pending, prefetchOn, requests, dropped>>

(* `_on_prefetch_retired`.                                                  *)
OnPrefetchRetired(i) ==
  /\ Receive("retired", i)
  /\ prefetch' = IF i = prefetch THEN None ELSE prefetch
  /\ UNCHANGED <<worker, repo, fetch, pending, retry, prefetchOn, enabled, shown,
                 dialog, requests, dropped>>

(* A faulty form: what waits is started without asking who holds the slot.  *)
OnRelay_Unguarded(i) ==
  /\ Receive("relay", i)
  /\ IF pending.worker = None
     THEN fetch' = None /\ UNCHANGED <<worker, prefetch, pending, retry, enabled, shown>>
     ELSE StartRemote(worker, pending.worker, pending.retry)
  /\ UNCHANGED <<repo, prefetchOn, dialog, requests, dropped>>

(* `_on_promoted_retired`.                                                  *)
OnRelay(i) ==
  /\ Receive("relay", i)
  /\ CASE i # fetch ->
            /\ pending' = NoPending
            /\ UNCHANGED <<worker, fetch, prefetch, retry, enabled, shown>>
       [] i = fetch /\ pending.worker = None ->
            /\ fetch' = None
            /\ UNCHANGED <<worker, prefetch, pending, retry, enabled, shown>>
       [] i = fetch /\ pending.worker # None ->
            StartRemote(worker, pending.worker, pending.retry)
  /\ UNCHANGED <<repo, prefetchOn, dialog, requests, dropped>>

-------------------------------------------------------------------------------
Errors == {"auth", "error"}

Runs(i) ==
  \/ Succeeds(i) \/ Tidies(i)
  \/ \E e \in Errors : Fails(i, e)

Handles(i) ==
  \/ DropsLate({"finished"} \cup Errors, i)
  \/ \E r \in Repos : OnFinished(i, r)
  \/ \E e \in Errors : OnFailed(i, e)
  \/ OnPrefetchRetired(i)
  \/ OnRelay(i)

Next ==
  \/ \E k \in UserKinds : UserStarts(k)
  \/ UserCancels
  \/ \E on \in BOOLEAN : UserTurnsPrefetch(on)
  \/ \E r \in Repos : OpensRepository(r)
  \/ TimerPrefetches
  \/ UserLogsIn
  \/ UserDeclines
  \/ \E i \in Ids \cap DOMAIN worker : Runs(i) \/ Handles(i)

Spec == Init /\ [][Next]_vars

(* Workers get through (every phase of git has a time limit), the event     *)
(* loop delivers, and the user answers the login dialog.                    *)
FairSpec ==
  /\ Spec
  /\ WF_vars(\E i \in Ids \cap DOMAIN worker : Runs(i))
  /\ WF_vars(\E i \in Ids \cap DOMAIN worker : Handles(i))
  /\ WF_vars(UserLogsIn \/ UserDeclines)
-------------------------------------------------------------------------------
(* Every variable has its type.                                             *)
TypeOK ==
  /\ worker \in Seq(Workers) /\ Len(worker) <= MaxWorkers
  /\ repo \in Repos
  /\ fetch \in 0..Len(worker)
  /\ prefetch \in 0..Len(worker)
  /\ pending \in [worker : 0..Len(worker), retry : 0..requests]
  /\ retry \in 0..requests
  /\ <<prefetchOn, enabled, shown>> \in BOOLEAN \X BOOLEAN \X BOOLEAN
  /\ dialog \in 0..requests
  /\ requests \in 0..MaxWorkers
  /\ \A n \in DOMAIN events :
       events[n] \in [type : {"finished", "retired", "relay"} \cup Errors,
                     worker : DOMAIN worker]
  /\ dropped \subseteq 1..requests

(* Transfers that git is asked for and that nobody has called off.          *)
Transferring ==
  {i \in DOMAIN worker : worker[i].stage = "started" /\ ~worker[i].cancelled}

(* One transfer at a time: a prefetch and the user's operation, a first try *)
(* and its repetition, two user operations never run side by side, in       *)
(* whatever order their signals come in.                                    *)
OneTransfer == \A i, j \in Transferring : i = j

(* Every transfer can be cancelled, because one of the two slots holds it,  *)
(* and it belongs to the repository on the screen.                          *)
TransfersHeld ==
  \A i \in Transferring : i \in {fetch, prefetch} /\ worker[i].repo = repo

(* What the user stops stays stopped (_on_promoted_retired): no transfer    *)
(* goes on for a request that was given up, and the slot, whose holder's    *)
(* signals alone are heeded, never serves one: neither a late signal nor a  *)
(* promoted prefetch nor a login brings it back.                            *)
StoppedStaysStopped ==
  /\ \A i \in Transferring : worker[i].request \notin dropped
  /\ fetch # None => Serving(fetch) \cap dropped = {}

(* The login is asked for the operation that failed and for no other, and   *)
(* an operation is repeated once (_ask_and_retry).                          *)
RetryIsOwn ==
  /\ retry # None /\ fetch # None => worker[fetch].request = retry
  /\ \A n \in 1..requests :
       Cardinality({i \in DOMAIN worker : worker[i].request = n}) <= 2

(* The actions are enabled only while the user's slot is free, although     *)
(* their state is a copy refreshed by hand.                                 *)
EnabledMeansFree == enabled => fetch = None

(* A worker of the user's own does not keep the slot for ever: whatever     *)
(* becomes of it, the signal that frees the slot finds it there.            *)
SlotFreed == []<>(fetch = None \/ worker[fetch].kind = "prefetch")

(* ADR-83 (doc/design.md): a fetch that promotes a prefetch is started when *)
(* the prefetch is through, unless the user calls it off.                   *)
PromotedIsRun ==
  \A i \in Ids :
    pending.worker = i ~> /\ i \in DOMAIN worker
                          /\ worker[i].stage # "new" \/ worker[i].request \in dropped

(* remote_workers.py:44-51: the slot is let go of on retired, so that what  *)
(* follows finished, the maintenance, can still be cancelled.               *)
MaintenanceHeld ==
  \A i \in DOMAIN worker :
    worker[i].stage \in {"started", "maintaining"} /\ ~worker[i].cancelled
    => i \in {fetch, prefetch}
===============================================================================
