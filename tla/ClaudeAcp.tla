------------------------------ MODULE ClaudeAcp ------------------------------
(***************************************************************************)
(* plugins/model-providers/claude-acp/client.py: one ClaudeACPClient shared  *)
(* by many callers.  An async caller takes a submission slot, its request    *)
(* waits in a worker thread for the client's request lock, spawns the        *)
(* adapter process, and hands back a completion or a LiveStream whose        *)
(* producer thread goes on.  Cancelling a caller, closing a stream, aborting *)
(* the client and the request's own deadline all race with it.               *)
(***************************************************************************)
EXTENDS Integers, FiniteSets

CONSTANTS
  AsyncCalls,  \* requests made through _create_async
  SyncCalls,   \* requests made through _create_sync in the caller's thread
  Streams,     \* the requests that ask for a stream
  Slots,       \* _ASYNC_SUBMISSIONS
  NoCall

ASSUME CallsAssumption ==
  /\ AsyncCalls \cap SyncCalls = {} /\ Streams \subseteq AsyncCalls \cup SyncCalls
  /\ NoCall \notin AsyncCalls \cup SyncCalls /\ Slots \in Nat \ {0}

Calls == AsyncCalls \cup SyncCalls

VARIABLES
  free,     \* the semaphore
  task,     \* request -> where its caller is
  future,   \* request -> the worker's future, as the caller sees it
  job,      \* request -> where _create_sync, complete and _run are
  event,    \* request -> its cancel event is set
  lock,     \* who holds _request_lock
  current,  \* whose event self._cancelled is
  process,  \* whose adapter self._process is
  alive,    \* adapters that run
  dying     \* adapters taken by a close() that is killing them

acpVars == <<free, task, future, job, event, lock, current, process, alive, dying>>
callVars == <<free, task, future>>
procVars == <<lock, current, process, alive, dying>>

AcpTypeOK ==
  /\ free \in 0..Slots
  /\ task \in [Calls -> {"idle", "admitting", "waiting", "reaping", "reading", "closing", "gone"}]
  /\ future \in [Calls -> {"none", "queued", "running", "value", "stream", "error", "cancelled"}]
  /\ job \in [Calls -> {"none", "lock", "locked", "start", "popen", "live", "closing",
                        "killing", "unlock", "putting", "done"}]
  /\ event \in [Calls -> BOOLEAN]
  /\ {lock, current, process} \subseteq Calls \cup {NoCall}
  /\ alive \subseteq Calls /\ dying \subseteq Calls

AcpInit ==
  /\ free = Slots
  /\ task = [r \in Calls |-> "idle"] /\ future = [r \in Calls |-> "none"]
  /\ job = [r \in Calls |-> "none"]
  /\ event = [r \in Calls |-> FALSE]
  /\ lock = NoCall /\ current = NoCall /\ process = NoCall
  /\ alive = {} /\ dying = {}

-----------------------------------------------------------------------------
(* The submission slot.                                                      *)

\* A request that counts against the semaphore: until its future is resolved,
\* or, once a stream was handed over, until the stream's producer is done.
HoldsSlot(r) ==
  /\ r \in AsyncCalls
  /\ \/ future[r] \in {"queued", "running"}
     \/ future[r] = "stream" /\ job[r] # "done"

\* Mutant: the slot is given back with the stream, and again by its producer.
ReleasedAtOnce(r, outcome) == IF r \in AsyncCalls THEN free + 1 ELSE free

\* release_admission: a stream keeps the slot until its producer is done.
Released(r, outcome) == IF r \in AsyncCalls /\ outcome # "stream" THEN free + 1 ELSE free

\* The worker resolves its future and runs the callback that frees the slot.
Resolve(r, outcome) ==
  /\ future' = [future EXCEPT ![r] = outcome]
  /\ free' = Released(r, outcome)

\* The stream's _completion is resolved when its producer thread ends.
ProducerDone(r) ==
  /\ job' = [job EXCEPT ![r] = "done"]
  /\ free' = IF r \in AsyncCalls THEN free + 1 ELSE free
  /\ UNCHANGED <<task, future>>

\* A new request, in the slot of the model a finished one has left.
Call(r) ==
  /\ task[r] = "idle"
  /\ task' = [task EXCEPT ![r] = IF r \in AsyncCalls THEN "admitting" ELSE "waiting"]
  /\ future' = [future EXCEPT ![r] = IF r \in AsyncCalls THEN "none" ELSE "running"]
  /\ job' = [job EXCEPT ![r] = IF r \in AsyncCalls THEN "none" ELSE "lock"]
  /\ UNCHANGED <<free, event, procVars>>

Acquire(r) ==
  /\ task[r] = "admitting" /\ free > 0
  /\ task' = [task EXCEPT ![r] = "waiting"] /\ free' = free - 1
  /\ future' = [future EXCEPT ![r] = "queued"]
  /\ UNCHANGED <<job, event, procVars>>

\* The deadline passes before the request is submitted, or the task is
\* cancelled while it polls for a slot.
LeaveAdmission(r) ==
  /\ task[r] = "admitting"
  /\ task' = [task EXCEPT ![r] = "gone"]
  /\ UNCHANGED <<free, future, job, event, procVars>>

StartJob(r) ==
  /\ future[r] = "queued"
  /\ future' = [future EXCEPT ![r] = "running"] /\ job' = [job EXCEPT ![r] = "lock"]
  /\ UNCHANGED <<free, task, event, procVars>>

-----------------------------------------------------------------------------
(* _create_sync: the request lock and whose cancel event the client obeys.   *)

\* Bad tools or messages, or cancelled or late while waiting for the lock.
GiveUp(r) ==
  /\ job[r] = "lock"
  /\ job' = [job EXCEPT ![r] = "done"] /\ Resolve(r, "error")
  /\ UNCHANGED <<task, event, procVars>>

TakeLock(r) ==
  /\ job[r] = "lock" /\ lock = NoCall
  /\ lock' = r /\ job' = [job EXCEPT ![r] = "locked"]
  /\ UNCHANGED <<callVars, event, current, process, alive, dying>>

\* Under _lock: cancelled meanwhile, or the client now obeys this request.
Install(r) ==
  /\ job[r] = "locked"
  /\ IF event[r]
     THEN /\ lock' = NoCall /\ job' = [job EXCEPT ![r] = "done"]
          /\ Resolve(r, "error") /\ UNCHANGED current
     ELSE /\ current' = r /\ job' = [job EXCEPT ![r] = "start"]
          /\ IF r \in Streams THEN Resolve(r, "stream") ELSE UNCHANGED <<future, free>>
          /\ UNCHANGED lock
  /\ UNCHANGED <<task, event, process, alive, dying>>

-----------------------------------------------------------------------------
(* The adapter process: _spawn, _run and close().                            *)

JobMoves(r, from, to) ==
  /\ job[r] = from /\ job' = [job EXCEPT ![r] = to]
  /\ UNCHANGED <<callVars, lock, current>>

\* The version check, the bridge or Popen fails, or the event is already set.
SpawnFails(r) == JobMoves(r, "start", "closing") /\ UNCHANGED <<event, process, alive, dying>>

Popen(r) ==
  /\ ~event[r] /\ JobMoves(r, "start", "popen")
  /\ alive' = alive \cup {r} /\ UNCHANGED <<event, process, dying>>

\* Mutant: a cancelled spawn raises before the client holds the process.
StoreUncancelled(r) ==
  /\ JobMoves(r, "popen", IF event[r] THEN "closing" ELSE "live")
  /\ process' = IF event[r] THEN process ELSE r
  /\ UNCHANGED <<event, alive, dying>>

\* The client holds the process before it looks at the event again.
StoreProcess(r) ==
  /\ JobMoves(r, "popen", IF event[r] THEN "closing" ELSE "live")
  /\ process' = r /\ UNCHANGED <<event, alive, dying>>

\* The prompt is answered, fails, or is cancelled or late.
PromptEnds(r) == JobMoves(r, "live", "closing") /\ UNCHANGED <<event, process, alive, dying>>

\* close(), under _lock: obey nobody any more, take the process to kill it.
\* It sets whichever event the client obeys now.
TakeProcess ==
  /\ event' = [r \in Calls |-> event[r] \/ r = current]
  /\ process' = NoCall
  /\ dying' = dying \cup ({process} \ {NoCall})

\* SIGTERM, then SIGKILL, to the process group.
Kill(p) ==
  /\ p \in dying
  /\ dying' = dying \ {p} /\ alive' = alive \ {p}
  /\ UNCHANGED <<callVars, job, event, lock, current, process>>

\* The finally of _run: close() waits for the process it took itself; one that
\* another close() took may still be dying when the lock is released.
CloseOwn(r) ==
  /\ JobMoves(r, "closing", IF process = NoCall THEN "unlock" ELSE "killing")
  /\ TakeProcess /\ UNCHANGED alive

OwnKilled(r) ==
  /\ r \notin dying /\ JobMoves(r, "killing", "unlock")
  /\ UNCHANGED <<event, process, alive, dying>>

\* The finally of complete(): a plain request is over, a stream's producer
\* still has its last chunks, or its error, to put.
Unlock(r) ==
  /\ job[r] = "unlock" /\ lock' = NoCall
  /\ IF r \in Streams
     THEN job' = [job EXCEPT ![r] = "putting"] /\ UNCHANGED <<free, future>>
     ELSE /\ job' = [job EXCEPT ![r] = "done"]
          /\ \E outcome \in {"value", "error"} : Resolve(r, outcome)
  /\ UNCHANGED <<task, event, current, process, alive, dying>>

\* Mutant: put() waits for room and never looks at the deadline.
ProducerEndsWhenLeft(r) ==
  /\ job[r] = "putting" /\ task[r] \in {"closing", "gone"} /\ ProducerDone(r)
  /\ UNCHANGED <<event, procVars>>

\* put() has put everything, or gives up: the stream is closed, or its consumer
\* is slower than the request's deadline.
ProducerEnds(r) ==
  /\ job[r] = "putting" /\ ProducerDone(r)
  /\ UNCHANGED <<event, procVars>>

-----------------------------------------------------------------------------
(* The callers.                                                              *)

TaskMoves(r, to) ==
  /\ task' = [task EXCEPT ![r] = to]
  /\ UNCHANGED <<job, lock, current, alive>>

Receive(r) ==
  /\ task[r] = "waiting" /\ future[r] \in {"value", "error", "stream"}
  /\ TaskMoves(r, IF future[r] = "stream" THEN "reading" ELSE "gone")
  /\ UNCHANGED <<free, future, event, process, dying>>

\* Only this request's event is set: one not started is withdrawn, a running
\* one is waited for.
CancelTask(r) ==
  /\ r \in AsyncCalls /\ task[r] = "waiting"
  /\ event' = [event EXCEPT ![r] = TRUE]
  /\ IF future[r] = "queued"
     THEN TaskMoves(r, "gone") /\ Resolve(r, "cancelled")
     ELSE TaskMoves(r, "reaping") /\ UNCHANGED <<free, future>>
  /\ UNCHANGED <<process, dying>>

\* The worker has answered; a second cancellation does not wait for it.
Reap(r) ==
  /\ task[r] = "reaping"
  /\ \/ future[r] = "stream" /\ TaskMoves(r, "closing")
     \/ TaskMoves(r, "gone")
  /\ UNCHANGED <<free, future, event, process, dying>>

\* The consumer closes its stream, or has read it to the end.
LeaveStream(r) ==
  /\ task[r] = "reading"
  /\ TaskMoves(r, IF job[r] = "done" THEN "gone" ELSE "closing")
  /\ UNCHANGED <<free, future, event, process, dying>>

\* Mutant: closing a stream closes whatever the client runs now.
CancelAnyStream(r) ==
  /\ task[r] = "closing" /\ TaskMoves(r, "gone") /\ TakeProcess
  /\ UNCHANGED <<free, future>>

\* cancel(), under _lock: close the client only while it obeys this request.
CancelStream(r) ==
  /\ task[r] = "closing" /\ TaskMoves(r, "gone")
  /\ IF current = r THEN TakeProcess ELSE UNCHANGED <<event, process, dying>>
  /\ UNCHANGED <<free, future>>

\* hermes_abort_request: whatever the client runs now.
Abort ==
  /\ TakeProcess
  /\ UNCHANGED <<callVars, job, lock, current, alive>>

\* The request is over in every thread: the model reuses its name.
Forget(r) ==
  /\ task[r] = "gone" /\ job[r] \in {"none", "done"} /\ r \notin alive
  /\ task' = [task EXCEPT ![r] = "idle"] /\ future' = [future EXCEPT ![r] = "none"]
  /\ job' = [job EXCEPT ![r] = "none"]
  /\ event' = [event EXCEPT ![r] = FALSE]
  /\ current' = IF current = r THEN NoCall ELSE current
  /\ UNCHANGED <<free, lock, process, alive, dying>>

-----------------------------------------------------------------------------

\* What the threads of the process do when they are scheduled.
AcpStep(r) ==
  \/ Acquire(r) \/ LeaveAdmission(r) \/ StartJob(r) \/ GiveUp(r) \/ TakeLock(r) \/ Install(r)
  \/ SpawnFails(r) \/ Popen(r) \/ StoreProcess(r) \/ PromptEnds(r)
  \/ CloseOwn(r) \/ Kill(r) \/ OwnKilled(r) \/ Unlock(r) \/ ProducerEnds(r)
  \/ Receive(r) \/ Reap(r) \/ CancelStream(r)

AcpNext ==
  \/ \E r \in Calls : AcpStep(r) \/ Call(r) \/ CancelTask(r) \/ LeaveStream(r) \/ Forget(r)
  \/ Abort

\* Every thread is scheduled, and every wait of a request ends by its deadline.
\* Nothing is assumed of the adapter, of the consumer of a stream, or of who
\* calls, cancels and aborts.
AcpFairness == \A r \in Calls : WF_acpVars(AcpStep(r))

AcpSpec == AcpInit /\ [][AcpNext]_acpVars /\ AcpFairness

-----------------------------------------------------------------------------

\* The submission semaphore counts exactly the requests in flight, whichever of
\* the completion, the stream's producer, a cancellation or a refusal ends one:
\* no path of _create_async frees a slot twice or keeps it.
SlotsConserved == free + Cardinality({r \in Calls : HoldsSlot(r)}) = Slots

\* An adapter process always has somebody who will kill it: the request that
\* holds the request lock, or a close() at work on it.  A cancellation that
\* races with _spawn leaves none behind.
NoStrayProcess == \A p \in alive : p = lock \/ p \in dying

\* The ACP client's slots and processes: its counting is exact and it leaves no
\* process behind, whichever thread ends a request.
AcpSound == AcpTypeOK /\ SlotsConserved /\ NoStrayProcess

\* Closing or cancelling one request never stops another's: cancel() tells
\* whether the client still obeys it.  (Only an abort means anybody's.)
CancelsOnlyItsOwn ==
  [][\A r, s \in Calls : /\ task[r] # task'[r] /\ s # r
                         => event'[s] = event[s] /\ (s \in dying' => s \in dying)]_acpVars

\* Every slot taken comes back, even when nobody reads the stream or the
\* adapter never answers.
SlotsComeBack == \A r \in AsyncCalls : HoldsSlot(r) ~> ~HoldsSlot(r)
=============================================================================
