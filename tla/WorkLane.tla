------------------------------ MODULE WorkLane ------------------------------
(***************************************************************************)
(* The speech server's bounded lane of inference workers:                    *)
(* sidecars/kokoro/worker_lane.py.  submit() and close() share the admission *)
(* lock; worker threads take jobs from the queue without it; a caller whose  *)
(* request timed out cancels its future.                                     *)
(***************************************************************************)
EXTENDS Naturals, Sequences

CONSTANTS
  Jobs,      \* bound: requests ever submitted
  Workers,   \* the lane's threads
  Capacity,  \* pending: the queue's size
  NoJob      \* a worker without a job

ASSUME LaneAssumption == Capacity \in Nat \ {0} /\ Workers # {} /\ NoJob \notin Jobs

VARIABLES
  queue,    \* jobs waiting for a worker
  future,   \* job -> its future, or what became of its submission
  late,     \* job -> its deadline has passed
  runs,     \* job -> how often its function was called
  worker,   \* worker -> where its thread is, and with which job
  closed,   \* the event the workers look at
  closer,   \* where the call of close() is
  stalled   \* on_stalled was called

laneVars == <<queue, future, late, runs, worker, closed, closer, stalled>>

Resolved == {"cancelled", "expired", "answered"}

TypeOK ==
  /\ queue \in Seq(Jobs) /\ Len(queue) <= Capacity
  /\ future \in [Jobs -> {"none", "refused", "pending", "running"} \cup Resolved]
  /\ late \in [Jobs -> BOOLEAN]
  /\ runs \in [Jobs -> Nat]
  /\ worker \in [Workers ->
       [at : {"loop", "getting", "exited"}, job : {NoJob}] \cup
       [at : {"taken", "begun", "ready", "working", "returned", "completed"}, job : Jobs]]
  /\ closed \in BOOLEAN
  /\ closer \in {"open", "draining", "joining", "all over", "timed out"}
  /\ stalled \in BOOLEAN

\* A worker goes from one place to the next with its job, or back for another.
Moves(w, from, to) ==
  /\ worker[w].at = from
  /\ worker' = [worker EXCEPT ![w].at = to]

Leaves(w, from) ==
  /\ worker[w].at = from
  /\ worker' = [worker EXCEPT ![w] = [at |-> "loop", job |-> NoJob]]

Becomes(j, outcome) == future' = [future EXCEPT ![j] = outcome]

\* Future.cancel(): nothing happens to one that runs or is done.
Cancelled(j) == IF future[j] = "pending" THEN "cancelled" ELSE future[j]

-----------------------------------------------------------------------------
(* Callers.                                                                  *)

Enqueue(j) == queue' = Append(queue, j) /\ Becomes(j, "pending")

\* Mutant: closing is not looked at under the admission lock.
SubmitWhileClosing(j) ==
  /\ future[j] = "none"
  /\ IF Len(queue) = Capacity THEN Becomes(j, "refused") /\ UNCHANGED queue
                              ELSE Enqueue(j)
  /\ UNCHANGED <<late, runs, worker, closed, closer, stalled>>

\* LaneBusy when the lane is closing or full.
Submit(j) ==
  /\ future[j] = "none" /\ closer # "draining"
  /\ IF closed \/ Len(queue) = Capacity
     THEN Becomes(j, "refused") /\ UNCHANGED queue
     ELSE Enqueue(j)
  /\ UNCHANGED <<late, runs, worker, closed, closer, stalled>>

\* The request timed out.
Cancel(j) ==
  /\ future[j] = "pending"
  /\ Becomes(j, "cancelled")
  /\ UNCHANGED <<queue, late, runs, worker, closed, closer, stalled>>

Expire(j) ==
  /\ future[j] \in {"pending", "running"} /\ ~late[j]
  /\ late' = [late EXCEPT ![j] = TRUE]
  /\ UNCHANGED <<queue, future, runs, worker, closed, closer, stalled>>

-----------------------------------------------------------------------------
(* A worker: _work and _execute.                                             *)

Look(w) ==
  /\ Moves(w, "loop", IF closed THEN "exited" ELSE "getting")
  /\ UNCHANGED <<queue, future, late, runs, closed, closer, stalled>>

\* The get times out on an empty queue.
FindNothing(w) ==
  /\ queue = <<>>
  /\ Moves(w, "getting", "loop")
  /\ UNCHANGED <<queue, future, late, runs, closed, closer, stalled>>

Get(w) ==
  /\ queue # <<>> /\ worker[w].at = "getting"
  /\ worker' = [worker EXCEPT ![w] = [at |-> "taken", job |-> Head(queue)]]
  /\ queue' = Tail(queue)
  /\ UNCHANGED <<future, late, runs, closed, closer, stalled>>

\* Mutant: a job taken while the lane closes is dropped.
DropWhenClosed(w) ==
  /\ closed
  /\ Leaves(w, "taken")
  /\ UNCHANGED <<queue, future, late, runs, closed, closer, stalled>>

\* The lane closed since the job was queued.
CancelWhenClosed(w) ==
  /\ closed
  /\ Leaves(w, "taken")
  /\ Becomes(worker[w].job, Cancelled(worker[w].job))
  /\ UNCHANGED <<queue, late, runs, closed, closer, stalled>>

Begin(w) ==
  /\ ~closed
  /\ Moves(w, "taken", "begun")
  /\ UNCHANGED <<queue, future, late, runs, closed, closer, stalled>>

\* Mutant: the answer of set_running_or_notify_cancel is not looked at.
SetRunningAnyway(w) ==
  /\ Moves(w, "begun", "ready")
  /\ future' = [future EXCEPT ![worker[w].job] = IF @ = "pending" THEN "running" ELSE @]
  /\ UNCHANGED <<queue, late, runs, closed, closer, stalled>>

\* set_running_or_notify_cancel: from here on the caller cannot cancel.
SetRunning(w) ==
  LET j == worker[w].job IN
  /\ worker[w].at = "begun"
  /\ \/ /\ future[j] = "pending"
        /\ Moves(w, "begun", "ready") /\ Becomes(j, "running")
     \/ /\ future[j] = "cancelled"
        /\ Leaves(w, "begun") /\ UNCHANGED future
  /\ UNCHANGED <<queue, late, runs, closed, closer, stalled>>

\* DeadlineExpired: queued too long.
Refuse(w) ==
  /\ Leaves(w, "ready")
  /\ late[worker[w].job]
  /\ Becomes(worker[w].job, "expired")
  /\ UNCHANGED <<queue, late, runs, closed, closer, stalled>>

\* The stall timer is started and the function called.
Run(w) ==
  /\ Moves(w, "ready", "working")
  /\ ~late[worker[w].job]
  /\ runs' = [runs EXCEPT ![worker[w].job] = @ + 1]
  /\ UNCHANGED <<queue, future, late, closed, closer, stalled>>

\* The function returns or raises; it may also never come back.
Return(w) ==
  /\ Moves(w, "working", "returned")
  /\ UNCHANGED <<queue, future, late, runs, closed, closer, stalled>>

\* The timer, under the completion lock, before the job is marked completed.
Stall(w) ==
  /\ worker[w].at \in {"working", "returned"}
  /\ stalled' = TRUE
  /\ UNCHANGED <<queue, future, late, runs, worker, closed, closer>>

Complete(w) ==
  /\ Moves(w, "returned", "completed")
  /\ UNCHANGED <<queue, future, late, runs, closed, closer, stalled>>

\* set_result or set_exception
Answer(w) ==
  /\ Leaves(w, "completed")
  /\ Becomes(worker[w].job, "answered")
  /\ UNCHANGED <<queue, late, runs, closed, closer, stalled>>

-----------------------------------------------------------------------------
(* close(), called once.                                                     *)

StartClosing ==
  /\ closer = "open"
  /\ closer' = "draining" /\ closed' = TRUE
  /\ UNCHANGED <<queue, future, late, runs, worker, stalled>>

\* With the admission lock held.
DrainOne ==
  /\ closer = "draining" /\ queue # <<>>
  /\ Becomes(Head(queue), Cancelled(Head(queue)))
  /\ queue' = Tail(queue)
  /\ UNCHANGED <<late, runs, worker, closed, closer, stalled>>

\* Mutant: close() joins the workers before the queue is empty.
DrainedAnyway ==
  /\ closer = "draining"
  /\ closer' = "joining"
  /\ UNCHANGED <<queue, future, late, runs, worker, closed, stalled>>

Drained ==
  /\ closer = "draining" /\ queue = <<>>
  /\ closer' = "joining"
  /\ UNCHANGED <<queue, future, late, runs, worker, closed, stalled>>

\* The joins are bounded by close()'s own timeout.
Joined ==
  /\ closer = "joining"
  /\ closer' = IF \A w \in Workers : worker[w].at = "exited" THEN "all over" ELSE "timed out"
  /\ UNCHANGED <<queue, future, late, runs, worker, closed, stalled>>

-----------------------------------------------------------------------------
Init ==
  /\ queue = <<>>
  /\ future = [j \in Jobs |-> "none"]
  /\ late = [j \in Jobs |-> FALSE]
  /\ runs = [j \in Jobs |-> 0]
  /\ worker = [w \in Workers |-> [at |-> "loop", job |-> NoJob]]
  /\ closed = FALSE /\ closer = "open" /\ stalled = FALSE

Caller == \E j \in Jobs : Submit(j) \/ Cancel(j) \/ Expire(j)

\* What a worker's thread does by itself, apart from the function's return.
Work(w) ==
  \/ Look(w) \/ FindNothing(w) \/ Get(w) \/ CancelWhenClosed(w) \/ Begin(w)
  \/ SetRunning(w) \/ Refuse(w) \/ Run(w) \/ Complete(w) \/ Answer(w)

Close == StartClosing \/ DrainOne \/ Drained \/ Joined

Next == Caller \/ Close \/ \E w \in Workers : Work(w) \/ Return(w) \/ Stall(w)

Spec == Init /\ [][Next]_laneVars

\* Threads run, the stall timer fires, a close() that was called goes on.
\* Nothing makes a caller cancel or close, or an inference return.
Fairness ==
  /\ \A w \in Workers : WF_laneVars(Work(w)) /\ WF_laneVars(Stall(w))
  /\ WF_laneVars(DrainOne \/ Drained \/ Joined)

FairSpec == Spec /\ Fairness

-----------------------------------------------------------------------------
\* What a caller is told is what happened: an answered request was inferred once,
\* a cancelled, expired or refused one never ("queued deadlines never become GPU
\* work"), whatever cancellation, expiry and closing it races with.
AnswersTruthful ==
  \A j \in Jobs :
    /\ runs[j] <= 1
    /\ future[j] = "answered" => runs[j] = 1
    /\ future[j] \in {"refused", "cancelled", "expired"} => runs[j] = 0

\* Once close() has drained, the only open requests are the ones in a worker's
\* hands, and there are none when it reports that every worker is gone.
ClosedLane ==
  closer \in {"joining", "all over", "timed out"} =>
    \A j \in Jobs : future[j] \in {"pending", "running"} =>
      /\ closer # "all over"
      /\ \E w \in Workers : worker[w].job = j

\* Every accepted request is resolved, unless an inference hangs, and then the
\* watchdog is told.
EveryoneAnswered ==
  \A j \in Jobs : (future[j] = "pending") ~> (future[j] \in Resolved \/ stalled)

-----------------------------------------------------------------------------
(* The inductive invariant behind AnswersTruthful and ClosedLane.            *)

InQueue(j) == \E i \in 1..Len(queue) : queue[i] = j

Held(j) == \E w \in Workers : worker[w].job = j

Distinct == \A i, k \in 1..Len(queue) : queue[i] = queue[k] => i = k

\* A job is in one place only.
OnePlace ==
  /\ Distinct
  /\ \A j \in Jobs : InQueue(j) => ~Held(j)
  /\ \A v, w \in Workers : worker[v].job = worker[w].job /\ worker[v].job # NoJob => v = w

\* What a job's future says of its place, and the place of its future.
QueueAgrees == \A j \in Jobs : InQueue(j) => future[j] \in {"pending", "cancelled"}

WorkerAgrees(w) ==
  LET at == worker[w].at
      j  == worker[w].job
  IN /\ at \in {"taken", "begun"} => future[j] \in {"pending", "cancelled"}
     /\ at \in {"ready", "working", "returned", "completed"} => future[j] = "running"
     /\ at = "ready" => runs[j] = 0
     /\ at \in {"working", "returned", "completed"} => runs[j] = 1

FutureAgrees(j) ==
  /\ future[j] = "pending" => InQueue(j) \/ Held(j)
  /\ future[j] = "running" => Held(j)
  /\ future[j] \in {"none", "pending"} => runs[j] = 0

PlaceAgrees ==
  /\ QueueAgrees
  /\ \A w \in Workers : WorkerAgrees(w)
  /\ \A j \in Jobs : FutureAgrees(j)

\* close() shuts the lane before it drains it.
ClosingInv ==
  /\ closer # "open" => closed
  /\ closer \in {"joining", "all over", "timed out"} => queue = <<>>
  /\ closer = "all over" => \A w \in Workers : worker[w].at = "exited"

LaneInv == TypeOK /\ OnePlace /\ PlaceAgrees /\ ClosingInv /\ AnswersTruthful
=============================================================================
