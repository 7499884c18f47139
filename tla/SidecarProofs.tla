---------------------------- MODULE SidecarProofs ----------------------------
(***************************************************************************)
(* No automation request overlaps a human, and the Kokoro lane tells its     *)
(* callers the truth and closes completely: for any number of requests,      *)
(* jobs and workers and any size of the queue.                               *)
(***************************************************************************)
EXTENDS WorkLane, RestLock, TLAPS

-----------------------------------------------------------------------------
(* RestLock: the automation lock and the human's marker.                     *)

\* A handler thread keeps the invariant: it enters the shared section only when
\* nobody holds LOCK_EX, and goes on to forward only when the marker is absent.
LEMMA HandlerStep ==
  ASSUME LockInv, NEW r \in Requests, Proxy(r)
  PROVE  LockInv'
<1> USE DEF LockInv, RestTypeOK, NoOverlap, Shared, HandlerMoves
<1>1. CASE Arrive(r) \/ ReadBody(r) \/ RefuseBody(r) \/ GateFails(r) \/ Forwarded(r)
  BY <1>1 DEF Arrive, ReadBody, RefuseBody, GateFails, Forwarded
<1>2. CASE Gate(r)
  BY <1>2 DEF Gate
<1>3. CASE Recheck(r)
  <2>1. CASE marker
    BY <1>3, <2>1 DEF Recheck
  <2>2. CASE ~marker
    BY <1>3, <2>2 DEF Recheck
  <2> QED BY <2>1, <2>2
<1> QED BY <1>1, <1>2, <1>3 DEF Proxy, Handle

\* A step of the broker keeps it: the marker precedes the drain, and nobody is
\* inside when the takeover is acknowledged.
LEMMA TakeoverStep == LockInv /\ Takeover => LockInv'
<1> SUFFICES ASSUME LockInv, Takeover PROVE LockInv'
  OBVIOUS
<1> USE DEF LockInv, RestTypeOK, NoOverlap, Shared
<1>1. CASE Touch
  BY <1>1 DEF Touch
<1>2. CASE Drain
  BY <1>2 DEF Drain
<1>3. CASE Acknowledge
  BY <1>3 DEF Acknowledge
<1>4. CASE DrainFails
  BY <1>4 DEF DrainFails
<1>5. CASE Release
  BY <1>5 DEF Release
<1>6. CASE Leave
  BY <1>6 DEF Leave
<1> QED BY <1>1, <1>2, <1>3, <1>4, <1>5, <1>6 DEF Takeover

\* The fence keeps automation and a human apart: whatever the number of requests
\* and however their threads interleave with takeovers, releases and deaths of
\* the broker, none is being forwarded while a human drives the browser.
THEOREM HumanDrivesAlone == RestSpec => []NoOverlap
<1>1. RestInit => LockInv
  BY DEF RestInit, LockInv, RestTypeOK, NoOverlap, Shared
<1>2. LockInv /\ [RestNext]_restVars => LockInv'
  <2> SUFFICES ASSUME LockInv, [RestNext]_restVars PROVE LockInv'
    OBVIOUS
  <2>1. CASE UNCHANGED restVars
    BY <2>1 DEF restVars, LockInv, RestTypeOK, NoOverlap, Shared
  <2>2. CASE Takeover
    BY <2>2, TakeoverStep
  <2>3. ASSUME NEW r \in Requests, Proxy(r) PROVE LockInv'
    BY <2>3, HandlerStep
  <2> QED BY <2>1, <2>2, <2>3 DEF RestNext
<1>3. LockInv => NoOverlap
  BY DEF LockInv
<1> QED BY <1>1, <1>2, <1>3, PTL DEF RestSpec

-----------------------------------------------------------------------------
(* WorkLane: the queue, the workers and close().                             *)

\* What Append does to the queue, position by position.
LEMMA AppendFacts ==
  ASSUME NEW q \in Seq(Jobs), NEW j \in Jobs
  PROVE  /\ Append(q, j) \in Seq(Jobs)
         /\ Len(Append(q, j)) = Len(q) + 1
         /\ Append(q, j)[Len(q) + 1] = j
         /\ \A i \in 1..Len(q) : Append(q, j)[i] = q[i]
  OBVIOUS

\* What taking the head off does.
LEMMA TailFacts ==
  ASSUME NEW q \in Seq(Jobs), q # <<>>
  PROVE  /\ Head(q) = q[1] /\ q[1] \in Jobs /\ Len(q) \in Nat \ {0}
         /\ Tail(q) \in Seq(Jobs)
         /\ Len(Tail(q)) = Len(q) - 1
         /\ \A i \in 1..Len(Tail(q)) : Tail(q)[i] = q[i + 1]
  OBVIOUS

\* submit() puts a job behind the others.
LEMMA Enqueued ==
  ASSUME queue \in Seq(Jobs), Distinct, NEW j \in Jobs, ~InQueue(j), queue' = Append(queue, j)
  PROVE  Distinct' /\ \A x \in Jobs : InQueue(x)' <=> InQueue(x) \/ x = j
<1> Len(queue) \in Nat
  OBVIOUS
<1>1. /\ Len(queue') = Len(queue) + 1 /\ queue'[Len(queue) + 1] = j
      /\ \A i \in 1..Len(queue) : queue'[i] = queue[i]
  BY AppendFacts
<1>2. Distinct'
  <2> SUFFICES ASSUME NEW i \in 1..(Len(queue) + 1), NEW k \in 1..(Len(queue) + 1),
                      queue'[i] = queue'[k]
               PROVE  i = k
    BY <1>1 DEF Distinct
  <2>1. CASE i \in 1..Len(queue) /\ k \in 1..Len(queue)
    BY <1>1, <2>1 DEF Distinct
  <2>2. CASE i = Len(queue) + 1 \/ k = Len(queue) + 1
    BY <1>1, <2>2 DEF InQueue
  <2> QED BY <2>1, <2>2
<1>3. ASSUME NEW x \in Jobs PROVE InQueue(x)' <=> InQueue(x) \/ x = j
  BY <1>1 DEF InQueue
<1> QED BY <1>2, <1>3

\* A worker or close() takes the oldest job off.
LEMMA Dequeued ==
  ASSUME queue \in Seq(Jobs), queue # <<>>, Distinct, queue' = Tail(queue)
  PROVE  /\ Head(queue) \in Jobs /\ InQueue(Head(queue)) /\ Distinct'
         /\ \A x \in Jobs : InQueue(x)' <=> InQueue(x) /\ x # Head(queue)
<1>1. /\ Head(queue) = queue[1] /\ queue[1] \in Jobs /\ Len(queue) \in Nat \ {0}
      /\ Len(queue') = Len(queue) - 1
      /\ \A i \in 1..(Len(queue) - 1) : queue'[i] = queue[i + 1]
  BY TailFacts
<1>2. InQueue(Head(queue))
  BY <1>1 DEF InQueue
<1>3. Distinct'
  BY <1>1 DEF Distinct
<1>4. ASSUME NEW x \in Jobs PROVE InQueue(x)' <=> InQueue(x) /\ x # Head(queue)
  <2>1. ASSUME InQueue(x)' PROVE InQueue(x) /\ x # Head(queue)
    BY <1>1, <2>1 DEF InQueue, Distinct
  <2>2. ASSUME InQueue(x), x # Head(queue) PROVE InQueue(x)'
    <3>1. PICK i \in 1..Len(queue) : queue[i] = x
      BY <2>2 DEF InQueue
    <3>2. i # 1
      BY <1>1, <2>2, <3>1
    <3>3. i - 1 \in 1..(Len(queue) - 1) /\ (i - 1) + 1 = i
      BY <1>1, <3>2
    <3>4. i - 1 \in 1..Len(queue') /\ queue'[i - 1] = x
      BY <1>1, <3>1, <3>3
    <3> QED BY <3>4 DEF InQueue
  <2> QED BY <2>1, <2>2
<1> QED BY <1>1, <1>2, <1>3, <1>4

\* Nobody waits in an empty queue.
LEMMA EmptyQueue ==
  ASSUME queue = <<>>
  PROVE  Distinct /\ \A x : ~InQueue(x)
<1>1. Len(queue) = 0
  OBVIOUS
<1> QED BY <1>1 DEF Distinct, InQueue

\* A step that does not touch the queue.
LEMMA SameQueue ==
  ASSUME UNCHANGED queue
  PROVE  (Distinct' <=> Distinct) /\ \A x : InQueue(x)' <=> InQueue(x)
  BY DEF Distinct, InQueue

-----------------------------------------------------------------------------
(* A worker's steps.                                                         *)

\* A worker goes on with its job: every job stays where it is.
LEMMA GoesOn ==
  ASSUME TypeOK, OnePlace, UNCHANGED queue, NEW w \in Workers, NEW from, NEW to, Moves(w, from, to)
  PROVE  /\ OnePlace'
         /\ \A j : (InQueue(j)' <=> InQueue(j)) /\ (Held(j)' <=> Held(j))
         /\ worker[w].at = from /\ worker'[w].at = to /\ worker'[w].job = worker[w].job
         /\ \A v \in Workers \ {w} : worker'[v] = worker[v]
         /\ DOMAIN worker' = Workers
<1>1. /\ worker[w].at = from /\ worker'[w].at = to /\ worker'[w].job = worker[w].job
      /\ \A v \in Workers \ {w} : worker'[v] = worker[v]
      /\ DOMAIN worker' = Workers
  BY DEF TypeOK, Moves
<1>2. \A j : (InQueue(j)' <=> InQueue(j)) /\ (Held(j)' <=> Held(j))
  BY <1>1, SameQueue DEF Held
<1>3. OnePlace'
  BY <1>1, <1>2, SameQueue DEF OnePlace
<1> QED BY <1>1, <1>2, <1>3

\* A worker is done with its job: the job is nowhere.
LEMMA LetsGo ==
  ASSUME TypeOK, OnePlace, UNCHANGED queue, LaneAssumption,
         NEW w \in Workers, NEW from, Leaves(w, from)
  PROVE  /\ OnePlace'
         /\ \A j : InQueue(j)' <=> InQueue(j)
         /\ \A j \in Jobs : Held(j)' <=> Held(j) /\ j # worker[w].job
         /\ worker[w].at = from /\ worker'[w] = [at |-> "loop", job |-> NoJob]
         /\ \A v \in Workers \ {w} : worker'[v] = worker[v]
<1>1. /\ worker[w].at = from /\ worker'[w] = [at |-> "loop", job |-> NoJob]
      /\ \A v \in Workers \ {w} : worker'[v] = worker[v]
  BY DEF TypeOK, Leaves
<1>2. \A j \in Jobs : Held(j)' <=> Held(j) /\ j # worker[w].job
  BY <1>1 DEF Held, OnePlace, LaneAssumption
<1>3. \A j : InQueue(j)' <=> InQueue(j)
  BY SameQueue
<1>4. OnePlace'
  BY <1>1, <1>2, <1>3, SameQueue DEF OnePlace
<1> QED BY <1>1, <1>2, <1>3, <1>4

\* The loop's head.
LEMMA LookStep ==
  ASSUME LaneInv, NEW w \in Workers, Look(w)
  PROVE  LaneInv'
<1>1. /\ OnePlace'
      /\ \A j : (InQueue(j)' <=> InQueue(j)) /\ (Held(j)' <=> Held(j))
      /\ worker[w].at = "loop" /\ worker'[w].at = (IF closed THEN "exited" ELSE "getting")
      /\ worker'[w].job = worker[w].job
      /\ \A v \in Workers \ {w} : worker'[v] = worker[v]
  BY GoesOn DEF LaneInv, Look
<1>2. TypeOK'
  BY DEF LaneInv, TypeOK, Look, Moves
<1>3. QueueAgrees' /\ \A j \in Jobs : FutureAgrees(j)'
  BY <1>1 DEF LaneInv, PlaceAgrees, QueueAgrees, FutureAgrees, Look
<1>4. \A v \in Workers : WorkerAgrees(v)'
  BY <1>1 DEF LaneInv, PlaceAgrees, WorkerAgrees, Look
<1>5. ClosingInv' /\ AnswersTruthful'
  BY <1>1 DEF LaneInv, ClosingInv, AnswersTruthful, Look
<1> QED BY <1>1, <1>2, <1>3, <1>4, <1>5 DEF LaneInv, PlaceAgrees

\* The get timed out.
LEMMA FindNothingStep ==
  ASSUME LaneInv, NEW w \in Workers, FindNothing(w)
  PROVE  LaneInv'
<1>1. /\ OnePlace'
      /\ \A j : (InQueue(j)' <=> InQueue(j)) /\ (Held(j)' <=> Held(j))
      /\ worker[w].at = "getting" /\ worker'[w].at = ("loop")
      /\ worker'[w].job = worker[w].job
      /\ \A v \in Workers \ {w} : worker'[v] = worker[v]
  BY GoesOn DEF LaneInv, FindNothing
<1>2. TypeOK'
  BY DEF LaneInv, TypeOK, FindNothing, Moves
<1>3. QueueAgrees' /\ \A j \in Jobs : FutureAgrees(j)'
  BY <1>1 DEF LaneInv, PlaceAgrees, QueueAgrees, FutureAgrees, FindNothing
<1>4. \A v \in Workers : WorkerAgrees(v)'
  BY <1>1 DEF LaneInv, PlaceAgrees, WorkerAgrees, FindNothing
<1>5. ClosingInv' /\ AnswersTruthful'
  BY <1>1 DEF LaneInv, ClosingInv, AnswersTruthful, FindNothing
<1> QED BY <1>1, <1>2, <1>3, <1>4, <1>5 DEF LaneInv, PlaceAgrees

\* The lane is open.
LEMMA BeginStep ==
  ASSUME LaneInv, NEW w \in Workers, Begin(w)
  PROVE  LaneInv'
<1>1. /\ OnePlace'
      /\ \A j : (InQueue(j)' <=> InQueue(j)) /\ (Held(j)' <=> Held(j))
      /\ worker[w].at = "taken" /\ worker'[w].at = ("begun")
      /\ worker'[w].job = worker[w].job
      /\ \A v \in Workers \ {w} : worker'[v] = worker[v]
  BY GoesOn DEF LaneInv, Begin
<1>2. TypeOK'
  BY DEF LaneInv, TypeOK, Begin, Moves
<1>3. QueueAgrees' /\ \A j \in Jobs : FutureAgrees(j)'
  BY <1>1 DEF LaneInv, PlaceAgrees, QueueAgrees, FutureAgrees, Begin
<1>4. \A v \in Workers : WorkerAgrees(v)'
  BY <1>1 DEF LaneInv, PlaceAgrees, WorkerAgrees, Begin
<1>5. ClosingInv' /\ AnswersTruthful'
  BY <1>1 DEF LaneInv, ClosingInv, AnswersTruthful, Begin
<1> QED BY <1>1, <1>2, <1>3, <1>4, <1>5 DEF LaneInv, PlaceAgrees

\* The function came back.
LEMMA ReturnStep ==
  ASSUME LaneInv, NEW w \in Workers, Return(w)
  PROVE  LaneInv'
<1>1. /\ OnePlace'
      /\ \A j : (InQueue(j)' <=> InQueue(j)) /\ (Held(j)' <=> Held(j))
      /\ worker[w].at = "working" /\ worker'[w].at = ("returned")
      /\ worker'[w].job = worker[w].job
      /\ \A v \in Workers \ {w} : worker'[v] = worker[v]
  BY GoesOn DEF LaneInv, Return
<1>2. TypeOK'
  BY DEF LaneInv, TypeOK, Return, Moves
<1>3. QueueAgrees' /\ \A j \in Jobs : FutureAgrees(j)'
  BY <1>1 DEF LaneInv, PlaceAgrees, QueueAgrees, FutureAgrees, Return
<1>4. \A v \in Workers : WorkerAgrees(v)'
  BY <1>1 DEF LaneInv, PlaceAgrees, WorkerAgrees, Return
<1>5. ClosingInv' /\ AnswersTruthful'
  BY <1>1 DEF LaneInv, ClosingInv, AnswersTruthful, Return
<1> QED BY <1>1, <1>2, <1>3, <1>4, <1>5 DEF LaneInv, PlaceAgrees

\* The stall timer is disarmed.
LEMMA CompleteStep ==
  ASSUME LaneInv, NEW w \in Workers, Complete(w)
  PROVE  LaneInv'
<1>1. /\ OnePlace'
      /\ \A j : (InQueue(j)' <=> InQueue(j)) /\ (Held(j)' <=> Held(j))
      /\ worker[w].at = "returned" /\ worker'[w].at = ("completed")
      /\ worker'[w].job = worker[w].job
      /\ \A v \in Workers \ {w} : worker'[v] = worker[v]
  BY GoesOn DEF LaneInv, Complete
<1>2. TypeOK'
  BY DEF LaneInv, TypeOK, Complete, Moves
<1>3. QueueAgrees' /\ \A j \in Jobs : FutureAgrees(j)'
  BY <1>1 DEF LaneInv, PlaceAgrees, QueueAgrees, FutureAgrees, Complete
<1>4. \A v \in Workers : WorkerAgrees(v)'
  BY <1>1 DEF LaneInv, PlaceAgrees, WorkerAgrees, Complete
<1>5. ClosingInv' /\ AnswersTruthful'
  BY <1>1 DEF LaneInv, ClosingInv, AnswersTruthful, Complete
<1> QED BY <1>1, <1>2, <1>3, <1>4, <1>5 DEF LaneInv, PlaceAgrees

\* The lane closed: the job's future is cancelled.
LEMMA CancelWhenClosedStep ==
  ASSUME LaneAssumption, LaneInv, NEW w \in Workers, CancelWhenClosed(w)
  PROVE  LaneInv'
<1> DEFINE j == worker[w].job
<1>1. /\ OnePlace'
      /\ \A x : InQueue(x)' <=> InQueue(x)
      /\ \A x \in Jobs : Held(x)' <=> Held(x) /\ x # j
      /\ worker[w].at = "taken" /\ worker'[w] = [at |-> "loop", job |-> NoJob]
      /\ \A v \in Workers \ {w} : worker'[v] = worker[v]
  BY LetsGo DEF LaneInv, CancelWhenClosed
<1>2. j \in Jobs /\ Held(j) /\ ~InQueue(j)
  <2>1. j \in Jobs
    BY <1>1 DEF LaneInv, TypeOK
  <2> QED BY <2>1 DEF LaneInv, OnePlace, Held
<1>3. /\ WorkerAgrees(w)
      /\ future'[j] \in Resolved
      /\ \A x \in Jobs \ {j} : future'[x] = future[x]
  BY <1>1, <1>2 DEF LaneInv, TypeOK, PlaceAgrees, WorkerAgrees, CancelWhenClosed, Becomes, Cancelled, Resolved
<1>4. TypeOK'
  BY <1>1, <1>2, <1>3 DEF LaneInv, TypeOK, CancelWhenClosed, Leaves, Becomes, Resolved
<1>5. QueueAgrees' /\ \A x \in Jobs : FutureAgrees(x)'
  BY <1>1, <1>2, <1>3 DEF LaneInv, PlaceAgrees, QueueAgrees, FutureAgrees, CancelWhenClosed, Resolved
<1>6. ASSUME NEW v \in Workers PROVE WorkerAgrees(v)'
  <2>1. CASE v = w
    BY <1>1, <2>1 DEF WorkerAgrees
  <2>2. CASE v # w
    <3>1. worker'[v] = worker[v] /\ worker[v].job # j
      BY <1>1, <1>2, <2>2 DEF LaneInv, OnePlace, LaneAssumption
    <3>2. worker[v].at \in {"loop", "getting", "exited"} \/ worker[v].job \in Jobs \ {j}
      BY <3>1 DEF LaneInv, TypeOK
    <3> QED BY <1>3, <3>1, <3>2 DEF LaneInv, PlaceAgrees, WorkerAgrees, CancelWhenClosed
  <2> QED BY <2>1, <2>2
<1>7. ClosingInv'
  BY <1>1 DEF LaneInv, ClosingInv, CancelWhenClosed
<1>8. AnswersTruthful'
  <2>1. runs[j] <= 1 /\ (future'[j] = "answered" => runs[j] = 1)
        /\ (future'[j] \in {"refused", "cancelled", "expired"} => runs[j] = 0)
    BY <1>1, <1>2, <1>3 DEF LaneInv, PlaceAgrees, WorkerAgrees, FutureAgrees,
                           AnswersTruthful, TypeOK, CancelWhenClosed, Becomes, Cancelled
  <2> QED BY <1>3, <2>1 DEF LaneInv, AnswersTruthful, CancelWhenClosed
<1> QED BY <1>1, <1>4, <1>5, <1>6, <1>7, <1>8 DEF LaneInv, PlaceAgrees

\* The deadline passed in the queue.
LEMMA RefuseStep ==
  ASSUME LaneAssumption, LaneInv, NEW w \in Workers, Refuse(w)
  PROVE  LaneInv'
<1> DEFINE j == worker[w].job
<1>1. /\ OnePlace'
      /\ \A x : InQueue(x)' <=> InQueue(x)
      /\ \A x \in Jobs : Held(x)' <=> Held(x) /\ x # j
      /\ worker[w].at = "ready" /\ worker'[w] = [at |-> "loop", job |-> NoJob]
      /\ \A v \in Workers \ {w} : worker'[v] = worker[v]
  BY LetsGo DEF LaneInv, Refuse
<1>2. j \in Jobs /\ Held(j) /\ ~InQueue(j)
  <2>1. j \in Jobs
    BY <1>1 DEF LaneInv, TypeOK
  <2> QED BY <2>1 DEF LaneInv, OnePlace, Held
<1>3. /\ WorkerAgrees(w)
      /\ future'[j] \in Resolved
      /\ \A x \in Jobs \ {j} : future'[x] = future[x]
  BY <1>1, <1>2 DEF LaneInv, TypeOK, PlaceAgrees, WorkerAgrees, Refuse, Becomes, Cancelled, Resolved
<1>4. TypeOK'
  BY <1>1, <1>2, <1>3 DEF LaneInv, TypeOK, Refuse, Leaves, Becomes, Resolved
<1>5. QueueAgrees' /\ \A x \in Jobs : FutureAgrees(x)'
  BY <1>1, <1>2, <1>3 DEF LaneInv, PlaceAgrees, QueueAgrees, FutureAgrees, Refuse, Resolved
<1>6. ASSUME NEW v \in Workers PROVE WorkerAgrees(v)'
  <2>1. CASE v = w
    BY <1>1, <2>1 DEF WorkerAgrees
  <2>2. CASE v # w
    <3>1. worker'[v] = worker[v] /\ worker[v].job # j
      BY <1>1, <1>2, <2>2 DEF LaneInv, OnePlace, LaneAssumption
    <3>2. worker[v].at \in {"loop", "getting", "exited"} \/ worker[v].job \in Jobs \ {j}
      BY <3>1 DEF LaneInv, TypeOK
    <3> QED BY <1>3, <3>1, <3>2 DEF LaneInv, PlaceAgrees, WorkerAgrees, Refuse
  <2> QED BY <2>1, <2>2
<1>7. ClosingInv'
  BY <1>1 DEF LaneInv, ClosingInv, Refuse
<1>8. AnswersTruthful'
  <2>1. runs[j] <= 1 /\ (future'[j] = "answered" => runs[j] = 1)
        /\ (future'[j] \in {"refused", "cancelled", "expired"} => runs[j] = 0)
    BY <1>1, <1>2, <1>3 DEF LaneInv, PlaceAgrees, WorkerAgrees, FutureAgrees,
                           AnswersTruthful, TypeOK, Refuse, Becomes, Cancelled
  <2> QED BY <1>3, <2>1 DEF LaneInv, AnswersTruthful, Refuse
<1> QED BY <1>1, <1>4, <1>5, <1>6, <1>7, <1>8 DEF LaneInv, PlaceAgrees

\* The caller gets the result or the error.
LEMMA AnswerStep ==
  ASSUME LaneAssumption, LaneInv, NEW w \in Workers, Answer(w)
  PROVE  LaneInv'
<1> DEFINE j == worker[w].job
<1>1. /\ OnePlace'
      /\ \A x : InQueue(x)' <=> InQueue(x)
      /\ \A x \in Jobs : Held(x)' <=> Held(x) /\ x # j
      /\ worker[w].at = "completed" /\ worker'[w] = [at |-> "loop", job |-> NoJob]
      /\ \A v \in Workers \ {w} : worker'[v] = worker[v]
  BY LetsGo DEF LaneInv, Answer
<1>2. j \in Jobs /\ Held(j) /\ ~InQueue(j)
  <2>1. j \in Jobs
    BY <1>1 DEF LaneInv, TypeOK
  <2> QED BY <2>1 DEF LaneInv, OnePlace, Held
<1>3. /\ WorkerAgrees(w)
      /\ future'[j] \in Resolved
      /\ \A x \in Jobs \ {j} : future'[x] = future[x]
  BY <1>1, <1>2 DEF LaneInv, TypeOK, PlaceAgrees, WorkerAgrees, Answer, Becomes, Cancelled, Resolved
<1>4. TypeOK'
  BY <1>1, <1>2, <1>3 DEF LaneInv, TypeOK, Answer, Leaves, Becomes, Resolved
<1>5. QueueAgrees' /\ \A x \in Jobs : FutureAgrees(x)'
  BY <1>1, <1>2, <1>3 DEF LaneInv, PlaceAgrees, QueueAgrees, FutureAgrees, Answer, Resolved
<1>6. ASSUME NEW v \in Workers PROVE WorkerAgrees(v)'
  <2>1. CASE v = w
    BY <1>1, <2>1 DEF WorkerAgrees
  <2>2. CASE v # w
    <3>1. worker'[v] = worker[v] /\ worker[v].job # j
      BY <1>1, <1>2, <2>2 DEF LaneInv, OnePlace, LaneAssumption
    <3>2. worker[v].at \in {"loop", "getting", "exited"} \/ worker[v].job \in Jobs \ {j}
      BY <3>1 DEF LaneInv, TypeOK
    <3> QED BY <1>3, <3>1, <3>2 DEF LaneInv, PlaceAgrees, WorkerAgrees, Answer
  <2> QED BY <2>1, <2>2
<1>7. ClosingInv'
  BY <1>1 DEF LaneInv, ClosingInv, Answer
<1>8. AnswersTruthful'
  <2>1. runs[j] <= 1 /\ (future'[j] = "answered" => runs[j] = 1)
        /\ (future'[j] \in {"refused", "cancelled", "expired"} => runs[j] = 0)
    BY <1>1, <1>2, <1>3 DEF LaneInv, PlaceAgrees, WorkerAgrees, FutureAgrees,
                           AnswersTruthful, TypeOK, Answer, Becomes, Cancelled
  <2> QED BY <1>3, <2>1 DEF LaneInv, AnswersTruthful, Answer
<1> QED BY <1>1, <1>4, <1>5, <1>6, <1>7, <1>8 DEF LaneInv, PlaceAgrees

\* set_running_or_notify_cancel: either the worker or the caller's cancel wins.
LEMMA SetRunningStep ==
  ASSUME LaneAssumption, LaneInv, NEW w \in Workers, SetRunning(w)
  PROVE  LaneInv'
<1> DEFINE j == worker[w].job
<1>0. UNCHANGED queue /\ worker[w].at = "begun" /\ j \in Jobs /\ Held(j) /\ ~InQueue(j)
  BY DEF LaneInv, TypeOK, OnePlace, Held, SetRunning
<1>1. CASE future[j] = "pending" /\ Moves(w, "begun", "ready") /\ Becomes(j, "running")
  <2>1. /\ OnePlace'
        /\ \A x : (InQueue(x)' <=> InQueue(x)) /\ (Held(x)' <=> Held(x))
        /\ worker'[w].at = "ready" /\ worker'[w].job = j
        /\ \A v \in Workers \ {w} : worker'[v] = worker[v]
    BY <1>0, <1>1, GoesOn DEF LaneInv
  <2>2. future'[j] = "running" /\ \A x \in Jobs \ {j} : future'[x] = future[x]
    BY <1>0, <1>1 DEF LaneInv, TypeOK, Becomes
  <2>3. TypeOK'
    BY <1>0, <1>1 DEF LaneInv, TypeOK, SetRunning, Moves, Becomes
  <2>4. QueueAgrees' /\ \A x \in Jobs : FutureAgrees(x)'
    BY <1>0, <2>1, <2>2 DEF LaneInv, PlaceAgrees, QueueAgrees, FutureAgrees, SetRunning
  <2>5. ASSUME NEW v \in Workers PROVE WorkerAgrees(v)'
    <3>1. CASE v = w
      BY <1>0, <1>1, <2>1, <2>2, <3>1
         DEF LaneInv, PlaceAgrees, WorkerAgrees, FutureAgrees, SetRunning
    <3>2. CASE v # w
      <4>1. worker'[v] = worker[v] /\ worker[v].job # j
        BY <1>0, <2>1, <3>2 DEF LaneInv, OnePlace, LaneAssumption
      <4>2. worker[v].at \in {"loop", "getting", "exited"} \/ worker[v].job \in Jobs \ {j}
        BY <4>1 DEF LaneInv, TypeOK
      <4> QED BY <2>2, <4>1, <4>2 DEF LaneInv, PlaceAgrees, WorkerAgrees, SetRunning
    <3> QED BY <3>1, <3>2
  <2>6. ClosingInv'
    BY <1>0, <2>1 DEF LaneInv, ClosingInv, SetRunning
  <2>7. AnswersTruthful'
    BY <2>2 DEF LaneInv, AnswersTruthful, SetRunning
  <2> QED BY <2>1, <2>3, <2>4, <2>5, <2>6, <2>7 DEF LaneInv, PlaceAgrees
<1>2. CASE future[j] = "cancelled" /\ Leaves(w, "begun") /\ UNCHANGED future
  <2>1. /\ OnePlace'
        /\ \A x : InQueue(x)' <=> InQueue(x)
        /\ \A x \in Jobs : Held(x)' <=> Held(x) /\ x # j
        /\ worker'[w] = [at |-> "loop", job |-> NoJob]
        /\ \A v \in Workers \ {w} : worker'[v] = worker[v]
    BY <1>0, <1>2, LetsGo DEF LaneInv
  <2>2. TypeOK'
    BY <1>2 DEF LaneInv, TypeOK, SetRunning, Leaves
  <2>3. QueueAgrees' /\ \A x \in Jobs : FutureAgrees(x)'
    BY <1>2, <2>1 DEF LaneInv, PlaceAgrees, QueueAgrees, FutureAgrees, SetRunning
  <2>4. \A v \in Workers : WorkerAgrees(v)'
    BY <1>2, <2>1 DEF LaneInv, PlaceAgrees, WorkerAgrees, SetRunning
  <2>5. ClosingInv' /\ AnswersTruthful'
    BY <1>0, <1>2, <2>1 DEF LaneInv, ClosingInv, AnswersTruthful, SetRunning
  <2> QED BY <2>1, <2>2, <2>3, <2>4, <2>5 DEF LaneInv, PlaceAgrees
<1> QED BY <1>1, <1>2 DEF SetRunning

\* The function is called: once, because the job was ready and is not any more.
LEMMA RunStep ==
  ASSUME LaneAssumption, LaneInv, NEW w \in Workers, Run(w)
  PROVE  LaneInv'
<1> DEFINE j == worker[w].job
<1>1. /\ OnePlace'
      /\ \A x : (InQueue(x)' <=> InQueue(x)) /\ (Held(x)' <=> Held(x))
      /\ worker[w].at = "ready" /\ worker'[w].at = "working" /\ worker'[w].job = j
      /\ \A v \in Workers \ {w} : worker'[v] = worker[v]
  BY GoesOn DEF LaneInv, Run
<1>2. j \in Jobs /\ future[j] = "running" /\ runs[j] = 0
  BY <1>1 DEF LaneInv, TypeOK, PlaceAgrees, WorkerAgrees
<1>3. /\ runs' \in [Jobs -> Nat] /\ runs'[j] = 1
      /\ \A x \in Jobs \ {j} : runs'[x] = runs[x]
  <2>1. runs \in [Jobs -> Nat] /\ runs' = [runs EXCEPT ![j] = 1]
    <3>1. runs \in [Jobs -> Nat]
      BY DEF LaneInv, TypeOK
    <3>2. runs' = [runs EXCEPT ![j] = runs[j] + 1]
      BY DEF Run
    <3> QED BY <1>2, <3>1, <3>2
  <2> QED BY <1>2, <2>1
<1>4. TypeOK'
  <2>1. worker' = [worker EXCEPT ![w] = [at |-> "working", job |-> j]]
    BY <1>1 DEF LaneInv, TypeOK, Run, Moves
  <2> QED BY <1>2, <1>3, <2>1 DEF LaneInv, TypeOK, Run
<1>5. QueueAgrees' /\ \A x \in Jobs : FutureAgrees(x)'
  BY <1>1, <1>2, <1>3 DEF LaneInv, PlaceAgrees, QueueAgrees, FutureAgrees, Run
<1>6. ASSUME NEW v \in Workers PROVE WorkerAgrees(v)'
  <2>1. CASE v = w
    BY <1>1, <1>2, <1>3, <2>1 DEF WorkerAgrees, Run
  <2>2. CASE v # w
    <3>1. worker'[v] = worker[v] /\ worker[v].job # j
      BY <1>1, <1>2, <2>2 DEF LaneInv, OnePlace, LaneAssumption
    <3>2. worker[v].at \in {"loop", "getting", "exited"} \/ worker[v].job \in Jobs \ {j}
      BY <3>1 DEF LaneInv, TypeOK
    <3> QED BY <1>3, <3>1, <3>2 DEF LaneInv, PlaceAgrees, WorkerAgrees, Run
  <2> QED BY <2>1, <2>2
<1>7. ClosingInv'
  BY <1>1 DEF LaneInv, ClosingInv, Run
<1>8. AnswersTruthful'
  BY <1>2, <1>3 DEF LaneInv, AnswersTruthful, Run
<1> QED BY <1>1, <1>4, <1>5, <1>6, <1>7, <1>8 DEF LaneInv, PlaceAgrees

\* A worker takes the oldest job off the queue.
LEMMA GetStep ==
  ASSUME LaneAssumption, LaneInv, NEW w \in Workers, Get(w)
  PROVE  LaneInv'
<1> DEFINE j == Head(queue)
<1>1. /\ j \in Jobs /\ InQueue(j) /\ Distinct' /\ queue' \in Seq(Jobs)
      /\ Len(queue') = Len(queue) - 1
      /\ \A x \in Jobs : InQueue(x)' <=> InQueue(x) /\ x # j
  BY Dequeued, TailFacts DEF LaneInv, TypeOK, OnePlace, Get
<1>2. /\ worker[w].at = "getting" /\ worker[w].job = NoJob
      /\ worker'[w] = [at |-> "taken", job |-> j]
      /\ \A v \in Workers \ {w} : worker'[v] = worker[v]
  BY DEF LaneInv, TypeOK, Get
<1>3. /\ ~Held(j) /\ future[j] \in {"pending", "cancelled"}
      /\ \A x \in Jobs : Held(x)' <=> Held(x) \/ x = j
  BY <1>1, <1>2 DEF LaneInv, OnePlace, PlaceAgrees, QueueAgrees, Held, LaneAssumption
<1>4. TypeOK'
  <2>1. Len(queue') <= Capacity
    <3>1. Len(queue) \in Nat \ {0} /\ Len(queue) <= Capacity /\ Capacity \in Nat
      BY TailFacts DEF LaneInv, TypeOK, LaneAssumption, Get
    <3> QED BY <1>1, <3>1
  <2> QED BY <1>1, <2>1 DEF LaneInv, TypeOK, Get
<1>5. OnePlace'
  <2>1. \A x \in Jobs : InQueue(x)' => ~Held(x)'
    BY <1>1, <1>3 DEF LaneInv, OnePlace
  <2>2. ASSUME NEW u \in Workers, NEW v \in Workers,
               worker'[u].job = worker'[v].job, worker'[u].job # NoJob
        PROVE  u = v
    BY <1>2, <1>3, <2>2 DEF LaneInv, OnePlace, Held
  <2> QED BY <1>1, <2>1, <2>2 DEF OnePlace
<1>6. QueueAgrees' /\ \A x \in Jobs : FutureAgrees(x)'
  BY <1>1, <1>3 DEF LaneInv, PlaceAgrees, QueueAgrees, FutureAgrees, Get
<1>7. \A v \in Workers : WorkerAgrees(v)'
  BY <1>2, <1>3 DEF LaneInv, PlaceAgrees, WorkerAgrees, Get
<1>8. ClosingInv' /\ AnswersTruthful'
  BY <1>2 DEF LaneInv, ClosingInv, AnswersTruthful, Get
<1> QED BY <1>4, <1>5, <1>6, <1>7, <1>8 DEF LaneInv, PlaceAgrees

-----------------------------------------------------------------------------
(* Callers and close().                                                      *)

\* A submission is refused, or its job is queued and nowhere else.
LEMMA SubmitStep ==
  ASSUME LaneAssumption, LaneInv, NEW j \in Jobs, Submit(j)
  PROVE  LaneInv'
<1>1. /\ future[j] = "none" /\ ~InQueue(j) /\ runs[j] = 0
      /\ \A w \in Workers : worker[w].job # j
      /\ \A x \in Jobs \ {j} : future'[x] = future[x]
  <2>1. future[j] = "none" /\ ~InQueue(j) /\ runs[j] = 0
        /\ \A x \in Jobs \ {j} : future'[x] = future[x]
    BY DEF LaneInv, TypeOK, PlaceAgrees, QueueAgrees, FutureAgrees, Submit, Enqueue, Becomes
  <2>2. ASSUME NEW w \in Workers PROVE worker[w].job # j
    BY <2>1 DEF LaneInv, TypeOK, PlaceAgrees, WorkerAgrees, LaneAssumption
  <2> QED BY <2>1, <2>2
<1>2. CASE Becomes(j, "refused") /\ UNCHANGED queue
  <2>1. \A x : (InQueue(x)' <=> InQueue(x)) /\ (Held(x)' <=> Held(x))
    BY <1>2, SameQueue DEF Held, Submit
  <2>2. future' \in [Jobs -> {"none", "refused", "pending", "running"} \cup Resolved]
        /\ future'[j] = "refused"
    BY <1>2 DEF LaneInv, TypeOK, Becomes
  <2>3. TypeOK'
    BY <1>2, <2>2 DEF LaneInv, TypeOK, Submit
  <2>4. OnePlace'
    BY <1>2, <2>1, SameQueue DEF LaneInv, OnePlace, Submit
  <2>5. QueueAgrees' /\ \A x \in Jobs : FutureAgrees(x)'
    BY <1>1, <2>1, <2>2 DEF LaneInv, PlaceAgrees, QueueAgrees, FutureAgrees, Submit
  <2>6. ASSUME NEW w \in Workers PROVE WorkerAgrees(w)'
    <3>1. worker[w].at \in {"loop", "getting", "exited"} \/ worker[w].job \in Jobs \ {j}
      BY <1>1 DEF LaneInv, TypeOK
    <3> QED BY <1>1, <3>1 DEF LaneInv, PlaceAgrees, WorkerAgrees, Submit
  <2>7. ClosingInv' /\ AnswersTruthful'
    BY <1>1, <1>2, <2>2 DEF LaneInv, ClosingInv, AnswersTruthful, Submit
  <2> QED BY <2>3, <2>4, <2>5, <2>6, <2>7 DEF LaneInv, PlaceAgrees
<1>3. CASE ~closed /\ Len(queue) # Capacity /\ Enqueue(j)
  <2>1. /\ queue' = Append(queue, j) /\ queue' \in Seq(Jobs) /\ Len(queue') = Len(queue) + 1
        /\ Distinct' /\ \A x \in Jobs : InQueue(x)' <=> InQueue(x) \/ x = j
    BY <1>1, <1>3, Enqueued, AppendFacts DEF LaneInv, TypeOK, OnePlace, Enqueue
  <2>2. \A x : Held(x)' <=> Held(x)
    BY DEF Held, Submit
  <2>3. future' \in [Jobs -> {"none", "refused", "pending", "running"} \cup Resolved]
        /\ future'[j] = "pending"
    BY <1>3 DEF LaneInv, TypeOK, Enqueue, Becomes
  <2>4. TypeOK'
    <3>1. Len(queue') <= Capacity
      <4>1. queue \in Seq(Jobs) /\ Len(queue) <= Capacity /\ Capacity \in Nat
        BY DEF LaneInv, TypeOK, LaneAssumption
      <4>2. Len(queue) \in Nat
        BY <4>1
      <4> QED BY <1>3, <2>1, <4>1, <4>2
    <3> QED BY <2>1, <2>3, <3>1 DEF LaneInv, TypeOK, Submit
  <2>5. OnePlace'
    BY <1>1, <2>1, <2>2 DEF LaneInv, OnePlace, Held, Submit
  <2>6. QueueAgrees' /\ \A x \in Jobs : FutureAgrees(x)'
    BY <1>1, <2>1, <2>2, <2>3 DEF LaneInv, PlaceAgrees, QueueAgrees, FutureAgrees, Submit
  <2>7. ASSUME NEW w \in Workers PROVE WorkerAgrees(w)'
    <3>1. worker[w].at \in {"loop", "getting", "exited"} \/ worker[w].job \in Jobs \ {j}
      BY <1>1 DEF LaneInv, TypeOK
    <3> QED BY <1>1, <3>1 DEF LaneInv, PlaceAgrees, WorkerAgrees, Submit
  <2>8. ClosingInv' /\ AnswersTruthful'
    BY <1>1, <1>3, <2>3 DEF LaneInv, ClosingInv, AnswersTruthful, Submit
  <2> QED BY <2>4, <2>5, <2>6, <2>7, <2>8 DEF LaneInv, PlaceAgrees
<1> QED BY <1>2, <1>3 DEF Submit

\* The caller's cancel, before a worker started the job.
LEMMA CancelStep ==
  ASSUME LaneInv, NEW j \in Jobs, Cancel(j)
  PROVE  LaneInv'
<1>1. \A x : (InQueue(x)' <=> InQueue(x)) /\ (Held(x)' <=> Held(x))
  BY SameQueue DEF Held, Cancel
<1>2. /\ future[j] = "pending" /\ future'[j] = "cancelled" /\ runs[j] = 0
      /\ \A x \in Jobs \ {j} : future'[x] = future[x]
      /\ future' \in [Jobs -> {"none", "refused", "pending", "running"} \cup Resolved]
  BY DEF LaneInv, TypeOK, PlaceAgrees, FutureAgrees, Cancel, Becomes, Resolved
<1>3. TypeOK'
  BY <1>2 DEF LaneInv, TypeOK, Cancel
<1>4. OnePlace'
  BY <1>1, SameQueue DEF LaneInv, OnePlace, Cancel
<1>5. QueueAgrees' /\ \A x \in Jobs : FutureAgrees(x)'
  BY <1>1, <1>2 DEF LaneInv, PlaceAgrees, QueueAgrees, FutureAgrees, Cancel
<1>6. ASSUME NEW w \in Workers PROVE WorkerAgrees(w)'
  <2>1. worker[w].at \in {"loop", "getting", "exited"} \/ worker[w].job \in Jobs
    BY DEF LaneInv, TypeOK
  <2> QED BY <1>2, <2>1 DEF LaneInv, PlaceAgrees, WorkerAgrees, Cancel
<1>7. ClosingInv' /\ AnswersTruthful'
  BY <1>2 DEF LaneInv, ClosingInv, AnswersTruthful, Cancel
<1> QED BY <1>3, <1>4, <1>5, <1>6, <1>7 DEF LaneInv, PlaceAgrees

\* close() cancels the oldest waiting job.
LEMMA DrainOneStep ==
  ASSUME LaneAssumption, LaneInv, DrainOne
  PROVE  LaneInv'
<1> DEFINE j == Head(queue)
<1>1. /\ j \in Jobs /\ InQueue(j) /\ Distinct' /\ queue' \in Seq(Jobs)
      /\ Len(queue') = Len(queue) - 1
      /\ \A x \in Jobs : InQueue(x)' <=> InQueue(x) /\ x # j
  BY Dequeued, TailFacts DEF LaneInv, TypeOK, OnePlace, DrainOne
<1>2. /\ ~Held(j) /\ future'[j] = "cancelled" /\ runs[j] = 0
      /\ \A x \in Jobs \ {j} : future'[x] = future[x]
      /\ future' \in [Jobs -> {"none", "refused", "pending", "running"} \cup Resolved]
  BY <1>1 DEF LaneInv, TypeOK, OnePlace, PlaceAgrees, QueueAgrees, FutureAgrees,
              AnswersTruthful, DrainOne, Becomes, Cancelled, Resolved
<1>3. \A x : Held(x)' <=> Held(x)
  BY DEF Held, DrainOne
<1>4. TypeOK'
  <2>1. Len(queue') <= Capacity
    <3>1. Len(queue) \in Nat \ {0} /\ Len(queue) <= Capacity /\ Capacity \in Nat
      BY TailFacts DEF LaneInv, TypeOK, LaneAssumption, DrainOne
    <3> QED BY <1>1, <3>1
  <2> QED BY <1>1, <1>2, <2>1 DEF LaneInv, TypeOK, DrainOne
<1>5. OnePlace'
  BY <1>1, <1>3 DEF LaneInv, OnePlace, DrainOne
<1>6. QueueAgrees' /\ \A x \in Jobs : FutureAgrees(x)'
  BY <1>1, <1>2, <1>3 DEF LaneInv, PlaceAgrees, QueueAgrees, FutureAgrees, DrainOne
<1>7. ASSUME NEW w \in Workers PROVE WorkerAgrees(w)'
  <2>1. worker[w].at \in {"loop", "getting", "exited"} \/ worker[w].job \in Jobs \ {j}
    BY <1>2 DEF LaneInv, TypeOK, Held
  <2> QED BY <1>2, <2>1 DEF LaneInv, PlaceAgrees, WorkerAgrees, DrainOne
<1>8. ClosingInv' /\ AnswersTruthful'
  BY <1>2 DEF LaneInv, ClosingInv, AnswersTruthful, DrainOne
<1> QED BY <1>4, <1>5, <1>6, <1>7, <1>8 DEF LaneInv, PlaceAgrees

\* The steps that move no job: a deadline passes, the watchdog is told, close()
\* goes on.
LEMMA OtherStep ==
  ASSUME LaneInv, UNCHANGED <<queue, future, runs, worker>>, TypeOK', ClosingInv'
  PROVE  LaneInv'
<1>1. \A x : (InQueue(x)' <=> InQueue(x)) /\ (Held(x)' <=> Held(x))
  BY SameQueue DEF Held
<1>2. OnePlace'
  BY <1>1, SameQueue DEF LaneInv, OnePlace
<1>3. PlaceAgrees'
  BY <1>1 DEF LaneInv, PlaceAgrees, QueueAgrees, WorkerAgrees, FutureAgrees
<1>4. AnswersTruthful'
  BY DEF LaneInv, AnswersTruthful
<1> QED BY <1>2, <1>3, <1>4 DEF LaneInv

-----------------------------------------------------------------------------
\* LaneInv is inductive.
THEOREM LaneInvariant == Spec => []LaneInv
<1>1. Init => LaneInv
  <2> SUFFICES ASSUME Init PROVE LaneInv
    OBVIOUS
  <2>1. TypeOK
    <3>1. queue \in Seq(Jobs) /\ Len(queue) <= Capacity
      BY LaneAssumption DEF Init, LaneAssumption
    <3> QED BY <3>1 DEF Init, TypeOK
  <2>2. Distinct /\ \A j \in Jobs : ~InQueue(j) /\ ~Held(j)
    BY LaneAssumption, EmptyQueue DEF Init, Held, LaneAssumption
  <2>3. OnePlace /\ PlaceAgrees
    BY <2>2 DEF Init, OnePlace, PlaceAgrees, QueueAgrees, WorkerAgrees, FutureAgrees
  <2>4. ClosingInv /\ AnswersTruthful
    BY DEF Init, ClosingInv, AnswersTruthful
  <2> QED BY <2>1, <2>3, <2>4 DEF LaneInv
<1>2. LaneInv /\ [Next]_laneVars => LaneInv'
  <2> SUFFICES ASSUME LaneInv, [Next]_laneVars PROVE LaneInv'
    OBVIOUS
  <2> USE LaneAssumption
  <2>1. ASSUME NEW j \in Jobs, Submit(j) \/ Cancel(j) PROVE LaneInv'
    BY <2>1, SubmitStep, CancelStep
  <2>2. ASSUME NEW j \in Jobs, Expire(j) PROVE LaneInv'
    BY <2>2, OtherStep DEF LaneInv, TypeOK, ClosingInv, Expire
  <2>3. ASSUME NEW w \in Workers, Work(w) PROVE LaneInv'
    BY <2>3, LookStep, FindNothingStep, GetStep, CancelWhenClosedStep, BeginStep,
       SetRunningStep, RefuseStep, RunStep, CompleteStep, AnswerStep DEF Work
  <2>4. ASSUME NEW w \in Workers, Return(w) PROVE LaneInv'
    BY <2>4, ReturnStep
  <2>5. ASSUME NEW w \in Workers, Stall(w) PROVE LaneInv'
    BY <2>5, OtherStep DEF LaneInv, TypeOK, ClosingInv, Stall
  <2>6. CASE StartClosing \/ Drained \/ Joined
    BY <2>6, OtherStep DEF LaneInv, TypeOK, ClosingInv, StartClosing, Drained, Joined
  <2>7. CASE DrainOne
    BY <2>7, DrainOneStep
  <2>8. CASE UNCHANGED laneVars
    BY <2>8, OtherStep DEF LaneInv, TypeOK, ClosingInv, laneVars
  <2> QED BY <2>1, <2>2, <2>3, <2>4, <2>5, <2>6, <2>7, <2>8 DEF Next, Caller, Close
<1> QED BY <1>1, <1>2, PTL DEF Spec

\* What a caller is told is what happened, however its cancel, its deadline and
\* the lane's closing race with the workers.
THEOREM CallersTold == Spec => []AnswersTruthful
<1>1. LaneInv => AnswersTruthful
  BY DEF LaneInv
<1> QED BY <1>1, LaneInvariant, PTL

\* After the drain only the workers' own jobs are open, and none when close()
\* says that they are all gone.
THEOREM ClosesCompletely == Spec => []ClosedLane
<1>1. LaneInv => ClosedLane
  <2> SUFFICES ASSUME LaneInv, closer \in {"joining", "all over", "timed out"},
                      NEW j \in Jobs, future[j] \in {"pending", "running"}
               PROVE  closer # "all over" /\ \E w \in Workers : worker[w].job = j
    BY DEF ClosedLane
  <2>1. ~InQueue(j)
    BY EmptyQueue DEF LaneInv, ClosingInv
  <2>2. PICK w \in Workers : worker[w].job = j
    BY <2>1 DEF LaneInv, PlaceAgrees, FutureAgrees, Held
  <2>3. worker[w].at # "exited"
    BY <2>2, LaneAssumption DEF LaneInv, TypeOK, LaneAssumption
  <2> QED BY <2>2, <2>3 DEF LaneInv, ClosingInv
<1> QED BY <1>1, LaneInvariant, PTL
=============================================================================
