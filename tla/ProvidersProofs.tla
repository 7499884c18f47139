--------------------------- MODULE ProvidersProofs ---------------------------
(***************************************************************************)
(* The model providers for any number of requests: the ACP client's slots,   *)
(* processes, cancellations, prompts and streams; the native processes, the   *)
(* relay and the cache marks of the subscription client; and, of the          *)
(* composition that the run of MCProviders checks, that answers are whole.    *)
(***************************************************************************)
EXTENDS MCProviders, FiniteSetTheorems, TLAPS

-----------------------------------------------------------------------------
(* The ACP client: the inductive invariant.                                  *)

Running == {"start", "popen", "live", "closing", "killing", "unlock"}
Locked == {"locked"} \cup Running

\* Where a request's job is, and what its caller sees of it.
JobShows(r) ==
  /\ job[r] = "none" <=> future[r] \in {"none", "queued", "cancelled"}
  /\ job[r] \in {"lock", "locked"} => future[r] = "running"
  /\ job[r] \in Running => future[r] = IF r \in Streams THEN "stream" ELSE "running"
  /\ job[r] = "putting" => r \in Streams /\ future[r] = "stream"
  /\ job[r] = "done" => future[r] # "running"
  /\ task[r] \in {"idle", "admitting"} => future[r] = "none"
  /\ future[r] = "queued" => task[r] = "waiting"
  /\ task[r] = "admitting" => r \in AsyncCalls
JobInv == \A r \in Calls : JobShows(r)

\* The client runs, obeys and holds the process of the request that has its lock.
HolderInv ==
  /\ \A r \in Calls : job[r] \in Locked <=> lock = r
  /\ \A r \in Calls : job[r] \in Running => current = r
  /\ process # NoCall => lock = process /\ job[process] \in {"live", "closing"}

\* An adapter that runs: stored by its request, or being killed.
AdapterInv ==
  \A r \in alive :
    /\ job[r] \notin {"none", "lock", "locked", "start"}
    /\ job[r] \in {"live", "closing"} => process = r \/ r \in dying
    /\ job[r] \in {"killing", "unlock", "putting", "done"} => r \in dying

Holders == {r \in Calls : HoldsSlot(r)}
SlotInv == IsFiniteSet(Holders) /\ SlotsConserved

AcpTyped ==
  /\ free \in Nat
  /\ task \in [Calls -> {"idle", "admitting", "waiting", "reaping", "reading", "closing", "gone"}]
  /\ future \in [Calls -> {"none", "queued", "running", "value", "stream", "error", "cancelled"}]
  /\ job \in [Calls -> {"none", "lock", "locked", "start", "popen", "live", "closing",
                        "killing", "unlock", "putting", "done"}]
  /\ event \in [Calls -> BOOLEAN]
  /\ {lock, current, process} \subseteq Calls \cup {NoCall}
  /\ alive \subseteq Calls /\ dying \subseteq Calls

AcpInv == AcpTyped /\ JobInv /\ HolderInv /\ AdapterInv /\ SlotInv

-----------------------------------------------------------------------------
(* Each action keeps it.                                                     *)

\* A request's step is another's stutter.
LEMMA JobFrame ==
  ASSUME JobInv, NEW r \in Calls, JobShows(r)',
         \A s \in Calls : s # r => job'[s] = job[s] /\ future'[s] = future[s] /\ task'[s] = task[s]
  PROVE  JobInv'
BY DEF JobInv, JobShows

\* No step leaves the types.
LEMMA AcpTypes ==
  ASSUME AcpInv, AcpNext
  PROVE  AcpTyped'
<1>0. AcpTyped
  BY DEF AcpInv
<1>1. ASSUME NEW r \in Calls, Acquire(r) PROVE AcpTyped'
  BY <1>0, <1>1 DEF Acquire, callVars, procVars, AcpTyped
<1>2. ASSUME NEW r \in Calls, LeaveAdmission(r) PROVE AcpTyped'
  BY <1>0, <1>2 DEF LeaveAdmission, callVars, procVars, AcpTyped
<1>3. ASSUME NEW r \in Calls, StartJob(r) PROVE AcpTyped'
  BY <1>0, <1>3 DEF StartJob, callVars, procVars, AcpTyped
<1>4. ASSUME NEW r \in Calls, GiveUp(r) PROVE AcpTyped'
  BY <1>0, <1>4 DEF GiveUp, Resolve, Released, callVars, procVars, AcpTyped
<1>5. ASSUME NEW r \in Calls, TakeLock(r) PROVE AcpTyped'
  BY <1>0, <1>5 DEF TakeLock, callVars, procVars, AcpTyped
<1>6. ASSUME NEW r \in Calls, Install(r) PROVE AcpTyped'
  BY <1>0, <1>6 DEF Install, Resolve, Released, callVars, procVars, AcpTyped
<1>7. ASSUME NEW r \in Calls, SpawnFails(r) PROVE AcpTyped'
  BY <1>0, <1>7 DEF SpawnFails, JobMoves, callVars, procVars, AcpTyped
<1>8. ASSUME NEW r \in Calls, Popen(r) PROVE AcpTyped'
  BY <1>0, <1>8 DEF Popen, JobMoves, callVars, procVars, AcpTyped
<1>9. ASSUME NEW r \in Calls, StoreProcess(r) PROVE AcpTyped'
  BY <1>0, <1>9 DEF StoreProcess, JobMoves, callVars, procVars, AcpTyped
<1>10. ASSUME NEW r \in Calls, PromptEnds(r) PROVE AcpTyped'
  BY <1>0, <1>10 DEF PromptEnds, JobMoves, callVars, procVars, AcpTyped
<1>11. ASSUME NEW r \in Calls, CloseOwn(r) PROVE AcpTyped'
  BY <1>0, <1>11 DEF CloseOwn, JobMoves, TakeProcess, callVars, procVars, AcpTyped
<1>12. ASSUME NEW r \in Calls, Kill(r) PROVE AcpTyped'
  BY <1>0, <1>12 DEF Kill, callVars, procVars, AcpTyped
<1>13. ASSUME NEW r \in Calls, OwnKilled(r) PROVE AcpTyped'
  BY <1>0, <1>13 DEF OwnKilled, JobMoves, callVars, procVars, AcpTyped
<1>14. ASSUME NEW r \in Calls, Unlock(r) PROVE AcpTyped'
  BY <1>0, <1>14 DEF Unlock, Resolve, Released, callVars, procVars, AcpTyped
<1>15. ASSUME NEW r \in Calls, ProducerEnds(r) PROVE AcpTyped'
  BY <1>0, <1>15 DEF ProducerEnds, ProducerDone, callVars, procVars, AcpTyped
<1>16. ASSUME NEW r \in Calls, Receive(r) PROVE AcpTyped'
  BY <1>0, <1>16 DEF Receive, TaskMoves, callVars, procVars, AcpTyped
<1>17. ASSUME NEW r \in Calls, Reap(r) PROVE AcpTyped'
  BY <1>0, <1>17 DEF Reap, TaskMoves, callVars, procVars, AcpTyped
<1>18. ASSUME NEW r \in Calls, CancelStream(r) PROVE AcpTyped'
  BY <1>0, <1>18 DEF CancelStream, TaskMoves, TakeProcess, callVars, procVars, AcpTyped
<1>19. ASSUME NEW r \in Calls, Call(r) PROVE AcpTyped'
  BY <1>0, <1>19 DEF Call, callVars, procVars, AcpTyped
<1>20. ASSUME NEW r \in Calls, CancelTask(r) PROVE AcpTyped'
  BY <1>0, <1>20 DEF CancelTask, TaskMoves, Resolve, Released, callVars, procVars, AcpTyped
<1>21. ASSUME NEW r \in Calls, LeaveStream(r) PROVE AcpTyped'
  BY <1>0, <1>21 DEF LeaveStream, TaskMoves, callVars, procVars, AcpTyped
<1>22. ASSUME NEW r \in Calls, Forget(r) PROVE AcpTyped'
  BY <1>0, <1>22 DEF Forget, callVars, procVars, AcpTyped
<1>23. CASE Abort
  BY <1>0, <1>23 DEF Abort, TakeProcess, callVars, procVars, AcpTyped
<1> QED BY <1>1, <1>2, <1>3, <1>4, <1>5, <1>6, <1>7, <1>8, <1>9, <1>10, <1>11, <1>12, <1>13, <1>14, <1>15, <1>16, <1>17, <1>18, <1>19, <1>20, <1>21, <1>22, <1>23 DEF AcpNext, AcpStep

\* What a caller sees follows its job.
LEMMA JobsShown ==
  ASSUME AcpInv, AcpNext
  PROVE  JobInv'
<1>0. JobInv /\ AcpTyped
  BY DEF AcpInv
<1>1. ASSUME NEW r \in Calls, Acquire(r) PROVE JobInv'
  <2>1. JobShows(r) /\ r \in Calls
    BY <1>0 DEF JobInv
  <2>2. /\ \A s \in Calls : s # r => job'[s] = job[s] /\ future'[s] = future[s] /\ task'[s] = task[s]
        /\ JobShows(r)'
    BY <1>0, <1>1, <2>1 DEF Acquire, callVars, procVars, AcpTyped, JobShows, Running
  <2> QED BY <1>0, <2>2, JobFrame
<1>2. ASSUME NEW r \in Calls, LeaveAdmission(r) PROVE JobInv'
  BY <1>0, <1>2 DEF LeaveAdmission, callVars, procVars, JobInv, JobShows, Running, Locked
<1>3. ASSUME NEW r \in Calls, StartJob(r) PROVE JobInv'
  <2>1. JobShows(r) /\ r \in Calls
    BY <1>0 DEF JobInv
  <2>2. /\ \A s \in Calls : s # r => job'[s] = job[s] /\ future'[s] = future[s] /\ task'[s] = task[s]
        /\ JobShows(r)'
    BY <1>0, <1>3, <2>1 DEF StartJob, callVars, procVars, AcpTyped, JobShows, Running
  <2> QED BY <1>0, <2>2, JobFrame
<1>4. ASSUME NEW r \in Calls, GiveUp(r) PROVE JobInv'
  <2>1. JobShows(r) /\ r \in Calls
    BY <1>0 DEF JobInv
  <2>2. /\ \A s \in Calls : s # r => job'[s] = job[s] /\ future'[s] = future[s] /\ task'[s] = task[s]
        /\ JobShows(r)'
    BY <1>0, <1>4, <2>1 DEF GiveUp, Resolve, Released, callVars, procVars, AcpTyped, JobShows, Running
  <2> QED BY <1>0, <2>2, JobFrame
<1>5. ASSUME NEW r \in Calls, TakeLock(r) PROVE JobInv'
  BY <1>0, <1>5 DEF TakeLock, callVars, procVars, JobInv, JobShows, Running, Locked
<1>6. ASSUME NEW r \in Calls, Install(r) PROVE JobInv'
  <2>1. JobShows(r) /\ r \in Calls
    BY <1>0 DEF JobInv
  <2>2. /\ \A s \in Calls : s # r => job'[s] = job[s] /\ future'[s] = future[s] /\ task'[s] = task[s]
        /\ JobShows(r)'
    BY <1>0, <1>6, <2>1 DEF Install, Resolve, Released, callVars, procVars, AcpTyped, JobShows, Running
  <2> QED BY <1>0, <2>2, JobFrame
<1>7. ASSUME NEW r \in Calls, SpawnFails(r) PROVE JobInv'
  BY <1>0, <1>7 DEF SpawnFails, JobMoves, callVars, procVars, JobInv, JobShows, Running, Locked
<1>8. ASSUME NEW r \in Calls, Popen(r) PROVE JobInv'
  BY <1>0, <1>8 DEF Popen, JobMoves, callVars, procVars, JobInv, JobShows, Running, Locked
<1>9. ASSUME NEW r \in Calls, StoreProcess(r) PROVE JobInv'
  BY <1>0, <1>9 DEF StoreProcess, JobMoves, callVars, procVars, JobInv, JobShows, Running, Locked
<1>10. ASSUME NEW r \in Calls, PromptEnds(r) PROVE JobInv'
  BY <1>0, <1>10 DEF PromptEnds, JobMoves, callVars, procVars, JobInv, JobShows, Running, Locked
<1>11. ASSUME NEW r \in Calls, CloseOwn(r) PROVE JobInv'
  BY <1>0, <1>11 DEF CloseOwn, JobMoves, TakeProcess, callVars, procVars, JobInv, JobShows, Running, Locked
<1>12. ASSUME NEW r \in Calls, Kill(r) PROVE JobInv'
  BY <1>0, <1>12 DEF Kill, callVars, procVars, JobInv, JobShows, Running, Locked
<1>13. ASSUME NEW r \in Calls, OwnKilled(r) PROVE JobInv'
  BY <1>0, <1>13 DEF OwnKilled, JobMoves, callVars, procVars, JobInv, JobShows, Running, Locked
<1>14. ASSUME NEW r \in Calls, Unlock(r) PROVE JobInv'
  <2>1. JobShows(r) /\ r \in Calls
    BY <1>0 DEF JobInv
  <2>2. /\ \A s \in Calls : s # r => job'[s] = job[s] /\ future'[s] = future[s] /\ task'[s] = task[s]
        /\ JobShows(r)'
    BY <1>0, <1>14, <2>1 DEF Unlock, Resolve, Released, callVars, procVars, AcpTyped, JobShows, Running
  <2> QED BY <1>0, <2>2, JobFrame
<1>15. ASSUME NEW r \in Calls, ProducerEnds(r) PROVE JobInv'
  BY <1>0, <1>15 DEF ProducerEnds, ProducerDone, callVars, procVars, JobInv, JobShows, Running, Locked
<1>16. ASSUME NEW r \in Calls, Receive(r) PROVE JobInv'
  BY <1>0, <1>16 DEF Receive, TaskMoves, callVars, procVars, JobInv, JobShows, Running, Locked
<1>17. ASSUME NEW r \in Calls, Reap(r) PROVE JobInv'
  <2>1. JobShows(r) /\ r \in Calls
    BY <1>0 DEF JobInv
  <2>2. /\ \A s \in Calls : s # r => job'[s] = job[s] /\ future'[s] = future[s] /\ task'[s] = task[s]
        /\ JobShows(r)'
    BY <1>0, <1>17, <2>1 DEF Reap, TaskMoves, callVars, procVars, AcpTyped, JobShows, Running
  <2> QED BY <1>0, <2>2, JobFrame
<1>18. ASSUME NEW r \in Calls, CancelStream(r) PROVE JobInv'
  BY <1>0, <1>18 DEF CancelStream, TaskMoves, TakeProcess, callVars, procVars, JobInv, JobShows, Running, Locked
<1>19. ASSUME NEW r \in Calls, Call(r) PROVE JobInv'
  <2>1. JobShows(r) /\ r \in Calls
    BY <1>0 DEF JobInv
  <2>2. /\ \A s \in Calls : s # r => job'[s] = job[s] /\ future'[s] = future[s] /\ task'[s] = task[s]
        /\ JobShows(r)'
    BY <1>0, <1>19, <2>1 DEF Call, callVars, procVars, AcpTyped, JobShows, Running
  <2> QED BY <1>0, <2>2, JobFrame
<1>20. ASSUME NEW r \in Calls, CancelTask(r) PROVE JobInv'
  <2>1. JobShows(r) /\ r \in Calls
    BY <1>0 DEF JobInv
  <2>2. /\ \A s \in Calls : s # r => job'[s] = job[s] /\ future'[s] = future[s] /\ task'[s] = task[s]
        /\ JobShows(r)'
    BY <1>0, <1>20, <2>1 DEF CancelTask, TaskMoves, Resolve, Released, callVars, procVars, AcpTyped, JobShows, Running
  <2> QED BY <1>0, <2>2, JobFrame
<1>21. ASSUME NEW r \in Calls, LeaveStream(r) PROVE JobInv'
  BY <1>0, <1>21 DEF LeaveStream, TaskMoves, callVars, procVars, JobInv, JobShows, Running, Locked
<1>22. ASSUME NEW r \in Calls, Forget(r) PROVE JobInv'
  <2>1. JobShows(r) /\ r \in Calls
    BY <1>0 DEF JobInv
  <2>2. /\ \A s \in Calls : s # r => job'[s] = job[s] /\ future'[s] = future[s] /\ task'[s] = task[s]
        /\ JobShows(r)'
    BY <1>0, <1>22, <2>1 DEF Forget, callVars, procVars, AcpTyped, JobShows, Running
  <2> QED BY <1>0, <2>2, JobFrame
<1>23. CASE Abort
  BY <1>0, <1>23 DEF Abort, TakeProcess, callVars, procVars, JobInv, JobShows, Running, Locked
<1> QED BY <1>1, <1>2, <1>3, <1>4, <1>5, <1>6, <1>7, <1>8, <1>9, <1>10, <1>11, <1>12, <1>13, <1>14, <1>15, <1>16, <1>17, <1>18, <1>19, <1>20, <1>21, <1>22, <1>23 DEF AcpNext, AcpStep

\* One request has the lock, and the client obeys it.
LEMMA OneHolder ==
  ASSUME AcpInv, AcpNext
  PROVE  HolderInv'
<1>0. HolderInv /\ AcpTyped /\ NoCall \notin Calls
  BY CallsAssumption DEF AcpInv, CallsAssumption, Calls
<1>1. ASSUME NEW r \in Calls, Acquire(r) PROVE HolderInv'
  BY <1>0, <1>1 DEF Acquire, callVars, procVars, HolderInv, Running, Locked, AcpTyped
<1>2. ASSUME NEW r \in Calls, LeaveAdmission(r) PROVE HolderInv'
  BY <1>0, <1>2 DEF LeaveAdmission, callVars, procVars, HolderInv, Running, Locked, AcpTyped
<1>3. ASSUME NEW r \in Calls, StartJob(r) PROVE HolderInv'
  <2>1. job[r] = "none" /\ job'[r] \in {"none", "lock"}
    BY <1>0, <1>3 DEF AcpInv, StartJob, JobInv, JobShows, AcpTyped
  <2> QED BY <1>0, <1>3, <2>1 DEF StartJob, callVars, procVars, HolderInv, Running, Locked, AcpTyped
<1>4. ASSUME NEW r \in Calls, GiveUp(r) PROVE HolderInv'
  BY <1>0, <1>4 DEF GiveUp, Resolve, Released, callVars, procVars, HolderInv, Running, Locked, AcpTyped
<1>5. ASSUME NEW r \in Calls, TakeLock(r) PROVE HolderInv'
  BY <1>0, <1>5 DEF TakeLock, callVars, procVars, HolderInv, Running, Locked, AcpTyped
<1>6. ASSUME NEW r \in Calls, Install(r) PROVE HolderInv'
  BY <1>0, <1>6 DEF Install, Resolve, Released, callVars, procVars, HolderInv, Running, Locked, AcpTyped
<1>7. ASSUME NEW r \in Calls, SpawnFails(r) PROVE HolderInv'
  BY <1>0, <1>7 DEF SpawnFails, JobMoves, callVars, procVars, HolderInv, Running, Locked, AcpTyped
<1>8. ASSUME NEW r \in Calls, Popen(r) PROVE HolderInv'
  BY <1>0, <1>8 DEF Popen, JobMoves, callVars, procVars, HolderInv, Running, Locked, AcpTyped
<1>9. ASSUME NEW r \in Calls, StoreProcess(r) PROVE HolderInv'
  BY <1>0, <1>9 DEF StoreProcess, JobMoves, callVars, procVars, HolderInv, Running, Locked, AcpTyped
<1>10. ASSUME NEW r \in Calls, PromptEnds(r) PROVE HolderInv'
  BY <1>0, <1>10 DEF PromptEnds, JobMoves, callVars, procVars, HolderInv, Running, Locked, AcpTyped
<1>11. ASSUME NEW r \in Calls, CloseOwn(r) PROVE HolderInv'
  BY <1>0, <1>11 DEF CloseOwn, JobMoves, TakeProcess, callVars, procVars, HolderInv, Running, Locked, AcpTyped
<1>12. ASSUME NEW r \in Calls, Kill(r) PROVE HolderInv'
  BY <1>0, <1>12 DEF Kill, callVars, procVars, HolderInv, Running, Locked, AcpTyped
<1>13. ASSUME NEW r \in Calls, OwnKilled(r) PROVE HolderInv'
  BY <1>0, <1>13 DEF OwnKilled, JobMoves, callVars, procVars, HolderInv, Running, Locked, AcpTyped
<1>14. ASSUME NEW r \in Calls, Unlock(r) PROVE HolderInv'
  BY <1>0, <1>14 DEF Unlock, Resolve, Released, callVars, procVars, HolderInv, Running, Locked, AcpTyped
<1>15. ASSUME NEW r \in Calls, ProducerEnds(r) PROVE HolderInv'
  BY <1>0, <1>15 DEF ProducerEnds, ProducerDone, callVars, procVars, HolderInv, Running, Locked, AcpTyped
<1>16. ASSUME NEW r \in Calls, Receive(r) PROVE HolderInv'
  BY <1>0, <1>16 DEF Receive, TaskMoves, callVars, procVars, HolderInv, Running, Locked, AcpTyped
<1>17. ASSUME NEW r \in Calls, Reap(r) PROVE HolderInv'
  BY <1>0, <1>17 DEF Reap, TaskMoves, callVars, procVars, HolderInv, Running, Locked, AcpTyped
<1>18. ASSUME NEW r \in Calls, CancelStream(r) PROVE HolderInv'
  BY <1>0, <1>18 DEF CancelStream, TaskMoves, TakeProcess, callVars, procVars, HolderInv, Running, Locked, AcpTyped
<1>19. ASSUME NEW r \in Calls, Call(r) PROVE HolderInv'
  <2>1. job[r] = "none" /\ job'[r] \in {"none", "lock"}
    BY <1>0, <1>19 DEF AcpInv, Call, JobInv, JobShows, AcpTyped
  <2> QED BY <1>0, <1>19, <2>1 DEF Call, callVars, procVars, HolderInv, Running, Locked, AcpTyped
<1>20. ASSUME NEW r \in Calls, CancelTask(r) PROVE HolderInv'
  BY <1>0, <1>20 DEF CancelTask, TaskMoves, Resolve, Released, callVars, procVars, HolderInv, Running, Locked, AcpTyped
<1>21. ASSUME NEW r \in Calls, LeaveStream(r) PROVE HolderInv'
  BY <1>0, <1>21 DEF LeaveStream, TaskMoves, callVars, procVars, HolderInv, Running, Locked, AcpTyped
<1>22. ASSUME NEW r \in Calls, Forget(r) PROVE HolderInv'
  BY <1>0, <1>22 DEF Forget, callVars, procVars, HolderInv, Running, Locked, AcpTyped
<1>23. CASE Abort
  BY <1>0, <1>23 DEF Abort, TakeProcess, callVars, procVars, HolderInv, Running, Locked, AcpTyped
<1> QED BY <1>1, <1>2, <1>3, <1>4, <1>5, <1>6, <1>7, <1>8, <1>9, <1>10, <1>11, <1>12, <1>13, <1>14, <1>15, <1>16, <1>17, <1>18, <1>19, <1>20, <1>21, <1>22, <1>23 DEF AcpNext, AcpStep

\* An adapter is stored or being killed.
LEMMA AdaptersHeld ==
  ASSUME AcpInv, AcpNext
  PROVE  AdapterInv'
<1>0. AdapterInv /\ HolderInv /\ AcpTyped /\ NoCall \notin Calls
  BY CallsAssumption DEF AcpInv, CallsAssumption, Calls
<1>1. ASSUME NEW r \in Calls, Acquire(r) PROVE AdapterInv'
  BY <1>0, <1>1 DEF Acquire, callVars, procVars, AdapterInv, HolderInv, Running, Locked, AcpTyped
<1>2. ASSUME NEW r \in Calls, LeaveAdmission(r) PROVE AdapterInv'
  BY <1>0, <1>2 DEF LeaveAdmission, callVars, procVars, AdapterInv, HolderInv, Running, Locked, AcpTyped
<1>3. ASSUME NEW r \in Calls, StartJob(r) PROVE AdapterInv'
  <2>1. job[r] = "none" /\ job'[r] \in {"none", "lock"}
    BY <1>0, <1>3 DEF AcpInv, StartJob, JobInv, JobShows, AcpTyped
  <2> QED BY <1>0, <1>3, <2>1 DEF StartJob, callVars, procVars, AdapterInv, HolderInv, Running, Locked, AcpTyped
<1>4. ASSUME NEW r \in Calls, GiveUp(r) PROVE AdapterInv'
  BY <1>0, <1>4 DEF GiveUp, Resolve, Released, callVars, procVars, AdapterInv, HolderInv, Running, Locked, AcpTyped
<1>5. ASSUME NEW r \in Calls, TakeLock(r) PROVE AdapterInv'
  BY <1>0, <1>5 DEF TakeLock, callVars, procVars, AdapterInv, HolderInv, Running, Locked, AcpTyped
<1>6. ASSUME NEW r \in Calls, Install(r) PROVE AdapterInv'
  BY <1>0, <1>6 DEF Install, Resolve, Released, callVars, procVars, AdapterInv, HolderInv, Running, Locked, AcpTyped
<1>7. ASSUME NEW r \in Calls, SpawnFails(r) PROVE AdapterInv'
  BY <1>0, <1>7 DEF SpawnFails, JobMoves, callVars, procVars, AdapterInv, HolderInv, Running, Locked, AcpTyped
<1>8. ASSUME NEW r \in Calls, Popen(r) PROVE AdapterInv'
  BY <1>0, <1>8 DEF Popen, JobMoves, callVars, procVars, AdapterInv, HolderInv, Running, Locked, AcpTyped
<1>9. ASSUME NEW r \in Calls, StoreProcess(r) PROVE AdapterInv'
  BY <1>0, <1>9 DEF StoreProcess, JobMoves, callVars, procVars, AdapterInv, HolderInv, Running, Locked, AcpTyped
<1>10. ASSUME NEW r \in Calls, PromptEnds(r) PROVE AdapterInv'
  BY <1>0, <1>10 DEF PromptEnds, JobMoves, callVars, procVars, AdapterInv, HolderInv, Running, Locked, AcpTyped
<1>11. ASSUME NEW r \in Calls, CloseOwn(r) PROVE AdapterInv'
  BY <1>0, <1>11 DEF CloseOwn, JobMoves, TakeProcess, callVars, procVars, AdapterInv, HolderInv, Running, Locked, AcpTyped
<1>12. ASSUME NEW r \in Calls, Kill(r) PROVE AdapterInv'
  BY <1>0, <1>12 DEF Kill, callVars, procVars, AdapterInv, HolderInv, Running, Locked, AcpTyped
<1>13. ASSUME NEW r \in Calls, OwnKilled(r) PROVE AdapterInv'
  BY <1>0, <1>13 DEF OwnKilled, JobMoves, callVars, procVars, AdapterInv, HolderInv, Running, Locked, AcpTyped
<1>14. ASSUME NEW r \in Calls, Unlock(r) PROVE AdapterInv'
  BY <1>0, <1>14 DEF Unlock, Resolve, Released, callVars, procVars, AdapterInv, HolderInv, Running, Locked, AcpTyped
<1>15. ASSUME NEW r \in Calls, ProducerEnds(r) PROVE AdapterInv'
  BY <1>0, <1>15 DEF ProducerEnds, ProducerDone, callVars, procVars, AdapterInv, HolderInv, Running, Locked, AcpTyped
<1>16. ASSUME NEW r \in Calls, Receive(r) PROVE AdapterInv'
  BY <1>0, <1>16 DEF Receive, TaskMoves, callVars, procVars, AdapterInv, HolderInv, Running, Locked, AcpTyped
<1>17. ASSUME NEW r \in Calls, Reap(r) PROVE AdapterInv'
  BY <1>0, <1>17 DEF Reap, TaskMoves, callVars, procVars, AdapterInv, HolderInv, Running, Locked, AcpTyped
<1>18. ASSUME NEW r \in Calls, CancelStream(r) PROVE AdapterInv'
  BY <1>0, <1>18 DEF CancelStream, TaskMoves, TakeProcess, callVars, procVars, AdapterInv, HolderInv, Running, Locked, AcpTyped
<1>19. ASSUME NEW r \in Calls, Call(r) PROVE AdapterInv'
  <2>1. job[r] = "none" /\ job'[r] \in {"none", "lock"}
    BY <1>0, <1>19 DEF AcpInv, Call, JobInv, JobShows, AcpTyped
  <2> QED BY <1>0, <1>19, <2>1 DEF Call, callVars, procVars, AdapterInv, HolderInv, Running, Locked, AcpTyped
<1>20. ASSUME NEW r \in Calls, CancelTask(r) PROVE AdapterInv'
  BY <1>0, <1>20 DEF CancelTask, TaskMoves, Resolve, Released, callVars, procVars, AdapterInv, HolderInv, Running, Locked, AcpTyped
<1>21. ASSUME NEW r \in Calls, LeaveStream(r) PROVE AdapterInv'
  BY <1>0, <1>21 DEF LeaveStream, TaskMoves, callVars, procVars, AdapterInv, HolderInv, Running, Locked, AcpTyped
<1>22. ASSUME NEW r \in Calls, Forget(r) PROVE AdapterInv'
  BY <1>0, <1>22 DEF Forget, callVars, procVars, AdapterInv, HolderInv, Running, Locked, AcpTyped
<1>23. CASE Abort
  BY <1>0, <1>23 DEF Abort, TakeProcess, callVars, procVars, AdapterInv, HolderInv, Running, Locked, AcpTyped
<1> QED BY <1>1, <1>2, <1>3, <1>4, <1>5, <1>6, <1>7, <1>8, <1>9, <1>10, <1>11, <1>12, <1>13, <1>14, <1>15, <1>16, <1>17, <1>18, <1>19, <1>20, <1>21, <1>22, <1>23 DEF AcpNext, AcpStep

-----------------------------------------------------------------------------
(* The slots.                                                                *)

\* Nobody takes a slot, somebody does, somebody gives one back.
LEMMA SlotsStay ==
  ASSUME SlotInv, \A s \in Calls : HoldsSlot(s)' <=> HoldsSlot(s), free' = free
  PROVE  SlotInv'
<1>1. Holders' = Holders
  BY DEF Holders
<1>2. SlotsConserved <=> free + Cardinality(Holders) = Slots
  BY DEF SlotsConserved, Holders
<1>3. SlotsConserved' <=> free' + Cardinality(Holders') = Slots
  BY DEF SlotsConserved, Holders
<1> QED BY <1>1, <1>2, <1>3 DEF SlotInv

LEMMA SlotTaken ==
  ASSUME SlotInv, free \in Nat, NEW r \in Calls, ~HoldsSlot(r), HoldsSlot(r)',
         \A s \in Calls : s # r => (HoldsSlot(s)' <=> HoldsSlot(s)), free' = free - 1
  PROVE  SlotInv'
<1>1. Holders' = Holders \cup {r} /\ r \notin Holders
  BY DEF Holders
<1>2. /\ IsFiniteSet(Holders') /\ Cardinality(Holders') = Cardinality(Holders) + 1
      /\ Cardinality(Holders) \in Nat
  BY <1>1, FS_AddElement, FS_CardinalityType DEF SlotInv
<1>3. SlotsConserved <=> free + Cardinality(Holders) = Slots
  BY DEF SlotsConserved, Holders
<1>4. SlotsConserved' <=> free' + Cardinality(Holders') = Slots
  BY DEF SlotsConserved, Holders
<1> QED BY <1>2, <1>3, <1>4 DEF SlotInv

LEMMA SlotGiven ==
  ASSUME SlotInv, free \in Nat, NEW r \in Calls, HoldsSlot(r), ~HoldsSlot(r)',
         \A s \in Calls : s # r => (HoldsSlot(s)' <=> HoldsSlot(s)), free' = free + 1
  PROVE  SlotInv'
<1>1. Holders' = Holders \ {r} /\ r \in Holders
  BY DEF Holders
<1>2. /\ IsFiniteSet(Holders') /\ Cardinality(Holders') = Cardinality(Holders) - 1
      /\ Cardinality(Holders) \in Nat
  BY <1>1, FS_RemoveElement, FS_CardinalityType DEF SlotInv
<1>3. SlotsConserved <=> free + Cardinality(Holders) = Slots
  BY DEF SlotsConserved, Holders
<1>4. SlotsConserved' <=> free' + Cardinality(Holders') = Slots
  BY DEF SlotsConserved, Holders
<1> QED BY <1>2, <1>3, <1>4 DEF SlotInv

\* The callback of the future: a slot comes back with every outcome but a stream.
LEMMA SlotResolved ==
  ASSUME AcpInv, NEW r \in Calls, NEW result \in {"value", "error", "cancelled", "stream"},
         Resolve(r, result), future[r] \in {"queued", "running"},
         \A s \in Calls : s # r => job'[s] = job[s],
         result = "stream" => job'[r] # "done"
  PROVE  SlotInv'
<1>0. AcpTyped /\ SlotInv
  BY DEF AcpInv
<1>1. /\ future'[r] = result
      /\ free' = IF r \in AsyncCalls /\ result # "stream" THEN free + 1 ELSE free
      /\ \A s \in Calls : s # r => (HoldsSlot(s)' <=> HoldsSlot(s))
  BY <1>0 DEF Resolve, Released, AcpTyped, HoldsSlot
<1>2. CASE r \in AsyncCalls /\ result # "stream"
  <2>1. HoldsSlot(r) /\ ~HoldsSlot(r)'
    BY <1>1, <1>2 DEF HoldsSlot
  <2> QED BY <1>0, <1>1, <1>2, <2>1, SlotGiven DEF AcpTyped
<1>3. CASE ~(r \in AsyncCalls /\ result # "stream")
  <2>1. HoldsSlot(r)' <=> HoldsSlot(r)
    BY <1>1, <1>3 DEF HoldsSlot
  <2> QED BY <1>0, <1>1, <1>3, <2>1, SlotsStay
<1> QED BY <1>2, <1>3

\* No step frees a slot twice or keeps one.
LEMMA SlotsCount ==
  ASSUME AcpInv, AcpNext
  PROVE  SlotInv'
<1>0. AcpTyped /\ SlotInv /\ JobInv
  BY DEF AcpInv
<1>1. ASSUME NEW r \in Calls, LeaveAdmission(r) PROVE SlotInv'
  <2>1. (\A s \in Calls : HoldsSlot(s)' <=> HoldsSlot(s)) /\ free' = free
    BY <1>0, <1>1 DEF LeaveAdmission, callVars, procVars, AcpTyped, JobInv, JobShows, HoldsSlot
  <2> QED BY <1>0, <2>1, SlotsStay
<1>2. ASSUME NEW r \in Calls, StartJob(r) PROVE SlotInv'
  <2>1. (\A s \in Calls : HoldsSlot(s)' <=> HoldsSlot(s)) /\ free' = free
    BY <1>0, <1>2 DEF StartJob, callVars, procVars, AcpTyped, JobInv, JobShows, HoldsSlot
  <2> QED BY <1>0, <2>1, SlotsStay
<1>3. ASSUME NEW r \in Calls, TakeLock(r) PROVE SlotInv'
  <2>1. (\A s \in Calls : HoldsSlot(s)' <=> HoldsSlot(s)) /\ free' = free
    BY <1>0, <1>3 DEF TakeLock, callVars, procVars, AcpTyped, JobInv, JobShows, HoldsSlot
  <2> QED BY <1>0, <2>1, SlotsStay
<1>4. ASSUME NEW r \in Calls, SpawnFails(r) PROVE SlotInv'
  <2>1. (\A s \in Calls : HoldsSlot(s)' <=> HoldsSlot(s)) /\ free' = free
    BY <1>0, <1>4 DEF SpawnFails, JobMoves, callVars, procVars, AcpTyped, JobInv, JobShows, HoldsSlot
  <2> QED BY <1>0, <2>1, SlotsStay
<1>5. ASSUME NEW r \in Calls, Popen(r) PROVE SlotInv'
  <2>1. (\A s \in Calls : HoldsSlot(s)' <=> HoldsSlot(s)) /\ free' = free
    BY <1>0, <1>5 DEF Popen, JobMoves, callVars, procVars, AcpTyped, JobInv, JobShows, HoldsSlot
  <2> QED BY <1>0, <2>1, SlotsStay
<1>6. ASSUME NEW r \in Calls, StoreProcess(r) PROVE SlotInv'
  <2>1. (\A s \in Calls : HoldsSlot(s)' <=> HoldsSlot(s)) /\ free' = free
    BY <1>0, <1>6 DEF StoreProcess, JobMoves, callVars, procVars, AcpTyped, JobInv, JobShows, HoldsSlot
  <2> QED BY <1>0, <2>1, SlotsStay
<1>7. ASSUME NEW r \in Calls, PromptEnds(r) PROVE SlotInv'
  <2>1. (\A s \in Calls : HoldsSlot(s)' <=> HoldsSlot(s)) /\ free' = free
    BY <1>0, <1>7 DEF PromptEnds, JobMoves, callVars, procVars, AcpTyped, JobInv, JobShows, HoldsSlot
  <2> QED BY <1>0, <2>1, SlotsStay
<1>8. ASSUME NEW r \in Calls, CloseOwn(r) PROVE SlotInv'
  <2>1. (\A s \in Calls : HoldsSlot(s)' <=> HoldsSlot(s)) /\ free' = free
    BY <1>0, <1>8 DEF CloseOwn, JobMoves, TakeProcess, callVars, procVars, AcpTyped, JobInv, JobShows, HoldsSlot
  <2> QED BY <1>0, <2>1, SlotsStay
<1>9. ASSUME NEW r \in Calls, Kill(r) PROVE SlotInv'
  <2>1. (\A s \in Calls : HoldsSlot(s)' <=> HoldsSlot(s)) /\ free' = free
    BY <1>0, <1>9 DEF Kill, callVars, procVars, AcpTyped, JobInv, JobShows, HoldsSlot
  <2> QED BY <1>0, <2>1, SlotsStay
<1>10. ASSUME NEW r \in Calls, OwnKilled(r) PROVE SlotInv'
  <2>1. (\A s \in Calls : HoldsSlot(s)' <=> HoldsSlot(s)) /\ free' = free
    BY <1>0, <1>10 DEF OwnKilled, JobMoves, callVars, procVars, AcpTyped, JobInv, JobShows, HoldsSlot
  <2> QED BY <1>0, <2>1, SlotsStay
<1>11. ASSUME NEW r \in Calls, Receive(r) PROVE SlotInv'
  <2>1. (\A s \in Calls : HoldsSlot(s)' <=> HoldsSlot(s)) /\ free' = free
    BY <1>0, <1>11 DEF Receive, TaskMoves, callVars, procVars, AcpTyped, JobInv, JobShows, HoldsSlot
  <2> QED BY <1>0, <2>1, SlotsStay
<1>12. ASSUME NEW r \in Calls, Reap(r) PROVE SlotInv'
  <2>1. (\A s \in Calls : HoldsSlot(s)' <=> HoldsSlot(s)) /\ free' = free
    BY <1>0, <1>12 DEF Reap, TaskMoves, callVars, procVars, AcpTyped, JobInv, JobShows, HoldsSlot
  <2> QED BY <1>0, <2>1, SlotsStay
<1>13. ASSUME NEW r \in Calls, CancelStream(r) PROVE SlotInv'
  <2>1. (\A s \in Calls : HoldsSlot(s)' <=> HoldsSlot(s)) /\ free' = free
    BY <1>0, <1>13 DEF CancelStream, TaskMoves, TakeProcess, callVars, procVars, AcpTyped, JobInv, JobShows, HoldsSlot
  <2> QED BY <1>0, <2>1, SlotsStay
<1>14. ASSUME NEW r \in Calls, Call(r) PROVE SlotInv'
  <2>1. (\A s \in Calls : HoldsSlot(s)' <=> HoldsSlot(s)) /\ free' = free
    BY <1>0, <1>14 DEF Call, callVars, procVars, AcpTyped, JobInv, JobShows, HoldsSlot
  <2> QED BY <1>0, <2>1, SlotsStay
<1>15. ASSUME NEW r \in Calls, LeaveStream(r) PROVE SlotInv'
  <2>1. (\A s \in Calls : HoldsSlot(s)' <=> HoldsSlot(s)) /\ free' = free
    BY <1>0, <1>15 DEF LeaveStream, TaskMoves, callVars, procVars, AcpTyped, JobInv, JobShows, HoldsSlot
  <2> QED BY <1>0, <2>1, SlotsStay
<1>16. ASSUME NEW r \in Calls, Forget(r) PROVE SlotInv'
  <2>1. (\A s \in Calls : HoldsSlot(s)' <=> HoldsSlot(s)) /\ free' = free
    BY <1>0, <1>16 DEF Forget, callVars, procVars, AcpTyped, JobInv, JobShows, HoldsSlot
  <2> QED BY <1>0, <2>1, SlotsStay
<1>17. CASE Abort
  <2>1. (\A s \in Calls : HoldsSlot(s)' <=> HoldsSlot(s)) /\ free' = free
    BY <1>17 DEF Abort, callVars, HoldsSlot
  <2> QED BY <1>0, <2>1, SlotsStay
<1>18. ASSUME NEW r \in Calls, Acquire(r) PROVE SlotInv'
  <2>1. future[r] = "none" /\ job'[r] = job[r] /\ r \in AsyncCalls
    BY <1>0, <1>18 DEF Acquire, JobInv, JobShows
  <2>2. /\ \A s \in Calls : s # r => (HoldsSlot(s)' <=> HoldsSlot(s))
        /\ free' = free - 1
    BY <1>0, <1>18 DEF Acquire, AcpTyped, HoldsSlot
  <2>3. r \in AsyncCalls /\ ~HoldsSlot(r) /\ HoldsSlot(r)'
    BY <1>0, <1>18, <2>1 DEF Acquire, AcpTyped, HoldsSlot
  <2> QED BY <1>0, <2>2, <2>3, SlotTaken DEF AcpTyped
<1>19. ASSUME NEW r \in Calls, ProducerEnds(r) PROVE SlotInv'
  <2>1. /\ future[r] = "stream" /\ job[r] = "putting" /\ job'[r] = "done" /\ future' = future
        /\ \A s \in Calls : s # r => (HoldsSlot(s)' <=> HoldsSlot(s))
        /\ free' = IF r \in AsyncCalls THEN free + 1 ELSE free
    BY <1>0, <1>19 DEF ProducerEnds, ProducerDone, AcpTyped, JobInv, JobShows, HoldsSlot
  <2>2. CASE r \in AsyncCalls
    <3>1. HoldsSlot(r) /\ ~HoldsSlot(r)'
      BY <2>1, <2>2 DEF HoldsSlot
    <3> QED BY <1>0, <2>1, <2>2, <3>1, SlotGiven DEF AcpTyped
  <2>3. CASE r \notin AsyncCalls
    <3>1. HoldsSlot(r)' <=> HoldsSlot(r)
      BY <2>3 DEF HoldsSlot
    <3> QED BY <1>0, <2>1, <2>3, <3>1, SlotsStay
  <2> QED BY <2>2, <2>3
<1>20. ASSUME NEW r \in Calls, GiveUp(r) PROVE SlotInv'
  <2>1. future[r] = "running" /\ Resolve(r, "error") /\ \A s \in Calls : s # r => job'[s] = job[s]
    BY <1>0, <1>20 DEF GiveUp, AcpTyped, JobInv, JobShows
  <2> QED BY <2>1, SlotResolved
<1>21. ASSUME NEW r \in Calls, Install(r) PROVE SlotInv'
  <2>1. /\ future[r] = "running" /\ \A s \in Calls : s # r => job'[s] = job[s]
        /\ \/ Resolve(r, "error")
           \/ Resolve(r, "stream") /\ job'[r] = "start"
           \/ UNCHANGED <<future, free>> /\ job'[r] = "start"
    BY <1>0, <1>21 DEF Install, AcpTyped, JobInv, JobShows
  <2>2. CASE UNCHANGED <<future, free>> /\ job'[r] = "start"
    <3>1. \A s \in Calls : HoldsSlot(s)' <=> HoldsSlot(s)
      BY <2>1, <2>2 DEF HoldsSlot
    <3> QED BY <1>0, <2>2, <3>1, SlotsStay
  <2> QED BY <2>1, <2>2, SlotResolved
<1>22. ASSUME NEW r \in Calls, Unlock(r) PROVE SlotInv'
  <2>1. CASE r \in Streams
    <3>1. (\A s \in Calls : HoldsSlot(s)' <=> HoldsSlot(s)) /\ free' = free
      BY <1>0, <1>22, <2>1 DEF Unlock, AcpTyped, HoldsSlot
    <3> QED BY <1>0, <3>1, SlotsStay
  <2>2. CASE r \notin Streams
    <3>1. /\ future[r] = "running" /\ \A s \in Calls : s # r => job'[s] = job[s]
          /\ \E result \in {"value", "error"} : Resolve(r, result)
      BY <1>0, <1>22, <2>2 DEF Unlock, AcpTyped, JobInv, JobShows, Running
    <3> QED BY <3>1, SlotResolved
  <2> QED BY <2>1, <2>2
<1>23. ASSUME NEW r \in Calls, CancelTask(r) PROVE SlotInv'
  <2>1. CASE future[r] = "queued"
    <3>1. Resolve(r, "cancelled") /\ job' = job
      BY <1>23, <2>1 DEF CancelTask, TaskMoves
    <3> QED BY <2>1, <3>1, SlotResolved
  <2>2. CASE future[r] # "queued"
    <3>1. (\A s \in Calls : HoldsSlot(s)' <=> HoldsSlot(s)) /\ free' = free
      BY <1>23, <2>2 DEF CancelTask, TaskMoves, HoldsSlot
    <3> QED BY <1>0, <3>1, SlotsStay
  <2> QED BY <2>1, <2>2
<1> QED BY <1>1, <1>2, <1>3, <1>4, <1>5, <1>6, <1>7, <1>8, <1>9, <1>10, <1>11, <1>12, <1>13, <1>14, <1>15, <1>16, <1>17, <1>18, <1>19, <1>20, <1>21, <1>22, <1>23 DEF AcpNext, AcpStep

-----------------------------------------------------------------------------
(* The theorems.                                                             *)

LEMMA AcpInvStarts ==
  ASSUME AcpInit
  PROVE  AcpInv
<1>0. NoCall \notin Calls /\ Slots \in Nat
  BY CallsAssumption DEF CallsAssumption, Calls
<1>1. AcpTyped
  BY <1>0 DEF AcpInit, AcpTyped
<1>2. JobInv /\ HolderInv /\ AdapterInv
  BY <1>0 DEF AcpInit, JobInv, JobShows, HolderInv, AdapterInv, Running, Locked
<1>3. SlotInv
  <2>1. Holders = {}
    BY DEF AcpInit, Holders, HoldsSlot
  <2>2. SlotsConserved <=> free + Cardinality(Holders) = Slots
    BY DEF SlotsConserved, Holders
  <2> QED BY <1>0, <2>1, <2>2, FS_EmptySet DEF SlotInv, AcpInit
<1> QED BY <1>1, <1>2, <1>3 DEF AcpInv

LEMMA AcpInvStep ==
  ASSUME AcpInv, [AcpNext]_acpVars
  PROVE  AcpInv'
<1>1. CASE AcpNext
  BY <1>1, AcpTypes, JobsShown, OneHolder, AdaptersHeld, SlotsCount DEF AcpInv
<1>2. CASE UNCHANGED acpVars
  <2>1. AcpTyped' /\ JobInv' /\ HolderInv' /\ AdapterInv'
    BY <1>2 DEF acpVars, AcpInv, AcpTyped, JobInv, JobShows, HolderInv, AdapterInv
  <2>2. (\A s \in Calls : HoldsSlot(s)' <=> HoldsSlot(s)) /\ free' = free
    BY <1>2 DEF acpVars, HoldsSlot
  <2> QED BY <2>1, <2>2, SlotsStay DEF AcpInv
<1> QED BY <1>1, <1>2

LEMMA AcpInvSound ==
  ASSUME AcpInv
  PROVE  AcpSound
<1>1. AcpTypeOK
  <2>1. Cardinality(Holders) \in Nat
    BY FS_CardinalityType DEF AcpInv, SlotInv
  <2>2. free + Cardinality(Holders) = Slots
    BY DEF AcpInv, SlotInv, SlotsConserved, Holders
  <2>3. free \in 0..Slots
    BY <2>1, <2>2, CallsAssumption DEF AcpInv, AcpTyped, CallsAssumption
  <2> QED BY <2>3 DEF AcpInv, AcpTyped, AcpTypeOK
<1>2. NoStrayProcess
  BY DEF AcpInv, AcpTyped, AdapterInv, HolderInv, NoStrayProcess, Locked, Running
<1> QED BY <1>1, <1>2 DEF AcpInv, SlotInv, AcpSound

\* For any set of requests and any number of slots, the client's slots are those
\* of the requests in flight, and every adapter has somebody who will kill it.
THEOREM AcpIsSound == AcpSpec => []AcpSound
<1>1. AcpInit => AcpInv
  BY AcpInvStarts
<1>2. AcpInv /\ [AcpNext]_acpVars => AcpInv'
  BY AcpInvStep
<1>3. AcpInv => AcpSound
  BY AcpInvSound
<1> QED BY <1>1, <1>2, <1>3, PTL DEF AcpSpec

\* A step of one request's caller cancels no other request and kills no other
\* request's adapter.
LEMMA OwnOnly ==
  ASSUME AcpInv, [AcpNext]_acpVars, NEW r \in Calls, NEW s \in Calls, task[r] # task'[r], s # r
  PROVE  event'[s] = event[s] /\ (s \in dying' => s \in dying)
<1>0. AcpTyped /\ HolderInv
  BY DEF AcpInv
<1>1. ASSUME NEW q \in Calls, CancelTask(q) PROVE event'[s] = event[s] /\ dying' = dying
  <2>1. q = r
    BY <1>0, <1>1 DEF CancelTask, TaskMoves, AcpTyped
  <2> QED BY <1>0, <1>1, <2>1 DEF CancelTask, AcpTyped
<1>2. ASSUME NEW q \in Calls, CancelStream(q) PROVE event'[s] = event[s] /\ (s \in dying' => s \in dying)
  <2>1. q = r
    BY <1>0, <1>2 DEF CancelStream, TaskMoves, AcpTyped
  <2>2. CASE current # q
    BY <1>2, <2>2 DEF CancelStream
  <2>3. CASE current = q
    <3>1. process # s
      BY <1>0, <2>1, <2>3, CallsAssumption DEF HolderInv, AcpTyped, Running, CallsAssumption, Calls
    <3> QED BY <1>0, <1>2, <2>1, <2>3, <3>1 DEF CancelStream, TakeProcess, AcpTyped
  <2> QED BY <2>2, <2>3
<1>3. ASSUME NEW q \in Calls, Forget(q) PROVE event'[s] = event[s] /\ dying' = dying
  <2>1. q = r
    BY <1>0, <1>3 DEF Forget, AcpTyped
  <2> QED BY <1>0, <1>3, <2>1 DEF Forget, AcpTyped
<1>4. ASSUME NEW q \in Calls, \/ Acquire(q) \/ LeaveAdmission(q) \/ Receive(q) \/ Reap(q)
                              \/ Call(q) \/ LeaveStream(q)
      PROVE  event' = event /\ dying' = dying
  BY <1>4 DEF Acquire, LeaveAdmission, Receive, Reap, Call, LeaveStream, procVars
<1>5. ASSUME NEW q \in Calls, \/ StartJob(q) \/ GiveUp(q) \/ TakeLock(q) \/ Install(q) \/ SpawnFails(q)
                              \/ Popen(q) \/ StoreProcess(q) \/ PromptEnds(q) \/ CloseOwn(q) \/ Kill(q)
                              \/ OwnKilled(q) \/ Unlock(q) \/ ProducerEnds(q)
      PROVE  task' = task
  BY <1>5 DEF StartJob, GiveUp, TakeLock, Install, SpawnFails, Popen, StoreProcess, PromptEnds, CloseOwn,
              Kill, OwnKilled, Unlock, ProducerEnds, ProducerDone, JobMoves, callVars
<1>6. Abort \/ UNCHANGED acpVars => task' = task
  BY DEF Abort, callVars, acpVars
<1> QED BY <1>1, <1>2, <1>3, <1>4, <1>5, <1>6 DEF AcpNext, AcpStep

\* Closing or cancelling one request never stops another's, for any requests.
THEOREM OwnRequestOnly == AcpSpec => CancelsOnlyItsOwn
<1> DEFINE Spares == \A r, s \in Calls : /\ task[r] # task'[r] /\ s # r
                                        => event'[s] = event[s] /\ (s \in dying' => s \in dying)
<1>1. AcpInit => AcpInv
  BY AcpInvStarts
<1>2. AcpInv /\ [AcpNext]_acpVars => AcpInv'
  BY AcpInvStep
<1>3. AcpInv /\ [AcpNext]_acpVars => [Spares]_acpVars
  BY OwnOnly
<1> QED BY <1>1, <1>2, <1>3, PTL DEF AcpSpec, CancelsOnlyItsOwn

-----------------------------------------------------------------------------
(* The live stream of an ACP answer.                                         *)

\* The consumer believes that nothing more comes only of a finished producer,
\* and a producer that finishes without a result has nobody listening.
StreamInv ==
  /\ StreamTypeOK
  /\ consumer \in {"finished", "ended"} => producer = "finished"
  /\ producer = "finished" /\ outcome = "none" => consumer = "closed"
  /\ StreamComplete

\* A new stream: its queue is empty.
LEMMA EmptyQueue == 0 \in 0..QueueSize /\ 0 \in 0..MaxChunks
BY StreamAssumption

LEMMA StreamInvStep == StreamInv /\ [StreamNext]_streamVars => StreamInv'
<1> SUFFICES ASSUME StreamInv, [StreamNext]_streamVars PROVE StreamInv'
  OBVIOUS
<1> USE StreamAssumption DEF StreamInv, StreamTypeOK, StreamComplete
<1>1. CASE Publish
  BY <1>1 DEF Publish
<1>2. CASE Completed
  BY <1>2 DEF Completed
<1>3. CASE PutLast
  BY <1>3 DEF PutLast
<1>4. CASE Finish
  BY <1>4 DEF Finish
<1>5. CASE ProducerFails
  BY <1>5 DEF ProducerFails
<1>6. CASE Get
  BY <1>6 DEF Get, Consumes
<1>7. CASE SeesEmpty
  BY <1>7 DEF SeesEmpty, Consumes
<1>8. CASE LooksFinished
  BY <1>8 DEF LooksFinished, Consumes
<1>9. CASE LooksAgain
  <2>1. chunks > 0 \/ chunks = 0
    OBVIOUS
  <2>2. UNCHANGED <<chunks, published, producer, outcome>> /\ consumer = "finished"
    BY <1>9 DEF LooksAgain, Consumes
  <2>3. \/ /\ consumer' = "reading" /\ (told' = told \/ told' = TRUE)
        \/ /\ consumer' = "ended" /\ told' = told /\ chunks = 0 /\ ~(outcome = "error" /\ ~told)
    BY <1>9, <2>1 DEF LooksAgain, Consumes
  <2>4. StreamTypeOK'
    BY <2>2, <2>3
  <2>5. StreamComplete'
    BY <2>2, <2>3, ZenonT(30)
  <2> QED BY <2>2, <2>3, <2>4, <2>5
<1>10. CASE Close
  BY <1>10 DEF Close, Consumes
<1>11. CASE Reopen
  BY <1>11, EmptyQueue, ZenonT(30) DEF Reopen
<1>12. CASE UNCHANGED streamVars
  BY <1>12 DEF streamVars
<1> QED BY <1>1, <1>2, <1>3, <1>4, <1>5, <1>6, <1>7, <1>8, <1>9, <1>10, <1>11, <1>12 DEF StreamNext

LEMMA StreamInvInit == StreamInit => StreamInv
BY EmptyQueue, ZenonT(30) DEF StreamInit, StreamInv, StreamTypeOK, StreamComplete

\* Whatever the size of the queue, a put that races with an empty poll is not
\* lost and a failure does not look like an end.
THEOREM StreamsEndWhole == StreamSpec => [](StreamTypeOK /\ StreamComplete)
<1>1. StreamInit => StreamInv
  BY StreamInvInit
<1>2. StreamInv /\ [StreamNext]_streamVars => StreamInv'
  BY StreamInvStep
<1>3. StreamInv => StreamTypeOK /\ StreamComplete
  BY DEF StreamInv
<1> QED BY <1>1, <1>2, <1>3, PTL DEF StreamSpec

-----------------------------------------------------------------------------
(* One prompt of the ACP client.                                             *)

\* Every record the client has taken is a call it accepted.
PromptInv == PromptTypeOK /\ taken = Len(captured) /\ CallsProven

\* What ends or advances a prompt leaves the calls alone.
LEMMA CallsFrame ==
  ASSUME PromptInv, UNCHANGED <<advertised, requirement, log, taken, pending, captured>>,
         stage' \in {"idle", "initialize", "new", "model", "prompt"},
         answer' \in {"none", "failed", "text", "calls"}
  PROVE  PromptInv'
BY DEF PromptInv, PromptTypeOK, CallsProven

LEMMA FailsKeeps == PromptInv /\ Fails => PromptInv'
<1> SUFFICES ASSUME PromptInv, Fails PROVE PromptInv'
  OBVIOUS
<1> QED BY CallsFrame DEF Fails, Ends

\* A call the bridge's next record proves, of an id that is new, keeps the calls
\* and the records in step.
LEMMA AcceptKeeps ==
  ASSUME PromptInv, NEW id \in Ids, NEW input \in Inputs, ~Done(id), Accept(id, input)
  PROVE  PromptInv'
<1>1. CASE Proven(input) /\ Len(captured) < MaxTools
  <2> DEFINE call == [id |-> id, input |-> input]
  <2>1. /\ taken' = taken + 1 /\ captured' = Append(captured, call)
        /\ pending' = [pending EXCEPT ![id] = NoInput]
        /\ UNCHANGED <<stage, advertised, requirement, log, answer>>
        /\ taken < Len(log) /\ log[taken + 1] = input
    BY <1>1 DEF Accept, Proven
  <2>2. /\ call \in [id : Ids, input : Inputs] /\ call.id = id /\ call.input = input
    OBVIOUS
  <2> HIDE DEF call
  <2>3. /\ captured \in Seq([id : Ids, input : Inputs]) /\ log \in Seq(Inputs)
        /\ Len(captured) = taken /\ taken \in Nat
    BY DEF PromptInv, PromptTypeOK
  <2>4. /\ captured' \in Seq([id : Ids, input : Inputs]) /\ Len(captured') = taken + 1
        /\ captured'[taken + 1] = call
        /\ \A k \in 1..taken : captured'[k] = captured[k]
    BY <2>1, <2>2, <2>3
  <2>5. PromptTypeOK'
    BY <2>1, <2>3, <2>4, PromptAssumption DEF PromptInv, PromptTypeOK
  <2>6. \A k \in 1..Len(captured') : captured'[k].input = log'[k]
    <3> TAKE k \in 1..Len(captured')
    <3>1. k \in 1..taken \/ k = taken + 1
      BY <2>3, <2>4
    <3> QED BY <3>1, <2>1, <2>2, <2>3, <2>4 DEF PromptInv, CallsProven
  <2>7. \A k \in 1..taken : captured'[k].id # id
    BY <2>3, <2>4 DEF Done
  <2>8. \A j, k \in 1..Len(captured') : captured'[j].id = captured'[k].id => j = k
    <3> SUFFICES ASSUME NEW j \in 1..Len(captured'), NEW k \in 1..Len(captured'),
                        captured'[j].id = captured'[k].id
                 PROVE  j = k
      OBVIOUS
    <3>1. /\ j \in 1..taken \/ j = taken + 1
          /\ k \in 1..taken \/ k = taken + 1
      BY <2>3, <2>4
    <3>2. CASE j \in 1..taken /\ k \in 1..taken
      BY <3>2, <2>3, <2>4 DEF PromptInv, CallsProven
    <3> QED BY <3>1, <3>2, <2>2, <2>4, <2>7
  <2> QED BY <2>1, <2>3, <2>4, <2>5, <2>6, <2>8 DEF PromptInv, CallsProven
<1>2. CASE ~(Proven(input) /\ Len(captured) < MaxTools)
  BY <1>2, FailsKeeps DEF Accept
<1> QED BY <1>1, <1>2

LEMMA AnnounceKeeps ==
  ASSUME PromptInv, NEW id \in Ids, NEW input \in Inputs, Announce(id, input)
  PROVE  PromptInv'
BY DEF Announce, PromptInv, PromptTypeOK, CallsProven

\* The bridge's records only grow.
LEMMA BridgeKeeps ==
  ASSUME PromptInv, NEW input \in Inputs, BridgeServes(input)
  PROVE  PromptInv'
<1>1. /\ log \in Seq(Inputs) /\ Len(log) \in Nat /\ Len(log) < MaxCaptures
      /\ log' = Append(log, input)
      /\ UNCHANGED <<stage, advertised, requirement, taken, pending, captured, answer>>
  BY DEF BridgeServes, PromptInv, PromptTypeOK
<1>2. /\ log' \in Seq(Inputs) /\ Len(log') = Len(log) + 1
      /\ \A k \in 1..Len(log) : log'[k] = log[k]
  BY <1>1
<1>3. PromptTypeOK'
  BY <1>1, <1>2, PromptAssumption DEF PromptInv, PromptTypeOK
<1>4. \A k \in 1..Len(captured) : k \in 1..Len(log)
  BY <1>1 DEF PromptInv, PromptTypeOK, CallsProven
<1> QED BY <1>1, <1>2, <1>3, <1>4 DEF PromptInv, PromptTypeOK, CallsProven

LEMMA BeginKeeps == PromptInv /\ Begin => PromptInv'
<1> SUFFICES ASSUME PromptInv, Begin PROVE PromptInv'
  OBVIOUS
<1>1. PICK tools \in SUBSET Names : \E choice \in Choices(tools) :
        advertised' = choice.serve /\ requirement' = choice.require
  BY DEF Begin
<1>2. advertised' \subseteq Names /\ requirement' \in {"none", "any"} \cup Names
  BY <1>1 DEF Choices
<1>3. NoPending \in [Ids -> Inputs \cup {NoInput}]
  BY DEF NoPending
<1> QED BY <1>2, <1>3, PromptAssumption DEF Begin, PromptInv, PromptTypeOK, CallsProven

LEMMA PromptInvStep == PromptInv /\ [PromptNext]_promptVars => PromptInv'
<1> SUFFICES ASSUME PromptInv, [PromptNext]_promptVars PROVE PromptInv'
  OBVIOUS
<1>1. CASE Begin
  BY <1>1, BeginKeeps
<1>2. CASE Initialized \/ SessionMade \/ ModelAcknowledged \/ UNCHANGED promptVars
  BY <1>2, CallsFrame DEF Initialized, SessionMade, ModelAcknowledged, Reaches, promptVars, PromptInv, PromptTypeOK
<1>3. ASSUME Completes PROVE PromptInv'
  BY <1>3, CallsFrame DEF Completes, Ends
<1>4. CASE Breaks \/ Answered \/ DrainEnds \/ AdapterExits
  BY <1>3, <1>4, FailsKeeps DEF Breaks, Answered, DrainEnds, AdapterExits
<1>5. ASSUME NEW input \in Inputs, BridgeServes(input) PROVE PromptInv'
  BY <1>5, BridgeKeeps
<1>6. ASSUME NEW input \in Inputs, NEW id \in Ids, NEW completed \in BOOLEAN,
             ToolCall(id, input, completed) \/ ToolCallUpdate(id, input, completed)
      PROVE  PromptInv'
  <2>1. Fails \/ (~Done(id) /\ (Accept(id, input) \/ Announce(id, input)))
    BY <1>6 DEF ToolCall, ToolCallUpdate, EventRefused
  <2> QED BY <2>1, FailsKeeps, AcceptKeeps, AnnounceKeeps
<1> QED BY <1>1, <1>2, <1>4, <1>5, <1>6 DEF PromptNext

LEMMA PromptInvInit == PromptInit => PromptInv
<1> SUFFICES ASSUME PromptInit PROVE PromptInv
  OBVIOUS
<1>1. NoPending \in [Ids -> Inputs \cup {NoInput}]
  BY DEF NoPending
<1> QED BY <1>1, PromptAssumption DEF PromptInit, PromptInv, PromptTypeOK, CallsProven

\* Whatever events the adapter sends, the host executes only what the bridge
\* served, in that order and each call once.
THEOREM PromptsAreProven == PromptSpec => [](PromptTypeOK /\ CallsProven)
<1>1. PromptInit => PromptInv
  BY PromptInvInit
<1>2. PromptInv /\ [PromptNext]_promptVars => PromptInv'
  BY PromptInvStep
<1>3. PromptInv => PromptTypeOK /\ CallsProven
  BY DEF PromptInv
<1> QED BY <1>1, <1>2, <1>3, PTL DEF PromptSpec

-----------------------------------------------------------------------------
(* The native processes of the subscription client.                          *)

\* Where a request is and what it still holds; a leader that is not reaped has
\* its group signalled, or about to be, by every thread that may reap it.
NativeShows(r) ==
  /\ paused[r] => run[r] = "running"
  /\ owned[r] => run[r] \in {"running", "finally", "reaping"}
  /\ run[r] \in {"idle", "prepared"} =>
       leader[r] = "none" /\ ~children[r] /\ reader[r] = "none" /\ drain[r] = "none"
  /\ reader[r] = "clearing" => Waited(r)
  /\ run[r] = "reaping" /\ owned[r] /\ Unreaped(r) => <<r, "cancel">> \in aiming \/ ~children[r]
  /\ reader[r] = "clearing" /\ Unreaped(r) => <<r, "reader">> \in aiming \/ ~children[r]
  /\ leader[r] = "reaped" /\ drain[r] = "none" => ~children[r]

NativeInv == NativeTypeOK /\ \A r \in NativeCalls : NativeShows(r)

\* A step of one request is another's stutter, but for signals under way.
LEMMA NativeFrame ==
  ASSUME NativeInv, NativeTypeOK', NEW r \in NativeCalls, NativeShows(r)',
         \A q \in NativeCalls : q # r =>
           /\ run'[q] = run[q] /\ paused'[q] = paused[q] /\ owned'[q] = owned[q]
           /\ leader'[q] = leader[q] /\ children'[q] = children[q]
           /\ reader'[q] = reader[q] /\ drain'[q] = drain[q]
           /\ \A k \in Killers : <<q, k>> \in aiming => <<q, k>> \in aiming'
  PROVE  NativeInv'
<1> SUFFICES ASSUME NEW q \in NativeCalls, q # r PROVE NativeShows(q)'
  BY DEF NativeInv
<1>1. "cancel" \in Killers /\ "reader" \in Killers
  BY DEF Killers
<1> QED BY <1>1 DEF NativeInv, NativeShows, Waited, Unreaped

\* Aiming never takes another aim away.
LEMMA AimKeeps ==
  ASSUME NativeInv, NEW r \in NativeCalls, NEW k \in Killers, Aim(r, k)
  PROVE  /\ aiming' \subseteq NativeCalls \X Killers /\ aiming \subseteq aiming'
         /\ Unreaped(r) => <<r, k>> \in aiming'
BY DEF Aim, NativeInv, NativeTypeOK

LEMMA NativeInvStep == NativeInv /\ [NativeNext]_nativeVars => NativeInv'
<1> SUFFICES ASSUME NativeInv, [NativeNext]_nativeVars PROVE NativeInv'
  OBVIOUS
<1>1. ASSUME NEW r \in NativeCalls, Register(r) PROVE NativeInv'
  <2>1. NativeTypeOK'
    BY <1>1 DEF Register, NativeInv, NativeTypeOK
  <2>2. NativeShows(r)'
    BY <1>1 DEF NativeInv, NativeTypeOK, NativeShows, Waited, Unreaped, Register
  <2> QED BY <1>1, <2>1, <2>2, NativeFrame DEF Register, NativeInv, NativeTypeOK
<1>2. ASSUME NEW r \in NativeCalls, Spawn(r) PROVE NativeInv'
  <2>1. NativeTypeOK'
    <3>1. CASE cancelled[r]
      BY <1>2, <3>1 DEF Spawn, NativeInv, NativeTypeOK
    <3>2. CASE ~cancelled[r]
      <4>1. /\ run' = [run EXCEPT ![r] = "running"] /\ leader' = [leader EXCEPT ![r] = "alive"]
            /\ reader' = [reader EXCEPT ![r] = "reading"]
            /\ UNCHANGED <<paused, cancelled, drain, aiming, closed>>
        BY <1>2, <3>2 DEF Spawn
      <4>2. owned' \in [NativeCalls -> BOOLEAN] /\ children' \in [NativeCalls -> BOOLEAN]
        BY <1>2, <3>2 DEF Spawn, NativeInv, NativeTypeOK
      <4> QED BY <4>1, <4>2 DEF NativeInv, NativeTypeOK
    <3> QED BY <3>1, <3>2
  <2>2. NativeShows(r)'
    BY <1>2 DEF NativeInv, NativeTypeOK, NativeShows, Waited, Unreaped, Spawn
  <2> QED BY <1>2, <2>1, <2>2, NativeFrame DEF Spawn, NativeInv, NativeTypeOK
<1>3. ASSUME NEW r \in NativeCalls, Yield(r) PROVE NativeInv'
  <2>1. NativeTypeOK'
    BY <1>3 DEF Yield, NativeInv, NativeTypeOK
  <2>2. NativeShows(r)'
    BY <1>3 DEF NativeInv, NativeTypeOK, NativeShows, Waited, Unreaped, Yield
  <2> QED BY <1>3, <2>1, <2>2, NativeFrame DEF Yield, NativeInv, NativeTypeOK
<1>4. ASSUME NEW r \in NativeCalls, Advance(r) PROVE NativeInv'
  <2>1. NativeTypeOK'
    BY <1>4 DEF Advance, NativeInv, NativeTypeOK
  <2>2. NativeShows(r)'
    BY <1>4 DEF NativeInv, NativeTypeOK, NativeShows, Waited, Unreaped, Advance
  <2> QED BY <1>4, <2>1, <2>2, NativeFrame DEF Advance, NativeInv, NativeTypeOK
<1>5. ASSUME NEW r \in NativeCalls, HandOff(r) PROVE NativeInv'
  <2>1. NativeTypeOK'
    BY <1>5 DEF HandOff, NativeInv, NativeTypeOK
  <2>2. NativeShows(r)'
    BY <1>5 DEF NativeInv, NativeTypeOK, NativeShows, Waited, Unreaped, HandOff
  <2> QED BY <1>5, <2>1, <2>2, NativeFrame DEF HandOff, NativeInv, NativeTypeOK
<1>6. ASSUME NEW r \in NativeCalls, RunEnds(r) PROVE NativeInv'
  <2>1. NativeTypeOK'
    BY <1>6 DEF RunEnds, NativeInv, NativeTypeOK
  <2>2. NativeShows(r)'
    BY <1>6 DEF NativeInv, NativeTypeOK, NativeShows, Waited, Unreaped, RunEnds
  <2> QED BY <1>6, <2>1, <2>2, NativeFrame DEF RunEnds, NativeInv, NativeTypeOK
<1>7. ASSUME NEW r \in NativeCalls, Finally(r) PROVE NativeInv'
  <2>1. NativeTypeOK' /\ aiming \subseteq aiming'
    <3>1. aiming' \subseteq NativeCalls \X Killers /\ aiming \subseteq aiming'
      BY <1>7, AimKeeps DEF Finally, NativeInv, NativeTypeOK, Killers
    <3>2. /\ run' = [run EXCEPT ![r] = "reaping"] /\ cancelled' = [cancelled EXCEPT ![r] = TRUE]
          /\ UNCHANGED <<paused, owned, leader, children, reader, drain, closed>>
      BY <1>7 DEF Finally
    <3> QED BY <3>1, <3>2 DEF NativeInv, NativeTypeOK
  <2>2. NativeShows(r)'
    <3>1. /\ run'[r] = "reaping" /\ UNCHANGED <<paused, owned, leader, children, reader, drain>>
          /\ run[r] = "finally" /\ "reader" \in Killers /\ "cancel" \in Killers
      BY <1>7 DEF Finally, NativeInv, NativeTypeOK, Killers
    <3>2. owned[r] /\ Unreaped(r) => <<r, "cancel">> \in aiming'
      BY <1>7, <3>1, AimKeeps DEF Finally
    <3> QED BY <2>1, <3>1, <3>2 DEF NativeInv, NativeShows, Waited, Unreaped
  <2> QED BY <1>7, <2>1, <2>2, NativeFrame DEF Finally, NativeInv, NativeTypeOK
<1>8. ASSUME NEW r \in NativeCalls, OwnerReaps(r) PROVE NativeInv'
  <2>1. NativeTypeOK'
    BY <1>8 DEF OwnerReaps, AfterWait, NativeInv, NativeTypeOK
  <2>2. NativeShows(r)'
    BY <1>8 DEF NativeInv, NativeTypeOK, NativeShows, Waited, Unreaped, OwnerReaps, AfterWait
  <2> QED BY <1>8, <2>1, <2>2, NativeFrame DEF OwnerReaps, AfterWait, NativeInv, NativeTypeOK
<1>9. ASSUME NEW r \in NativeCalls, RunGone(r) PROVE NativeInv'
  <2>1. NativeTypeOK'
    BY <1>9 DEF RunGone, NativeInv, NativeTypeOK
  <2>2. NativeShows(r)'
    BY <1>9 DEF NativeInv, NativeTypeOK, NativeShows, Waited, Unreaped, RunGone
  <2> QED BY <1>9, <2>1, <2>2, NativeFrame DEF RunGone, NativeInv, NativeTypeOK
<1>10. ASSUME NEW r \in NativeCalls, LeaderExits(r) PROVE NativeInv'
  <2>1. NativeTypeOK'
    BY <1>10 DEF LeaderExits, NativeInv, NativeTypeOK
  <2>2. NativeShows(r)'
    BY <1>10 DEF NativeInv, NativeTypeOK, NativeShows, Waited, Unreaped, LeaderExits
  <2> QED BY <1>10, <2>1, <2>2, NativeFrame DEF LeaderExits, NativeInv, NativeTypeOK
<1>11. ASSUME NEW r \in NativeCalls, HostReap(r) PROVE NativeInv'
  <2>1. NativeTypeOK'
    BY <1>11 DEF HostReap, NativeInv, NativeTypeOK
  <2>2. NativeShows(r)'
    BY <1>11 DEF NativeInv, NativeTypeOK, NativeShows, Waited, Unreaped, HostReap
  <2> QED BY <1>11, <2>1, <2>2, NativeFrame DEF HostReap, NativeInv, NativeTypeOK
<1>12. ASSUME NEW r \in NativeCalls, ReaderSeesExit(r) PROVE NativeInv'
  <2>1. NativeTypeOK' /\ aiming \subseteq aiming'
    BY <1>12, AimKeeps DEF ReaderSeesExit, NativeInv, NativeTypeOK, Killers
  <2>2. NativeShows(r)'
    BY <1>12, <2>1, AimKeeps DEF NativeInv, NativeTypeOK, NativeShows, Waited, Unreaped, ReaderSeesExit, Killers
  <2> QED BY <1>12, <2>1, <2>2, NativeFrame DEF ReaderSeesExit, NativeInv, NativeTypeOK
<1>13. ASSUME NEW r \in NativeCalls, ReaderReaps(r) PROVE NativeInv'
  <2>1. NativeTypeOK'
    BY <1>13 DEF ReaderReaps, AfterWait, NativeInv, NativeTypeOK
  <2>2. NativeShows(r)'
    BY <1>13 DEF NativeInv, NativeTypeOK, NativeShows, Waited, Unreaped, ReaderReaps, AfterWait
  <2> QED BY <1>13, <2>1, <2>2, NativeFrame DEF ReaderReaps, AfterWait, NativeInv, NativeTypeOK
<1>14. ASSUME NEW r \in NativeCalls, DrainOverdue(r) PROVE NativeInv'
  <2>1. NativeTypeOK' /\ aiming \subseteq aiming'
    BY <1>14, AimKeeps DEF DrainOverdue, NativeInv, NativeTypeOK, Killers
  <2>2. NativeShows(r)'
    BY <1>14, <2>1, AimKeeps DEF NativeInv, NativeTypeOK, NativeShows, Waited, Unreaped, DrainOverdue, Killers
  <2> QED BY <1>14, <2>1, <2>2, NativeFrame DEF DrainOverdue, NativeInv, NativeTypeOK
<1>15. ASSUME NEW r \in NativeCalls, DrainReaps(r) PROVE NativeInv'
  <2>1. NativeTypeOK'
    BY <1>15 DEF DrainReaps, AfterWait, NativeInv, NativeTypeOK
  <2>2. NativeShows(r)'
    BY <1>15 DEF NativeInv, NativeTypeOK, NativeShows, Waited, Unreaped, DrainReaps, AfterWait
  <2> QED BY <1>15, <2>1, <2>2, NativeFrame DEF DrainReaps, AfterWait, NativeInv, NativeTypeOK
<1>16. ASSUME NEW r \in NativeCalls, DrainDone(r) PROVE NativeInv'
  <2>1. NativeTypeOK'
    BY <1>16 DEF DrainDone, NativeInv, NativeTypeOK
  <2>2. NativeShows(r)'
    BY <1>16 DEF NativeInv, NativeTypeOK, NativeShows, Waited, Unreaped, DrainDone
  <2> QED BY <1>16, <2>1, <2>2, NativeFrame DEF DrainDone, NativeInv, NativeTypeOK
<1>17. ASSUME NEW r \in NativeCalls, Cancel(r) PROVE NativeInv'
  <2>1. NativeTypeOK' /\ aiming \subseteq aiming'
    <3>1. aiming' \subseteq NativeCalls \X Killers /\ aiming \subseteq aiming'
      BY <1>17, AimKeeps DEF Cancel, NativeInv, NativeTypeOK, Killers
    <3>2. /\ cancelled' = [cancelled EXCEPT ![r] = TRUE]
          /\ UNCHANGED <<run, paused, owned, leader, children, reader, drain, closed>>
      BY <1>17 DEF Cancel
    <3> QED BY <3>1, <3>2 DEF NativeInv, NativeTypeOK
  <2>2. NativeShows(r)'
    BY <1>17, <2>1, AimKeeps DEF NativeInv, NativeTypeOK, NativeShows, Waited, Unreaped, Cancel, Killers
  <2> QED BY <1>17, <2>1, <2>2, NativeFrame DEF Cancel, NativeInv, NativeTypeOK
<1>18. ASSUME NEW r \in NativeCalls, CloseStream(r) PROVE NativeInv'
  <2>1. NativeTypeOK'
    BY <1>18 DEF CloseStream, NativeInv, NativeTypeOK
  <2>2. NativeShows(r)'
    BY <1>18 DEF NativeInv, NativeTypeOK, NativeShows, Waited, Unreaped, CloseStream
  <2> QED BY <1>18, <2>1, <2>2, NativeFrame DEF CloseStream, NativeInv, NativeTypeOK
<1>19. ASSUME NEW r \in NativeCalls, NEW k \in Killers, Signal(r, k) PROVE NativeInv'
  <2>1. NativeTypeOK'
    BY <1>19 DEF Signal, Unreaped, NativeInv, NativeTypeOK
  <2>2. NativeShows(r)'
    BY <1>19 DEF Signal, NativeInv, NativeTypeOK, NativeShows, Waited, Unreaped
  <2> QED BY <1>19, <2>1, <2>2, NativeFrame DEF Signal, NativeInv, NativeTypeOK
<1>20. CASE CloseClient
  <2>1. NativeTypeOK' /\ aiming \subseteq aiming'
    BY <1>20 DEF CloseClient, NativeInv, NativeTypeOK, Killers
  <2> QED BY <1>20, <2>1 DEF CloseClient, NativeInv, NativeTypeOK, NativeShows, Waited, Unreaped
<1>21. CASE NewClient
  <2>1. NativeTypeOK'
    BY <1>21 DEF NewClient, NativeInv, NativeTypeOK
  <2> QED BY <1>21, <2>1 DEF NewClient, NativeInv, NativeTypeOK, NativeShows, Waited, Unreaped
<1>22. CASE UNCHANGED nativeVars
  BY <1>22 DEF nativeVars, NativeInv, NativeTypeOK, NativeShows, Waited, Unreaped
<1> QED BY <1>1, <1>2, <1>3, <1>4, <1>5, <1>6, <1>7, <1>8, <1>9, <1>10, <1>11, <1>12, <1>13,
           <1>14, <1>15, <1>16, <1>17, <1>18, <1>19, <1>20, <1>21, <1>22
        DEF NativeNext, OwnerStep, ReaderStep, DrainStep

LEMMA NativeInvInit == NativeInit => NativeInv
<1> SUFFICES ASSUME NativeInit PROVE NativeInv
  OBVIOUS
<1>1. NativeTypeOK
  BY DEF NativeInit, NativeTypeOK
<1> QED BY <1>1 DEF NativeInit, NativeInv, NativeShows, Waited

\* For any requests of the client: the group of a process that was kept to the
\* end is cleared before anybody reaps its leader.
THEOREM NativesLeaveNoOrphans == NativeSpec => [](NativeTypeOK /\ OwnedLeavesNoOrphans)
<1>1. NativeInit => NativeInv
  BY NativeInvInit
<1>2. NativeInv /\ [NativeNext]_nativeVars => NativeInv'
  BY NativeInvStep
<1>3. NativeInv => NativeTypeOK /\ OwnedLeavesNoOrphans
  BY DEF NativeInv, NativeShows, OwnedLeavesNoOrphans
<1> QED BY <1>1, <1>2, <1>3, PTL DEF NativeSpec

-----------------------------------------------------------------------------
(* The relay of the subscription client.                                     *)

\* The one admission and what went upstream, by where the server thread is.
SendsShow ==
  /\ hand \in {"idle", "setup", "closed"} /\ ~used => sends = 0
  /\ hand \in {"read", "connect", "send", "resend", "relay"} => used
  /\ hand = "read" => sends = 0
  /\ hand \in {"connect", "send"} => sends = 0 \/ (sends = 1 /\ latched)
  /\ hand = "send" /\ sends = 1 => ~gzipped
  /\ hand = "resend" => sends = 1 /\ latched

\* Only the last block is open, and none of a complete answer.
BlocksShow == \A k \in 1..Len(blocks) : k < Len(blocks) => blocks[k] # "open"

RelayInv == RelayTypeOK /\ SendsShow /\ BlocksShow /\ OneWholeAnswer

\* Every step that is not the capture's leaves the answer alone.
LEMMA AnswerFrame ==
  ASSUME RelayInv, UNCHANGED <<blocks, complete>>
  PROVE  /\ BlocksShow' /\ blocks' \in Seq({"text", "open", "parsed", "cut", "dropped"})
         /\ complete' \in BOOLEAN
         /\ complete' => \A k \in 1..Len(blocks') : blocks'[k] \in {"text", "parsed", "dropped"}
<1> QED BY DEF RelayInv, RelayTypeOK, BlocksShow, OneWholeAnswer

\* What the server thread and abort() have in common: the sockets and the sends
\* are as they should be, and the answer is as it was.
LEMMA RelayFrame ==
  ASSUME RelayInv, UNCHANGED <<blocks, complete>>, SendsShow',
         hand' \in {"idle", "setup", "read", "connect", "send", "resend", "relay", "closed"},
         used' \in BOOLEAN, aborted' \in BOOLEAN, gzipped' \in BOOLEAN, latched' \in BOOLEAN,
         known' \subseteq {"native", "upstream"}, woken' \subseteq known',
         posts' \in 0..MaxPosts, sends' \in 0..2, sends' > 1 => latched'
  PROVE  RelayInv'
<1>1. RelayTypeOK'
  BY AnswerFrame DEF RelayTypeOK
<1> QED BY <1>1, AnswerFrame DEF RelayInv, OneWholeAnswer

LEMMA RelayInvStep == RelayInv /\ [RelayNext]_relayVars => RelayInv'
<1> SUFFICES ASSUME RelayInv, [RelayNext]_relayVars PROVE RelayInv'
  OBVIOUS
<1>1. CASE RelayAccept
  <2>1. /\ hand = "idle" /\ hand' = "setup" /\ posts' \in 0..MaxPosts
        /\ UNCHANGED <<used, aborted, sends, gzipped, latched, blocks, complete>>
    BY <1>1, RelayAssumption DEF RelayAccept, Moves, RelayInv, RelayTypeOK
  <2>2. known' = {"native"} /\ woken' \subseteq known'
    BY <1>1 DEF RelayAccept
  <2>3. SendsShow'
    BY <2>1 DEF RelayInv, SendsShow
  <2> QED BY <2>1, <2>2, <2>3, RelayFrame DEF RelayInv, RelayTypeOK, OneWholeAnswer
<1>2. CASE Deny
  BY <1>2, RelayFrame DEF Deny, RelayFinish, RelayInv, RelayTypeOK, SendsShow, OneWholeAnswer
<1>3. CASE Admit
  BY <1>3, RelayFrame DEF Admit, Moves, RelayInv, RelayTypeOK, SendsShow, OneWholeAnswer
<1>4. CASE Read
  BY <1>4, RelayFrame DEF Read, Moves, RelayFinish, RelayInv, RelayTypeOK, SendsShow, OneWholeAnswer
<1>5. CASE Connect
  BY <1>5, RelayFrame DEF Connect, RelayFinish, RelayInv, RelayTypeOK, SendsShow, OneWholeAnswer
<1>6. CASE Send
  BY <1>6, RelayFrame DEF Send, RelayInv, RelayTypeOK, SendsShow, OneWholeAnswer
<1>7. CASE Resend
  BY <1>7, RelayFrame DEF Resend, RelayFinish, RelayInv, RelayTypeOK, SendsShow, OneWholeAnswer
<1>8. CASE RelayEnds
  BY <1>8, RelayFrame DEF RelayEnds, RelayFinish, RelayInv, RelayTypeOK, SendsShow, OneWholeAnswer
<1>9. CASE RelayAbort
  BY <1>9, RelayFrame DEF RelayAbort, RelayInv, RelayTypeOK, SendsShow, OneWholeAnswer
<1>10. CASE RelayClose
  BY <1>10, RelayFrame DEF RelayClose, Moves, RelayInv, RelayTypeOK, SendsShow, OneWholeAnswer
<1>11. ASSUME NEW b, NEW c \in BOOLEAN, Captures(b, c),
              b \in Seq({"text", "open", "parsed", "cut", "dropped"}),
              \A k \in 1..Len(b) : k < Len(b) => b[k] # "open",
              c => \A k \in 1..Len(b) : b[k] \in {"text", "parsed", "dropped"}
       PROVE  RelayInv'
  <2>1. RelayTypeOK' /\ SendsShow' /\ (sends' > 1 => latched')
    BY <1>11 DEF Captures, RelayInv, RelayTypeOK, SendsShow, OneWholeAnswer
  <2> QED BY <1>11, <2>1 DEF Captures, RelayInv, BlocksShow, OneWholeAnswer
<1>12. blocks \in Seq({"text", "open", "parsed", "cut", "dropped"}) /\ Len(blocks) \in Nat
  BY DEF RelayInv, RelayTypeOK
<1>13. NoOpenBlock => \A k \in 1..Len(blocks) : blocks[k] # "open"
  BY <1>12 DEF NoOpenBlock, RelayInv, BlocksShow
<1>14. CASE BlockStart
  <2>1. PICK kind \in {"text", "open"} : Captures(Append(blocks, kind), FALSE)
    BY <1>14 DEF BlockStart
  <2>2. /\ Append(blocks, kind) \in Seq({"text", "open", "parsed", "cut", "dropped"})
        /\ Len(Append(blocks, kind)) = Len(blocks) + 1
        /\ \A k \in 1..Len(blocks) : Append(blocks, kind)[k] = blocks[k]
    BY <1>12
  <2>3. \A k \in 1..Len(Append(blocks, kind)) :
          k < Len(Append(blocks, kind)) => Append(blocks, kind)[k] # "open"
    BY <1>12, <1>13, <1>14, <2>2 DEF BlockStart
  <2> QED BY <1>11, <2>1, <2>2, <2>3
<1>15. CASE BlockStop
  <2>1. PICK kind \in {"parsed", "cut"} : Captures([blocks EXCEPT ![Len(blocks)] = kind], FALSE)
    BY <1>15 DEF BlockStop
  <2> DEFINE b == [blocks EXCEPT ![Len(blocks)] = kind]
  <2>2. /\ b \in Seq({"text", "open", "parsed", "cut", "dropped"}) /\ Len(b) = Len(blocks)
        /\ \A k \in 1..Len(blocks) : k < Len(blocks) => b[k] = blocks[k]
    <3>1. blocks \in [1..Len(blocks) -> {"text", "open", "parsed", "cut", "dropped"}]
      BY <1>12
    <3>2. b \in [1..Len(blocks) -> {"text", "open", "parsed", "cut", "dropped"}]
      BY <3>1
    <3>3. \A k \in 1..Len(blocks) : k < Len(blocks) => b[k] = blocks[k]
      <4> SUFFICES ASSUME NEW k \in 1..Len(blocks), k < Len(blocks) PROVE b[k] = blocks[k]
        OBVIOUS
      <4>1. k # Len(blocks)
        BY <1>12
      <4> QED BY <3>1, <4>1, ZenonT(30)
    <3> HIDE DEF b
    <3> QED BY <1>12, <3>2, <3>3
  <2>3. \A k \in 1..Len(b) : k < Len(b) => b[k] # "open"
    BY <2>2 DEF RelayInv, BlocksShow
  <2> HIDE DEF b
  <2> QED BY <1>11, <2>1, <2>2, <2>3 DEF b
<1>16. CASE MessageStop
  <2> DEFINE b == [k \in DOMAIN blocks |-> IF blocks[k] = "cut" THEN "dropped" ELSE blocks[k]]
  <2>1. Captures(b, NoOpenBlock)
    BY <1>16 DEF MessageStop
  <2>2. /\ b \in Seq({"text", "open", "parsed", "cut", "dropped"}) /\ Len(b) = Len(blocks)
        /\ \A k \in 1..Len(blocks) : b[k] = IF blocks[k] = "cut" THEN "dropped" ELSE blocks[k]
    BY <1>12
  <2> HIDE DEF b
  <2>3. \A k \in 1..Len(blocks) : blocks[k] \in {"text", "open", "parsed", "cut", "dropped"}
    BY <1>12
  <2>4. \A k \in 1..Len(b) : k < Len(b) => b[k] # "open"
    BY <2>2 DEF RelayInv, BlocksShow
  <2>5. NoOpenBlock => \A k \in 1..Len(b) : b[k] \in {"text", "parsed", "dropped"}
    BY <1>13, <2>2, <2>3
  <2>6. NoOpenBlock \in BOOLEAN
    BY DEF NoOpenBlock
  <2> QED BY <1>11, <2>1, <2>2, <2>4, <2>5, <2>6
<1>17. CASE NextRelay
  <2>1. RelayTypeOK'
    <3>1. 0 \in 0..MaxPosts /\ 0 \in 0..2 /\ <<>> \in Seq({"text", "open", "parsed", "cut", "dropped"})
      BY RelayAssumption
    <3> QED BY <1>17, <3>1, ZenonT(30) DEF NextRelay, Moves, RelayInv, RelayTypeOK
  <2>2. SendsShow' /\ BlocksShow' /\ OneWholeAnswer'
    BY <1>17 DEF NextRelay, Moves, SendsShow, BlocksShow, OneWholeAnswer
  <2> QED BY <2>1, <2>2 DEF RelayInv
<1>18. CASE UNCHANGED relayVars
  BY <1>18 DEF relayVars, RelayInv, RelayTypeOK, SendsShow, BlocksShow, OneWholeAnswer
<1> QED BY <1>1, <1>2, <1>3, <1>4, <1>5, <1>6, <1>7, <1>8, <1>9, <1>10, <1>14, <1>15, <1>16,
           <1>17, <1>18
        DEF RelayNext

LEMMA RelayInvInit == RelayInit => RelayInv
<1> SUFFICES ASSUME RelayInit PROVE RelayInv
  OBVIOUS
<1>1. 0 \in 0..MaxPosts /\ 0 \in 0..2 /\ <<>> \in Seq({"text", "open", "parsed", "cut", "dropped"})
  BY RelayAssumption
<1>2. RelayTypeOK
  BY <1>1, ZenonT(30) DEF RelayInit, RelayTypeOK
<1> QED BY <1>2 DEF RelayInit, RelayInv, SendsShow, BlocksShow, OneWholeAnswer

\* For any number of requests and blocks: one admission, sent again only when
\* its compressed form was refused, and no call in an answer but a whole one.
THEOREM RelaysAnswerWhole == RelaySpec => [](RelayTypeOK /\ OneWholeAnswer)
<1>1. RelayInit => RelayInv
  BY RelayInvInit
<1>2. RelayInv /\ [RelayNext]_relayVars => RelayInv'
  BY RelayInvStep
<1>3. RelayInv => RelayTypeOK /\ OneWholeAnswer
  BY DEF RelayInv
<1> QED BY <1>1, <1>2, <1>3, PTL DEF RelaySpec

-----------------------------------------------------------------------------
(* Cache marks: positions.                                                   *)

\* First and Last choose what they say of any nonempty set of numbers that is
\* bounded.
LEMMA FirstIs ==
  ASSUME NEW S \in SUBSET Nat, S # {}
  PROVE  First(S) \in S /\ \A k \in S : First(S) <= k
<1>1. PICK x \in S : \A k \in S : ~ <<k, x>> \in OpToRel(<, Nat)
  BY NatLessThanWellFounded, WFMin
<1>2. \A k \in S : x <= k
  <2> TAKE k \in S
  <2>1. ~(k < x)
    BY <1>1 DEF OpToRel
  <2> QED BY <2>1
<1> QED BY <1>2 DEF First

LEMMA LastIs ==
  ASSUME NEW n \in Nat, NEW S \in SUBSET (0..n), S # {}
  PROVE  Last(S) \in S /\ \A k \in S : k <= Last(S)
<1> DEFINE Behind == {k \in Nat : n - k \in S}
<1>1. \A k \in S : n - k \in Behind
  <2> TAKE k \in S
  <2>1. k \in 0..n /\ n - k \in Nat /\ n - (n - k) = k
    OBVIOUS
  <2> QED BY <2>1
<1>2. Behind \in SUBSET Nat /\ Behind # {}
  BY <1>1
<1> HIDE DEF Behind
<1>3. PICK b \in Behind : \A k \in Behind : b <= k
  BY <1>2, FirstIs
<1>4. n - b \in S /\ b \in Nat
  BY <1>3 DEF Behind
<1>5. \A k \in S : k <= n - b
  <2> TAKE k \in S
  <2>1. b <= n - k /\ k \in 0..n
    BY <1>1, <1>3
  <2> QED BY <1>4, <2>1
<1> QED BY <1>4, <1>5 DEF Last

\* What a list of messages is made of.
LEMMA Shape ==
  ASSUME NEW m \in Messages
  PROVE  /\ Len(m) \in Nat /\ DOMAIN m = 1..Len(m)
         /\ \A i \in 1..Len(m) :
              /\ m[i].role \in {"user", "assistant", "system"}
              /\ m[i] = [role |-> m[i].role, blocks |-> m[i].blocks]
              /\ m[i].blocks \in Seq(Blocks) /\ Len(m[i].blocks) \in Nat \ {0}
              /\ DOMAIN m[i].blocks = 1..Len(m[i].blocks)
              /\ \A j \in 1..Len(m[i].blocks) : m[i].blocks[j] \in Blocks
<1>1. Len(m) \in Nat /\ DOMAIN m = 1..Len(m)
  BY DEF Messages
<1>2. ASSUME NEW i \in 1..Len(m)
      PROVE  /\ m[i].role \in {"user", "assistant", "system"}
             /\ m[i] = [role |-> m[i].role, blocks |-> m[i].blocks]
             /\ m[i].blocks \in Seq(Blocks) /\ m[i].blocks # <<>>
  <2> DEFINE lists == Seq(Blocks) \ {<<>>}
             set == [role : {"user", "assistant", "system"}, blocks : lists]
  <2>1. m \in Seq(set)
    BY DEF Messages
  <2>2. m[i] \in set
    <3> HIDE DEF set
    <3> QED BY <2>1
  <2>3. /\ m[i].role \in {"user", "assistant", "system"} /\ m[i].blocks \in lists
        /\ m[i] = [role |-> m[i].role, blocks |-> m[i].blocks]
    <3> HIDE DEF lists
    <3> QED BY <2>2
  <2> QED BY <2>3
<1>3. ASSUME NEW b \in Seq(Blocks), b # <<>>
      PROVE  /\ Len(b) \in Nat \ {0} /\ DOMAIN b = 1..Len(b)
             /\ \A j \in 1..Len(b) : b[j] \in Blocks
  BY <1>3
<1> QED BY <1>1, <1>2, <1>3

\* A position is a block of a message.
LEMMA Places ==
  ASSUME NEW m \in Messages, NEW p
  PROVE  p \in Positions(m) <=>
           \E i \in 1..Len(m) : \E j \in 1..Len(m[i].blocks) : p = <<i, j>>
BY Shape DEF Positions

LEMMA PlaceIs ==
  ASSUME NEW m \in Messages, NEW p \in Positions(m)
  PROVE  /\ p = <<p[1], p[2]>> /\ p[1] \in 1..Len(m) /\ p[2] \in 1..Len(m[p[1]].blocks)
         /\ p[1] \in Nat /\ p[2] \in Nat
BY Places, Shape

\* The positions of a request, and so its marks, are finitely many.
LEMMA PlacesFinite ==
  ASSUME NEW m \in Messages
  PROVE  IsFiniteSet(Positions(m)) /\ IsFiniteSet(Marks(m))
<1> DEFINE Row(i) == {<<i, j>> : j \in DOMAIN m[i].blocks}
           rows == [i \in 1..Len(m) |-> Row(i)]
           all == {Row(i) : i \in 1..Len(m)}
<1>1. ASSUME NEW i \in 1..Len(m) PROVE IsFiniteSet(Row(i))
  <2> DEFINE f == [j \in 1..Len(m[i].blocks) |-> <<i, j>>]
  <2>1. Len(m[i].blocks) \in Nat /\ DOMAIN m[i].blocks = 1..Len(m[i].blocks)
    BY Shape
  <2>2. IsFiniteSet(1..Len(m[i].blocks))
    <3>1. 1 \in Int /\ Len(m[i].blocks) \in Int
      BY <2>1
    <3> QED BY <3>1, FS_Interval
  <2>3. f \in Surjection(1..Len(m[i].blocks), Row(i))
    BY <2>1 DEF Surjection
  <2> HIDE DEF f, Row
  <2> QED BY <2>2, <2>3, FS_Surjection
<1>2. IsFiniteSet(1..Len(m))
  <2>1. 1 \in Int /\ Len(m) \in Int
    BY Shape
  <2> QED BY <2>1, FS_Interval
<1>3. rows \in Surjection(1..Len(m), all)
  BY DEF Surjection
<1>4. IsFiniteSet(all)
  <2> HIDE DEF rows, all
  <2> QED BY <1>2, <1>3, FS_Surjection
<1>5. IsFiniteSet(UNION all)
  <2>1. \A T \in all : IsFiniteSet(T)
    BY <1>1
  <2> HIDE DEF all
  <2> QED BY <1>4, <2>1, FS_UNION
<1>6. Positions(m) = UNION all
  BY Shape DEF Positions
<1>7. IsFiniteSet(Positions(m))
  BY <1>5, <1>6
<1>8. Marks(m) \in SUBSET Positions(m)
  BY DEF Marks
<1> QED BY <1>7, <1>8, FS_Subset

\* The latest of some positions: the last one of the last message.
LEMMA LatestIs ==
  ASSUME NEW m \in Messages, NEW P \in SUBSET Positions(m), P # {}
  PROVE  Latest(P) \in P /\ \A q \in P : q = Latest(P) \/ Before(q, Latest(P))
<1> DEFINE I == {i \in 0..Len(m) : \E q \in P : q[1] = i}
           i == Last(I)
           J == {j \in 0..Len(m[i].blocks) : <<i, j>> \in P}
           j == Last(J)
<1>1. /\ Len(m) \in Nat
      /\ \A q \in P : /\ q = <<q[1], q[2]>> /\ q[1] \in 1..Len(m) /\ q[2] \in 1..Len(m[q[1]].blocks)
                      /\ Len(m[q[1]].blocks) \in Nat
  BY PlaceIs, Shape
<1>2. i \in I /\ \A k \in I : k <= i
  <2>1. I \in SUBSET (0..Len(m)) /\ I # {}
    BY <1>1
  <2> HIDE DEF I
  <2> QED BY <1>1, <2>1, LastIs
<1>3. PICK r \in P : r[1] = i
  BY <1>2
<1>4. j \in J /\ \A k \in J : k <= j
  <2>1. Len(m[i].blocks) \in Nat
    BY <1>1, <1>3
  <2>2. r[2] \in J
    <3>1. r = <<i, r[2]>> /\ r[2] \in 1..Len(m[i].blocks)
      BY <1>1, <1>3
    <3> HIDE DEF i
    <3> QED BY <2>1, <3>1
  <2>3. J \in SUBSET (0..Len(m[i].blocks)) /\ J # {}
    BY <2>2
  <2> HIDE DEF J, i
  <2> QED BY <2>1, <2>3, LastIs
<1>5. <<i, j>> \in P
  BY <1>4
<1>6. ASSUME NEW q \in P PROVE q = <<i, j>> \/ Before(q, <<i, j>>)
  <2>1. q = <<q[1], q[2]>> /\ q[1] \in I
    BY <1>1
  <2>2. q[1] <= i /\ (q[1] = i => q[2] \in J)
    <3>1. q[2] \in 1..Len(m[q[1]].blocks) /\ Len(m[q[1]].blocks) \in Nat
      BY <1>1
    <3>2. q[1] = i => q[2] \in J
      <4> HIDE DEF i
      <4> QED BY <2>1, <3>1
    <3> QED BY <1>2, <2>1, <3>2
  <2>3. q[1] = i => q[2] <= j
    BY <1>4, <2>2
  <2>4. q[1] \in Nat /\ q[2] \in Nat /\ i \in Nat /\ j \in Nat
    BY <1>1, <1>2, <1>4, <1>5
  <2> HIDE DEF i, j, I, J
  <2> QED BY <2>1, <2>2, <2>3, <2>4 DEF Before
<1> HIDE DEF i, j, I, J
<1> QED BY <1>5, <1>6 DEF Latest

\* The earliest of some positions is one of them.
LEMMA EarliestIs ==
  ASSUME NEW m \in Messages, NEW P \in SUBSET Positions(m), P # {}
  PROVE  Earliest(P) \in P
<1> DEFINE I == {k \in Nat : \E q \in P : q[1] = k}
           i == First(I)
           J == {k \in Nat : <<i, k>> \in P}
           j == First(J)
<1>1. \A q \in P : q = <<q[1], q[2]>> /\ q[1] \in Nat /\ q[2] \in Nat
  BY PlaceIs
<1>2. i \in I /\ \A k \in I : i <= k
  <2>1. I \in SUBSET Nat /\ I # {}
    BY <1>1
  <2> HIDE DEF I
  <2> QED BY <2>1, FirstIs
<1>3. PICK r \in P : r[1] = i
  BY <1>2
<1>4. j \in J /\ \A k \in J : j <= k
  <2>1. r[2] \in J
    BY <1>1, <1>3
  <2>2. J \in SUBSET Nat /\ J # {}
    BY <2>1
  <2> HIDE DEF J, i
  <2> QED BY <2>2, FirstIs
<1>5. <<i, j>> \in P
  BY <1>4
<1>6. ASSUME NEW q \in P PROVE q = <<i, j>> \/ Before(<<i, j>>, q)
  <2>1. q = <<q[1], q[2]>> /\ q[1] \in I
    BY <1>1
  <2>2. i <= q[1] /\ (q[1] = i => q[2] \in J)
    BY <1>1, <1>2, <2>1
  <2>3. q[1] = i => j <= q[2]
    BY <1>4, <2>2
  <2>4. q[1] \in Nat /\ q[2] \in Nat /\ i \in Nat /\ j \in Nat
    BY <1>1, <1>2, <1>4, <1>5
  <2> HIDE DEF i, j, I, J
  <2> QED BY <2>1, <2>2, <2>3, <2>4 DEF Before
<1> HIDE DEF i, j, I, J
<1> QED BY <1>5, <1>6 DEF Earliest

-----------------------------------------------------------------------------
(* Cache marks: lists of messages that differ in their marks only.           *)

Twins(a, b) ==
  /\ a \in Messages /\ b \in Messages /\ Len(b) = Len(a)
  /\ \A i \in 1..Len(a) :
       /\ b[i].role = a[i].role /\ Len(b[i].blocks) = Len(a[i].blocks)
       /\ \A j \in 1..Len(a[i].blocks) : /\ b[i].blocks[j].kind = a[i].blocks[j].kind
                                         /\ b[i].blocks[j].text = a[i].blocks[j].text

\* A block without its mark.
LEMMA PlainIs ==
  ASSUME NEW block \in Blocks
  PROVE  Plain(block) = [kind |-> block.kind, text |-> block.text, mark |-> FALSE]
<1>1. \A flag \in BOOLEAN : [block EXCEPT !.mark = flag] = [kind |-> block.kind, text |-> block.text, mark |-> flag]
  BY DEF Blocks
<1>2. FALSE \in BOOLEAN
  OBVIOUS
<1> QED BY <1>1, <1>2, ZenonT(20) DEF Plain

\* Twins differ in their marks only, and so agree on all that does not look at them.
LEMMA TwinsAlike ==
  ASSUME NEW a, NEW b, Twins(a, b)
  PROVE  /\ Positions(b) = Positions(a) /\ Assistants(b) = Assistants(a)
         /\ Users(b) = Users(a) /\ LastAssistant(b) = LastAssistant(a) /\ Turn(b) = Turn(a)
         /\ \A i \in 1..Len(a) : \A j \in 1..Len(a[i].blocks) :
              Plain(b[i].blocks[j]) = Plain(a[i].blocks[j])
         /\ \A i \in 1..Len(a) : PlainAll(b[i].blocks) = PlainAll(a[i].blocks)
<1>1. a \in Messages /\ b \in Messages
  BY DEF Twins
<1>2. /\ DOMAIN b = DOMAIN a /\ DOMAIN a = 1..Len(a)
      /\ \A i \in 1..Len(a) : /\ DOMAIN b[i].blocks = DOMAIN a[i].blocks
                              /\ DOMAIN a[i].blocks = 1..Len(a[i].blocks)
  BY <1>1, Shape DEF Twins
<1>3. Positions(b) = Positions(a)
  BY <1>2 DEF Positions
<1>4. Assistants(b) = Assistants(a) /\ Users(b) = Users(a)
  BY <1>2 DEF Assistants, Users, Twins
<1>5. LastAssistant(b) = LastAssistant(a) /\ Turn(b) = Turn(a)
  BY <1>4 DEF LastAssistant, Turn
<1>6. ASSUME NEW i \in 1..Len(a), NEW j \in 1..Len(a[i].blocks)
      PROVE  Plain(b[i].blocks[j]) = Plain(a[i].blocks[j])
  <2>1. a[i].blocks[j] \in Blocks /\ b[i].blocks[j] \in Blocks
    BY <1>1, Shape DEF Twins
  <2>2. b[i].blocks[j].kind = a[i].blocks[j].kind /\ b[i].blocks[j].text = a[i].blocks[j].text
    BY DEF Twins
  <2> QED BY <2>1, <2>2, PlainIs
<1>7. \A i \in 1..Len(a) : PlainAll(b[i].blocks) = PlainAll(a[i].blocks)
  BY <1>2, <1>6 DEF PlainAll
<1> QED BY <1>3, <1>4, <1>5, <1>6, <1>7

LEMMA TwinsChain ==
  ASSUME NEW a, NEW b, NEW c, Twins(a, b), Twins(b, c)
  PROVE  Twins(a, c)
BY DEF Twins

LEMMA TwinsSame ==
  ASSUME NEW a \in Messages
  PROVE  Twins(a, a)
BY DEF Twins

\* The last assistant message, 0 if there is none.
LEMMA LastAssistantIs ==
  ASSUME NEW m \in Messages
  PROVE  /\ LastAssistant(m) \in 0..Len(m)
         /\ \A i \in Assistants(m) : i <= LastAssistant(m)
<1>1. Assistants(m) \in SUBSET (0..Len(m)) /\ Len(m) \in Nat
  BY Shape DEF Assistants
<1>2. CASE Assistants(m) = {}
  BY <1>1, <1>2 DEF LastAssistant
<1>3. CASE Assistants(m) # {}
  <2>1. Last(Assistants(m)) \in Assistants(m) /\ \A i \in Assistants(m) : i <= Last(Assistants(m))
    BY <1>1, <1>3, LastIs
  <2> QED BY <1>1, <1>3, <2>1 DEF LastAssistant
<1> QED BY <1>2, <1>3

\* What recurs does not depend on the marks, nor do the targets.
LEMMA TwinTargets ==
  ASSUME NEW a, NEW b, Twins(a, b), NEW queried, Len(queried) \in Nat
  PROVE  Targets(b, queried) = Targets(a, queried)
<1> DEFINE last == LastAssistant(a)
           New(m) == IF last < Len(m) THEN m[last + 1] ELSE [role |-> "none", blocks |-> <<>>]
           Same(m) == {k \in 0..Len(queried) : /\ k <= Len(New(m).blocks)
                                               /\ \A j \in 1..k : Plain(New(m).blocks[j]) = queried[j]}
           Prefix(m) == IF New(m).role = "user" THEN Last(Same(m)) ELSE 0
           Changed(m) == /\ Prefix(m) < Len(New(m).blocks)
                         /\ New(m).blocks[Prefix(m) + 1].kind = "result"
<1>1. /\ a \in Messages /\ b \in Messages /\ Len(b) = Len(a)
      /\ last \in Nat /\ Len(a) \in Nat
      /\ \A i \in 1..Len(a) : Len(a[i].blocks) \in Nat
  BY LastAssistantIs, Shape DEF Twins
<1>2. /\ New(b).role = New(a).role /\ Len(New(b).blocks) = Len(New(a).blocks)
      /\ Len(New(a).blocks) \in Nat
      /\ \A j \in 1..Len(New(a).blocks) : /\ Plain(New(b).blocks[j]) = Plain(New(a).blocks[j])
                                          /\ New(b).blocks[j].kind = New(a).blocks[j].kind
  <2>1. CASE last < Len(a)
    <3>1. last + 1 \in 1..Len(a) /\ New(a) = a[last + 1] /\ New(b) = b[last + 1]
      BY <1>1, <2>1
    <3> HIDE DEF New, last
    <3>2. /\ New(b).role = New(a).role /\ Len(New(b).blocks) = Len(New(a).blocks)
          /\ \A j \in 1..Len(New(a).blocks) : New(b).blocks[j].kind = New(a).blocks[j].kind
      BY <3>1 DEF Twins
    <3>3. \A j \in 1..Len(New(a).blocks) : Plain(New(b).blocks[j]) = Plain(New(a).blocks[j])
      BY <3>1, TwinsAlike
    <3>4. Len(New(a).blocks) \in Nat
      BY <1>1, <3>1
    <3> QED BY <3>2, <3>3, <3>4
  <2>2. CASE ~(last < Len(a))
    <3>1. New(a) = [role |-> "none", blocks |-> <<>>] /\ New(b) = New(a)
      BY <1>1, <2>2
    <3> HIDE DEF New, last
    <3> QED BY <3>1
  <2> QED BY <2>1, <2>2
<1> HIDE DEF New
<1>3. Same(b) = Same(a)
  <2> SUFFICES ASSUME NEW k \in 0..Len(queried), k <= Len(New(a).blocks)
               PROVE  (\A j \in 1..k : Plain(New(b).blocks[j]) = queried[j])
                        <=> (\A j \in 1..k : Plain(New(a).blocks[j]) = queried[j])
    BY <1>2
  <2>1. \A j \in 1..k : j \in 1..Len(New(a).blocks)
    BY <1>2
  <2> QED BY <1>2, <2>1
<1>4. Prefix(b) = Prefix(a)
  BY <1>2, <1>3
<1>5. Prefix(a) \in Nat
  <2> DEFINE n == Len(New(a).blocks)
  <2>1. n \in Nat /\ Same(a) \in SUBSET (0..n) /\ 0 \in Same(a)
    BY <1>2
  <2>2. Last(Same(a)) \in Same(a)
    <3> HIDE DEF Same, n
    <3> QED BY <2>1, LastIs
  <2>3. Last(Same(a)) \in Nat
    BY <2>2
  <2> HIDE DEF Same
  <2> QED BY <2>3
<1>6. Changed(b) = Changed(a)
  <2>1. Prefix(a) < Len(New(a).blocks) => Prefix(a) + 1 \in 1..Len(New(a).blocks)
    BY <1>2, <1>5
  <2> HIDE DEF Prefix
  <2> QED BY <1>2, <1>4, <2>1
<1>7. Recurring(b, queried) = Recurring(a, queried)
  BY <1>4, <1>6, TwinsAlike DEF Recurring, New
<1>8. \A p \in Positions(a) : At(b, p).kind = At(a, p).kind
  BY <1>1, PlaceIs DEF At, Twins
<1>9. Recurring(a, queried) \subseteq Positions(a)
  BY DEF Recurring
<1> QED BY <1>7, <1>8, <1>9 DEF Targets

\* A list marked anew has those marks and is otherwise the same.
LEMMA RemarkedIs ==
  ASSUME NEW m \in Messages, NEW M \in SUBSET Positions(m)
  PROVE  Twins(m, Remarked(m, M)) /\ Marks(Remarked(m, M)) = M
<1> DEFINE b == Remarked(m, M)
<1>1. DOMAIN b = 1..Len(m) /\ Len(m) \in Nat
  BY Shape DEF Remarked
<1>2. ASSUME NEW i \in 1..Len(m)
      PROVE  /\ b[i] \in [role : {"user", "assistant", "system"}, blocks : Seq(Blocks) \ {<<>>}]
             /\ b[i].role = m[i].role /\ Len(b[i].blocks) = Len(m[i].blocks)
             /\ DOMAIN b[i].blocks = 1..Len(m[i].blocks)
             /\ \A j \in 1..Len(m[i].blocks) :
                  /\ b[i].blocks[j].kind = m[i].blocks[j].kind
                  /\ b[i].blocks[j].text = m[i].blocks[j].text
                  /\ b[i].blocks[j].mark <=> <<i, j>> \in M
  <2> DEFINE n == Len(m[i].blocks)
             new == [j \in DOMAIN m[i].blocks |-> Remark(m[i].blocks[j], <<i, j>> \in M)]
  <2>1. /\ n \in Nat \ {0} /\ DOMAIN m[i].blocks = 1..n /\ m[i].role \in {"user", "assistant", "system"}
        /\ \A j \in 1..n : m[i].blocks[j] \in Blocks
    BY Shape
  <2>2. b[i] = [role |-> m[i].role, blocks |-> new]
    BY <1>1, Shape DEF Remarked
  <2>3. \A j \in 1..n : Remark(m[i].blocks[j], <<i, j>> \in M) \in Blocks
    BY <2>1 DEF Remark, Blocks
  <2>4. /\ new \in [1..n -> Blocks]
        /\ \A j \in 1..n : /\ new[j].kind = m[i].blocks[j].kind
                           /\ new[j].text = m[i].blocks[j].text
                           /\ new[j].mark <=> <<i, j>> \in M
    BY <2>1, <2>3 DEF Remark
  <2> HIDE DEF new, n
  <2>5. new \in Seq(Blocks) /\ Len(new) = n /\ DOMAIN new = 1..n /\ new # <<>>
    BY <2>1, <2>4
  <2> HIDE DEF b
  <2> QED BY <2>1, <2>2, <2>4, <2>5 DEF n
<1>3. b \in Messages /\ Len(b) = Len(m)
  <2> DEFINE set == [role : {"user", "assistant", "system"}, blocks : Seq(Blocks) \ {<<>>}]
  <2>1. \A i \in 1..Len(m) : b[i] \in set
    BY <1>2
  <2>2. b = [i \in 1..Len(m) |-> b[i]]
    BY <1>1 DEF Remarked
  <2> HIDE DEF set, b
  <2>3. b \in Seq(set) /\ Len(b) = Len(m)
    BY <1>1, <2>1, <2>2
  <2> QED BY <2>3 DEF Messages, set
<1> HIDE DEF b
<1>4. Twins(m, b)
  BY <1>2, <1>3 DEF Twins
<1>5. \A p \in Positions(m) : At(b, p).mark <=> p \in M
  <2> TAKE p \in Positions(m)
  <2>1. p = <<p[1], p[2]>> /\ p[1] \in 1..Len(m) /\ p[2] \in 1..Len(m[p[1]].blocks)
    BY PlaceIs
  <2>2. b[p[1]].blocks[p[2]].mark <=> <<p[1], p[2]>> \in M
    BY <1>2, <2>1
  <2> QED BY <2>1, <2>2 DEF At
<1>6. Marks(b) = M
  BY <1>4, <1>5, TwinsAlike DEF Marks
<1> QED BY <1>4, <1>6 DEF b

-----------------------------------------------------------------------------
(* Cache marks: what moves them.                                             *)

\* A list is itself, marked as it is.
LEMMA MarksAre ==
  ASSUME NEW m \in Messages, NEW i \in 1..Len(m), NEW j \in 1..Len(m[i].blocks)
  PROVE  m[i].blocks[j].mark \in BOOLEAN /\ (m[i].blocks[j].mark <=> <<i, j>> \in Marks(m))
<1>1. m[i].blocks[j] \in Blocks
  BY Shape
<1>2. m[i].blocks[j].mark \in BOOLEAN
  BY <1>1 DEF Blocks
<1>3. <<i, j>> \in Positions(m)
  BY Places
<1> QED BY <1>2, <1>3 DEF Marks, At

\* The block with its mark, which may be written in either way.
LEMMA RemarkIs ==
  ASSUME NEW block \in Blocks, NEW flag \in BOOLEAN
  PROVE  [block EXCEPT !.mark = flag] = Remark(block, flag)
BY DEF Remark, Blocks

LEMMA RemarkSame ==
  ASSUME NEW block \in Blocks, NEW flag, flag <=> block.mark, flag \in BOOLEAN
  PROVE  Remark(block, flag) = block
BY DEF Remark, Blocks

\* Two functions of a list's shape that agree everywhere.
LEMMA RemarkedFrom ==
  ASSUME NEW m \in Messages, NEW M, NEW b, DOMAIN b = DOMAIN m, b = [i \in DOMAIN m |-> b[i]],
         \A i \in 1..Len(m) :
           /\ b[i] = [role |-> m[i].role, blocks |-> b[i].blocks]
           /\ b[i].blocks = [j \in DOMAIN m[i].blocks |-> b[i].blocks[j]]
           /\ \A j \in 1..Len(m[i].blocks) : b[i].blocks[j] = Remark(m[i].blocks[j], <<i, j>> \in M)
  PROVE  b = Remarked(m, M)
<1>1. DOMAIN m = 1..Len(m) /\ \A i \in 1..Len(m) : DOMAIN m[i].blocks = 1..Len(m[i].blocks)
  BY Shape
<1>2. ASSUME NEW i \in 1..Len(m) PROVE b[i] = Remarked(m, M)[i]
  <2>1. b[i].blocks = [j \in DOMAIN m[i].blocks |-> Remark(m[i].blocks[j], <<i, j>> \in M)]
    BY <1>1
  <2>2. b[i] = [role |-> m[i].role, blocks |-> [j \in DOMAIN m[i].blocks |-> Remark(m[i].blocks[j], <<i, j>> \in M)]]
    BY <2>1
  <2> QED BY <1>1, <2>2 DEF Remarked
<1>3. Remarked(m, M) = [i \in DOMAIN m |-> Remarked(m, M)[i]]
  BY DEF Remarked
<1> QED BY <1>1, <1>2, <1>3

\* The message with other blocks.
LEMMA RebuiltIs ==
  ASSUME NEW r, NEW x, NEW message, message = [role |-> r, blocks |-> x], NEW new
  PROVE  [message EXCEPT !.blocks = new] = [role |-> r, blocks |-> new]
OBVIOUS

\* One mark set or cleared is the list marked anew.
LEMMA SetMarkIs ==
  ASSUME NEW m \in Messages, NEW p \in Positions(m), NEW flag \in BOOLEAN
  PROVE  LET M == {q \in Marks(m) : q # p} \cup {q \in {p} : flag}
         IN SetMark(m, p, flag) = Remarked(m, M)
<1> DEFINE M == {q \in Marks(m) : q # p} \cup {q \in {p} : flag}
           b == SetMark(m, p, flag)
<1>1. /\ p = <<p[1], p[2]>> /\ p[1] \in 1..Len(m) /\ p[2] \in 1..Len(m[p[1]].blocks)
  BY PlaceIs
<1>2. /\ DOMAIN m = 1..Len(m)
      /\ \A i \in 1..Len(m) :
           /\ m[i] = [role |-> m[i].role, blocks |-> m[i].blocks]
           /\ DOMAIN m[i].blocks = 1..Len(m[i].blocks) /\ m[i].blocks \in Seq(Blocks)
           /\ \A j \in 1..Len(m[i].blocks) : m[i].blocks[j] \in Blocks
  BY Shape
<1> DEFINE old == m[p[1]].blocks
           new == [old EXCEPT ![p[2]] = Remark(old[p[2]], flag)]
<1>3. b = [m EXCEPT ![p[1]] = [role |-> m[p[1]].role, blocks |-> new]]
  <2>1. [old[p[2]] EXCEPT !.mark = flag] = Remark(old[p[2]], flag)
    BY <1>1, <1>2, RemarkIs
  <2>2. [m[p[1]] EXCEPT !.blocks = new] = [role |-> m[p[1]].role, blocks |-> new]
    <3> HIDE DEF new
    <3> QED BY <1>1, <1>2, RebuiltIs
  <2> QED BY <1>1, <2>1, <2>2, Zenon DEF SetMark
<1>4. DOMAIN b = DOMAIN m /\ b = [i \in DOMAIN m |-> b[i]]
  BY <1>3
<1>5. ASSUME NEW i \in 1..Len(m)
      PROVE  /\ b[i] = [role |-> m[i].role, blocks |-> b[i].blocks]
             /\ b[i].blocks = [j \in DOMAIN m[i].blocks |-> b[i].blocks[j]]
             /\ \A j \in 1..Len(m[i].blocks) : b[i].blocks[j] = Remark(m[i].blocks[j], <<i, j>> \in M)
  <2>1. ASSUME NEW j \in 1..Len(m[i].blocks), <<i, j>> # p
        PROVE  Remark(m[i].blocks[j], <<i, j>> \in M) = m[i].blocks[j]
    <3>1. <<i, j>> \in M <=> m[i].blocks[j].mark
      BY <2>1, MarksAre
    <3>2. (<<i, j>> \in M) \in BOOLEAN
      OBVIOUS
    <3> HIDE DEF M
    <3> QED BY <1>2, <3>1, <3>2, RemarkSame
  <2>2. CASE i = p[1]
    <3>1. b[i] = [role |-> m[i].role, blocks |-> new]
      BY <1>2, <1>3, <2>2
    <3>2. b[i].blocks = new
      BY <3>1
    <3>3. DOMAIN new = DOMAIN m[i].blocks /\ new = [j \in DOMAIN m[i].blocks |-> new[j]]
      BY <2>2
    <3>4. (p \in M) = flag
      OBVIOUS
    <3>5. ASSUME NEW j \in 1..Len(m[i].blocks)
          PROVE  new[j] = Remark(m[i].blocks[j], <<i, j>> \in M)
      <4>1. CASE j = p[2]
        <5>1. new[j] = Remark(m[i].blocks[j], flag)
          BY <1>2, <2>2, <4>1
        <5>2. <<i, j>> = p
          BY <1>1, <2>2, <4>1
        <5> HIDE DEF M, new
        <5> QED BY <3>4, <5>1, <5>2
      <4>2. CASE j # p[2]
        <5>1. <<i, j>> # p
          BY <1>1, <4>2
        <5>2. new[j] = m[i].blocks[j]
          BY <1>2, <2>2, <4>2
        <5> HIDE DEF M, new
        <5> QED BY <2>1, <5>1, <5>2
      <4> QED BY <4>1, <4>2
    <3> HIDE DEF new, M, b
    <3> QED BY <3>1, <3>2, <3>3, <3>5
  <2>3. CASE i # p[1]
    <3>1. b[i] = m[i]
      BY <1>2, <1>3, <2>3
    <3>2. \A j \in 1..Len(m[i].blocks) : <<i, j>> # p
      BY <1>1, <2>3
    <3>3. m[i].blocks = [j \in DOMAIN m[i].blocks |-> m[i].blocks[j]]
      BY <1>2
    <3> HIDE DEF M, b
    <3> QED BY <1>2, <2>1, <3>1, <3>2, <3>3
  <2> QED BY <2>2, <2>3
<1> HIDE DEF b, M
<1> QED BY <1>4, <1>5, RemarkedFrom DEF b, M

\* A mark more, or one less.
LEMMA MarkMore ==
  ASSUME NEW m \in Messages, NEW p \in Positions(m)
  PROVE  /\ Twins(m, SetMark(m, p, TRUE)) /\ Marks(SetMark(m, p, TRUE)) = Marks(m) \cup {p}
         /\ Twins(m, SetMark(m, p, FALSE)) /\ Marks(SetMark(m, p, FALSE)) = Marks(m) \ {p}
<1>1. Marks(m) \in SUBSET Positions(m)
  BY DEF Marks
<1>2. ASSUME NEW flag \in BOOLEAN
      PROVE  LET M == {q \in Marks(m) : q # p} \cup {q \in {p} : flag}
             IN Twins(m, SetMark(m, p, flag)) /\ Marks(SetMark(m, p, flag)) = M
  <2> DEFINE M == {q \in Marks(m) : q # p} \cup {q \in {p} : flag}
  <2>1. M \in SUBSET Positions(m)
    BY <1>1
  <2>2. SetMark(m, p, flag) = Remarked(m, M)
    BY SetMarkIs
  <2> HIDE DEF M
  <2>3. Twins(m, SetMark(m, p, flag)) /\ Marks(SetMark(m, p, flag)) = M
    BY <2>1, <2>2, RemarkedIs
  <2> QED BY <2>3 DEF M
<1>3. {q \in Marks(m) : q # p} \cup {q \in {p} : TRUE} = Marks(m) \cup {p}
  OBVIOUS
<1>4. {q \in Marks(m) : q # p} \cup {q \in {p} : FALSE} = Marks(m) \ {p}
  OBVIOUS
<1>5. TRUE \in BOOLEAN /\ FALSE \in BOOLEAN
  OBVIOUS
<1>6. Twins(m, SetMark(m, p, TRUE)) /\ Marks(SetMark(m, p, TRUE)) = Marks(m) \cup {p}
  BY <1>2, <1>3, <1>5, ZenonT(30)
<1>7. Twins(m, SetMark(m, p, FALSE)) /\ Marks(SetMark(m, p, FALSE)) = Marks(m) \ {p}
  BY <1>2, <1>4, <1>5, ZenonT(30)
<1> QED BY <1>6, <1>7

\* Folding: the marks after the target go, and if there were any it has one.
LEMMA FoldIs ==
  ASSUME NEW m \in Messages, NEW target \in Positions(m)
  PROVE  LET late == {p \in Marks(m) : Before(target, p)}
             folded == (Marks(m) \ late) \cup {p \in {target} : late # {}}
         IN Twins(m, Fold(m, target)) /\ Marks(Fold(m, target)) = folded
<1> DEFINE late == {p \in Marks(m) : Before(target, p)}
           folded == (Marks(m) \ late) \cup {p \in {target} : late # {}}
<1>1. folded \in SUBSET Positions(m)
  BY DEF Marks
<1>2. Fold(m, target) = Remarked(m, folded)
  BY DEF Fold
<1> HIDE DEF folded
<1>3. Twins(m, Fold(m, target)) /\ Marks(Fold(m, target)) = folded
  BY <1>1, <1>2, RemarkedIs
<1> QED BY <1>3 DEF folded

-----------------------------------------------------------------------------
(* Cache marks: how many there are, and where.                               *)

\* Of two positions at most one is before the other.
LEMMA OneWay ==
  ASSUME NEW m \in Messages, NEW p \in Positions(m), NEW q \in Positions(m), Before(p, q)
  PROVE  ~Before(q, p)
<1>1. p[1] \in Nat /\ p[2] \in Nat /\ q[1] \in Nat /\ q[2] \in Nat
  BY PlaceIs
<1> QED BY <1>1 DEF Before

\* A set with one element more.
LEMMA OneMore ==
  ASSUME NEW S, IsFiniteSet(S), NEW x
  PROVE  /\ IsFiniteSet(S \cup {x}) /\ Cardinality(S \cup {x}) \in Nat
         /\ Cardinality(S \cup {x}) <= Cardinality(S) + 1
<1>1. IsFiniteSet(S \cup {x}) /\ Cardinality(S) \in Nat
  BY FS_AddElement, FS_CardinalityType
<1>2. Cardinality(S \cup {x}) \in Nat
  BY <1>1, FS_CardinalityType
<1>3. Cardinality(S \cup {x}) = IF x \in S THEN Cardinality(S) ELSE Cardinality(S) + 1
  BY FS_AddElement
<1> QED BY <1>1, <1>2, <1>3

\* Folding leaves no mark after the target, and no more marks than there were.
LEMMA FoldMarks ==
  ASSUME NEW m \in Messages, NEW target \in Positions(m)
  PROVE  /\ Twins(m, Fold(m, target))
         /\ Cardinality(Marks(Fold(m, target))) <= Cardinality(Marks(m))
         /\ \A p \in Marks(Fold(m, target)) : ~Before(target, p)
<1> DEFINE late == {p \in Marks(m) : Before(target, p)}
           folded == (Marks(m) \ late) \cup {p \in {target} : late # {}}
<1>1. Twins(m, Fold(m, target)) /\ Marks(Fold(m, target)) = folded
  BY FoldIs
<1>2. ~Before(target, target)
  <2>1. target[1] \in Nat /\ target[2] \in Nat
    BY PlaceIs
  <2> QED BY <2>1 DEF Before
<1>3. \A p \in folded : ~Before(target, p)
  BY <1>2
<1>4. Cardinality(folded) <= Cardinality(Marks(m))
  <2>1. IsFiniteSet(Marks(m)) /\ Cardinality(Marks(m)) \in Nat
    BY PlacesFinite, FS_CardinalityType
  <2>2. CASE late = {}
    <3>1. folded = Marks(m)
      BY <2>2
    <3> QED BY <2>1, <3>1
  <2>3. CASE late # {}
    <3>1. PICK q \in Marks(m) : Before(target, q)
      BY <2>3
    <3> DEFINE rest == Marks(m) \ {q}
    <3>2. IsFiniteSet(rest) /\ Cardinality(rest) = Cardinality(Marks(m)) - 1
      BY <2>1, FS_RemoveElement
    <3>3. /\ IsFiniteSet(rest \cup {target})
          /\ Cardinality(rest \cup {target}) <= Cardinality(rest) + 1
      <4> HIDE DEF rest
      <4> QED BY <3>2, OneMore
    <3>4. folded \subseteq rest \cup {target}
      BY <3>1
    <3> HIDE DEF folded, rest
    <3>5. Cardinality(folded) <= Cardinality(rest \cup {target}) /\ IsFiniteSet(folded)
      BY <3>3, <3>4, FS_Subset
    <3>6. /\ Cardinality(rest) \in Nat /\ Cardinality(rest \cup {target}) \in Nat
          /\ Cardinality(folded) \in Nat
      BY <3>2, <3>3, <3>5, FS_CardinalityType
    <3> QED BY <2>1, <3>2, <3>3, <3>5, <3>6
  <2> QED BY <2>2, <2>3
<1> HIDE DEF folded
<1> QED BY <1>1, <1>3, <1>4

\* The turn's mark goes before the target: as one more where there is room, or
\* in the place of another before the target.
LEMMA KeepIs ==
  ASSUME NEW m \in Messages, NEW target \in Positions(m), NEW elsewhere
  PROVE  \/ KeepTurnMark(m, target, elsewhere) = m
         \/ \E place \in Positions(m) :
              /\ Before(place, target) /\ Cardinality(Marks(m)) + elsewhere < MaxMarks
              /\ KeepTurnMark(m, target, elsewhere) = SetMark(m, place, TRUE)
         \/ \E place \in Positions(m) : \E spare \in Marks(m) :
              /\ Before(place, target)
              /\ KeepTurnMark(m, target, elsewhere) = SetMark(SetMark(m, spare, FALSE), place, TRUE)
<1> DEFINE last == LastAssistant(m)
           openings == {i \in 1..(last - 1) : OpensTurn(m[i])}
           opening == Last(openings)
           thoughts == {i \in (opening + 1)..last : HasThinking(m[i])}
           frames == {i \in Users(m) : opening < i /\ i < First(thoughts)}
           frame == IF frames = {} THEN opening ELSE Last(frames)
           place == <<frame, Len(m[frame].blocks)>>
           span == Cardinality({p \in Positions(m) : frame <= p[1] /\ p[1] < target[1]})
           marks == Marks(m)
           later == {p \in marks : Before(place, p)}
           spare == {p \in later : Before(p, target)}
           stay == \/ openings = {} \/ thoughts = {}
                   \/ At(m, place).mark \/ ~Before(place, target)
                   \/ span - place[2] + target[2] + 1 <= Lookback
                   \/ later = {}
           room == Cardinality(marks) + elsewhere < MaxMarks
           swap == spare # {} /\ At(m, target).mark
           moved == SetMark(SetMark(m, Earliest(spare), FALSE), place, TRUE)
<1>1. KeepTurnMark(m, target, elsewhere) =
        IF stay THEN m ELSE IF room THEN SetMark(m, place, TRUE) ELSE IF swap THEN moved ELSE m
  BY Zenon DEF KeepTurnMark
<1>2. ASSUME openings # {} PROVE place \in Positions(m)
  <2>1. Len(m) \in Nat /\ last \in 0..Len(m) /\ Users(m) \in SUBSET (0..Len(m))
    BY Shape, LastAssistantIs DEF Users
  <2>2. openings \in SUBSET (0..Len(m))
    BY <2>1
  <2>3. opening \in openings
    <3> HIDE DEF openings
    <3> QED BY <1>2, <2>1, <2>2, LastIs
  <2>4. opening \in 1..Len(m)
    <3> HIDE DEF opening
    <3> QED BY <2>1, <2>3
  <2>5. frames # {} => Last(frames) \in frames
    <3>1. frames \in SUBSET (0..Len(m))
      BY <2>1
    <3> HIDE DEF frames
    <3> QED BY <2>1, <3>1, LastIs
  <2>6. \A i \in frames : i \in 1..Len(m)
    BY Shape DEF Users
  <2>7. frame \in 1..Len(m)
    <3> HIDE DEF frames, opening
    <3> QED BY <2>4, <2>5, <2>6
  <2>8. Len(m[frame].blocks) \in 1..Len(m[frame].blocks)
    <3> HIDE DEF frame
    <3>1. Len(m[frame].blocks) \in Nat \ {0}
      BY <2>7, Shape
    <3> QED BY <3>1
  <2> HIDE DEF frame
  <2> QED BY <2>7, <2>8, Places
<1>3. spare # {} => Earliest(spare) \in spare
  <2>1. spare \in SUBSET Positions(m)
    BY DEF Marks
  <2> HIDE DEF spare
  <2> QED BY <2>1, EarliestIs
<1>4. \A p \in spare : p \in Marks(m)
  OBVIOUS
<1>5. ~stay => openings # {} /\ Before(place, target)
  OBVIOUS
<1>6. swap => spare # {}
  OBVIOUS
<1>7. room <=> Cardinality(Marks(m)) + elsewhere < MaxMarks
  OBVIOUS
<1> HIDE DEF openings, place, spare, stay, room, swap
<1> QED BY <1>1, <1>2, <1>3, <1>4, <1>5, <1>6, <1>7

\* It adds at most one mark, only where there is room, and none after the target.
LEMMA KeepMarks ==
  ASSUME NEW m \in Messages, NEW target \in Positions(m), NEW elsewhere \in Nat
  PROVE  LET kept == KeepTurnMark(m, target, elsewhere)
         IN /\ Twins(m, kept)
            /\ Cardinality(Marks(kept)) <= Cardinality(Marks(m)) + 1
            /\ Cardinality(Marks(m)) + elsewhere <= MaxMarks
                 => Cardinality(Marks(kept)) + elsewhere <= MaxMarks
            /\ \A p \in Marks(kept) : p \in Marks(m) \/ (p \in Positions(m) /\ Before(p, target))
<1> DEFINE kept == KeepTurnMark(m, target, elsewhere)
<1>1. IsFiniteSet(Marks(m)) /\ Cardinality(Marks(m)) \in Nat /\ MaxMarks \in Nat
  BY PlacesFinite, FS_CardinalityType, MarksAssumption
<1>2. ASSUME kept = m
      PROVE  /\ Twins(m, kept)
             /\ Cardinality(Marks(kept)) <= Cardinality(Marks(m)) + 1
             /\ Cardinality(Marks(m)) + elsewhere <= MaxMarks
                  => Cardinality(Marks(kept)) + elsewhere <= MaxMarks
             /\ \A p \in Marks(kept) : p \in Marks(m) \/ (p \in Positions(m) /\ Before(p, target))
  BY <1>1, <1>2, TwinsSame
<1>3. ASSUME NEW place \in Positions(m), Before(place, target),
             Cardinality(Marks(m)) + elsewhere < MaxMarks, kept = SetMark(m, place, TRUE)
      PROVE  /\ Twins(m, kept)
             /\ Cardinality(Marks(kept)) <= Cardinality(Marks(m)) + 1
             /\ Cardinality(Marks(kept)) + elsewhere <= MaxMarks
             /\ \A p \in Marks(kept) : p \in Marks(m) \/ (p \in Positions(m) /\ Before(p, target))
  <2> HIDE DEF kept
  <2>1. Twins(m, kept) /\ Marks(kept) = Marks(m) \cup {place}
    BY <1>3, MarkMore
  <2>2. /\ Cardinality(Marks(m) \cup {place}) <= Cardinality(Marks(m)) + 1
        /\ Cardinality(Marks(m) \cup {place}) \in Nat
    BY <1>1, OneMore
  <2>3. Cardinality(Marks(kept)) + elsewhere <= MaxMarks
    <3> DEFINE before == Cardinality(Marks(m))
               after == Cardinality(Marks(kept))
    <3>1. after \in Nat /\ after <= before + 1
      BY <2>1, <2>2
    <3>2. before \in Nat /\ before + elsewhere < MaxMarks /\ MaxMarks \in Nat
      BY <1>1, <1>3
    <3> HIDE DEF before, after
    <3>3. after + elsewhere <= MaxMarks
      BY <3>1, <3>2
    <3> QED BY <3>3 DEF after
  <2>4. \A p \in Marks(kept) : p \in Marks(m) \/ (p \in Positions(m) /\ Before(p, target))
    BY <1>3, <2>1
  <2> QED BY <2>1, <2>2, <2>3, <2>4
<1>4. ASSUME NEW place \in Positions(m), NEW spare \in Marks(m), Before(place, target),
             kept = SetMark(SetMark(m, spare, FALSE), place, TRUE)
      PROVE  /\ Twins(m, kept)
             /\ Cardinality(Marks(kept)) <= Cardinality(Marks(m))
             /\ Cardinality(Marks(kept)) \in Nat
             /\ \A p \in Marks(kept) : p \in Marks(m) \/ (p \in Positions(m) /\ Before(p, target))
  <2> DEFINE less == SetMark(m, spare, FALSE)
  <2> HIDE DEF kept
  <2>1. Twins(m, less) /\ Marks(less) = Marks(m) \ {spare}
    <3>1. spare \in Positions(m)
      BY DEF Marks
    <3> QED BY <3>1, MarkMore
  <2> HIDE DEF less
  <2>2. less \in Messages /\ place \in Positions(less)
    BY <2>1, TwinsAlike DEF Twins
  <2>3. Twins(less, kept) /\ Marks(kept) = Marks(less) \cup {place}
    BY <1>4, <2>2, MarkMore DEF less
  <2>4. IsFiniteSet(Marks(less)) /\ Cardinality(Marks(less)) = Cardinality(Marks(m)) - 1
    BY <1>1, <2>1, FS_RemoveElement
  <2>5. /\ Cardinality(Marks(kept)) <= Cardinality(Marks(less)) + 1
        /\ Cardinality(Marks(kept)) \in Nat
    BY <2>3, <2>4, OneMore
  <2>6. Twins(m, kept)
    BY <2>1, <2>3, TwinsChain
  <2>7. Cardinality(Marks(kept)) <= Cardinality(Marks(m))
    BY <1>1, <2>4, <2>5
  <2>8. \A p \in Marks(kept) : p \in Marks(m) \/ (p \in Positions(m) /\ Before(p, target))
    BY <1>4, <2>1, <2>3
  <2> QED BY <2>5, <2>6, <2>7, <2>8
<1> HIDE DEF kept
<1>5. \/ kept = m
      \/ \E place \in Positions(m) :
           /\ Before(place, target) /\ Cardinality(Marks(m)) + elsewhere < MaxMarks
           /\ kept = SetMark(m, place, TRUE)
      \/ \E place \in Positions(m) : \E spare \in Marks(m) :
           Before(place, target) /\ kept = SetMark(SetMark(m, spare, FALSE), place, TRUE)
  BY KeepIs DEF kept
<1>6. /\ Twins(m, kept)
      /\ Cardinality(Marks(kept)) <= Cardinality(Marks(m)) + 1
      /\ Cardinality(Marks(m)) + elsewhere <= MaxMarks
           => Cardinality(Marks(kept)) + elsewhere <= MaxMarks
      /\ \A p \in Marks(kept) : p \in Marks(m) \/ (p \in Positions(m) /\ Before(p, target))
  <2>1. CASE kept = m
    BY <1>2, <2>1
  <2>2. CASE \E place \in Positions(m) :
               /\ Before(place, target) /\ Cardinality(Marks(m)) + elsewhere < MaxMarks
               /\ kept = SetMark(m, place, TRUE)
    BY <1>3, <2>2
  <2>3. CASE \E place \in Positions(m) : \E spare \in Marks(m) :
               Before(place, target) /\ kept = SetMark(SetMark(m, spare, FALSE), place, TRUE)
    <3>1. /\ Twins(m, kept) /\ Cardinality(Marks(kept)) <= Cardinality(Marks(m))
          /\ Cardinality(Marks(kept)) \in Nat
          /\ \A p \in Marks(kept) : p \in Marks(m) \/ (p \in Positions(m) /\ Before(p, target))
      BY <1>4, <2>3
    <3> QED BY <1>1, <3>1
  <2> QED BY <1>5, <2>1, <2>2, <2>3
<1> QED BY <1>6 DEF kept

-----------------------------------------------------------------------------
(* Cache marks: native's text before the frame.                              *)

\* The blocks without their first d, which were native's; a mark they carried may
\* be on the first of the rest.
Fronted(old, new, d) ==
  /\ d \in 0..(Len(old) - 1)
  /\ new \in Seq(Blocks) /\ Len(new) = Len(old) - d
  /\ \A k \in 1..d : old[k].text = "native"
  /\ \A j \in 1..(Len(old) - d) :
       /\ new[j].kind = old[j + d].kind /\ new[j].text = old[j + d].text
       /\ new[j].mark => old[j + d].mark \/ (j = 1 /\ \E k \in 1..d : old[k].mark)

\* What Hermes queried, as the relay remembers it.
Remembered(queried) ==
  /\ Len(queried) \in Nat
  /\ queried = [k \in 1..Len(queried) |-> queried[k]]
  /\ \A k \in 1..Len(queried) :
       queried[k] = [kind |-> queried[k].kind, text |-> "host", mark |-> FALSE]

LEMMA PlainKeeps ==
  ASSUME NEW block \in Blocks
  PROVE  Plain(block).kind = block.kind /\ Plain(block).text = block.text
BY PlainIs

\* Hermes' own blocks are finitely many.
LEMMA OwnIs ==
  ASSUME NEW sent \in Seq(Blocks)
  PROVE  /\ IsFiniteSet(Own(sent)) /\ Cardinality(Own(sent)) \in Nat
         /\ Own(sent) \in SUBSET (1..Len(sent))
<1>1. Own(sent) \in SUBSET (1..Len(sent))
  BY DEF Own
<1>2. IsFiniteSet(1..Len(sent))
  <2>1. 1 \in Int /\ Len(sent) \in Int
    OBVIOUS
  <2> QED BY <2>1, FS_Interval
<1>3. IsFiniteSet(Own(sent))
  BY <1>1, <1>2, FS_Subset
<1> QED BY <1>1, <1>3, FS_CardinalityType

\* A frame found once holds all the blocks that are not native's, so what is before it
\* is native's.
LEMMA DropIs ==
  ASSUME NEW sent \in Seq(Blocks), sent # <<>>, NEW queried, Remembered(queried), queried # <<>>,
         Len(queried) = Cardinality(Own(sent))
  PROVE  \E d \in 0..(Len(sent) - 1) : Fronted(sent, DropBeforeFrame(sent, queried), d)
<1> DEFINE N == Len(sent)
           n == Len(queried)
           starts == {k \in 1..(N - n + 1) : PlainAll(SubSeq(sent, k, k + n - 1)) = queried}
           k0 == First(starts)
           kept == SubSeq(sent, k0, N)
           dropped == SubSeq(sent, 1, k0 - 1)
           found == Cardinality(starts) = 1 /\ k0 > 1 /\ OnlyText(dropped)
           new == [kept EXCEPT ![1].mark = @ \/ Marked(dropped)]
           r == DropBeforeFrame(sent, queried)
<1>1. /\ N \in Nat \ {0} /\ DOMAIN sent = 1..N /\ \A i \in 1..N : sent[i] \in Blocks
      /\ n \in Nat
  BY DEF Remembered
<1>2. r = IF found THEN new ELSE sent
  BY Zenon DEF DropBeforeFrame
<1>3. CASE ~found
  <2>1. r = sent
    BY <1>2, <1>3
  <2>2. Fronted(sent, sent, 0)
    BY <1>1 DEF Fronted
  <2>3. 0 \in 0..(Len(sent) - 1)
    BY <1>1
  <2> QED BY <2>1, <2>2, <2>3
<1>4. CASE found
  <2>1. k0 \in starts /\ k0 > 1
    <3>1. starts # {}
      <4>1. Cardinality(starts) = 1
        BY <1>4
      <4> HIDE DEF starts
      <4>2. ASSUME starts = {} PROVE FALSE
        <5>1. Cardinality({}) = 1
          BY <4>1, <4>2
        <5> QED BY <5>1, FS_EmptySet
      <4> QED BY <4>2
    <3>2. starts \in SUBSET Nat
      BY <1>1
    <3> HIDE DEF starts
    <3> QED BY <1>4, <3>1, <3>2, FirstIs
  <2>2. k0 \in Nat /\ k0 \in 2..(N - n + 1) /\ PlainAll(SubSeq(sent, k0, k0 + n - 1)) = queried
    <3> HIDE DEF k0
    <3> QED BY <1>1, <2>1
  <2> HIDE DEF k0
  <2>3. \A i \in k0..(k0 + n - 1) : i \in Own(sent)
    <3> TAKE i \in k0..(k0 + n - 1)
    <3> DEFINE sub == SubSeq(sent, k0, k0 + n - 1)
               j == i - k0 + 1
    <3>1. i \in 1..N /\ j \in 1..n
      BY <1>1, <2>2
    <3>2. sub \in Seq(Blocks) /\ Len(sub) = n /\ sub[j] = sent[i] /\ DOMAIN sub = 1..n
      BY <1>1, <2>2
    <3>3. queried[j] = Plain(sent[i])
      <4> HIDE DEF sub, j
      <4> QED BY <2>2, <3>1, <3>2 DEF PlainAll, sub
    <3>4. queried[j].text = "host"
      BY <3>1 DEF Remembered
    <3>5. sent[i].text = "host"
      <4> HIDE DEF j
      <4> QED BY <1>1, <3>1, <3>3, <3>4, PlainKeeps
    <3> QED BY <1>1, <3>1, <3>5 DEF Own
  <2>4. k0..(k0 + n - 1) = Own(sent)
    <3>1. IsFiniteSet(Own(sent)) /\ Cardinality(Own(sent)) = n
      BY OwnIs
    <3>2. Cardinality(k0..(k0 + n - 1)) = n
      <4>1. k0 \in Int /\ k0 + n - 1 \in Int
        BY <1>1, <2>2
      <4>2. Cardinality(k0..(k0 + n - 1)) = IF k0 > k0 + n - 1 THEN 0 ELSE (k0 + n - 1) - k0 + 1
        BY <4>1, FS_Interval
      <4> QED BY <1>1, <2>2, <4>2
    <3>3. k0..(k0 + n - 1) \in SUBSET Own(sent)
      BY <2>3
    <3> QED BY <3>1, <3>2, <3>3, FS_Subset
  <2>5. \A i \in 1..(k0 - 1) : sent[i].text = "native"
    <3> TAKE i \in 1..(k0 - 1)
    <3>1. i \in 1..N /\ i \notin k0..(k0 + n - 1)
      BY <1>1, <2>2
    <3>2. sent[i].text \in {"host", "longer", "native"}
      BY <1>1, <3>1 DEF Blocks
    <3> QED BY <1>1, <2>4, <3>1 DEF Own
  <2>6. /\ kept \in Seq(Blocks) /\ Len(kept) = N - k0 + 1 /\ DOMAIN kept = 1..(N - k0 + 1)
        /\ \A j \in 1..(N - k0 + 1) : kept[j] = sent[j + k0 - 1] /\ kept[j] \in Blocks
        /\ 1 \in 1..(N - k0 + 1)
    <3>1. n > 0
      <4>1. queried = [k \in 1..n |-> queried[k]]
        BY DEF Remembered
      <4>2. n = 0 => queried = <<>>
        <5>1. \A k \in 1..n : queried[k] = [kind |-> queried[k].kind, text |-> "host", mark |-> FALSE]
          BY DEF Remembered
        <5> QED BY <4>1
      <4> QED BY <1>1, <4>2
    <3> QED BY <1>1, <2>2, <3>1
  <2>7. Marked(dropped) => \E k \in 1..(k0 - 1) : sent[k].mark
    <3>1. DOMAIN dropped = 1..(k0 - 1) /\ \A k \in 1..(k0 - 1) : dropped[k] = sent[k]
      BY <1>1, <2>2
    <3> HIDE DEF dropped
    <3> QED BY <3>1 DEF Marked
  <2> DEFINE flag == kept[1].mark \/ Marked(dropped)
  <2> HIDE DEF kept, dropped, starts
  <2>8. new = [kept EXCEPT ![1] = Remark(kept[1], flag)]
    <3>1. flag \in BOOLEAN
      BY <2>6 DEF Blocks
    <3>2. [kept[1] EXCEPT !.mark = flag] = Remark(kept[1], flag)
      <4> HIDE DEF flag
      <4> QED BY <2>6, <3>1, RemarkIs
    <3> QED BY <3>2, Zenon
  <2> HIDE DEF new, flag
  <2>9. Remark(kept[1], flag) \in Blocks
    <3>1. flag \in BOOLEAN
      BY <2>6 DEF Blocks, flag
    <3> QED BY <2>6, <3>1 DEF Remark, Blocks
  <2>10. /\ new \in Seq(Blocks) /\ Len(new) = N - k0 + 1
         /\ new[1] = Remark(kept[1], flag)
         /\ \A j \in 1..(N - k0 + 1) : j # 1 => new[j] = kept[j]
    BY <2>6, <2>8, <2>9
  <2>11. Fronted(sent, new, k0 - 1)
    <3>1. k0 - 1 \in 0..(N - 1) /\ Len(new) = N - (k0 - 1) /\ N - (k0 - 1) = N - k0 + 1
      BY <1>1, <2>2, <2>10
    <3>2. ASSUME NEW j \in 1..(N - (k0 - 1))
          PROVE  /\ new[j].kind = sent[j + (k0 - 1)].kind /\ new[j].text = sent[j + (k0 - 1)].text
                 /\ new[j].mark => sent[j + (k0 - 1)].mark \/ (j = 1 /\ \E k \in 1..(k0 - 1) : sent[k].mark)
      <4>1. j \in 1..(N - k0 + 1) /\ j + (k0 - 1) = j + k0 - 1
        BY <1>1, <2>2
      <4>2. kept[j] = sent[j + (k0 - 1)]
        BY <2>6, <4>1
      <4>3. CASE j # 1
        BY <2>10, <4>1, <4>2, <4>3
      <4>4. CASE j = 1
        <5>1. new[j] = Remark(kept[j], flag)
          BY <2>10, <4>4
        <5>2. flag => kept[j].mark \/ \E k \in 1..(k0 - 1) : sent[k].mark
          BY <2>7, <4>4 DEF flag
        <5> QED BY <4>2, <4>4, <5>1, <5>2 DEF Remark
      <4> QED BY <4>3, <4>4
    <3> QED BY <2>5, <2>10, <3>1, <3>2 DEF Fronted
  <2>12. k0 - 1 \in 0..(Len(sent) - 1)
    BY <1>1, <2>2
  <2>13. r = new
    BY <1>2, <1>4
  <2> QED BY <2>11, <2>12, <2>13
<1> QED BY <1>3, <1>4

-----------------------------------------------------------------------------
(* Cache marks: lists with other blocks in one message.                    *)

\* The turn is a user's, and no message after it is.
LEMMA TurnIs ==
  ASSUME NEW m, Asked(m)
  PROVE  /\ m \in Messages /\ Turn(m) \in 1..Len(m) /\ Turn(m) \in Users(m)
         /\ \A i \in Users(m) : i \in 1..Len(m) /\ i <= Turn(m)
<1>1. m \in Messages /\ Turn(m) \in Users(m)
  BY DEF Asked
<1>2. Len(m) \in Nat /\ DOMAIN m = 1..Len(m)
  BY <1>1, Shape
<1>3. \A i \in Users(m) : i \in 1..Len(m) /\ m[i].role = "user"
  BY <1>2 DEF Users
<1>4. Turn(m) \in 1..Len(m)
  BY <1>1, <1>3
<1>5. \A i \in Users(m) : i <= Turn(m)
  <2> TAKE i \in Users(m)
  <2>1. ~(i > Turn(m))
    <3>1. i \in DOMAIN m /\ m[i].role # "system"
      BY <1>2, <1>3
    <3> QED BY <3>1 DEF Asked
  <2> QED BY <1>3, <1>4, <2>1
<1> QED BY <1>1, <1>3, <1>4, <1>5

\* The list with other blocks in one message.
WithBlocks(m, t, new) == [m EXCEPT ![t].blocks = new]

\* Only one of the two looks for a frame, and it looks in the turn.
LEMMA FramedIs ==
  ASSUME NEW m, Asked(m), NEW queried
  PROVE  LET t == Turn(m)
             framed == FrameFirst(StableContext(m, queried), queried)
         IN \/ framed = m
            \/ /\ queried # <<>>
               /\ framed = WithBlocks(m, t, DropBeforeFrame(m[t].blocks, queried))
<1> DEFINE t == Turn(m)
           dropped == [m EXCEPT ![t].blocks = DropBeforeFrame(m[t].blocks, queried)]
           stable == StableContext(m, queried)
           framed == FrameFirst(stable, queried)
<1>1. /\ m \in Messages /\ t \in 1..Len(m) /\ t \in Users(m) /\ Len(m) \in Nat
      /\ DOMAIN m = 1..Len(m) /\ \A i \in Users(m) : i \in 1..Len(m) /\ i <= t
  BY TurnIs, Shape
<1>2. dropped = [m EXCEPT ![t].blocks = DropBeforeFrame(@, queried)]
  OBVIOUS
<1>3. ASSUME Assistants(m) = {}
      PROVE  framed = m \/ (queried # <<>> /\ framed = dropped)
  <2>1. stable = m
    BY <1>3 DEF StableContext
  <2>2. t = 1
    BY <1>3 DEF Turn, LastAssistant
  <2>3. First(Users(m)) = t
    <3>1. Users(m) \in SUBSET Nat /\ Users(m) # {}
      BY <1>1
    <3>2. First(Users(m)) \in Users(m) /\ First(Users(m)) <= t
      BY <1>1, <3>1, FirstIs
    <3>3. First(Users(m)) \in 1..Len(m)
      BY <1>1, <3>2
    <3> QED BY <1>1, <2>2, <3>2, <3>3
  <2>4. FrameFirst(m, queried) = m \/ (queried # <<>> /\ FrameFirst(m, queried) = dropped)
    BY <1>2, <2>3 DEF FrameFirst
  <2> QED BY <2>1, <2>4
<1>4. ASSUME Assistants(m) # {}
      PROVE  framed = m \/ (queried # <<>> /\ framed = dropped)
  <2>1. Last(Users(m)) = t
    <3>1. Users(m) \in SUBSET (0..Len(m)) /\ Users(m) # {}
      BY <1>1
    <3>2. Last(Users(m)) \in Users(m) /\ t <= Last(Users(m))
      BY <1>1, <3>1, LastIs
    <3>3. Last(Users(m)) \in 1..Len(m) /\ Last(Users(m)) <= t
      BY <1>1, <3>2
    <3> QED BY <1>1, <3>2, <3>3
  <2>2. stable = m \/ (queried # <<>> /\ stable = dropped)
    BY <1>2, <2>1 DEF StableContext
  <2>3. Assistants(dropped) = Assistants(m)
    <3>1. DOMAIN dropped = DOMAIN m
      OBVIOUS
    <3>2. ASSUME NEW i \in DOMAIN m PROVE dropped[i].role = m[i].role
      <4>1. CASE i = t
        <5>1. dropped[i] = [m[t] EXCEPT !.blocks = DropBeforeFrame(m[t].blocks, queried)]
          BY <4>1
        <5>2. m[t] = [role |-> m[t].role, blocks |-> m[t].blocks]
          BY <1>1, Shape
        <5> HIDE DEF dropped, t
        <5> QED BY <4>1, <5>1, <5>2
      <4>2. CASE i # t
        BY <4>2
      <4> QED BY <4>1, <4>2
    <3> HIDE DEF dropped
    <3> QED BY <3>1, <3>2 DEF Assistants
  <2>4. framed = stable
    BY <1>4, <2>2, <2>3 DEF FrameFirst
  <2> QED BY <2>2, <2>4
<1>5. dropped = WithBlocks(m, t, DropBeforeFrame(m[t].blocks, queried))
  BY DEF WithBlocks
<1> HIDE DEF dropped, framed, t
<1>6. framed = m \/ (queried # <<>> /\ framed = WithBlocks(m, t, DropBeforeFrame(m[t].blocks, queried)))
  BY <1>3, <1>4, <1>5
<1> QED BY <1>6 DEF framed, t

\* A function on 1..n is a list.
LEMMA ListIs ==
  ASSUME NEW S, NEW n \in Nat, NEW f \in [1..n -> S]
  PROVE  f \in Seq(S) /\ Len(f) = n
OBVIOUS

\* A message with other blocks.
LEMMA ReplacedIs ==
  ASSUME NEW m \in Messages, NEW t \in 1..Len(m), NEW new \in Seq(Blocks), new # <<>>
  PROVE  LET r == WithBlocks(m, t, new)
         IN /\ r \in Messages /\ Len(r) = Len(m) /\ r[t].blocks = new
            /\ \A i \in 1..Len(m) : r[i].role = m[i].role /\ (i # t => r[i] = m[i])
<1> DEFINE set == [role : {"user", "assistant", "system"}, blocks : Seq(Blocks) \ {<<>>}]
           r == [m EXCEPT ![t].blocks = new]
<1>1. /\ Len(m) \in Nat /\ DOMAIN m = 1..Len(m)
      /\ m[t].role \in {"user", "assistant", "system"}
      /\ m[t] = [role |-> m[t].role, blocks |-> m[t].blocks]
  BY Shape
<1>2. /\ DOMAIN r = 1..Len(m) /\ r[t] = [role |-> m[t].role, blocks |-> new]
      /\ \A i \in 1..Len(m) : i # t => r[i] = m[i]
  <2>1. r[t] = [m[t] EXCEPT !.blocks = new]
    BY <1>1
  <2> QED BY <1>1, <2>1, RebuiltIs
<1>3. m \in Seq(set)
  BY DEF Messages
<1>4. [role |-> m[t].role, blocks |-> new] \in set
  <2> DEFINE lists == Seq(Blocks) \ {<<>>}
  <2>1. new \in lists
    OBVIOUS
  <2> HIDE DEF lists
  <2>2. [role |-> m[t].role, blocks |-> new] \in [role : {"user", "assistant", "system"}, blocks : lists]
    BY <1>1, <2>1
  <2> QED BY <2>2 DEF lists
<1> HIDE DEF set
<1>5. r = [i \in 1..Len(m) |-> r[i]]
  BY <1>1
<1> HIDE DEF r
<1>6. \A i \in 1..Len(m) : r[i] \in set
  BY <1>2, <1>3, <1>4
<1>7. r \in Seq(set) /\ Len(r) = Len(m)
  <2>1. Len(m) \in Nat
    BY <1>1
  <2>2. r \in [1..Len(m) -> set]
    BY <1>5, <1>6, Zenon
  <2>3. \A n \in Nat : \A f \in [1..n -> set] : f \in Seq(set) /\ Len(f) = n
    BY ListIs
  <2> QED BY <2>1, <2>2, <2>3
<1>8. /\ r \in Messages /\ Len(r) = Len(m) /\ r[t].blocks = new
      /\ \A i \in 1..Len(m) : r[i].role = m[i].role /\ (i # t => r[i] = m[i])
  <2>1. r \in Messages
    BY <1>7 DEF Messages, set
  <2>2. r[t].blocks = new
    BY <1>2
  <2> QED BY <1>2, <1>7, <2>1, <2>2
<1> QED BY <1>8 DEF r, WithBlocks

\* Messages with the same roles have the same turn.
LEMMA RolesAlike ==
  ASSUME NEW m, Asked(m), NEW r \in Messages, Len(r) = Len(m),
         \A i \in 1..Len(m) : r[i].role = m[i].role
  PROVE  Asked(r) /\ Turn(r) = Turn(m) /\ Users(r) = Users(m)
<1>1. m \in Messages
  BY DEF Asked
<1>2. DOMAIN r = DOMAIN m /\ DOMAIN m = 1..Len(m)
  BY <1>1, Shape
<1>3. Assistants(r) = Assistants(m) /\ Users(r) = Users(m)
  BY <1>2 DEF Assistants, Users
<1>4. Turn(r) = Turn(m)
  BY <1>3 DEF Turn, LastAssistant
<1> QED BY <1>2, <1>3, <1>4 DEF Asked

\* The message has its blocks fronted; the others stay, and there is no mark more.
LEMMA FrontedIs ==
  ASSUME NEW m \in Messages, NEW t \in 1..Len(m), NEW new, NEW d, Fronted(m[t].blocks, new, d)
  PROVE  LET r == WithBlocks(m, t, new)
         IN /\ r \in Messages /\ Len(r) = Len(m) /\ r[t].blocks = new
            /\ \A i \in 1..Len(m) : r[i].role = m[i].role /\ (i # t => r[i] = m[i])
            /\ Cardinality(Marks(r)) <= Cardinality(Marks(m))
<1> DEFINE old == m[t].blocks
           r == WithBlocks(m, t, new)
<1>1. old \in Seq(Blocks) /\ Len(old) \in Nat \ {0}
  BY Shape
<1>2. /\ d \in 0..(Len(old) - 1) /\ new \in Seq(Blocks) /\ Len(new) = Len(old) - d
      /\ Len(new) \in Nat \ {0}
  BY <1>1 DEF Fronted
<1>3. /\ r \in Messages /\ Len(r) = Len(m) /\ r[t].blocks = new
      /\ \A i \in 1..Len(m) : r[i].role = m[i].role /\ (i # t => r[i] = m[i])
  <2>1. new # <<>> /\ new \in Seq(Blocks)
    BY <1>2
  <2> QED BY <2>1, ReplacedIs
<1> HIDE DEF r
<1>4. r \in Messages /\ Len(r) = Len(m)
  BY <1>3
<1>6. Cardinality(Marks(r)) <= Cardinality(Marks(m))
  <2> DEFINE g == CHOOSE k \in 1..d : old[k].mark
             slot(p) == IF old[p[2] + d].mark THEN p[2] + d ELSE g
             to(p) == IF p[1] # t THEN p ELSE <<t, slot(p)>>
             f == [p \in Marks(r) |-> to(p)]
  <2>1. ASSUME NEW p \in Marks(r)
        PROVE  /\ p = <<p[1], p[2]>> /\ p[1] \in 1..Len(m) /\ p[2] \in Nat \ {0}
               /\ p[1] # t => p \in Marks(m)
               /\ p[1] = t => /\ p[2] + d \in 1..Len(old)
                              /\ old[p[2] + d].mark \/ (p[2] = 1 /\ g \in 1..d /\ old[g].mark)
    <3>1. p \in Positions(r) /\ At(r, p).mark
      BY DEF Marks
    <3>2. p = <<p[1], p[2]>> /\ p[1] \in 1..Len(m) /\ p[2] \in 1..Len(r[p[1]].blocks) /\ p[2] \in Nat
      BY <1>4, <3>1, PlaceIs
    <3>3. r[p[1]].blocks[p[2]].mark
      BY <3>1 DEF At
    <3>4. p[2] \in Nat \ {0}
      BY <3>2
    <3>5. ASSUME p[1] # t PROVE p \in Marks(m)
      <4>1. r[p[1]] = m[p[1]]
        BY <1>3, <3>2, <3>5
      <4>2. m[p[1]].blocks[p[2]].mark /\ p[2] \in 1..Len(m[p[1]].blocks)
        BY <3>2, <3>3, <4>1
      <4>3. <<p[1], p[2]>> \in Marks(m)
        BY <3>2, <4>2, MarksAre
      <4> QED BY <3>2, <4>3
    <3>6. ASSUME p[1] = t
          PROVE  /\ p[2] + d \in 1..Len(old)
                 /\ old[p[2] + d].mark \/ (p[2] = 1 /\ g \in 1..d /\ old[g].mark)
      <4>1. r[p[1]].blocks = new
        BY <1>3, <3>6
      <4>2. p[2] \in 1..(Len(old) - d)
        BY <1>2, <3>2, <4>1
      <4>3. new[p[2]].mark
        BY <3>3, <4>1
      <4>4. old[p[2] + d].mark \/ (p[2] = 1 /\ \E k \in 1..d : old[k].mark)
        BY <4>2, <4>3 DEF Fronted
      <4>5. p[2] + d \in 1..Len(old)
        BY <1>1, <1>2, <4>2
      <4>6. (\E k \in 1..d : old[k].mark) => g \in 1..d /\ old[g].mark
        BY Zenon
      <4> HIDE DEF g
      <4> QED BY <4>4, <4>5, <4>6, Zenon
    <3> QED BY <3>2, <3>4, <3>5, <3>6
  <2>2. ASSUME NEW p \in Marks(r) PROVE to(p) \in Marks(m)
    <3>1. CASE p[1] # t
      BY <2>1, <3>1
    <3>2. CASE p[1] = t /\ old[p[2] + d].mark
      <4>1. p[2] + d \in 1..Len(old) /\ to(p) = <<t, p[2] + d>>
        BY <2>1, <3>2
      <4> QED BY <3>2, <4>1, MarksAre
    <3>3. CASE p[1] = t /\ ~old[p[2] + d].mark
      <4>1. g \in 1..d /\ old[g].mark /\ to(p) = <<t, g>>
        BY <2>1, <3>3
      <4> HIDE DEF g
      <4>2. g \in 1..Len(old)
        BY <1>1, <1>2, <4>1
      <4> QED BY <4>1, <4>2, MarksAre
    <3> QED BY <3>1, <3>2, <3>3
  <2>3. ASSUME NEW p \in Marks(r), NEW q \in Marks(r), to(p) = to(q) PROVE p = q
    <3>0. /\ p = <<p[1], p[2]>> /\ q = <<q[1], q[2]>>
          /\ p[2] \in Nat \ {0} /\ q[2] \in Nat \ {0} /\ d \in Nat
      <4>1. d \in Nat
        BY <1>1, <1>2
      <4>2. p = <<p[1], p[2]>> /\ p[2] \in Nat \ {0}
        BY <2>1
      <4>3. q = <<q[1], q[2]>> /\ q[2] \in Nat \ {0}
        BY <2>1
      <4> QED BY <4>1, <4>2, <4>3
    <3>1. CASE p[1] # t
      <4>1. to(p) = p
        BY <3>1
      <4>2. q[1] # t
        <5>1. q[1] = t => to(q)[1] = t
          OBVIOUS
        <5> HIDE DEF to
        <5> QED BY <2>3, <3>1, <4>1, <5>1
      <4>3. to(q) = q
        BY <4>2
      <4> HIDE DEF to
      <4> QED BY <2>3, <4>1, <4>3
    <3>2. CASE p[1] = t
      <4>1. q[1] = t
        <5>1. to(p)[1] = t
          BY <3>2
        <5>2. q[1] # t => to(q) = q
          OBVIOUS
        <5> HIDE DEF to
        <5> QED BY <2>3, <5>1, <5>2
      <4>2. to(p) = <<t, slot(p)>> /\ to(q) = <<t, slot(q)>>
        <5> HIDE DEF slot
        <5> QED BY <3>2, <4>1
      <4>3. slot(p) = slot(q)
        <5> HIDE DEF to, slot
        <5>1. <<t, slot(p)>> = <<t, slot(q)>>
          BY <2>3, <4>2
        <5> QED BY <5>1
      <4>4. /\ old[p[2] + d].mark \/ (p[2] = 1 /\ g \in 1..d)
            /\ old[q[2] + d].mark \/ (q[2] = 1 /\ g \in 1..d)
        BY <2>1, <3>2, <4>1
      <4>5. p[2] = q[2]
        <5> HIDE DEF g
        <5> QED BY <3>0, <4>3, <4>4
      <4> QED BY <3>0, <3>2, <4>1, <4>5
    <3> QED BY <3>1, <3>2
  <2>4. f \in Injection(Marks(r), Marks(m))
    <3> HIDE DEF to
    <3> QED BY <2>2, <2>3 DEF Injection, IsInjective
  <2>5. IsFiniteSet(Marks(m))
    BY PlacesFinite
  <2> HIDE DEF f
  <2> QED BY <2>4, <2>5, FS_Injection
<1> QED BY <1>3, <1>6 DEF r

-----------------------------------------------------------------------------
(* Cache marks: Hermes' own form.                                          *)

\* Hermes' own form, marked as native marked it; what is not in it had no mark.
Restored(old, new, queried) ==
  /\ new \in Seq(Blocks) /\ Len(new) = Len(queried) /\ Len(queried) \in 1..Len(old)
  /\ \A k \in 1..Len(queried) : new[k] = Remark(queried[k], old[k].mark)
  /\ \A k \in (Len(queried) + 1)..Len(old) : ~old[k].mark

\* The fields of a block marked so.
LEMMA RemarkHas ==
  ASSUME NEW block, NEW flag \in BOOLEAN
  PROVE  /\ Remark(block, flag).kind = block.kind /\ Remark(block, flag).text = block.text
         /\ Remark(block, flag).mark = flag
BY DEF Remark

\* The turn stays as it was sent, or gets Hermes' own form.
LEMMA RestoreIs ==
  ASSUME NEW m, Asked(m), NEW queried, Remembered(queried)
  PROVE  \/ Restore(m, queried) = m
         \/ \E new : /\ Restored(m[Turn(m)].blocks, new, queried)
                     /\ Restore(m, queried) = WithBlocks(m, Turn(m), new)
<1> DEFINE t == Turn(m)
           sent == m[t].blocks
           n == Len(queried)
           Same(k) == /\ sent[k].kind = queried[k].kind
                      /\ \/ sent[k].text = queried[k].text
                         \/ /\ sent[k].text = "longer"
                            /\ (sent[k].kind = "result" \/ (k = n /\ ~sent[k].mark))
           own == /\ \E k \in 1..n : queried[k].kind = "result"
                  /\ t <= Len(m) /\ m[t].role = "user" /\ n <= Len(sent)
                  /\ \A k \in 1..n : Same(k)
                  /\ \A k \in (n + 1)..Len(sent) : sent[k].kind = "text" /\ ~sent[k].mark
           new == [k \in 1..n |-> [queried[k] EXCEPT !.mark = sent[k].mark]]
<1>1. Restore(m, queried) = IF own THEN WithBlocks(m, t, new) ELSE m
  BY Zenon DEF Restore, WithBlocks
<1>2. ASSUME own PROVE Restored(sent, new, queried)
  <2>1. /\ m \in Messages /\ t \in 1..Len(m)
        /\ sent \in Seq(Blocks) /\ Len(sent) \in Nat /\ \A k \in 1..Len(sent) : sent[k] \in Blocks
    BY TurnIs, Shape
  <2>2. n \in 1..Len(sent)
    <3>1. n \in Nat
      BY DEF Remembered
    <3>2. n # 0 /\ n <= Len(sent)
      BY <1>2, <3>1
    <3> QED BY <2>1, <3>1, <3>2
  <2>3. ASSUME NEW k \in 1..n
        PROVE  new[k] = Remark(queried[k], sent[k].mark) /\ new[k] \in Blocks
    <3>1. queried[k] = [kind |-> queried[k].kind, text |-> "host", mark |-> FALSE]
      BY DEF Remembered
    <3>2. k \in 1..Len(sent)
      BY <2>1, <2>2
    <3>3. sent[k].mark \in BOOLEAN /\ sent[k].kind \in {"text", "result", "thinking", "use"}
      BY <2>1, <3>2 DEF Blocks
    <3>4. sent[k].kind = queried[k].kind
      BY <1>2
    <3>5. new[k] = [queried[k] EXCEPT !.mark = sent[k].mark]
      OBVIOUS
    <3>6. queried[k] \in Blocks
      <4>1. FALSE \in BOOLEAN
        OBVIOUS
      <4>2. \A flag \in BOOLEAN : [kind |-> queried[k].kind, text |-> "host", mark |-> flag] \in Blocks
        BY <3>3, <3>4 DEF Blocks
      <4>3. [kind |-> queried[k].kind, text |-> "host", mark |-> FALSE] \in Blocks
        BY <4>1, <4>2, Zenon
      <4> QED BY <3>1, <4>3
    <3> HIDE DEF sent, new, n
    <3>7. new[k] = Remark(queried[k], sent[k].mark)
      BY <3>3, <3>5, <3>6, RemarkIs
    <3>8. queried[k].text \in {"host", "longer", "native"} /\ queried[k].kind \in {"text", "result", "thinking", "use"}
      BY <3>6 DEF Blocks
    <3> QED BY <3>3, <3>7, <3>8 DEF Remark, Blocks
  <2>4. new \in Seq(Blocks) /\ Len(new) = n
    <3>1. new \in [1..n -> Blocks]
      BY <2>3
    <3>2. n \in Nat
      BY <2>1, <2>2
    <3> HIDE DEF new, n
    <3> QED BY <3>1, <3>2, ListIs
  <2>5. \A k \in (n + 1)..Len(sent) : ~sent[k].mark
    BY <1>2
  <2> HIDE DEF new, sent
  <2> QED BY <2>2, <2>3, <2>4, <2>5 DEF Restored
<1> HIDE DEF own, new
<1>3. CASE own
  BY <1>1, <1>2, <1>3
<1>4. CASE ~own
  BY <1>1, <1>4
<1> QED BY <1>3, <1>4

\* Hermes' own form has native's marks and none of native's text.
LEMMA RestoredIs ==
  ASSUME NEW m, Asked(m), NEW queried, Remembered(queried), NEW new,
         Restored(m[Turn(m)].blocks, new, queried),
         NEW own, own = WithBlocks(m, Turn(m), new)
  PROVE  /\ Asked(own) /\ Turn(own) = Turn(m) /\ Len(own) = Len(m) /\ Marks(own) = Marks(m)
         /\ \A i \in 1..Len(m) : own[i].role = m[i].role /\ (i # Turn(m) => own[i] = m[i])
         /\ Len(queried) = Cardinality(Own(own[Turn(m)].blocks))
         /\ PlainAll(own[Turn(m)].blocks) = queried
         /\ \A k \in 1..Len(own[Turn(m)].blocks) : own[Turn(m)].blocks[k].text = "host"
<1> DEFINE t == Turn(m)
           old == m[t].blocks
           n == Len(queried)
           r == WithBlocks(m, t, new)
<1>1. /\ m \in Messages /\ t \in 1..Len(m) /\ Len(m) \in Nat
      /\ Len(old) \in Nat
  BY TurnIs, Shape
<1>2. /\ new \in Seq(Blocks) /\ Len(new) = n /\ n \in 1..Len(old)
      /\ \A k \in 1..n : new[k] = Remark(queried[k], old[k].mark)
      /\ \A k \in (n + 1)..Len(old) : ~old[k].mark
  BY DEF Restored
<1>3. DOMAIN new = 1..n /\ n \in Nat /\ new # <<>> /\ \A k \in 1..n : new[k] \in Blocks
  BY <1>1, <1>2
<1>4. /\ r \in Messages /\ Len(r) = Len(m) /\ r[t].blocks = new
      /\ \A i \in 1..Len(m) : r[i].role = m[i].role /\ (i # t => r[i] = m[i])
  BY <1>1, <1>2, <1>3, ReplacedIs
<1>5. \A k \in 1..n : queried[k] = [kind |-> queried[k].kind, text |-> "host", mark |-> FALSE]
  BY DEF Remembered
<1>6. \A k \in 1..n : /\ new[k].kind = queried[k].kind /\ new[k].text = "host"
                      /\ new[k].mark = old[k].mark
  <2> TAKE k \in 1..n
  <2>1. old[k].mark \in BOOLEAN
    <3>1. k \in 1..Len(old)
      BY <1>1, <1>2
    <3> QED BY <1>1, <3>1, Shape DEF Blocks
  <2>2. new[k] = Remark(queried[k], old[k].mark)
    BY <1>2
  <2>3. queried[k].text = "host"
    BY DEF Remembered
  <2> QED BY <2>1, <2>2, <2>3, RemarkHas
<1>7. PlainAll(new) = queried
  <2>1. \A k \in 1..n : Plain(new[k]) = queried[k]
    BY <1>3, <1>5, <1>6, PlainIs
  <2>2. queried = [k \in 1..n |-> queried[k]]
    BY DEF Remembered
  <2> QED BY <1>3, <2>1, <2>2 DEF PlainAll
<1>8. Cardinality(Own(new)) = n
  <2>1. Own(new) = 1..n
    BY <1>3, <1>6 DEF Own
  <2>2. 1 \in Int /\ n \in Int /\ ~(1 > n) /\ n - 1 + 1 = n
    BY <1>1, <1>2
  <2>3. Cardinality(1..n) = IF 1 > n THEN 0 ELSE n - 1 + 1
    BY <2>2, FS_Interval
  <2> QED BY <2>1, <2>2, <2>3
<1>9. Marks(r) = Marks(m)
  <2>1. ASSUME NEW p \in Marks(r) PROVE p \in Marks(m)
    <3>1. p \in Positions(r) /\ r[p[1]].blocks[p[2]].mark
      BY DEF Marks, At
    <3>2. p = <<p[1], p[2]>> /\ p[1] \in 1..Len(m) /\ p[2] \in 1..Len(r[p[1]].blocks)
      BY <1>4, <3>1, PlaceIs
    <3>3. p[2] \in 1..Len(m[p[1]].blocks) /\ m[p[1]].blocks[p[2]].mark
      <4>1. CASE p[1] = t
        <5>1. p[2] \in 1..n
          BY <1>2, <1>4, <3>2, <4>1
        <5>2. p[2] \in 1..Len(m[p[1]].blocks)
          BY <1>1, <1>2, <4>1, <5>1
        <5>3. new[p[2]].mark
          BY <1>4, <3>1, <4>1
        <5>4. m[p[1]].blocks[p[2]].mark
          BY <1>6, <4>1, <5>1, <5>3
        <5> QED BY <5>2, <5>4
      <4>2. CASE p[1] # t
        BY <1>4, <3>1, <3>2, <4>2
      <4> QED BY <4>1, <4>2
    <3>4. <<p[1], p[2]>> \in Marks(m)
      BY <1>1, <3>2, <3>3, MarksAre
    <3> QED BY <3>2, <3>4
  <2>2. ASSUME NEW p \in Marks(m) PROVE p \in Marks(r)
    <3>1. p \in Positions(m) /\ m[p[1]].blocks[p[2]].mark
      BY DEF Marks, At
    <3>2. p = <<p[1], p[2]>> /\ p[1] \in 1..Len(m) /\ p[2] \in 1..Len(m[p[1]].blocks)
      BY <1>1, <3>1, PlaceIs
    <3>3. p[2] \in 1..Len(r[p[1]].blocks) /\ r[p[1]].blocks[p[2]].mark
      <4>1. CASE p[1] = t
        <5>1. p[2] \in 1..n
          BY <1>1, <1>2, <3>1, <3>2, <4>1
        <5> QED BY <1>2, <1>4, <1>6, <3>1, <4>1, <5>1
      <4>2. CASE p[1] # t
        BY <1>4, <3>1, <3>2, <4>2
      <4> QED BY <4>1, <4>2
    <3>4. <<p[1], p[2]>> \in Marks(r)
      BY <1>4, <3>2, <3>3, MarksAre
    <3> QED BY <3>2, <3>4
  <2> QED BY <2>1, <2>2
<1>10. Asked(r) /\ Turn(r) = t
  BY <1>4, RolesAlike
<1>11. own = r
  OBVIOUS
<1> HIDE DEF r
<1> QED BY <1>2, <1>4, <1>6, <1>7, <1>8, <1>9, <1>10, <1>11

-----------------------------------------------------------------------------
(* Cache marks: what was queried, and the pins.                            *)

\* A set of numbers has an n-th element for every n up to its size: the first
\* number up to which it has n.
LEMMA NthIs ==
  ASSUME NEW N \in Nat, NEW S \in SUBSET (1..N), NEW n \in 1..Cardinality(S)
  PROVE  Nth(S, n) \in S
<1> DEFINE upTo(k) == {j \in S : j <= k}
           enough == {k \in Nat : Cardinality(upTo(k)) >= n}
           k0 == First(enough)
<1>1. IsFiniteSet(S) /\ Cardinality(S) \in Nat
  <2>1. 1 \in Int /\ N \in Int
    OBVIOUS
  <2>2. IsFiniteSet(1..N)
    BY <2>1, FS_Interval
  <2> QED BY <2>2, FS_Subset, FS_CardinalityType
<1>0. \A j \in S : j \in Nat /\ j >= 1 /\ j <= N
  OBVIOUS
<1>2. ASSUME NEW k \in Nat PROVE IsFiniteSet(upTo(k)) /\ Cardinality(upTo(k)) \in Nat
  <2>1. upTo(k) \in SUBSET S
    OBVIOUS
  <2> HIDE DEF upTo
  <2> QED BY <1>1, <2>1, FS_Subset, FS_CardinalityType
<1>3. N \in enough
  <2>1. upTo(N) = S
    BY <1>0
  <2> HIDE DEF upTo
  <2> QED BY <1>1, <2>1
<1>4. k0 \in enough /\ \A k \in enough : k0 <= k
  <2>1. enough \in SUBSET Nat /\ enough # {}
    BY <1>3
  <2> HIDE DEF enough
  <2> QED BY <2>1, FirstIs
<1> HIDE DEF k0
<1>5. k0 \in Nat /\ Cardinality(upTo(k0)) >= n
  <2> HIDE DEF upTo
  <2> QED BY <1>4
<1>6. k0 # 0
  <2>1. upTo(0) = {}
    <3>1. \A j \in S : ~(j <= 0)
      BY <1>0
    <3> QED BY <3>1, Zenon
  <2>2. Cardinality(upTo(0)) = 0
    <3> HIDE DEF upTo
    <3> QED BY <2>1, FS_EmptySet
  <2> HIDE DEF upTo
  <2> QED BY <1>1, <1>5, <2>2
<1>7. k0 - 1 \in Nat /\ Cardinality(upTo(k0 - 1)) < n
  <2>1. k0 - 1 \in Nat
    BY <1>5, <1>6
  <2>2. k0 - 1 \notin enough
    <3> HIDE DEF enough
    <3> QED BY <1>4, <1>5
  <2>3. Cardinality(upTo(k0 - 1)) \in Nat
    BY <1>2, <2>1
  <2> HIDE DEF upTo
  <2> QED BY <1>1, <2>1, <2>2, <2>3
<1>8. k0 \in S
  <2>1. k0 \notin S => upTo(k0) = upTo(k0 - 1)
    <3>1. \A j \in S : j # k0 => (j <= k0 <=> j <= k0 - 1)
      BY <1>0, <1>5
    <3> QED BY <3>1
  <2> HIDE DEF upTo
  <2> QED BY <1>1, <1>2, <1>5, <1>7, <2>1
<1>9. Cardinality(upTo(k0)) = n
  <2>1. upTo(k0) = upTo(k0 - 1) \cup {k0}
    <3>1. \A j \in S : j <= k0 <=> (j <= k0 - 1 \/ j = k0)
      BY <1>0, <1>5
    <3>2. k0 \in S /\ k0 <= k0
      BY <1>5, <1>8
    <3> QED BY <3>1, <3>2
  <2>2. IsFiniteSet(upTo(k0 - 1)) /\ Cardinality(upTo(k0 - 1)) \in Nat
    BY <1>2, <1>7
  <2> HIDE DEF upTo
  <2>3. /\ Cardinality(upTo(k0)) <= Cardinality(upTo(k0 - 1)) + 1
        /\ Cardinality(upTo(k0)) \in Nat
    BY <2>1, <2>2, OneMore
  <2> QED BY <1>1, <1>5, <1>7, <2>2, <2>3
<1> QED BY <1>8, <1>9, Zenon DEF Nth

\* What Hermes queried, of every request.
LEMMA QueriedIs ==
  ASSUME NEW m, Asked(m)
  PROVE  /\ Remembered(Queried(m))
         /\ Len(Queried(m)) = Cardinality(Own(m[Turn(m)].blocks))
<1> DEFINE sent == m[Turn(m)].blocks
           n == Cardinality(Own(sent))
           queried == Queried(m)
<1>1. m \in Messages /\ Turn(m) \in 1..Len(m)
  BY TurnIs
<1>2. n \in Nat
  BY <1>1, Shape, OwnIs
<1> DEFINE one(k) == [kind |-> sent[Nth(Own(sent), k)].kind, text |-> "host", mark |-> FALSE]
<1>3. queried = [k \in 1..n |-> one(k)]
  BY Zenon DEF Queried
<1>4. Len(queried) = n
  <2> HIDE DEF n, one, queried
  <2> QED BY <1>2, <1>3
<1>5. \A k \in 1..n : queried[k] = one(k)
  <2> HIDE DEF n, one, queried
  <2> QED BY <1>3
<1>6. \A k \in 1..n : queried[k] = [kind |-> queried[k].kind, text |-> "host", mark |-> FALSE]
  <2> TAKE k \in 1..n
  <2>1. queried[k].kind = sent[Nth(Own(sent), k)].kind
    <3>1. one(k).kind = sent[Nth(Own(sent), k)].kind
      BY Zenon
    <3> HIDE DEF one, queried, n
    <3> QED BY <1>5, <3>1
  <2> HIDE DEF queried, n
  <2> QED BY <1>5, <2>1
<1>7. queried = [k \in 1..n |-> queried[k]]
  <2> HIDE DEF n, one, queried
  <2> QED BY <1>3
<1> HIDE DEF queried, n
<1>8. Remembered(queried)
  BY <1>2, <1>4, <1>6, <1>7 DEF Remembered
<1> QED BY <1>4, <1>8 DEF queried, n

\* It does not depend on the marks.
LEMMA TwinQueried ==
  ASSUME NEW a, NEW b, Asked(a), Twins(a, b)
  PROVE  Asked(b) /\ Turn(b) = Turn(a) /\ Queried(b) = Queried(a)
<1> DEFINE t == Turn(a)
           x == a[t].blocks
           y == b[t].blocks
<1>1. /\ a \in Messages /\ b \in Messages /\ t \in 1..Len(a) /\ Len(b) = Len(a)
      /\ \A i \in 1..Len(a) : b[i].role = a[i].role
  BY TurnIs DEF Twins
<1>2. Asked(b) /\ Turn(b) = t
  BY <1>1, RolesAlike
<1>3. /\ Len(x) \in Nat /\ DOMAIN x = 1..Len(x) /\ DOMAIN y = DOMAIN x
      /\ x \in Seq(Blocks)
      /\ \A j \in 1..Len(x) : y[j].kind = x[j].kind /\ y[j].text = x[j].text
  <2>1. Len(y) = Len(x) /\ \A j \in 1..Len(x) : y[j].kind = x[j].kind /\ y[j].text = x[j].text
    BY <1>1 DEF Twins
  <2>2. DOMAIN y = 1..Len(y)
    BY <1>1, Shape
  <2> QED BY <1>1, <2>1, <2>2, Shape
<1> HIDE DEF x, y, t
<1>4. Own(y) = Own(x)
  BY <1>3 DEF Own
<1>5. \A n \in 1..Cardinality(Own(x)) : y[Nth(Own(x), n)].kind = x[Nth(Own(x), n)].kind
  <2> TAKE n \in 1..Cardinality(Own(x))
  <2>1. Own(x) \in SUBSET (1..Len(x))
    BY <1>3, OwnIs
  <2>2. Nth(Own(x), n) \in Own(x)
    BY <1>3, <2>1, NthIs
  <2> QED BY <1>3, <2>1, <2>2
<1> DEFINE one(z, n) == [kind |-> z[Nth(Own(x), n)].kind, text |-> "host", mark |-> FALSE]
<1>6. Queried(a) = [n \in 1..Cardinality(Own(x)) |-> one(x, n)]
  BY Zenon DEF Queried, x, t
<1>7. Queried(b) = [n \in 1..Cardinality(Own(x)) |-> one(y, n)]
  <2>1. Queried(b) = [n \in 1..Cardinality(Own(y)) |->
                        [kind |-> y[Nth(Own(y), n)].kind, text |-> "host", mark |-> FALSE]]
    BY <1>2, Zenon DEF Queried, y
  <2> QED BY <1>4, <2>1
<1>8. \A n \in 1..Cardinality(Own(x)) : one(y, n) = one(x, n)
  BY <1>5
<1> HIDE DEF one
<1>9. Queried(b) = Queried(a)
  BY <1>6, <1>7, <1>8
<1> QED BY <1>2, <1>9 DEF t

\* What pinning leaves: the same blocks, at most a mark more and that within the
\* limit, and none after the last block that recurs.
LEMMA PinIs ==
  ASSUME NEW m, NEW queried, Len(queried) \in Nat, NEW elsewhere \in Nat,
         FrameFirst(m, queried) \in Messages
  PROVE  LET framed == FrameFirst(m, queried)
             r == Pin(m, queried, elsewhere)
         IN /\ Twins(framed, r)
            /\ Cardinality(Marks(r)) <= Cardinality(Marks(framed)) + 1
            /\ Cardinality(Marks(framed)) + elsewhere <= MaxMarks
                 => Cardinality(Marks(r)) + elsewhere <= MaxMarks
            /\ queried # <<>> /\ Targets(r, queried) # {}
                 => \A p \in Marks(r) : ~Before(Latest(Targets(r, queried)), p)
<1> DEFINE framed == FrameFirst(m, queried)
           r == Pin(m, queried, elsewhere)
           targets == Targets(framed, queried)
           target == Latest(targets)
           folded == Fold(framed, target)
           stay == queried = <<>> \/ targets = {} \/ Marks(framed) = {}
<1>1. r = IF stay THEN framed ELSE KeepTurnMark(folded, target, elsewhere)
  BY DEF Pin
<1>2. /\ framed \in Messages /\ IsFiniteSet(Marks(framed)) /\ Cardinality(Marks(framed)) \in Nat
      /\ MaxMarks \in Nat
  BY PlacesFinite, FS_CardinalityType, MarksAssumption
<1> HIDE DEF framed
<1>3. CASE stay
  <2>1. r = framed
    BY <1>1, <1>3
  <2>2. Twins(framed, framed)
    BY <1>2, TwinsSame
  <2>3. Cardinality(Marks(framed)) <= Cardinality(Marks(framed)) + 1
    BY <1>2
  <2>4. queried = <<>> \/ Targets(r, queried) = {} \/ Marks(r) = {}
    BY <1>3, <2>1
  <2> HIDE DEF r
  <2>5. /\ Twins(framed, r)
        /\ Cardinality(Marks(r)) <= Cardinality(Marks(framed)) + 1
        /\ Cardinality(Marks(framed)) + elsewhere <= MaxMarks
             => Cardinality(Marks(r)) + elsewhere <= MaxMarks
    BY <2>1, <2>2, <2>3
  <2> QED BY <2>4, <2>5 DEF r, framed
<1>4. CASE ~stay
  <2>1. r = KeepTurnMark(folded, target, elsewhere) /\ targets # {}
    BY <1>1, <1>4
  <2>2. target \in Positions(framed)
    <3>1. targets \in SUBSET Positions(framed)
      BY DEF Targets, Recurring
    <3> HIDE DEF targets
    <3>2. Latest(targets) \in targets
      BY <1>2, <2>1, <3>1, LatestIs
    <3> QED BY <3>1, <3>2
  <2> HIDE DEF target
  <2>3. /\ Twins(framed, folded)
        /\ Cardinality(Marks(folded)) <= Cardinality(Marks(framed))
        /\ \A p \in Marks(folded) : ~Before(target, p)
    BY <1>2, <2>2, FoldMarks
  <2> HIDE DEF folded
  <2>4. folded \in Messages /\ target \in Positions(folded)
    BY <2>2, <2>3, TwinsAlike DEF Twins
  <2> HIDE DEF r
  <2>5. /\ Twins(folded, r)
        /\ Cardinality(Marks(r)) <= Cardinality(Marks(folded)) + 1
        /\ Cardinality(Marks(folded)) + elsewhere <= MaxMarks
             => Cardinality(Marks(r)) + elsewhere <= MaxMarks
        /\ \A p \in Marks(r) : p \in Marks(folded) \/ (p \in Positions(folded) /\ Before(p, target))
    BY <2>1, <2>4, KeepMarks
  <2>6. Twins(framed, r) /\ r \in Messages
    BY <2>3, <2>5, TwinsChain DEF Twins
  <2>7. Cardinality(Marks(folded)) \in Nat /\ Cardinality(Marks(r)) \in Nat
    BY <2>4, <2>6, PlacesFinite, FS_CardinalityType
  <2>8. Targets(r, queried) = targets
    BY <2>6, TwinTargets
  <2>9. \A p \in Marks(r) : ~Before(target, p)
    <3> TAKE p \in Marks(r)
    <3>1. CASE p \in Marks(folded)
      BY <2>3, <3>1
    <3>2. CASE p \in Positions(folded) /\ Before(p, target)
      BY <2>4, <3>2, OneWay
    <3> QED BY <2>5, <3>1, <3>2
  <2>10. /\ Cardinality(Marks(r)) <= Cardinality(Marks(framed)) + 1
         /\ Cardinality(Marks(framed)) + elsewhere <= MaxMarks
              => Cardinality(Marks(r)) + elsewhere <= MaxMarks
    <3> DEFINE a == Cardinality(Marks(framed))
               b == Cardinality(Marks(folded))
               c == Cardinality(Marks(r))
    <3>1. /\ a \in Nat /\ b \in Nat /\ c \in Nat /\ b <= a /\ c <= b + 1 /\ MaxMarks \in Nat
          /\ b + elsewhere <= MaxMarks => c + elsewhere <= MaxMarks
      BY <1>2, <2>3, <2>5, <2>7
    <3> HIDE DEF a, b, c
    <3>2. c <= a + 1 /\ (a + elsewhere <= MaxMarks => c + elsewhere <= MaxMarks)
      BY <3>1
    <3> QED BY <3>2 DEF a, c
  <2> HIDE DEF targets
  <2>11. queried # <<>> /\ Targets(r, queried) # {}
           => \A p \in Marks(r) : ~Before(Latest(Targets(r, queried)), p)
    BY <2>8, <2>9 DEF target
  <2> QED BY <2>6, <2>10, <2>11 DEF r, framed
<1> QED BY <1>3, <1>4

-----------------------------------------------------------------------------
(* Cache marks: the whole rewrite.                                         *)

\* Blocks of the same kinds and texts are the same but for their marks.
LEMMA PlainAlike ==
  ASSUME NEW x \in Seq(Blocks), NEW y \in Seq(Blocks), Len(x) = Len(y),
         \A j \in 1..Len(x) : x[j].kind = y[j].kind /\ x[j].text = y[j].text
  PROVE  PlainAll(x) = PlainAll(y)
<1>1. /\ DOMAIN x = 1..Len(x) /\ DOMAIN y = 1..Len(x)
      /\ \A j \in 1..Len(x) : x[j] \in Blocks /\ y[j] \in Blocks
  OBVIOUS
<1>2. \A j \in 1..Len(x) : Plain(x[j]) = Plain(y[j])
  BY <1>1, PlainIs
<1> QED BY <1>1, <1>2 DEF PlainAll

\* The blocks without their front are the old ones from there on.
LEMMA FrontedText ==
  ASSUME NEW old \in Seq(Blocks), NEW new, NEW d, Fronted(old, new, d)
  PROVE  PlainAll(new) = PlainAll(SubSeq(old, d + 1, Len(old)))
<1> DEFINE rest == SubSeq(old, d + 1, Len(old))
<1>1. /\ d \in 0..(Len(old) - 1) /\ Len(old) \in Nat /\ new \in Seq(Blocks) /\ Len(new) = Len(old) - d
      /\ \A j \in 1..(Len(old) - d) : new[j].kind = old[j + d].kind /\ new[j].text = old[j + d].text
  BY DEF Fronted
<1>2. /\ rest \in Seq(Blocks) /\ Len(rest) = Len(old) - d
      /\ \A j \in 1..(Len(old) - d) : rest[j] = old[j + d]
  BY <1>1
<1> HIDE DEF rest
<1>3. PlainAll(new) = PlainAll(rest)
  BY <1>1, <1>2, PlainAlike
<1> QED BY <1>3 DEF rest

\* The two passes between Hermes' form and the pins, on a list whose turn has as
\* many blocks of Hermes' as it queried.
LEMMA FramesIs ==
  ASSUME NEW m, Asked(m), NEW queried, Remembered(queried),
         Len(queried) = Cardinality(Own(m[Turn(m)].blocks))
  PROVE  LET t == Turn(m)
             framed == FrameFirst(StableContext(m, queried), queried)
         IN /\ framed \in Messages /\ Len(framed) = Len(m)
            /\ \A i \in 1..Len(m) : framed[i].role = m[i].role /\ (i # t => framed[i] = m[i])
            /\ \E d \in 0..(Len(m[t].blocks) - 1) : Fronted(m[t].blocks, framed[t].blocks, d)
            /\ Cardinality(Marks(framed)) <= Cardinality(Marks(m))
<1> DEFINE t == Turn(m)
           old == m[t].blocks
           framed == FrameFirst(StableContext(m, queried), queried)
           new == DropBeforeFrame(old, queried)
           changed == WithBlocks(m, t, new)
<1>1. /\ m \in Messages /\ t \in 1..Len(m) /\ old \in Seq(Blocks) /\ Len(old) \in Nat \ {0}
      /\ old # <<>> /\ Cardinality(Marks(m)) \in Nat
  <2>1. m \in Messages /\ t \in 1..Len(m)
    BY TurnIs
  <2>2. old \in Seq(Blocks) /\ Len(old) \in Nat \ {0}
    BY <2>1, Shape
  <2>3. old # <<>>
    BY <2>2
  <2>4. Cardinality(Marks(m)) \in Nat
    BY <2>1, PlacesFinite, FS_CardinalityType
  <2> QED BY <2>1, <2>2, <2>3, <2>4
<1>2. framed = m \/ (queried # <<>> /\ framed = changed)
  BY FramedIs
<1>3. CASE framed = m
  <2>1. Fronted(old, old, 0)
    BY <1>1 DEF Fronted
  <2>2. 0 \in 0..(Len(old) - 1)
    BY <1>1
  <2> HIDE DEF framed
  <2>3. /\ framed \in Messages /\ Len(framed) = Len(m)
        /\ \A i \in 1..Len(m) : framed[i].role = m[i].role /\ (i # t => framed[i] = m[i])
        /\ Cardinality(Marks(framed)) <= Cardinality(Marks(m))
    BY <1>1, <1>3
  <2>4. \E d \in 0..(Len(old) - 1) : Fronted(old, framed[t].blocks, d)
    BY <1>3, <2>1, <2>2
  <2> QED BY <2>3, <2>4 DEF framed
<1>4. CASE queried # <<>> /\ framed = changed
  <2>1. PICK d \in 0..(Len(old) - 1) : Fronted(old, new, d)
    BY <1>1, <1>4, DropIs
  <2> HIDE DEF new
  <2>2. /\ changed \in Messages /\ Len(changed) = Len(m) /\ changed[t].blocks = new
        /\ \A i \in 1..Len(m) : changed[i].role = m[i].role /\ (i # t => changed[i] = m[i])
        /\ Cardinality(Marks(changed)) <= Cardinality(Marks(m))
    BY <1>1, <2>1, FrontedIs
  <2> HIDE DEF changed, framed
  <2>3. /\ framed \in Messages /\ Len(framed) = Len(m)
        /\ \A i \in 1..Len(m) : framed[i].role = m[i].role /\ (i # t => framed[i] = m[i])
        /\ Cardinality(Marks(framed)) <= Cardinality(Marks(m))
    BY <1>4, <2>2
  <2>4. \E e \in 0..(Len(old) - 1) : Fronted(old, framed[t].blocks, e)
    BY <1>4, <2>1, <2>2
  <2> QED BY <2>3, <2>4 DEF framed
<1> QED BY <1>2, <1>3, <1>4

\* The turn as native sent it or as Hermes queried it; the rest and the marks stay.
LEMMA OwnFormIs ==
  ASSUME NEW m, Asked(m), NEW queried, Remembered(queried),
         Len(queried) = Cardinality(Own(m[Turn(m)].blocks))
  PROVE  LET t == Turn(m)
             own == Restore(m, queried)
         IN /\ Asked(own) /\ Turn(own) = t /\ Len(own) = Len(m) /\ Marks(own) = Marks(m)
            /\ \A i \in 1..Len(m) : own[i].role = m[i].role /\ (i # t => own[i] = m[i])
            /\ Len(queried) = Cardinality(Own(own[t].blocks))
            /\ \/ own[t].blocks = m[t].blocks
               \/ /\ PlainAll(own[t].blocks) = queried
                  /\ \A k \in 1..Len(own[t].blocks) : own[t].blocks[k].text = "host"
<1> DEFINE t == Turn(m)
           own == Restore(m, queried)
<1>1. CASE own = m
  <2>1. m \in Messages
    BY DEF Asked
  <2> HIDE DEF own
  <2>2. /\ Asked(own) /\ Turn(own) = t /\ Len(own) = Len(m) /\ Marks(own) = Marks(m)
        /\ \A i \in 1..Len(m) : own[i].role = m[i].role /\ (i # t => own[i] = m[i])
        /\ Len(queried) = Cardinality(Own(own[t].blocks)) /\ own[t].blocks = m[t].blocks
    BY <1>1
  <2> QED BY <2>2 DEF own
<1>2. ASSUME NEW new, Restored(m[Turn(m)].blocks, new, queried), own = WithBlocks(m, Turn(m), new)
      PROVE  /\ Asked(own) /\ Turn(own) = t /\ Len(own) = Len(m) /\ Marks(own) = Marks(m)
             /\ \A i \in 1..Len(m) : own[i].role = m[i].role /\ (i # t => own[i] = m[i])
             /\ Len(queried) = Cardinality(Own(own[t].blocks))
             /\ PlainAll(own[t].blocks) = queried
             /\ \A k \in 1..Len(own[t].blocks) : own[t].blocks[k].text = "host"
  <2> HIDE DEF own
  <2> QED BY <1>2, RestoredIs
<1> QED BY <1>1, <1>2, RestoreIs

\* What the relay makes of a request.
LEMMA RewriteIs ==
  ASSUME NEW r, Asked(r.messages), r.queried = Queried(r.messages), r.elsewhere \in Nat
  PROVE  LET m == r.messages
             t == Turn(m)
             z == Rewrite(r)
         IN /\ z \in Messages /\ Len(z) = Len(m)
            /\ \A i \in 1..Len(m) :
                 /\ z[i].role = m[i].role
                 /\ i # t => PlainAll(z[i].blocks) = PlainAll(m[i].blocks)
            /\ Trimmed(m[t].blocks, z[t].blocks) \/ PlainAll(z[t].blocks) = r.queried
            /\ Cardinality(Marks(z)) <= Cardinality(Marks(m)) + 1
            /\ Cardinality(Marks(m)) + r.elsewhere <= MaxMarks
                 => Cardinality(Marks(z)) + r.elsewhere <= MaxMarks
            /\ r.queried # <<>> /\ Targets(z, r.queried) # {}
                 => \A p \in Marks(z) : ~Before(Latest(Targets(z, r.queried)), p)
<1> DEFINE m == r.messages
           t == Turn(m)
           queried == r.queried
           own == Restore(m, queried)
           framed == FrameFirst(StableContext(own, queried), queried)
           z == Rewrite(r)
<1>1. /\ m \in Messages /\ t \in 1..Len(m) /\ Remembered(queried) /\ Len(queried) \in Nat
      /\ Len(queried) = Cardinality(Own(m[t].blocks))
  BY TurnIs, QueriedIs DEF Remembered
<1>2. /\ Asked(own) /\ Turn(own) = t /\ Len(own) = Len(m) /\ Marks(own) = Marks(m)
      /\ \A i \in 1..Len(m) : own[i].role = m[i].role /\ (i # t => own[i] = m[i])
      /\ Len(queried) = Cardinality(Own(own[t].blocks))
      /\ \/ own[t].blocks = m[t].blocks
         \/ /\ PlainAll(own[t].blocks) = queried
            /\ \A k \in 1..Len(own[t].blocks) : own[t].blocks[k].text = "host"
  BY <1>1, OwnFormIs
<1> HIDE DEF own
<1>3. /\ framed \in Messages /\ Len(framed) = Len(own)
      /\ \A i \in 1..Len(own) : framed[i].role = own[i].role /\ (i # t => framed[i] = own[i])
      /\ \E d \in 0..(Len(own[t].blocks) - 1) : Fronted(own[t].blocks, framed[t].blocks, d)
      /\ Cardinality(Marks(framed)) <= Cardinality(Marks(own))
  BY <1>1, <1>2, FramesIs
<1>4. /\ Twins(framed, z)
      /\ Cardinality(Marks(z)) <= Cardinality(Marks(framed)) + 1
      /\ Cardinality(Marks(framed)) + r.elsewhere <= MaxMarks
           => Cardinality(Marks(z)) + r.elsewhere <= MaxMarks
      /\ queried # <<>> /\ Targets(z, queried) # {}
           => \A p \in Marks(z) : ~Before(Latest(Targets(z, queried)), p)
  <2> DEFINE stable == StableContext(own, queried)
             pinned == Pin(stable, queried, r.elsewhere)
  <2>1. framed = FrameFirst(stable, queried) /\ FrameFirst(stable, queried) \in Messages
    BY <1>3
  <2>2. z = pinned
    BY DEF Rewrite, own
  <2> HIDE DEF framed, z, stable
  <2>3. /\ Twins(FrameFirst(stable, queried), pinned)
        /\ Cardinality(Marks(pinned)) <= Cardinality(Marks(FrameFirst(stable, queried))) + 1
        /\ Cardinality(Marks(FrameFirst(stable, queried))) + r.elsewhere <= MaxMarks
             => Cardinality(Marks(pinned)) + r.elsewhere <= MaxMarks
        /\ queried # <<>> /\ Targets(pinned, queried) # {}
             => \A p \in Marks(pinned) : ~Before(Latest(Targets(pinned, queried)), p)
    BY <1>1, <2>1, PinIs
  <2> HIDE DEF pinned
  <2> QED BY <2>1, <2>2, <2>3
<1> HIDE DEF framed, z
<1>5. /\ z \in Messages /\ Len(z) = Len(m)
      /\ \A i \in 1..Len(m) : /\ z[i].role = m[i].role
                              /\ PlainAll(z[i].blocks) = PlainAll(framed[i].blocks)
  <2>1. /\ z \in Messages /\ Len(z) = Len(framed)
        /\ \A i \in 1..Len(framed) : z[i].role = framed[i].role
    BY <1>4 DEF Twins
  <2>2. \A i \in 1..Len(framed) : PlainAll(z[i].blocks) = PlainAll(framed[i].blocks)
    BY <1>4, TwinsAlike
  <2>3. Len(framed) = Len(m) /\ \A i \in 1..Len(m) : framed[i].role = m[i].role
    BY <1>2, <1>3
  <2> QED BY <2>1, <2>2, <2>3
<1>6. \A i \in 1..Len(m) : i # t => PlainAll(z[i].blocks) = PlainAll(m[i].blocks)
  BY <1>2, <1>3, <1>5
<1>7. Trimmed(m[t].blocks, z[t].blocks) \/ PlainAll(z[t].blocks) = queried
  <2>1. /\ own \in Messages /\ own[t].blocks \in Seq(Blocks) /\ Len(own[t].blocks) \in Nat
    BY <1>1, <1>2, TurnIs, Shape
  <2>2. PICK d \in 0..(Len(own[t].blocks) - 1) : Fronted(own[t].blocks, framed[t].blocks, d)
    BY <1>3
  <2>3. PlainAll(z[t].blocks) = PlainAll(SubSeq(own[t].blocks, d + 1, Len(own[t].blocks)))
    BY <1>1, <1>5, <2>1, <2>2, FrontedText
  <2>4. \A k \in 1..d : own[t].blocks[k].text = "native"
    BY <2>2 DEF Fronted
  <2>5. CASE own[t].blocks = m[t].blocks
    BY <2>2, <2>3, <2>4, <2>5 DEF Trimmed
  <2>6. CASE PlainAll(own[t].blocks) = queried /\ \A k \in 1..Len(own[t].blocks) : own[t].blocks[k].text = "host"
    <3>1. d = 0
      <4>1. ASSUME d # 0 PROVE FALSE
        <5>1. 1 \in 1..d /\ 1 \in 1..Len(own[t].blocks)
          BY <2>1, <4>1
        <5> QED BY <2>4, <2>6, <5>1
      <4> QED BY <4>1
    <3>2. SubSeq(own[t].blocks, 1, Len(own[t].blocks)) = own[t].blocks
      BY <2>1
    <3>3. PlainAll(z[t].blocks) = PlainAll(SubSeq(own[t].blocks, 1, Len(own[t].blocks)))
      <4>1. d + 1 = 1
        BY <3>1
      <4> QED BY <2>3, <4>1
    <3> QED BY <2>6, <3>2, <3>3
  <2> QED BY <1>2, <2>5, <2>6
<1>8. /\ Cardinality(Marks(z)) <= Cardinality(Marks(m)) + 1
      /\ Cardinality(Marks(m)) + r.elsewhere <= MaxMarks
           => Cardinality(Marks(z)) + r.elsewhere <= MaxMarks
  <2> DEFINE a == Cardinality(Marks(m))
             b == Cardinality(Marks(framed))
             c == Cardinality(Marks(z))
             e == r.elsewhere
  <2>1. a \in Nat /\ b \in Nat /\ c \in Nat /\ e \in Nat /\ MaxMarks \in Nat
    BY <1>1, <1>3, <1>5, PlacesFinite, FS_CardinalityType, MarksAssumption
  <2>2. b <= a /\ c <= b + 1 /\ (b + e <= MaxMarks => c + e <= MaxMarks)
    BY <1>2, <1>3, <1>4
  <2> HIDE DEF a, b, c, e
  <2>3. c <= a + 1 /\ (a + e <= MaxMarks => c + e <= MaxMarks)
    BY <2>1, <2>2
  <2> QED BY <2>3 DEF a, c, e
<1> QED BY <1>4, <1>5, <1>6, <1>7, <1>8 DEF z

-----------------------------------------------------------------------------
(* Cache marks: the inductive invariant.                                     *)

\* The request is one native may send, remembered as Hermes queried it; what is
\* forwarded is what the relay makes of it.
MarksInv ==
  /\ Asked(request.messages) /\ request.queried = Queried(request.messages)
  /\ request.elsewhere \in Nat
  /\ forwarded = NotYet \/ forwarded = Rewrite(request)

LEMMA MarksInvInit == MarksInit => MarksInv
<1> SUFFICES ASSUME MarksInit PROVE MarksInv
  OBVIOUS
<1>1. PICK m \in Conversations, e \in Elsewhere : \E p, q \in Positions(m) :
        request = [messages |-> SetMark(SetMark(m, p, TRUE), q, TRUE),
                   queried |-> Queried(m), elsewhere |-> e]
  BY DEF MarksInit
<1>2. PICK p \in Positions(m), q \in Positions(m) :
        request = [messages |-> SetMark(SetMark(m, p, TRUE), q, TRUE),
                   queried |-> Queried(m), elsewhere |-> e]
  BY <1>1
<1> DEFINE once == SetMark(m, p, TRUE)
           twice == SetMark(once, q, TRUE)
<1>3. Asked(m) /\ m \in Messages /\ e \in Nat
  BY MarksAssumption DEF Asked
<1>4. Twins(m, once)
  BY <1>3, MarkMore
<1> HIDE DEF once
<1>5. once \in Messages /\ q \in Positions(once)
  BY <1>4, TwinsAlike DEF Twins
<1>6. Twins(once, twice)
  BY <1>5, MarkMore
<1> HIDE DEF twice
<1>7. Twins(m, twice)
  BY <1>4, <1>6, TwinsChain
<1>8. Asked(twice) /\ Queried(twice) = Queried(m)
  BY <1>3, <1>7, TwinQueried
<1>9. request.messages = twice /\ request.queried = Queried(m) /\ request.elsewhere = e
  BY <1>2 DEF twice, once
<1> QED BY <1>3, <1>8, <1>9 DEF MarksInv, MarksInit

LEMMA MarksInvStep == MarksInv /\ [MarksNext]_marksVars => MarksInv'
<1> SUFFICES ASSUME MarksInv, [MarksNext]_marksVars PROVE MarksInv'
  OBVIOUS
<1>1. CASE Forward
  BY <1>1 DEF Forward, MarksInv
<1>2. CASE Another
  BY <1>2 DEF Another, MarksInv
<1>3. CASE UNCHANGED marksVars
  BY <1>3 DEF marksVars, MarksInv
<1> QED BY <1>1, <1>2, <1>3 DEF MarksNext

\* What was forwarded is what the relay makes of the request, and that is sound.
LEMMA MarksInvMeans == MarksInv => MarksTypeOK /\ MarksSound
<1> SUFFICES ASSUME MarksInv PROVE MarksTypeOK /\ MarksSound
  OBVIOUS
<1>1. CASE forwarded = NotYet
  BY <1>1 DEF MarksInv, MarksTypeOK, MarksSound
<1>2. CASE forwarded = Rewrite(request)
  <2> DEFINE m == request.messages
             t == Turn(m)
             z == forwarded
  <2>1. /\ z \in Messages /\ Len(z) = Len(m)
        /\ \A i \in 1..Len(m) :
             /\ z[i].role = m[i].role
             /\ i # t => PlainAll(z[i].blocks) = PlainAll(m[i].blocks)
        /\ Trimmed(m[t].blocks, z[t].blocks) \/ PlainAll(z[t].blocks) = request.queried
        /\ Cardinality(Marks(z)) <= Cardinality(Marks(m)) + 1
        /\ Cardinality(Marks(m)) + request.elsewhere <= MaxMarks
             => Cardinality(Marks(z)) + request.elsewhere <= MaxMarks
        /\ request.queried # <<>> /\ Targets(z, request.queried) # {}
             => \A p \in Marks(z) : ~Before(Latest(Targets(z, request.queried)), p)
    BY <1>2, RewriteIs DEF MarksInv
  <2>2. DOMAIN z = 1..Len(m) /\ DOMAIN m = 1..Len(m)
    BY <2>1, Shape DEF MarksInv, Asked
  <2>3. MarksTypeOK
    BY <2>2 DEF MarksTypeOK, MarksInv
  <2>4. MarksCounted
    BY <2>1 DEF MarksCounted
  <2>5. MarksRecur
    BY <2>1 DEF MarksRecur
  <2>6. SpeechKept
    BY <2>1, <2>2 DEF SpeechKept
  <2> QED BY <2>3, <2>4, <2>5, <2>6 DEF MarksSound
<1> QED BY <1>1, <1>2 DEF MarksInv

\* For any conversations and limits: whatever native adds to a request and marks in it,
\* the relay forwards what Hermes and the model said, marked where the next request
\* can use it and within the API's limit.
THEOREM MarksSafe == MarksSpec => [](MarksTypeOK /\ MarksSound)
BY MarksInvInit, MarksInvStep, MarksInvMeans, PTL DEF MarksSpec

-----------------------------------------------------------------------------
(* The composition.                                                          *)

\* Each component keeps its own invariant, moved by its own steps only.
AnswersInv ==
  /\ on \in {"acp", "prompt", "stream", "native", "relay", "marks"}
  /\ PromptInv /\ StreamInv /\ NativeInv /\ RelayInv
  /\ on = "marks" => MarksInv

LEMMA AnswersInvInit == Init => AnswersInv
<1> SUFFICES ASSUME Init PROVE AnswersInv
  OBVIOUS
<1>1. PromptInv /\ StreamInv /\ NativeInv /\ RelayInv
  BY PromptInvInit, StreamInvInit, NativeInvInit, RelayInvInit DEF Init
<1>2. on = "marks" => MarksInv
  BY MarksInvInit DEF Init
<1> QED BY <1>1, <1>2 DEF AnswersInv, Init

\* A step of the composition is one of each component, or leaves it alone.
LEMMA EachSteps ==
  ASSUME [Next]_vars
  PROVE  /\ [PromptNext]_promptVars /\ [StreamNext]_streamVars
         /\ [NativeNext]_nativeVars /\ [RelayNext]_relayVars
         /\ [MarksNext]_marksVars /\ on' = on
<1>1. CASE Next
  BY <1>1 DEF Next, Only, otherVars
<1>2. CASE UNCHANGED vars
  BY <1>2 DEF vars
<1> QED BY <1>1, <1>2

\* Every step of one component keeps its invariant, and the others stand still.
LEMMA AnswersInvStep == AnswersInv /\ [Next]_vars => AnswersInv'
<1> SUFFICES ASSUME AnswersInv, [Next]_vars PROVE AnswersInv'
  OBVIOUS
<1>1. /\ [PromptNext]_promptVars /\ [StreamNext]_streamVars
      /\ [NativeNext]_nativeVars /\ [RelayNext]_relayVars
      /\ [MarksNext]_marksVars /\ on' = on
  BY EachSteps
<1>2. PromptInv' /\ StreamInv' /\ NativeInv' /\ RelayInv'
  BY <1>1, PromptInvStep, StreamInvStep, NativeInvStep, RelayInvStep DEF AnswersInv
<1>3. (on = "marks" => MarksInv)'
  BY <1>1, MarksInvStep DEF AnswersInv
<1> QED BY <1>1, <1>2, <1>3 DEF AnswersInv

\* Of every behaviour of the two providers: an answer that reaches the host is
\* whole, in each of the five parts that could cut, mix or change it.
THEOREM AnswersAreWhole == Spec => []AnswersWhole
<1>1. Init => AnswersInv
  BY AnswersInvInit
<1>2. AnswersInv /\ [Next]_vars => AnswersInv'
  BY AnswersInvStep
<1>3. AnswersInv => AnswersWhole
  BY MarksInvMeans DEF AnswersInv, AnswersWhole, PromptInv, StreamInv, NativeInv, NativeShows,
     OwnedLeavesNoOrphans, RelayInv
<1> QED BY <1>1, <1>2, <1>3, PTL DEF Spec
=============================================================================
