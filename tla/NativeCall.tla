----------------------------- MODULE NativeCall -----------------------------
(***************************************************************************)
(* plugins/claude-subscription-directsdk/directsdk.py: the native processes  *)
(* behind the requests of one Client.  The generator _run owns a request and *)
(* may be paused at a chunk; a reader thread reaps the process; cancel() and *)
(* close() come from any thread; after a clean answer a drain thread takes   *)
(* the process over.  A process is signalled by its group, which is its own  *)
(* only until somebody has reaped its leader.                                *)
(***************************************************************************)
EXTENDS FiniteSets

CONSTANT NativeCalls  \* requests of the client

VARIABLES
  run,       \* request -> where _run is
  paused,    \* request -> the generator is suspended at a chunk
  cancelled, \* request -> its event is set
  owned,     \* request -> Request.process is the live process
  leader,    \* request -> the process; "stolen" once the host has reaped it
  children,  \* request -> descendants of the leader live
  reader,    \* request -> the reader thread
  drain,     \* request -> the drain thread
  aiming,    \* (request, thread) that saw an unreaped leader, about to signal
  closed     \* the client was closed

nativeVars == <<run, paused, cancelled, owned, leader, children, reader, drain,
                aiming, closed>>

\* Threads that signal: whoever cancels, under the request's lock; the reader;
\* the drain.
Killers == {"cancel", "reader", "drain"}

NativeTypeOK ==
  /\ run \in [NativeCalls -> {"idle", "prepared", "running", "finally", "reaping", "gone"}]
  /\ {paused, cancelled, owned, children} \subseteq [NativeCalls -> BOOLEAN]
  /\ leader \in [NativeCalls -> {"none", "alive", "exited", "reaped", "stolen"}]
  /\ reader \in [NativeCalls -> {"none", "reading", "clearing", "done"}]
  /\ drain \in [NativeCalls -> {"none", "waiting", "overdue", "joining", "done"}]
  /\ aiming \subseteq NativeCalls \X Killers
  /\ closed \in BOOLEAN

NativeInit ==
  /\ run = [r \in NativeCalls |-> "idle"]
  /\ paused = [r \in NativeCalls |-> FALSE] /\ cancelled = [r \in NativeCalls |-> FALSE]
  /\ owned = [r \in NativeCalls |-> FALSE] /\ leader = [r \in NativeCalls |-> "none"]
  /\ children = [r \in NativeCalls |-> FALSE]
  /\ reader = [r \in NativeCalls |-> "none"] /\ drain = [r \in NativeCalls |-> "none"]
  /\ aiming = {} /\ closed = FALSE

-----------------------------------------------------------------------------
(* kill_process_tree.                                                        *)

Unreaped(r) == leader[r] \in {"alive", "exited"}

\* A wait() finds the leader exited, reaped by another thread or by the host.
Waited(r) == leader[r] \in {"exited", "reaped", "stolen"}
AfterWait(r) == [leader EXCEPT ![r] = IF @ = "stolen" THEN @ ELSE "reaped"]

\* waitid(WNOWAIT) finds the leader unreaped: the group is still its own.
Aim(r, k) == aiming' = IF Unreaped(r) THEN aiming \cup {<<r, k>>} ELSE aiming

\* killpg.  When somebody has reaped the leader since, the number is not the
\* group's any more: the signal reaches none of its processes.
Signal(r, k) ==
  /\ <<r, k>> \in aiming /\ aiming' = aiming \ {<<r, k>>}
  /\ leader' = [leader EXCEPT ![r] = IF @ = "alive" THEN "exited" ELSE @]
  /\ children' = [children EXCEPT ![r] = @ /\ ~Unreaped(r)]
  /\ UNCHANGED <<run, paused, cancelled, owned, reader, drain, closed>>

-----------------------------------------------------------------------------
(* _create and _run.                                                         *)

\* _register, and the history prepared: a closed client refuses.
Register(r) ==
  /\ run[r] = "idle" /\ ~closed
  /\ run' = [run EXCEPT ![r] = "prepared"]
  /\ UNCHANGED <<paused, cancelled, owned, leader, children, reader, drain, aiming, closed>>

\* spawn, under the request's lock: not once it is cancelled.
Spawn(r) ==
  /\ run[r] = "prepared"
  /\ IF cancelled[r]
     THEN run' = [run EXCEPT ![r] = "finally"] /\ UNCHANGED <<owned, leader, children, reader>>
     ELSE /\ run' = [run EXCEPT ![r] = "running"] /\ owned' = [owned EXCEPT ![r] = TRUE]
          /\ leader' = [leader EXCEPT ![r] = "alive"]
          /\ children' = [children EXCEPT ![r] = TRUE]
          /\ reader' = [reader EXCEPT ![r] = "reading"]
  /\ UNCHANGED <<paused, cancelled, drain, aiming, closed>>

\* A chunk: the generator waits for the consumer, for as long as it likes.
Yield(r) ==
  /\ run[r] = "running" /\ ~paused[r] /\ paused' = [paused EXCEPT ![r] = TRUE]
  /\ UNCHANGED <<run, cancelled, owned, leader, children, reader, drain, aiming, closed>>

Advance(r) ==
  /\ paused[r] /\ paused' = [paused EXCEPT ![r] = FALSE]
  /\ UNCHANGED <<run, cancelled, owned, leader, children, reader, drain, aiming, closed>>

\* A clean admitted answer: under the lock the request lets go of the process
\* and the relay; the drain thread has them now.
HandOff(r) ==
  /\ run[r] = "running" /\ ~paused[r] /\ owned[r]
  /\ owned' = [owned EXCEPT ![r] = FALSE] /\ drain' = [drain EXCEPT ![r] = "waiting"]
  /\ <<r, "cancel">> \notin aiming
  /\ UNCHANGED <<run, paused, cancelled, leader, children, reader, aiming, closed>>

\* The answer is read to its end, or the request fails, is late or cancelled.
RunEnds(r) ==
  /\ run[r] = "running" /\ ~paused[r]
  /\ run' = [run EXCEPT ![r] = "finally"]
  /\ UNCHANGED <<paused, cancelled, owned, leader, children, reader, drain, aiming, closed>>

\* The finally: cancel the request, whatever happened.
Finally(r) ==
  /\ run[r] = "finally" /\ run' = [run EXCEPT ![r] = "reaping"]
  /\ cancelled' = [cancelled EXCEPT ![r] = TRUE]
  /\ IF owned[r] THEN Aim(r, "cancel") ELSE UNCHANGED aiming
  /\ UNCHANGED <<paused, owned, leader, children, reader, drain, closed>>

\* p.wait(): the owner reaps too.
OwnerReaps(r) ==
  /\ run[r] = "reaping" /\ <<r, "cancel">> \notin aiming
  /\ owned[r] /\ leader[r] = "exited" /\ leader' = AfterWait(r)
  /\ UNCHANGED <<run, paused, cancelled, owned, children, reader, drain, aiming, closed>>

\* Then wait for the process and its reader, if the request still has them.
RunGone(r) ==
  /\ run[r] = "reaping" /\ <<r, "cancel">> \notin aiming
  /\ owned[r] => leader[r] \in {"reaped", "stolen"} /\ reader[r] = "done"
  /\ run' = [run EXCEPT ![r] = "gone"] /\ owned' = [owned EXCEPT ![r] = FALSE]
  /\ UNCHANGED <<paused, cancelled, leader, children, reader, drain, aiming, closed>>

-----------------------------------------------------------------------------
(* The process, its reader and the drain.                                    *)

LeaderExits(r) ==
  /\ leader[r] = "alive" /\ leader' = [leader EXCEPT ![r] = "exited"]
  /\ UNCHANGED <<run, paused, cancelled, owned, children, reader, drain, aiming, closed>>

\* A waitpid(-1) elsewhere in the host.
HostReap(r) ==
  /\ leader[r] = "exited" /\ leader' = [leader EXCEPT ![r] = "stolen"]
  /\ UNCHANGED <<run, paused, cancelled, owned, children, reader, drain, aiming, closed>>

\* Mutant: reap without clearing the group first.
ReaderSkipsClearing(r) ==
  /\ reader[r] = "reading" /\ Waited(r)
  /\ reader' = [reader EXCEPT ![r] = "clearing"]
  /\ UNCHANGED <<run, paused, cancelled, owned, leader, children, drain, aiming, closed>>

\* stdout has ended: wait for the exit without reaping, then clear the group.
\* (After somebody else's reap there is nothing it may signal.)
ReaderSeesExit(r) ==
  /\ reader[r] = "reading" /\ Waited(r)
  /\ reader' = [reader EXCEPT ![r] = "clearing"] /\ Aim(r, "reader")
  /\ UNCHANGED <<run, paused, cancelled, owned, leader, children, drain, closed>>

ReaderReaps(r) ==
  /\ reader[r] = "clearing" /\ <<r, "reader">> \notin aiming
  /\ reader' = [reader EXCEPT ![r] = "done"] /\ leader' = AfterWait(r)
  /\ UNCHANGED <<run, paused, cancelled, owned, children, drain, aiming, closed>>

\* Mutant: the drain gives up after the grace.
DrainGivesUp(r) ==
  /\ drain[r] = "waiting" /\ Unreaped(r)
  /\ drain' = [drain EXCEPT ![r] = "overdue"]
  /\ UNCHANGED <<run, paused, cancelled, owned, leader, children, reader, aiming, closed>>

\* The drain waits DRAIN_GRACE_S for the exit and then kills.
DrainOverdue(r) ==
  /\ drain[r] = "waiting" /\ Unreaped(r)
  /\ drain' = [drain EXCEPT ![r] = "overdue"] /\ Aim(r, "drain")
  /\ UNCHANGED <<run, paused, cancelled, owned, leader, children, reader, closed>>

\* process.wait() in the drain reaps as well as the reader's does: the late
\* one finds it done.
DrainReaps(r) ==
  /\ drain[r] \in {"waiting", "overdue"} /\ <<r, "drain">> \notin aiming
  /\ Waited(r)
  /\ drain' = [drain EXCEPT ![r] = "joining"] /\ leader' = AfterWait(r)
  /\ UNCHANGED <<run, paused, cancelled, owned, children, reader, aiming, closed>>

\* The reader is joined and the relay closed.
DrainDone(r) ==
  /\ drain[r] = "joining" /\ reader[r] = "done"
  /\ drain' = [drain EXCEPT ![r] = "done"]
  /\ UNCHANGED <<run, paused, cancelled, owned, leader, children, reader, aiming, closed>>

-----------------------------------------------------------------------------
(* Callers.                                                                  *)

\* Request.cancel: the event, the relay, and the process under the lock.
Cancel(r) ==
  /\ run[r] \in {"prepared", "running"} /\ <<r, "cancel">> \notin aiming
  /\ cancelled' = [cancelled EXCEPT ![r] = TRUE]
  /\ IF owned[r] THEN Aim(r, "cancel") ELSE UNCHANGED aiming
  /\ UNCHANGED <<run, paused, owned, leader, children, reader, drain, closed>>

\* Stream.close: a generator nobody advances is finalised by whoever closes.
CloseStream(r) ==
  /\ paused[r] /\ cancelled[r]
  /\ paused' = [paused EXCEPT ![r] = FALSE] /\ run' = [run EXCEPT ![r] = "finally"]
  /\ UNCHANGED <<cancelled, owned, leader, children, reader, drain, aiming, closed>>

\* Client.close: no new request, and every registered one is cancelled; its
\* stream is closed next.
CloseClient ==
  /\ ~closed /\ closed' = TRUE
  /\ cancelled' = [r \in NativeCalls |-> cancelled[r] \/ run[r] \in {"prepared", "running"}]
  /\ aiming' = aiming \cup {<<r, "cancel">> : r \in {q \in NativeCalls :
                 run[q] \in {"prepared", "running"} /\ owned[q] /\ Unreaped(q)}}
  /\ UNCHANGED <<run, paused, owned, leader, children, reader, drain>>

\* A closed client with nothing left: the next client.
NewClient ==
  /\ closed
  /\ \A r \in NativeCalls : run[r] \in {"idle", "gone"} /\ drain[r] \in {"none", "done"}
  /\ aiming = {}
  /\ run' = [r \in NativeCalls |-> "idle"] /\ cancelled' = [r \in NativeCalls |-> FALSE]
  /\ leader' = [r \in NativeCalls |-> "none"] /\ children' = [r \in NativeCalls |-> FALSE]
  /\ reader' = [r \in NativeCalls |-> "none"] /\ drain' = [r \in NativeCalls |-> "none"]
  /\ closed' = FALSE /\ UNCHANGED <<paused, owned, aiming>>

\* The owner's steps.  A cancelled request ends; its timeout starts again with
\* every event of the process, so nothing else is certain to end it.
OwnerStep(r) ==
  \/ Spawn(r) \/ Finally(r) \/ OwnerReaps(r) \/ RunGone(r)
  \/ cancelled[r] /\ RunEnds(r)

ReaderStep(r) == ReaderSeesExit(r) \/ ReaderReaps(r)

DrainStep(r) == DrainOverdue(r) \/ DrainReaps(r) \/ DrainDone(r)

NativeNext ==
  \/ \E r \in NativeCalls :
       \/ OwnerStep(r) \/ ReaderStep(r) \/ DrainStep(r) \/ \E k \in Killers : Signal(r, k)
       \/ Register(r) \/ Yield(r) \/ Advance(r) \/ HandOff(r) \/ RunEnds(r)
       \/ LeaderExits(r) \/ HostReap(r) \/ Cancel(r) \/ CloseStream(r)
  \/ CloseClient \/ NewClient

\* Every thread is scheduled.  Nothing is assumed of the process or the consumer.
NativeFairness ==
  \A r \in NativeCalls :
    /\ WF_nativeVars(OwnerStep(r))
    /\ WF_nativeVars(ReaderStep(r))
    /\ WF_nativeVars(DrainStep(r))
    /\ WF_nativeVars(CloseStream(r))
    /\ \A k \in Killers : WF_nativeVars(Signal(r, k))

NativeSpec == NativeInit /\ [][NativeNext]_nativeVars /\ NativeFairness

-----------------------------------------------------------------------------

\* A request that keeps its process to the end leaves no descendants of it,
\* though its launcher exits first, whoever cancels meanwhile: the group is
\* cleared before the reap.  (After the host's reap nobody may signal them.)
OwnedLeavesNoOrphans ==
  \A r \in NativeCalls : leader[r] = "reaped" /\ drain[r] = "none" => ~children[r]

\* Closing the client ends every process it ever started: one its request
\* holds, one a paused stream holds, and one handed to a drain.
CloseEndsNatives ==
  closed ~> \A r \in NativeCalls : leader[r] \in {"none", "reaped", "stolen"}
=============================================================================
