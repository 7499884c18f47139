---------------------------- MODULE IntakeProofs ----------------------------
(***************************************************************************)
(* One native task per issue, started after the turn that asked for it, kept *)
(* down by a Stop, and no delegation forgotten, for any deliveries at any    *)
(* moments and any number of faults and deaths.                              *)
(***************************************************************************)
EXTENDS Intake, TLAPS

-----------------------------------------------------------------------------
(* The inductive invariant.                                                  *)

Stores == [create : {"none", "attempting", "applied", "reconcile"}, source : 0..LastTime,
           input : BOOLEAN, unbound : 0..LastTime, row : 0..LastTime, anchor : 0..LastTime,
           activate : {"none", "attempting", "applied", "reconcile"},
           stop : [Times -> {"none", "attempting", "applied", "reconcile", "superseded"}],
           told : SUBSET Times]
NativeTasks == [made : 0..2, status : {"none", "staged", "ready", "stopped", "done"},
                activated : BOOLEAN, control : {"none", "same", "later"}]

\* What store s, task k and the receipts R of Core say of each other: a task was
\* asked for once, runs only by its activation or a person, was activated after
\* its input and no Stop, and a Stop that was applied holds it.
Agree(s, k, R) ==
  /\ k.made <= 1
  /\ s.create = "none" => k.made = 0 /\ s.row = 0
  /\ s.row = 0 => ~k.activated /\ \A t \in Times : s.stop[t] = "none"
  /\ s.anchor \in R \cup {0}
  /\ k.activated /\ s.input => s.row \in R
  /\ k.activated => s.unbound = 0 \/ s.unbound < s.source
  /\ k.status = "ready" /\ k.control = "none" => k.activated
  /\ \A t \in Times :
       /\ s.stop[t] = "applied" => k.status # "staged" /\ (k.status = "ready" => k.control # "none")
       /\ s.stop[t] = "superseded" => k.control # "none"

Sound(s, k, R) == s \in Stores /\ k \in NativeTasks /\ Agree(s, k, R)

\* A coroutine at work on the task has the lock, and makes it at most once.
Working == {"create", "bind", "settle", "activate"}
LockInv ==
  \A d \in Deliveries :
    /\ ingest[d] \in Working => lock = d
    /\ ingest[d] = "create" => task.made = 0
    /\ ingest[d] \in {"create", "bind"} => saved.row = 0 /\ saved.create # "none"
    /\ ingest[d] \in {"settle", "activate"} => saved.row = At(d)
    /\ Kind(d) = "stop" => ingest[d] \in {"none", "hand"}
    /\ Kind(d) = "delegation" => ingest[d] # "answer"

\* The Stop of time t came before the assignment, is recorded against it, or is settled.
Heeded(s, t) == \/ s.create # "none" /\ t <= s.source
                \/ s.row # 0 /\ t < s.row
                \/ s.unbound >= t
                \/ s.stop[t] \in {"applied", "superseded"}

\* The delegation of time t was answered, is Core's, or is older than the work there is.
HasAnswer(s, R, t) == t \in R \cup s.told \/ s.row > t

\* A hook runs for committed inputs; what it has kept and what was acknowledged is
\* heeded and answered.
HookInv ==
  /\ \A t \in Times : \A d \in InHook(t) : At(d) = t /\ t \in core.receipts
  /\ \A d \in Deliveries :
       /\ Kind(d) = "stop" /\ (d \in hook[At(d)].kept \/ inbox[d] = "imported")
            => Heeded(saved, At(d))
       /\ Kind(d) = "delegation" /\ (ingest[d] = "ack" \/ inbox[d] = "imported")
            => HasAnswer(saved, core.receipts, At(d))

RestTyped ==
  /\ event \in [Deliveries -> [kind : Kinds, at : Times]]
  /\ inbox \in [Deliveries -> {"pending", "imported", "failed"}]
  /\ aged \in BOOLEAN
  /\ submitted \in [Deliveries -> {"none", "running", "raised", "done"}]
  /\ failed \subseteq Deliveries /\ pending \subseteq Deliveries
  /\ ingest \in [Deliveries -> {"none", "admit", "create", "bind", "settle",
                                "activate", "answer", "hand", "ack"}]
  /\ core \in [queued : SUBSET Times, admitted : SUBSET Times, receipts : SUBSET Times]
  /\ hook \in [Times -> [todo : SUBSET Deliveries, kept : SUBSET Deliveries]]
  /\ lock \in Deliveries \cup {Free}
  /\ mine \in BOOLEAN
  /\ trouble \in 0..MaxTrouble

IntakeInv == RestTyped /\ Sound(saved, task, core.receipts) /\ LockInv /\ HookInv

-----------------------------------------------------------------------------
(* Stop and activation.                                                      *)

\* What they leave of the request: the work, who asked for it, what was told.
SameWork(s, k, z, l) ==
  /\ z.create = s.create /\ z.row = s.row /\ z.source = s.source /\ z.input = s.input
  /\ z.unbound = s.unbound /\ s.told \subseteq z.told
  /\ \A t \in Times : s.stop[t] \in {"applied", "superseded"} => z.stop[t] = s.stop[t]
  /\ l.made = k.made

LEMMA SameAgain ==
  ASSUME NEW s, NEW k, NEW z, NEW l, NEW y, NEW m, SameWork(s, k, z, l), SameWork(z, l, y, m)
  PROVE  SameWork(s, k, y, m)
BY DEF SameWork

\* What settling the Stop of time t writes of the store.
Settles(s, t, end, z) ==
  /\ z \in Stores
  /\ z.create = s.create /\ z.row = s.row /\ z.source = s.source /\ z.input = s.input
  /\ z.unbound = s.unbound /\ z.told = s.told /\ z.anchor = s.anchor
  /\ z.stop[t] = end /\ \A u \in Times : u # t => z.stop[u] = s.stop[u]

LEMMA StopWrites ==
  ASSUME NEW s \in Stores, NEW t \in Times, NEW end \in {"applied", "superseded", "reconcile"}
  PROVE  Settles(s, t, end, [s EXCEPT !.stop[t] = end])
<1>1. s.stop \in [Times -> {"none", "attempting", "applied", "reconcile", "superseded"}]
  BY DEF Stores
<1> DEFINE f == [s.stop EXCEPT ![t] = end]
<1>2. /\ f \in [Times -> {"none", "attempting", "applied", "reconcile", "superseded"}]
      /\ f[t] = end /\ \A u \in Times : u # t => f[u] = s.stop[u]
  BY <1>1
<1>3. [s EXCEPT !.stop[t] = end] = [s EXCEPT !.stop = f]
  BY Zenon
<1> HIDE DEF f
<1>4. Settles(s, t, end, [s EXCEPT !.stop = f])
  BY <1>2 DEF Settles, Stores
<1> QED BY <1>3, <1>4

LEMMA PausedKeeps ==
  ASSUME NEW k \in NativeTasks
  PROVE  /\ Paused(k) \in NativeTasks
         /\ Paused(k).made = k.made /\ Paused(k).activated = k.activated
         /\ Paused(k).control = k.control /\ Paused(k).status \notin {"staged", "ready"}
<1>1. CASE k.status \in {"staged", "ready"}
  <2>1. Paused(k) = [k EXCEPT !.status = "stopped"]
    BY <1>1 DEF Paused
  <2> QED BY <2>1 DEF NativeTasks
<1>2. CASE k.status \notin {"staged", "ready"}
  BY <1>2 DEF Paused
<1> QED BY <1>1, <1>2

\* A Stop holds the work that there is, or what a person did after it stands.
LEMMA StoppingKeeps ==
  ASSUME NEW s, NEW k, NEW R, Sound(s, k, R), s.row # 0, NEW t \in Times
  PROVE  LET z == Stopping(s, k, t).store
             l == Stopping(s, k, t).task
         IN  Sound(z, l, R) /\ SameWork(s, k, z, l)
<1>1. s \in Stores /\ k \in NativeTasks /\ Agree(s, k, R)
  BY DEF Sound
<1>2. CASE s.stop[t] \in {"applied", "superseded"}
  <2>1. Stopping(s, k, t).store = s /\ Stopping(s, k, t).task = k
    BY <1>2 DEF Stopping
  <2> QED BY <2>1 DEF SameWork
<1>3. CASE s.stop[t] \notin {"applied", "superseded"}
  <2>2. PICK end \in {"applied", "superseded", "reconcile"} :
          end = StopOutcome(k) /\ (end = "superseded" => k.control # "none")
    BY DEF StopOutcome
  <2> DEFINE z == [s EXCEPT !.stop[t] = end]
             l == IF end = "applied" THEN Paused(k) ELSE k
  <2>1. Stopping(s, k, t).store = z /\ Stopping(s, k, t).task = l
    BY <1>3, <2>2 DEF Stopping
  <2>3. Settles(s, t, end, z)
    BY <1>1, StopWrites, Zenon
  <2>4. /\ l \in NativeTasks /\ l.made = k.made /\ l.activated = k.activated
        /\ l.control = k.control /\ (l.status = k.status \/ l.status \notin {"staged", "ready"})
        /\ end = "applied" => l.status \notin {"staged", "ready"}
    BY <1>1, PausedKeeps
  <2> HIDE DEF z, l
  <2>5. SameWork(s, k, z, l)
    BY <1>3, <2>3, <2>4 DEF SameWork, Settles
  <2>6. Agree(z, l, R)
    BY <1>1, <2>2, <2>3, <2>4 DEF Agree, Settles
  <2> QED BY <2>1, <2>3, <2>4, <2>5, <2>6 DEF Sound, Settles
<1> QED BY <1>2, <1>3

LEMMA PendingStopKeeps ==
  ASSUME NEW s, NEW k, NEW R, Sound(s, k, R)
  PROVE  LET z == PendingStop(s, k).store
             l == PendingStop(s, k).task
         IN  Sound(z, l, R) /\ SameWork(s, k, z, l)
<1>1. s.unbound \in 0..LastTime
  BY DEF Sound, Stores
<1>2. CASE s.unbound = 0 \/ s.row = 0 \/ ~mine \/ s.unbound < s.row
  <2>1. PendingStop(s, k).store = s /\ PendingStop(s, k).task = k
    BY <1>2 DEF PendingStop
  <2> QED BY <2>1 DEF SameWork
<1>3. CASE ~(s.unbound = 0 \/ s.row = 0 \/ ~mine \/ s.unbound < s.row)
  <2>1. PendingStop(s, k) = Stopping(s, k, s.unbound)
    BY <1>3 DEF PendingStop
  <2>2. s.unbound \in Times /\ s.row # 0
    BY <1>1, <1>3, IntakeAssumption DEF Times, IntakeAssumption
  <2> QED BY <2>1, <2>2, StoppingKeeps
<1> QED BY <1>2, <1>3

\* What recording how the activation went writes of the store.
Rewords(s, y) ==
  /\ y \in Stores
  /\ y.create = s.create /\ y.row = s.row /\ y.source = s.source /\ y.input = s.input
  /\ y.unbound = s.unbound /\ s.told \subseteq y.told /\ y.anchor = s.anchor /\ y.stop = s.stop

LEMMA RewordsWrites ==
  ASSUME NEW s \in Stores, NEW a \in {"attempting", "applied", "reconcile"}
  PROVE  /\ Rewords(s, [s EXCEPT !.activate = a])
         /\ s.row # 0 => Rewords(s, [s EXCEPT !.activate = a, !.told = @ \cup {s.row}])
<1>1. Rewords(s, [s EXCEPT !.activate = a])
  BY DEF Rewords, Stores
<1>2. ASSUME s.row # 0 PROVE Rewords(s, [s EXCEPT !.activate = a, !.told = @ \cup {s.row}])
  <2>1. s.row \in Times /\ s.told \in SUBSET Times
    BY <1>2, IntakeAssumption DEF Stores, Times, IntakeAssumption
  <2>2. PICK more \in SUBSET Times : more = s.told \cup {s.row}
    BY <2>1
  <2>3. [s EXCEPT !.activate = a, !.told = @ \cup {s.row}] = [s EXCEPT !.activate = a, !.told = more]
    BY <2>2
  <2>4. Rewords(s, [s EXCEPT !.activate = a, !.told = more])
    BY <2>2 DEF Rewords, Stores
  <2> QED BY <2>3, <2>4
<1> QED BY <1>1, <1>2

LEMMA RewordsKeeps ==
  ASSUME NEW s, NEW k, NEW R, Sound(s, k, R), NEW y, Rewords(s, y)
  PROVE  Sound(y, k, R) /\ SameWork(s, k, y, k)
<1>1. SameWork(s, k, y, k)
  BY DEF Rewords, SameWork
<1>2. Agree(y, k, R)
  BY DEF Sound, Agree, Rewords
<1> QED BY <1>1, <1>2 DEF Sound, Rewords

\* A staged task whose input is committed and that no Stop precedes may run.
LEMMA MayRun ==
  ASSUME NEW s, NEW k, NEW R, Sound(s, k, R), Activatable(s), ~Outdated(s), k.status = "staged"
  PROVE  LET l == [k EXCEPT !.status = "ready", !.activated = TRUE]
         IN  Sound(s, l, R) /\ SameWork(s, k, s, l)
<1> DEFINE l == [k EXCEPT !.status = "ready", !.activated = TRUE]
<1>1. s \in Stores /\ k \in NativeTasks /\ Agree(s, k, R)
  BY DEF Sound
<1>2. /\ l \in NativeTasks /\ l.made = k.made /\ l.status = "ready" /\ l.activated
      /\ l.control = k.control
  BY <1>1 DEF NativeTasks
<1> HIDE DEF l
<1>3. SameWork(s, k, s, l)
  BY <1>2 DEF SameWork
<1>4. /\ s.row # 0 /\ s.create = "applied" /\ (s.input => s.anchor = s.row)
      /\ s.unbound = 0 \/ ~(s.unbound >= s.source)
  BY DEF Activatable, InputMissing, Outdated
<1>5. s.unbound = 0 \/ s.unbound < s.source
  BY <1>1, <1>4, IntakeAssumption DEF Stores, IntakeAssumption
<1>6. s.input => s.row \in R
  BY <1>1, <1>4 DEF Agree
<1>7. \A t \in Times : /\ s.stop[t] # "applied"
                       /\ s.stop[t] = "superseded" => k.control # "none"
  BY <1>1 DEF Agree
<1>8. Agree(s, l, R)
  BY <1>1, <1>2, <1>4, <1>5, <1>6, <1>7 DEF Agree
<1> QED BY <1>1, <1>2, <1>3, <1>8 DEF Sound, l

LEMMA ActivationKeeps ==
  ASSUME NEW s, NEW k, NEW R, Sound(s, k, R), Activatable(s)
  PROVE  LET z == Activation(s, k).store
             l == Activation(s, k).task
         IN  Sound(z, l, R) /\ SameWork(s, k, z, l)
<1> DEFINE told == [s EXCEPT !.activate = "reconcile", !.told = @ \cup {s.row}]
           done == [s EXCEPT !.activate = "applied"]
           runs == [k EXCEPT !.status = "ready", !.activated = TRUE]
<1>1. s \in Stores /\ s.row # 0
  BY DEF Sound, Activatable
<1>2. Rewords(s, told) /\ Rewords(s, done)
  BY <1>1, RewordsWrites, Zenon
<1>3. CASE s.activate \in {"applied", "reconcile"}
  <2>1. Activation(s, k) = PendingStop(s, k)
    BY <1>3 DEF Activation
  <2> QED BY <2>1, PendingStopKeeps
<1>4. CASE s.activate \notin {"applied", "reconcile"} /\ k.status # "staged" /\ ~k.activated
  <2>1. Activation(s, k).store = told /\ Activation(s, k).task = k
    BY <1>4 DEF Activation
  <2> HIDE DEF told
  <2> QED BY <1>2, <2>1, RewordsKeeps
<1>5. CASE s.activate \notin {"applied", "reconcile"} /\ ~(k.status # "staged" /\ ~k.activated) /\ Outdated(s)
  <2>1. Activation(s, k) = PendingStop(told, k)
    BY <1>5 DEF Activation
  <2> HIDE DEF told
  <2>2. Sound(told, k, R) /\ SameWork(s, k, told, k)
    BY <1>2, RewordsKeeps
  <2> QED BY <2>1, <2>2, PendingStopKeeps, SameAgain
<1>6. CASE s.activate \notin {"applied", "reconcile"} /\ ~(k.status # "staged" /\ ~k.activated) /\ ~Outdated(s)
  <2> DEFINE l == IF k.activated THEN k ELSE runs
  <2>1. Activation(s, k) = PendingStop(done, l)
    BY <1>6 DEF Activation
  <2>2. Sound(s, l, R) /\ SameWork(s, k, s, l)
    <3>1. CASE k.activated
      BY <3>1 DEF SameWork
    <3>2. CASE ~k.activated
      BY <1>6, <3>2, MayRun
    <3> QED BY <3>1, <3>2
  <2> HIDE DEF done, l
  <2>3. Sound(done, l, R) /\ SameWork(s, l, done, l)
    BY <1>2, <2>2, RewordsKeeps
  <2> QED BY <2>1, <2>2, <2>3, PendingStopKeeps, SameAgain
<1> QED BY <1>3, <1>4, <1>5, <1>6

\* An activation that is tried, wherever it fails.
LEMMA AdmittedKeeps ==
  ASSUME NEW s, NEW k, NEW R, Sound(s, k, R)
  PROVE  LET z == Admitted(s, k).store
             l == Admitted(s, k).task
         IN  Sound(z, l, R) /\ SameWork(s, k, z, l)
<1>1. CASE Activatable(s)
  BY <1>1, ActivationKeeps DEF Admitted
<1>2. CASE ~Activatable(s)
  BY <1>2 DEF Admitted, SameWork
<1> QED BY <1>1, <1>2

LEMMA InterruptedKeeps ==
  ASSUME NEW s, NEW k, NEW R, Sound(s, k, R), NEW left \in Interrupted(s, k)
  PROVE  Sound(left.store, left.task, R) /\ SameWork(s, k, left.store, left.task)
<1> DEFINE y == [s EXCEPT !.activate = "attempting"]
           l == [k EXCEPT !.status = "ready", !.activated = TRUE]
<1>1. Rewords(s, y)
  BY RewordsWrites, Zenon DEF Sound
<1>2. Sound(y, k, R) /\ SameWork(s, k, y, k)
  <2> HIDE DEF y
  <2> QED BY <1>1, RewordsKeeps
<1>3. \/ left.store = s /\ left.task = k
      \/ left.store = y /\ left.task = k
      \/ /\ Activatable(s) /\ ~Outdated(s) /\ k.status = "staged"
         /\ left.store = y /\ left.task = l
  BY DEF Interrupted
<1>4. Activatable(s) /\ ~Outdated(s) /\ k.status = "staged" => Sound(s, l, R) /\ SameWork(s, k, s, l)
  BY MayRun
<1>5. Sound(s, l, R) => Sound(y, l, R) /\ SameWork(s, l, y, l)
  <2> HIDE DEF y, l
  <2> QED BY <1>1, RewordsKeeps
<1>6. SameWork(s, k, s, k)
  BY DEF SameWork
<1> HIDE DEF y, l
<1> QED BY <1>2, <1>3, <1>4, <1>5, <1>6, SameAgain

-----------------------------------------------------------------------------
(* What no step takes back.                                                  *)

\* The work, who asked for it, what was told and the Stops that are settled.
Grows(s, z) ==
  /\ s.create # "none" => z.create # "none" /\ z.source = s.source
  /\ s.row # 0 => z.row = s.row
  /\ s.unbound <= z.unbound /\ s.told \subseteq z.told
  /\ \A t \in Times : s.stop[t] \in {"applied", "superseded"} => z.stop[t] = s.stop[t]

LEMMA SameGrows ==
  ASSUME NEW s \in Stores, NEW k, NEW z, NEW l, SameWork(s, k, z, l)
  PROVE  Grows(s, z)
<1>1. s.unbound \in Nat
  BY IntakeAssumption DEF Stores, IntakeAssumption
<1> QED BY <1>1 DEF SameWork, Grows

LEMMA HeedKept ==
  ASSUME NEW s \in Stores, NEW z \in Stores, Grows(s, z), NEW t \in Times, Heeded(s, t)
  PROVE  Heeded(z, t)
<1>1. s.unbound \in Nat /\ z.unbound \in Nat /\ t \in Nat
  BY IntakeAssumption DEF Stores, Times, IntakeAssumption
<1> QED BY <1>1 DEF Heeded, Grows

LEMMA AnswerKept ==
  ASSUME NEW s \in Stores, NEW z \in Stores, Grows(s, z), NEW R, NEW Q, R \subseteq Q,
         NEW t \in Times, HasAnswer(s, R, t)
  PROVE  HasAnswer(z, Q, t)
<1>1. t \in Nat /\ s.row \in Nat /\ (s.row > t => s.row # 0)
  BY IntakeAssumption DEF Stores, Times, IntakeAssumption
<1> QED BY <1>1 DEF HasAnswer, Grows

\* A Stop that is accepted is heeded.
LEMMA ControlKeeps ==
  ASSUME NEW s, NEW k, NEW R, Sound(s, k, R), NEW t \in Times
  PROVE  LET c == Control(s, k, t) IN
         /\ Sound(c.store, c.task, R) /\ Grows(s, c.store)
         /\ c.store.row = s.row /\ (s.create # "none" => c.store.create # "none")
         /\ c.task.made = k.made
         /\ c.accepted => Heeded(c.store, t)
<1>1. s \in Stores /\ k \in NativeTasks /\ Agree(s, k, R) /\ s.unbound \in Nat /\ t \in Nat
  BY IntakeAssumption DEF Sound, Stores, Times, IntakeAssumption
<1>2. Grows(s, s)
  BY <1>1 DEF Grows
<1>3. CASE s.row = 0
  <2> DEFINE z == [s EXCEPT !.unbound = IF t >= @ THEN t ELSE @]
  <2>1. Control(s, k, t).store = z /\ Control(s, k, t).task = k
    BY <1>3 DEF Control, RecordsStop
  <2>2. /\ z \in Stores /\ z.unbound >= t /\ z.unbound >= s.unbound
        /\ z.create = s.create /\ z.row = s.row /\ z.source = s.source /\ z.input = s.input
        /\ z.told = s.told /\ z.anchor = s.anchor /\ z.stop = s.stop
    BY <1>1 DEF Stores, Times
  <2> HIDE DEF z
  <2>3. Agree(z, k, R)
    BY <1>1, <1>3, <2>2 DEF Agree
  <2>4. z.unbound \in Nat
    BY <2>2, IntakeAssumption DEF Stores, IntakeAssumption
  <2>5. Grows(s, z) /\ Heeded(z, t)
    BY <1>1, <2>2, <2>4 DEF Grows, Heeded
  <2> QED BY <1>1, <2>1, <2>2, <2>3, <2>5 DEF Sound
<1>4. CASE s.row # 0 /\ ~mine
  <2> DEFINE y == [s EXCEPT !.stop[t] = "reconcile"]
             z == IF s.stop[t] = "none" THEN y ELSE s
  <2>1. Control(s, k, t).store = z /\ Control(s, k, t).task = k /\ ~Control(s, k, t).accepted
    BY <1>4 DEF Control
  <2>2. Settles(s, t, "reconcile", y)
    BY <1>1, StopWrites, Zenon
  <2> HIDE DEF y
  <2>3. Agree(y, k, R)
    BY <1>1, <1>4, <2>2 DEF Agree, Settles
  <2>4. ASSUME s.stop[t] = "none" PROVE Grows(s, y)
    <3>1. \A u \in Times : s.stop[u] \in {"applied", "superseded"} => y.stop[u] = s.stop[u]
      BY <2>2, <2>4 DEF Settles
    <3>2. s.told \subseteq y.told /\ s.unbound <= y.unbound
      BY <1>1, <2>2 DEF Settles
    <3> QED BY <2>2, <3>1, <3>2 DEF Grows, Settles
  <2> QED BY <1>1, <1>2, <2>1, <2>2, <2>3, <2>4 DEF Sound, Settles
<1>5. CASE s.row # 0 /\ mine /\ t < s.row
  <2>1. Control(s, k, t).store = s /\ Control(s, k, t).task = k
    BY <1>5 DEF Control
  <2> QED BY <1>1, <1>2, <1>5, <2>1 DEF Heeded
<1>6. CASE s.row # 0 /\ mine /\ ~(t < s.row)
  <2> DEFINE z == Stopping(s, k, t).store
             l == Stopping(s, k, t).task
  <2>1. /\ Control(s, k, t).store = z /\ Control(s, k, t).task = l
        /\ Control(s, k, t).accepted => z.stop[t] \in {"applied", "superseded"}
    BY <1>6 DEF Control
  <2>2. Sound(z, l, R) /\ SameWork(s, k, z, l)
    BY <1>6, StoppingKeeps
  <2> HIDE DEF z, l
  <2> QED BY <1>1, <2>1, <2>2, SameGrows DEF SameWork, Heeded
<1> QED BY <1>3, <1>4, <1>5, <1>6

\* Telling a session writes nothing else.
LEMMA ToldKeeps ==
  ASSUME NEW s, NEW k, NEW R, Sound(s, k, R), NEW t \in Times
  PROVE  LET y == [s EXCEPT !.told = @ \cup {t}]
         IN  Sound(y, k, R) /\ SameWork(s, k, y, k) /\ t \in y.told /\ y.row = s.row
<1> DEFINE y == [s EXCEPT !.told = @ \cup {t}]
<1>1. s \in Stores /\ Agree(s, k, R) /\ k \in NativeTasks /\ s.told \in SUBSET Times
  BY DEF Sound, Stores
<1>2. PICK more \in SUBSET Times : more = s.told \cup {t}
  BY <1>1
<1>3. y = [s EXCEPT !.told = more]
  BY <1>2
<1>4. /\ y \in Stores /\ y.told = more
      /\ y.create = s.create /\ y.row = s.row /\ y.source = s.source /\ y.input = s.input
      /\ y.unbound = s.unbound /\ y.anchor = s.anchor /\ y.stop = s.stop
  BY <1>1, <1>2, <1>3 DEF Stores
<1> HIDE DEF y
<1>5. Agree(y, k, R)
  BY <1>1, <1>4 DEF Agree
<1>6. SameWork(s, k, y, k) /\ t \in y.told
  BY <1>2, <1>4 DEF SameWork
<1> QED BY <1>1, <1>4, <1>5, <1>6 DEF Sound, y

-----------------------------------------------------------------------------
(* What a step has to show.                                                  *)

LEMMA Typed == IntakeInv => IntakeTypeOK
<1>1. RestTyped /\ saved \in Stores /\ task \in NativeTasks => IntakeTypeOK
  BY DEF IntakeTypeOK, RestTyped, Stores, NativeTasks
<1> QED BY <1>1 DEF IntakeInv, Sound

LEMMA AtTyped ==
  ASSUME RestTyped, NEW d \in Deliveries
  PROVE  At(d) \in Times /\ Kind(d) \in Kinds /\ At(d) # 0 /\ At(d) \in Nat
BY IntakeAssumption DEF RestTyped, At, Kind, Times, IntakeAssumption

\* Nobody who is not at work gets to work, and who is keeps the lock.
LEMMA LockKept ==
  ASSUME LockInv, event' = event, saved'.row = saved.row,
         saved.create # "none" => saved'.create # "none",
         \A d \in Deliveries :
           /\ ingest'[d] = "create" => task'.made = task.made
           /\ ingest'[d] = "answer" => ingest[d] = "answer" \/ Kind(d) = "prompt"
           /\ ingest'[d] \in Working => ingest'[d] = ingest[d] /\ lock' = lock
           /\ Kind(d) = "stop" => ingest'[d] \in {ingest[d], "none", "hand"}
  PROVE  LockInv'
<1> SUFFICES ASSUME NEW d \in Deliveries
             PROVE  /\ ingest'[d] \in Working => lock' = d
                    /\ Kind(d) = "delegation" => ingest'[d] # "answer"
                    /\ ingest'[d] = "create" => task'.made = 0
                    /\ ingest'[d] \in {"create", "bind"} => saved'.row = 0 /\ saved'.create # "none"
                    /\ ingest'[d] \in {"settle", "activate"} => saved'.row = At(d)
                    /\ Kind(d) = "stop" => ingest'[d] \in {"none", "hand"}
  BY DEF LockInv, At, Kind
<1> QED BY DEF LockInv, Working

\* One coroutine takes a step of its work on the task.
LEMMA LockTaken ==
  ASSUME LockInv, event' = event, NEW d \in Deliveries, lock \in {Free, d}, lock' = d,
         \A e \in Deliveries : e # d => ingest'[e] = ingest[e],
         Kind(d) # "stop", ingest'[d] # "answer",
         ingest'[d] = "create" => task'.made = 0,
         ingest'[d] \in {"create", "bind"} => saved'.row = 0 /\ saved'.create # "none",
         ingest'[d] \in {"settle", "activate"} => saved'.row = At(d)
  PROVE  LockInv'
<1>1. \A e \in Deliveries : e # d => ingest[e] \notin Working
  BY IntakeAssumption DEF LockInv, IntakeAssumption
<1> SUFFICES ASSUME NEW e \in Deliveries
             PROVE  /\ ingest'[e] \in Working => lock' = e
                    /\ Kind(e) = "delegation" => ingest'[e] # "answer"
                    /\ ingest'[e] = "create" => task'.made = 0
                    /\ ingest'[e] \in {"create", "bind"} => saved'.row = 0 /\ saved'.create # "none"
                    /\ ingest'[e] \in {"settle", "activate"} => saved'.row = At(e)
                    /\ Kind(e) = "stop" => ingest'[e] \in {"none", "hand"}
  BY DEF LockInv, At, Kind
<1>2. CASE e = d
  BY <1>2
<1>3. CASE e # d
  BY <1>1, <1>3 DEF LockInv, Working
<1> QED BY <1>2, <1>3

\* What is kept or acknowledged anew is heeded and answered.
LEMMA HookKept ==
  ASSUME RestTyped, HookInv, event' = event, saved \in Stores, saved' \in Stores,
         Grows(saved, saved'), core.receipts \subseteq core'.receipts,
         \A t \in Times : \A d \in InHook(t)' :
           d \in InHook(t) \/ (At(d) = t /\ t \in core'.receipts),
         \A d \in Deliveries :
           /\ Kind(d) = "stop" /\ (d \in hook'[At(d)].kept \/ inbox'[d] = "imported")
                => d \in hook[At(d)].kept \/ inbox[d] = "imported" \/ Heeded(saved', At(d))
           /\ Kind(d) = "delegation" /\ (ingest'[d] = "ack" \/ inbox'[d] = "imported")
                => \/ ingest[d] = "ack" \/ inbox[d] = "imported"
                   \/ HasAnswer(saved', core'.receipts, At(d))
  PROVE  HookInv'
<1>1. \A t \in Times : \A d \in InHook(t)' : At(d) = t /\ t \in core'.receipts
  BY DEF HookInv
<1>2. ASSUME NEW d \in Deliveries, Kind(d) = "stop",
             d \in hook'[At(d)].kept \/ inbox'[d] = "imported"
      PROVE  Heeded(saved', At(d))
  BY <1>2, HeedKept, AtTyped DEF HookInv
<1>3. ASSUME NEW d \in Deliveries, Kind(d) = "delegation", ingest'[d] = "ack" \/ inbox'[d] = "imported"
      PROVE  HasAnswer(saved', core'.receipts, At(d))
  BY <1>3, AnswerKept, AtTyped DEF HookInv
<1> QED BY <1>1, <1>2, <1>3 DEF HookInv, At, Kind

-----------------------------------------------------------------------------
(* Everything but the store and the task.                                    *)

LEMMA AdmissionTyped ==
  ASSUME RestTyped, NEW d \in Deliveries, NEW s, EndsAdmission(d, s)
  PROVE  RestTyped'
<1>1. PICK next \in {"ack", "hand", "raise"} : next = Decided(d, s)
  BY DEF Decided
<1>2. /\ ingest' = [ingest EXCEPT ![d] = IF next = "raise" THEN "none" ELSE next]
      /\ submitted' = [submitted EXCEPT ![d] = IF next = "raise" THEN "raised" ELSE @]
      /\ lock' = IF lock = d THEN Free ELSE lock
      /\ UNCHANGED <<failed, pending, event, inbox, aged, core, hook, mine, trouble>>
  BY <1>1 DEF EndsAdmission, Released, SameRelay
<1>3. ingest' \in [Deliveries -> {"none", "admit", "create", "bind", "settle",
                                  "activate", "answer", "hand", "ack"}]
  BY <1>1, <1>2 DEF RestTyped
<1>4. submitted' \in [Deliveries -> {"none", "running", "raised", "done"}]
  BY <1>2 DEF RestTyped
<1> QED BY <1>2, <1>3, <1>4 DEF RestTyped

LEMMA RestKept ==
  ASSUME RestTyped, IntakeNext
  PROVE  RestTyped'
<1> USE DEF RestTyped
<1>1. CASE RecoverAdmissions
  BY <1>1 DEF RecoverAdmissions
<1>2. CASE PersonResumes \/ WorkFinishes
  BY <1>2 DEF PersonResumes, WorkFinishes, Native
<1>3. CASE PersonReassigns \/ DayPasses
  BY <1>3 DEF PersonReassigns, DayPasses
<1>4. ASSUME Fault PROVE trouble' \in 0..MaxTrouble
  BY <1>4, IntakeAssumption DEF Fault, IntakeAssumption
<1>5. CASE Crash
  <2>1. core' \in [queued : SUBSET Times, admitted : SUBSET Times, receipts : SUBSET Times]
    BY <1>5 DEF Crash
  <2>2. trouble' \in 0..MaxTrouble
    BY <1>4, <1>5 DEF Crash
  <2> QED BY <1>5, <2>1, <2>2 DEF Crash
<1>6. ASSUME NEW d \in Deliveries, Route(d) PROVE RestTyped'
  <2>1. trouble' \in 0..MaxTrouble
    BY <1>6, IntakeAssumption DEF Route, Drained, IntakeAssumption
  <2>2. Project(d) \in {"admit", "answer", "hand"}
    BY DEF Project
  <2>3. inbox' \in [Deliveries -> {"pending", "imported", "failed"}]
    BY <1>6 DEF Route, KeepsOrParks
  <2>4. ingest' \in [Deliveries -> {"none", "admit", "create", "bind", "settle",
                                    "activate", "answer", "hand", "ack"}]
    BY <1>6, <2>2 DEF Route
  <2> QED BY <1>6, <2>1, <2>3, <2>4 DEF Route
<1>7. ASSUME NEW d \in Deliveries, IngestFails(d) PROVE RestTyped'
  <2>1. trouble' \in 0..MaxTrouble
    BY <1>4, <1>7 DEF IngestFails
  <2> QED BY <1>7, <2>1 DEF IngestFails, Released
<1>8. ASSUME NEW d \in Deliveries, IngestStep(d) PROVE RestTyped'
  <2>1. CASE AnswerOrOrdinary(d)
    BY <2>1 DEF AnswerOrOrdinary, Step, SameRelay
  <2>2. CASE AdmitKnown(d)
    BY <2>2, AdmissionTyped DEF AdmitKnown
  <2>3. CASE AdmitRefused(d) \/ AdmitStopped(d)
    BY <2>3, AdmissionTyped DEF AdmitRefused, AdmitStopped
  <2>4. CASE AdmitPrepares(d)
    BY <2>4 DEF AdmitPrepares, Step, SameRelay
  <2>5. CASE AdmitFinds(d)
    <3>1. CASE EndsAdmission(d, saved')
      BY <3>1, AdmissionTyped
    <3>2. CASE lock' = d /\ Step(d, "admit", "bind") /\ UNCHANGED <<submitted, failed, pending>> /\ SameRelay
      BY <3>2 DEF Step, SameRelay
    <3> QED BY <2>5, <3>1, <3>2 DEF AdmitFinds
  <2>6. CASE Creation(d) \/ Binds(d) \/ SettlesCreation(d)
    <3>1. /\ UNCHANGED <<submitted, failed, pending, lock>> /\ SameRelay
          /\ \E to \in {"bind", "settle", "activate"} : ingest' = [ingest EXCEPT ![d] = to]
      BY <2>6 DEF Creation, Binds, SettlesCreation, Step
    <3> QED BY <3>1 DEF SameRelay
  <2>7. CASE StartActivates(d)
    BY <2>7, AdmissionTyped DEF StartActivates
  <2>8. CASE HandsOver(d)
    <3>1. At(d) \in Times
      BY AtTyped
    <3>2. core' \in [queued : SUBSET Times, admitted : SUBSET Times, receipts : SUBSET Times]
      BY <2>8, <3>1 DEF HandsOver
    <3> QED BY <2>8, <3>2 DEF HandsOver, Step
  <2>9. CASE AcksItself(d)
    BY <2>9 DEF AcksItself, Step
  <2> QED BY <1>8, <2>1, <2>2, <2>3, <2>4, <2>5, <2>6, <2>7, <2>8, <2>9 DEF IngestStep
<1>9. ASSUME NEW t \in Times, CoreCommits(t) PROVE RestTyped'
  <2>1. core' \in [queued : SUBSET Times, admitted : SUBSET Times, receipts : SUBSET Times]
    BY <1>9 DEF CoreCommits
  <2>2. hook' \in [Times -> [todo : SUBSET Deliveries, kept : SUBSET Deliveries]]
    <3>1. PICK heard \in SUBSET Deliveries : heard = {d \in pending : At(d) = t}
      OBVIOUS
    <3>2. hook' = [hook EXCEPT ![t].todo = heard]
      BY <1>9, <3>1 DEF CoreCommits
    <3> QED BY SMTT(20), <3>2
  <2> QED BY <1>9, <2>1, <2>2 DEF CoreCommits
<1>10. ASSUME NEW t \in Times, CoreCompletes(t) PROVE RestTyped'
  <2>1. core' \in [queued : SUBSET Times, admitted : SUBSET Times, receipts : SUBSET Times]
    BY <1>10 DEF CoreCompletes
  <2>2. failed' \subseteq Deliveries /\ pending' \subseteq Deliveries
    BY <1>10 DEF CoreCompletes
  <2> QED BY <1>10, <2>1, <2>2 DEF CoreCompletes
<1>11. ASSUME NEW t \in Times, HookFails(t) PROVE RestTyped'
  <2>1. trouble' \in 0..MaxTrouble
    BY <1>4, <1>11 DEF HookFails
  <2> QED BY <1>11, <2>1 DEF HookFails
<1>12. ASSUME NEW t \in Times, NEW d \in Deliveries, HookStep(t, d) PROVE RestTyped'
  <2>1. CASE HookKeeps(t, d)
    <3>1. hook' \in [Times -> [todo : SUBSET Deliveries, kept : SUBSET Deliveries]]
      <4> DEFINE told == [todo |-> hook[t].todo \ {d}, kept |-> hook[t].kept \cup {d}]
                 over == [todo |-> {}, kept |-> {}]
      <4>1. told \in [todo : SUBSET Deliveries, kept : SUBSET Deliveries]
        BY DEF RestTyped
      <4>2. over \in [todo : SUBSET Deliveries, kept : SUBSET Deliveries]
        OBVIOUS
      <4>3. hook' = [hook EXCEPT ![t] = told] \/ hook' = [hook EXCEPT ![t] = over]
        BY <2>1 DEF HookKeeps
      <4> HIDE DEF told, over
      <4>4. hook \in [Times -> [todo : SUBSET Deliveries, kept : SUBSET Deliveries]]
        BY DEF RestTyped
      <4> QED BY <4>1, <4>2, <4>3, <4>4
    <3> QED BY <2>1, <3>1 DEF HookKeeps
  <2>2. CASE HookAcks(t, d)
    <3>1. hook' \in [Times -> [todo : SUBSET Deliveries, kept : SUBSET Deliveries]]
      <4>1. PICK rest \in SUBSET Deliveries : rest = hook[t].kept \ {d}
        OBVIOUS
      <4>2. \/ hook' = [hook EXCEPT ![t].kept = rest]
            \/ hook' = [hook EXCEPT ![t] = [todo |-> {}, kept |-> {}]]
        BY <2>2, <4>1 DEF HookAcks
      <4> QED BY SMTT(20), <4>2
    <3> QED BY <2>2, <3>1 DEF HookAcks
  <2> QED BY <1>12, <2>1, <2>2 DEF HookStep
<1> QED BY <1>1, <1>2, <1>3, <1>5, <1>6, <1>7, <1>8, <1>9, <1>10, <1>11, <1>12 DEF IntakeNext

-----------------------------------------------------------------------------
(* The deliveries.                                                           *)

LEMMA GrowsAgain ==
  ASSUME NEW s \in Stores
  PROVE  Grows(s, s)
<1>1. s.unbound \in Nat
  BY IntakeAssumption DEF Stores, IntakeAssumption
<1> QED BY <1>1 DEF Grows

LEMMA GrowsOn ==
  ASSUME NEW s \in Stores, NEW y \in Stores, NEW z \in Stores, Grows(s, y), Grows(y, z)
  PROVE  Grows(s, z)
<1>1. s.unbound \in Nat /\ y.unbound \in Nat /\ z.unbound \in Nat
  BY IntakeAssumption DEF Stores, IntakeAssumption
<1>2. \A t \in Times : s.stop[t] \in {"applied", "superseded"} => z.stop[t] = s.stop[t]
  BY DEF Grows
<1> QED BY <1>1, <1>2 DEF Grows

\* A step that leaves the store, the task and the receipts.
LEMMA Untouched ==
  ASSUME IntakeInv, event' = event, saved' = saved, task' = task, core'.receipts = core.receipts,
         \A d \in Deliveries :
           /\ ingest'[d] \in Working => ingest'[d] = ingest[d] /\ lock' = lock
           /\ ingest'[d] = "answer" => ingest[d] = "answer" \/ Kind(d) = "prompt"
           /\ Kind(d) = "stop" => ingest'[d] \in {ingest[d], "none", "hand"}
           /\ ingest'[d] = "ack" => ingest[d] = "ack" \/ Kind(d) # "delegation",
         \A t \in Times : /\ hook'[t].todo \subseteq hook[t].todo
                          /\ hook'[t].kept \subseteq hook[t].kept,
         \A d \in Deliveries :
           inbox'[d] = "imported" =>
             \/ inbox[d] = "imported" \/ (ingest[d] = "ack" /\ Kind(d) # "stop")
             \/ d \in hook[At(d)].kept
  PROVE  Sound(saved', task', core'.receipts) /\ LockInv' /\ HookInv'
<1> USE DEF IntakeInv
<1>1. LockInv'
  BY LockKept, Zenon
<1>2. \A t \in Times : \A d \in InHook(t)' : d \in InHook(t)
  BY DEF InHook
<1>3. \A d \in Deliveries :
        Kind(d) = "stop" /\ (d \in hook'[At(d)].kept \/ inbox'[d] = "imported")
          => d \in hook[At(d)].kept \/ inbox[d] = "imported"
  BY AtTyped
<1>4. ASSUME NEW d \in Deliveries, Kind(d) = "delegation",
             ingest'[d] = "ack" \/ inbox'[d] = "imported"
      PROVE  \/ ingest[d] = "ack" \/ inbox[d] = "imported"
             \/ HasAnswer(saved', core'.receipts, At(d))
  <2>1. ASSUME d \in hook[At(d)].kept PROVE HasAnswer(saved', core'.receipts, At(d))
    BY <2>1, AtTyped DEF HookInv, InHook, HasAnswer
  <2> QED BY <1>4, <2>1
<1>5. saved \in Stores /\ saved' \in Stores /\ Grows(saved, saved')
  BY GrowsAgain DEF Sound
<1>6. HookInv'
  BY <1>2, <1>3, <1>4, <1>5, HookKept
<1> QED BY <1>1, <1>6

LEMMA RouteKeeps ==
  ASSUME IntakeInv, NEW d \in Deliveries, Route(d)
  PROVE  Sound(saved', task', core'.receipts) /\ LockInv' /\ HookInv'
<1>1. /\ event' = event /\ saved' = saved /\ task' = task /\ core' = core
      /\ hook' = hook /\ lock' = lock
  BY DEF Route
<1>2. \A e \in Deliveries : inbox'[e] = "imported" => inbox[e] = "imported"
  BY DEF Route, KeepsOrParks, IntakeInv, RestTyped
<1>3. Project(d) \in {"admit", "answer", "hand"}
  BY DEF Project
<1>4. /\ Project(d) = "answer" => Kind(d) = "prompt"
      /\ Kind(d) = "stop" => Project(d) = "hand"
  BY DEF Project
<1>5. \A e \in Deliveries : ingest'[e] = ingest[e] \/ (e = d /\ ingest'[e] = Project(d))
  BY DEF Route, IntakeInv, RestTyped
<1>6. \A e \in Deliveries :
        /\ ingest'[e] \in Working => ingest'[e] = ingest[e] /\ lock' = lock
        /\ ingest'[e] = "answer" => ingest[e] = "answer" \/ Kind(e) = "prompt"
        /\ Kind(e) = "stop" => ingest'[e] \in {ingest[e], "none", "hand"}
        /\ ingest'[e] = "ack" => ingest[e] = "ack" \/ Kind(e) # "delegation"
  BY <1>1, <1>3, <1>4, <1>5 DEF Working
<1> QED BY <1>1, <1>2, <1>6, Untouched

LEMMA OwnSteps ==
  ASSUME IntakeInv, NEW d \in Deliveries, AnswerOrOrdinary(d) \/ HandsOver(d) \/ AcksItself(d)
  PROVE  Sound(saved', task', core'.receipts) /\ LockInv' /\ HookInv'
<1>1. /\ event' = event /\ saved' = saved /\ task' = task /\ core'.receipts = core.receipts
      /\ hook' = hook /\ lock' = lock
  BY DEF AnswerOrOrdinary, HandsOver, AcksItself, SameRelay, IntakeInv, RestTyped
<1>2. \A e \in Deliveries : ingest'[e] = ingest[e] \/ (e = d /\ ingest'[e] \in {"none", "ack", "hand"})
  BY DEF AnswerOrOrdinary, HandsOver, AcksItself, Step, IntakeInv, RestTyped
<1>3. ingest'[d] = "ack" => ingest[d] = "answer"
  BY DEF AnswerOrOrdinary, HandsOver, AcksItself, Step, IntakeInv, RestTyped
<1>4. \A e \in Deliveries :
        /\ ingest'[e] \in Working => ingest'[e] = ingest[e] /\ lock' = lock
        /\ ingest'[e] = "answer" => ingest[e] = "answer" \/ Kind(e) = "prompt"
        /\ Kind(e) = "stop" => ingest'[e] \in {ingest[e], "none", "hand"}
        /\ ingest'[e] = "ack" => ingest[e] = "ack" \/ Kind(e) # "delegation"
  BY <1>1, <1>2, <1>3 DEF Working, IntakeInv, LockInv
<1>5. \A e \in Deliveries :
        inbox'[e] = "imported" => \/ inbox[e] = "imported"
                                  \/ ingest[e] = "ack" /\ Kind(e) # "stop"
  BY DEF AnswerOrOrdinary, HandsOver, AcksItself, Step, SameRelay, IntakeInv, RestTyped, LockInv
<1> QED BY <1>1, <1>4, <1>5, Untouched

\* A step of the admission at the issue's store and task that nobody is told of.
LEMMA AtWork ==
  ASSUME IntakeInv, NEW d \in Deliveries, lock \in {Free, d}, lock' = d, UNCHANGED <<event, inbox, core, hook>>,
         Sound(saved', task', core.receipts), Grows(saved, saved'), Kind(d) # "stop",
         \A e \in Deliveries : e # d => ingest'[e] = ingest[e],
         ingest'[d] \in Working, ingest'[d] = "create" => task'.made = 0,
         ingest'[d] \in {"create", "bind"} => saved'.row = 0 /\ saved'.create # "none",
         ingest'[d] \in {"settle", "activate"} => saved'.row = At(d)
  PROVE  Sound(saved', task', core'.receipts) /\ LockInv' /\ HookInv'
<1>1. ingest'[d] # "answer" /\ ingest'[d] # "ack"
  BY DEF Working
<1>2. LockInv'
  BY <1>1, LockTaken DEF IntakeInv
<1>3. \A e \in Deliveries : ingest'[e] = "ack" => ingest[e] = "ack"
  BY <1>1
<1>4. \A t \in Times : InHook(t)' = InHook(t)
  BY DEF InHook
<1>5. saved \in Stores /\ saved' \in Stores
  BY DEF IntakeInv, Sound
<1>6. HookInv'
  BY <1>3, <1>4, <1>5, HookKept DEF IntakeInv
<1> QED BY <1>2, <1>6

\* The end of an admission, whatever it decided.
LEMMA AdmissionEnds ==
  ASSUME IntakeInv, NEW d \in Deliveries, ingest[d] \in {"admit", "activate"}, lock \in {Free, d},
         EndsAdmission(d, saved'), Sound(saved', task', core.receipts), Grows(saved, saved'),
         saved'.row = saved.row, task'.made = task.made,
         saved.row \in {0, At(d)} \/ At(d) \in saved'.told
  PROVE  Sound(saved', task', core'.receipts) /\ LockInv' /\ HookInv'
<1>1. /\ event' = event /\ inbox' = inbox /\ core' = core /\ hook' = hook
      /\ lock' = IF lock = d THEN Free ELSE lock
  BY DEF EndsAdmission, SameRelay, Released
<1>2. PICK next \in {"ack", "hand", "raise"} : next = Decided(d, saved')
  BY DEF Decided
<1>3. ingest' = [ingest EXCEPT ![d] = IF next = "raise" THEN "none" ELSE next]
  BY <1>2 DEF EndsAdmission
<1>4. \A e \in Deliveries : ingest'[e] = ingest[e] \/ (e = d /\ ingest'[e] \in {"none", "ack", "hand"})
  BY <1>3 DEF IntakeInv, RestTyped
<1>5. Kind(d) # "stop"
  BY DEF IntakeInv, LockInv
<1>6. \A e \in Deliveries :
        /\ ingest'[e] = "create" => task'.made = task.made
        /\ ingest'[e] = "answer" => ingest[e] = "answer" \/ Kind(e) = "prompt"
        /\ ingest'[e] \in Working => ingest'[e] = ingest[e] /\ lock' = lock
        /\ Kind(e) = "stop" => ingest'[e] \in {ingest[e], "none", "hand"}
  <2> TAKE e \in Deliveries
  <2>1. CASE e = d
    <3>1. ingest'[d] \in {"none", "ack", "hand"}
      BY <1>2, <1>3 DEF IntakeInv, RestTyped
    <3> QED BY <1>5, <2>1, <3>1 DEF Working
  <2>2. CASE e # d
    <3>1. ingest'[e] = ingest[e] /\ (ingest[e] \in Working => lock = e)
      BY <1>4, <2>2 DEF IntakeInv, LockInv
    <3>2. lock = e => lock' = lock
      BY <1>1, <2>2
    <3> QED BY <3>1, <3>2
  <2> QED BY <2>1, <2>2
<1>7. saved.create # "none" => saved'.create # "none"
  BY DEF Grows
<1>8. LockInv'
  BY <1>1, <1>6, <1>7, LockKept DEF IntakeInv
<1>9. ASSUME NEW e \in Deliveries, Kind(e) = "delegation", ingest'[e] = "ack", ingest[e] # "ack"
      PROVE  HasAnswer(saved', core'.receipts, At(e))
  <2>1. e = d /\ next = "ack"
    BY <1>2, <1>3, <1>9 DEF IntakeInv, RestTyped
  <2>2. At(d) \in saved'.told
    BY <1>2, <1>9, <2>1 DEF Decided
  <2> QED BY <2>1, <2>2 DEF HasAnswer
<1>10. \A t \in Times : InHook(t)' = InHook(t)
  BY <1>1 DEF InHook
<1>11. saved \in Stores /\ saved' \in Stores
  BY DEF IntakeInv, Sound
<1>12. HookInv'
  BY <1>1, <1>9, <1>10, <1>11, HookKept DEF IntakeInv
<1> QED BY <1>1, <1>8, <1>12

-----------------------------------------------------------------------------
(* The admission.                                                            *)

\* What saving the request writes of the store.
Asks(s, z, t) ==
  /\ z \in Stores
  /\ z.create # "none" /\ z.source = t /\ z.row = s.row /\ z.unbound = s.unbound
  /\ s.told \subseteq z.told /\ z.anchor = s.anchor /\ z.stop = s.stop

LEMMA AsksKeeps ==
  ASSUME NEW s, NEW k, NEW R, Sound(s, k, R), s.create = "none", NEW t, NEW z, Asks(s, z, t)
  PROVE  Sound(z, k, R) /\ Grows(s, z) /\ k.made = 0 /\ s.row = 0
<1>1. s \in Stores /\ k \in NativeTasks /\ Agree(s, k, R) /\ s.unbound \in Nat
  BY IntakeAssumption DEF Sound, Stores, IntakeAssumption
<1>2. k.made = 0 /\ s.row = 0 /\ ~k.activated
  BY <1>1 DEF Agree
<1>3. Agree(z, k, R)
  BY <1>1, <1>2 DEF Agree, Asks
<1>4. Grows(s, z)
  BY <1>1, <1>2 DEF Grows, Asks
<1> QED BY <1>1, <1>2, <1>3, <1>4 DEF Sound, Asks

\* A request that was saved, its outcome written anew.
LEMMA OutcomeKeeps ==
  ASSUME NEW s, NEW k, NEW R, Sound(s, k, R), s.create # "none",
         NEW c \in {"attempting", "applied", "reconcile"}
  PROVE  LET z == [s EXCEPT !.create = c]
         IN  Sound(z, k, R) /\ Grows(s, z) /\ z.row = s.row /\ z.told = s.told
<1> DEFINE z == [s EXCEPT !.create = c]
<1>1. s \in Stores /\ k \in NativeTasks /\ Agree(s, k, R) /\ s.unbound \in Nat
  BY IntakeAssumption DEF Sound, Stores, IntakeAssumption
<1>2. /\ z \in Stores /\ z.create = c
      /\ z.row = s.row /\ z.source = s.source /\ z.input = s.input
      /\ z.unbound = s.unbound /\ z.anchor = s.anchor /\ z.stop = s.stop /\ z.told = s.told
  BY <1>1 DEF Stores
<1> HIDE DEF z
<1>3. Agree(z, k, R)
  BY <1>1, <1>2 DEF Agree
<1>4. Grows(s, z)
  BY <1>1, <1>2 DEF Grows
<1> QED BY <1>1, <1>2, <1>3, <1>4 DEF Sound, z

LEMMA AdmitKnownKeeps ==
  ASSUME IntakeInv, NEW d \in Deliveries, AdmitKnown(d)
  PROVE  Sound(saved', task', core'.receipts) /\ LockInv' /\ HookInv'
<1>1. PICK done : done = IF At(d) < saved.row THEN [store |-> saved, task |-> task]
                         ELSE Admitted(saved, task)
  OBVIOUS
<1>2. Sound(done.store, done.task, core.receipts) /\ SameWork(saved, task, done.store, done.task)
  <2>1. Sound(saved, task, core.receipts)
    BY DEF IntakeInv
  <2>2. CASE At(d) < saved.row
    <3>1. done.store = saved /\ done.task = task
      BY <1>1, <2>2
    <3> QED BY <2>1, <3>1 DEF SameWork
  <2>3. CASE ~(At(d) < saved.row)
    <3>1. done = Admitted(saved, task)
      BY <1>1, <2>3
    <3> QED BY <2>1, <3>1, AdmittedKeeps
  <2> QED BY <2>2, <2>3
<1>3. At(d) \in Times
  BY AtTyped DEF IntakeInv
<1> DEFINE told == [done.store EXCEPT !.told = @ \cup {At(d)}]
           z == [done.store EXCEPT !.told = IF saved.row = At(d) THEN @ ELSE @ \cup {At(d)}]
<1>4. /\ saved' = z /\ task' = done.task /\ EndsAdmission(d, z)
      /\ ingest[d] = "admit" /\ lock = Free /\ saved.row # 0
  <2>1. [done EXCEPT !.store = z].store = z /\ [done EXCEPT !.store = z].task = done.task
    <3>1. \E a, b : done = [store |-> a, task |-> b]
      BY <1>1 DEF Admitted, Activation, PendingStop, Stopping
    <3> QED BY <3>1
  <2> QED BY <1>1, <2>1 DEF AdmitKnown, Keeps
<1>5. Sound(told, done.task, core.receipts) /\ SameWork(done.store, done.task, told, done.task) /\ At(d) \in told.told
  BY <1>2, <1>3, ToldKeeps
<1>6. saved.row = At(d) => z = done.store
  <2>1. done.store \in Stores
    BY <1>2 DEF Sound
  <2> QED BY <2>1 DEF Stores
<1>7. saved.row # At(d) => z = told
  OBVIOUS
<1> HIDE DEF z, told
<1>8. SameWork(saved, task, z, done.task) /\ Sound(z, done.task, core.receipts)
  BY <1>2, <1>5, <1>6, <1>7, SameAgain
<1>9. saved.row # At(d) => At(d) \in z.told
  BY <1>5, <1>7
<1>10. Grows(saved, z) /\ z.row = saved.row /\ done.task.made = task.made
  BY <1>8, SameGrows DEF IntakeInv, Sound, SameWork
<1> QED BY <1>4, <1>8, <1>9, <1>10, AdmissionEnds

\* A request that is refused, or stopped before it was sent, is answered.
LEMMA AdmitUnsentKeeps ==
  ASSUME IntakeInv, NEW d \in Deliveries, AdmitRefused(d) \/ AdmitStopped(d)
  PROVE  Sound(saved', task', core'.receipts) /\ LockInv' /\ HookInv'
<1>1. /\ Sound(saved, task, core.receipts) /\ saved \in Stores /\ At(d) \in Times
      /\ ingest[d] = "admit" /\ lock = Free /\ saved.row = 0
      /\ task' = task /\ EndsAdmission(d, saved')
  BY AtTyped DEF IntakeInv, Sound, AdmitRefused, AdmitStopped
<1>2. CASE AdmitRefused(d)
  <2> DEFINE told == [saved EXCEPT !.told = @ \cup {At(d)}]
  <2>1. Sound(told, task, core.receipts) /\ SameWork(saved, task, told, task)
    BY <1>1, ToldKeeps
  <2>2. saved' = told
    BY <1>2 DEF AdmitRefused
  <2> HIDE DEF told
  <2>3. Grows(saved, told) /\ told.row = saved.row
    BY <1>1, <2>1, SameGrows DEF SameWork
  <2> QED BY <1>1, <2>1, <2>2, <2>3, AdmissionEnds
<1>3. CASE AdmitStopped(d)
  <2> DEFINE z == [saved EXCEPT !.told = @ \cup {At(d)}, !.create = "reconcile", !.source = At(d)]
  <2>1. PICK more \in SUBSET Times : more = saved.told \cup {At(d)}
    BY <1>1 DEF Stores
  <2>2. z = [saved EXCEPT !.told = more, !.create = "reconcile", !.source = At(d)]
    BY <2>1
  <2>3. Asks(saved, z, At(d))
    <3>1. At(d) \in 0..LastTime
      BY <1>1, IntakeAssumption DEF Times, IntakeAssumption
    <3> QED BY <1>1, <2>1, <2>2, <3>1 DEF Asks, Stores
  <2>4. saved' = z /\ saved.create = "none"
    BY <1>3 DEF AdmitStopped
  <2> HIDE DEF z
  <2>5. Sound(z, task, core.receipts) /\ Grows(saved, z) /\ z.row = saved.row
    BY <1>1, <2>3, <2>4, AsksKeeps DEF Asks
  <2> QED BY <1>1, <2>4, <2>5, AdmissionEnds
<1> QED BY <1>2, <1>3

LEMMA AdmitPreparesKeeps ==
  ASSUME IntakeInv, NEW d \in Deliveries, AdmitPrepares(d)
  PROVE  Sound(saved', task', core'.receipts) /\ LockInv' /\ HookInv'
<1>1. /\ Sound(saved, task, core.receipts) /\ saved \in Stores /\ At(d) \in Times
      /\ ingest[d] = "admit" /\ lock = Free /\ saved.create = "none"
      /\ task' = task /\ UNCHANGED <<event, inbox, core, hook>> /\ lock' = d
      /\ ingest' = [ingest EXCEPT ![d] = "create"] /\ d \in DOMAIN ingest
  BY AtTyped DEF IntakeInv, RestTyped, Sound, AdmitPrepares, Step, SameRelay
<1>2. PICK asked \in BOOLEAN : asked = (Kind(d) = "delegation")
  OBVIOUS
<1> DEFINE z == [saved EXCEPT !.create = "attempting", !.source = At(d), !.input = asked]
<1>3. saved' = z
  BY <1>2 DEF AdmitPrepares
<1>4. Asks(saved, z, At(d))
  <2>1. At(d) \in 0..LastTime
    BY <1>1, IntakeAssumption DEF Times, IntakeAssumption
  <2> QED BY <1>1, <2>1 DEF Asks, Stores
<1> HIDE DEF z
<1>5. Sound(z, task, core.receipts) /\ Grows(saved, z) /\ task.made = 0 /\ saved.row = 0
  BY <1>1, <1>4, AsksKeeps
<1>6. Kind(d) # "stop"
  BY <1>1 DEF IntakeInv, LockInv
<1>7. ingest'[d] = "create" /\ \A e \in Deliveries : e # d => ingest'[e] = ingest[e]
  BY <1>1
<1>8. z.row = 0 /\ z.create # "none"
  BY <1>4, <1>5 DEF Asks
<1> QED BY <1>1, <1>3, <1>5, <1>6, <1>7, <1>8, AtWork DEF Working

LEMMA AdmitFindsKeeps ==
  ASSUME IntakeInv, NEW d \in Deliveries, AdmitFinds(d)
  PROVE  Sound(saved', task', core'.receipts) /\ LockInv' /\ HookInv'
<1>1. /\ Sound(saved, task, core.receipts) /\ saved \in Stores /\ At(d) \in Times
      /\ ingest[d] = "admit" /\ lock = Free /\ saved.create # "none" /\ saved.row = 0
      /\ task' = task /\ Kind(d) # "stop" /\ d \in DOMAIN ingest
  BY AtTyped DEF IntakeInv, RestTyped, Sound, LockInv, AdmitFinds
<1>2. CASE saved' = saved /\ lock' = d /\ Step(d, "admit", "bind") /\ SameRelay
  <2>1. ingest'[d] = "bind" /\ \A e \in Deliveries : e # d => ingest'[e] = ingest[e]
    BY <1>1, <1>2 DEF Step
  <2>2. UNCHANGED <<event, inbox, core, hook>>
    BY <1>2 DEF SameRelay
  <2> QED BY <1>1, <1>2, <2>1, <2>2, GrowsAgain, AtWork DEF Working
<1>3. CASE /\ saved' = [saved EXCEPT !.create = "reconcile", !.told = @ \cup {At(d)}]
           /\ EndsAdmission(d, saved')
  <2> DEFINE y == [saved EXCEPT !.create = "reconcile"]
             z == [y EXCEPT !.told = @ \cup {At(d)}]
  <2>1. saved' = z
    BY <1>1, <1>3 DEF Stores
  <2>2. Sound(y, task, core.receipts) /\ Grows(saved, y) /\ y.row = saved.row
    BY <1>1, OutcomeKeeps
  <2> HIDE DEF y
  <2>3. Sound(z, task, core.receipts) /\ SameWork(y, task, z, task)
    BY <1>1, <2>2, ToldKeeps
  <2> HIDE DEF z
  <2>4. Grows(y, z) /\ z.row = y.row
    BY <2>2, <2>3, SameGrows DEF SameWork, Sound
  <2>5. Grows(saved, z)
    BY <1>1, <2>2, <2>3, <2>4, GrowsOn DEF Sound
  <2> QED BY <1>1, <1>3, <2>1, <2>2, <2>3, <2>4, <2>5, AdmissionEnds
<1> QED BY <1>2, <1>3 DEF AdmitFinds

\* The native task is made for a request that has none.
LEMMA Created ==
  ASSUME NEW s, NEW k, NEW R, Sound(s, k, R), s.row = 0, s.create # "none", k.made = 0
  PROVE  LET l == [k EXCEPT !.made = @ + 1, !.status = "staged"]
         IN  Sound(s, l, R)
<1> DEFINE l == [k EXCEPT !.made = @ + 1, !.status = "staged"]
<1>1. s \in Stores /\ k \in NativeTasks /\ Agree(s, k, R)
  BY DEF Sound
<1>2. l = [k EXCEPT !.made = 1, !.status = "staged"]
  BY <1>1 DEF NativeTasks
<1> HIDE DEF l
<1>3. l \in NativeTasks /\ l.made = 1 /\ l.status = "staged" /\ l.activated = k.activated
  <2>1. 1 \in 0..2 /\ "staged" \in {"none", "staged", "ready", "stopped", "done"}
    OBVIOUS
  <2>2. l \in NativeTasks
    BY <1>1, <1>2, <2>1 DEF NativeTasks
  <2>3. l.made = 1 /\ l.status = "staged"
    BY <1>1, <1>2 DEF NativeTasks
  <2>4. l.activated = k.activated
    BY <1>1, <1>2 DEF NativeTasks
  <2> QED BY <2>2, <2>3, <2>4
<1>4. Agree(s, l, R)
  BY <1>1, <1>3 DEF Agree
<1> QED BY <1>1, <1>3, <1>4 DEF Sound, l

LEMMA CreationKeeps ==
  ASSUME IntakeInv, NEW d \in Deliveries, Creation(d)
  PROVE  Sound(saved', task', core'.receipts) /\ LockInv' /\ HookInv'
<1>1. /\ Sound(saved, task, core.receipts) /\ saved \in Stores
      /\ saved.row = 0 /\ saved.create # "none" /\ task.made = 0 /\ Kind(d) # "stop"
      /\ lock = d /\ lock' = d /\ saved' = saved /\ UNCHANGED <<event, inbox, core, hook>>
      /\ ingest' = [ingest EXCEPT ![d] = "bind"] /\ d \in DOMAIN ingest
  BY DEF IntakeInv, RestTyped, Sound, LockInv, Creation, Step, Locked, SameRelay
<1>2. Sound(saved, [task EXCEPT !.made = @ + 1, !.status = "staged"], core.receipts)
  BY <1>1, Created
<1>3. Sound(saved', task', core'.receipts)
  BY <1>1, <1>2 DEF Creation
<1>4. ingest'[d] = "bind" /\ \A e \in Deliveries : e # d => ingest'[e] = ingest[e]
  BY <1>1
<1> QED BY <1>1, <1>3, <1>4, GrowsAgain, AtWork DEF Working

LEMMA BindsKeeps ==
  ASSUME IntakeInv, NEW d \in Deliveries, Binds(d)
  PROVE  Sound(saved', task', core'.receipts) /\ LockInv' /\ HookInv'
<1>1. /\ Sound(saved, task, core.receipts) /\ saved \in Stores /\ task \in NativeTasks
      /\ Agree(saved, task, core.receipts) /\ At(d) \in Times
      /\ saved.row = 0 /\ saved.create # "none" /\ Kind(d) # "stop"
      /\ lock = d /\ lock' = d /\ task' = task /\ UNCHANGED <<event, inbox, core, hook>>
      /\ ingest' = [ingest EXCEPT ![d] = "settle"] /\ d \in DOMAIN ingest
  BY AtTyped DEF IntakeInv, RestTyped, Sound, LockInv, Binds, Step, Locked, SameRelay
<1> DEFINE z == [saved EXCEPT !.row = At(d)]
<1>2. /\ z \in Stores /\ z.row = At(d) /\ z.create = saved.create /\ z.source = saved.source
      /\ z.input = saved.input /\ z.unbound = saved.unbound /\ z.anchor = saved.anchor
      /\ z.stop = saved.stop /\ z.told = saved.told /\ saved.unbound \in Nat
  BY <1>1, IntakeAssumption DEF Stores, Times, IntakeAssumption
<1>3. saved' = z
  BY DEF Binds
<1> HIDE DEF z
<1>4. Agree(z, task, core.receipts)
  BY <1>1, <1>2 DEF Agree
<1>5. Sound(z, task, core.receipts) /\ Grows(saved, z)
  BY <1>1, <1>2, <1>4 DEF Sound, Grows
<1>6. ingest'[d] = "settle" /\ \A e \in Deliveries : e # d => ingest'[e] = ingest[e]
  BY <1>1
<1> QED BY <1>1, <1>2, <1>3, <1>5, <1>6, AtWork DEF Working

LEMMA SettlesKeeps ==
  ASSUME IntakeInv, NEW d \in Deliveries, SettlesCreation(d)
  PROVE  Sound(saved', task', core'.receipts) /\ LockInv' /\ HookInv'
<1>1. /\ Sound(saved, task, core.receipts) /\ Agree(saved, task, core.receipts)
      /\ saved.row = At(d) /\ Kind(d) # "stop" /\ At(d) # 0
      /\ lock = d /\ lock' = d /\ task' = task /\ UNCHANGED <<event, inbox, core, hook>>
      /\ ingest' = [ingest EXCEPT ![d] = "activate"] /\ d \in DOMAIN ingest
  BY AtTyped DEF IntakeInv, RestTyped, Sound, LockInv, SettlesCreation, Step, Locked, SameRelay
<1>2. saved.create # "none"
  BY <1>1 DEF Agree
<1> DEFINE z == [saved EXCEPT !.create = "applied"]
<1>3. Sound(z, task, core.receipts) /\ Grows(saved, z) /\ z.row = saved.row
  BY <1>1, <1>2, OutcomeKeeps
<1>4. saved' = z
  BY DEF SettlesCreation
<1> HIDE DEF z
<1>5. ingest'[d] = "activate" /\ \A e \in Deliveries : e # d => ingest'[e] = ingest[e]
  BY <1>1
<1> QED BY <1>1, <1>3, <1>4, <1>5, AtWork DEF Working

LEMMA StartActivatesKeeps ==
  ASSUME IntakeInv, NEW d \in Deliveries, StartActivates(d)
  PROVE  Sound(saved', task', core'.receipts) /\ LockInv' /\ HookInv'
<1>1. /\ Sound(saved, task, core.receipts) /\ saved \in Stores
      /\ saved.row = At(d) /\ lock = d /\ ingest[d] = "activate" /\ EndsAdmission(d, saved')
  BY DEF IntakeInv, Sound, LockInv, StartActivates, Locked
<1> DEFINE z == Admitted(saved, task).store
           l == Admitted(saved, task).task
<1>2. saved' = z /\ task' = l
  BY DEF StartActivates, Keeps
<1>3. Sound(z, l, core.receipts) /\ SameWork(saved, task, z, l)
  BY <1>1, AdmittedKeeps
<1> HIDE DEF z, l
<1>4. Grows(saved, z) /\ z.row = saved.row /\ l.made = task.made
  BY <1>1, <1>3, SameGrows DEF SameWork
<1> QED BY <1>1, <1>2, <1>3, <1>4, AdmissionEnds

\* A fault takes the coroutine off its work, with what it had done.
LEMMA IngestFailsKeeps ==
  ASSUME IntakeInv, NEW d \in Deliveries, IngestFails(d)
  PROVE  Sound(saved', task', core'.receipts) /\ LockInv' /\ HookInv'
<1>1. /\ Sound(saved, task, core.receipts) /\ saved \in Stores
      /\ ingest[d] # "none" /\ ingest' = [ingest EXCEPT ![d] = "none"]
      /\ lock' = (IF lock = d THEN Free ELSE lock)
      /\ UNCHANGED <<event, inbox, core, hook>>
  BY DEF IntakeInv, Sound, IngestFails, Released
<1>2. /\ Sound(saved', task', core.receipts) /\ Grows(saved, saved') /\ saved'.row = saved.row
      /\ task'.made = task.made \/ ingest[d] = "create"
  <2>1. CASE UNCHANGED <<saved, task>>
    BY <1>1, <2>1, GrowsAgain
  <2>2. CASE ingest[d] = "create" /\ task' = [task EXCEPT !.made = @ + 1, !.status = "staged"] /\ saved' = saved
    <3>1. saved.row = 0 /\ saved.create # "none" /\ task.made = 0
      BY <2>2 DEF IntakeInv, LockInv
    <3>2. Sound(saved, [task EXCEPT !.made = @ + 1, !.status = "staged"], core.receipts)
      BY <1>1, <3>1, Created
    <3> QED BY <1>1, <2>2, <3>2, GrowsAgain
  <2>3. ASSUME NEW left \in Interrupted(saved, task), Keeps(left)
        PROVE  /\ Sound(saved', task', core.receipts) /\ Grows(saved, saved') /\ saved'.row = saved.row
               /\ task'.made = task.made
    <3>1. saved' = left.store /\ task' = left.task
      BY <2>3 DEF Keeps
    <3>2. Sound(left.store, left.task, core.receipts) /\ SameWork(saved, task, left.store, left.task)
      BY <1>1, InterruptedKeeps
    <3> QED BY <1>1, <3>1, <3>2, SameGrows DEF SameWork
  <2> QED BY <2>1, <2>2, <2>3 DEF IngestFails
<1>3. \A e \in Deliveries :
        /\ ingest'[e] = "create" => task'.made = task.made
        /\ ingest'[e] = "answer" => ingest[e] = "answer" \/ Kind(e) = "prompt"
        /\ ingest'[e] \in Working => ingest'[e] = ingest[e] /\ lock' = lock
        /\ Kind(e) = "stop" => ingest'[e] \in {ingest[e], "none", "hand"}
  <2> TAKE e \in Deliveries
  <2>1. CASE e = d
    BY <1>1, <2>1 DEF Working, IntakeInv, RestTyped
  <2>2. CASE e # d
    <3>1. ingest'[e] = ingest[e] /\ (ingest[e] \in Working => lock = e)
      BY <1>1, <2>2 DEF IntakeInv, LockInv
    <3>2. ingest[e] \in Working => lock' = lock
      BY <1>1, <2>2, <3>1
    <3>3. ingest[e] = "create" => ingest[d] # "create"
      BY <2>2 DEF Working, IntakeInv, LockInv
    <3> QED BY <1>2, <3>1, <3>2, <3>3
  <2> QED BY <2>1, <2>2
<1>4. saved.create # "none" => saved'.create # "none"
  BY <1>2 DEF Grows
<1>5. LockInv'
  BY <1>1, <1>2, <1>3, <1>4, LockKept DEF IntakeInv
<1>6. \A e \in Deliveries : ingest'[e] = "ack" => ingest[e] = "ack"
  BY <1>1 DEF IntakeInv, RestTyped
<1>7. \A t \in Times : InHook(t)' = InHook(t)
  BY <1>1 DEF InHook
<1>8. HookInv'
  BY <1>1, <1>2, <1>6, <1>7, HookKept DEF IntakeInv, Sound
<1> QED BY <1>1, <1>2, <1>5, <1>8

-----------------------------------------------------------------------------
(* Core and its hooks.                                                       *)

LEMMA ReceiptsGrow ==
  ASSUME NEW s, NEW k, NEW R, NEW Q, Sound(s, k, R), R \subseteq Q
  PROVE  Sound(s, k, Q)
BY DEF Sound, Agree

\* A step between the admissions: the coroutines and the lock stay.
LEMMA Between ==
  ASSUME IntakeInv, UNCHANGED <<event, ingest, lock>>,
         Sound(saved', task', core'.receipts), Grows(saved, saved'), saved'.row = saved.row,
         task'.made = task.made, HookInv'
  PROVE  Sound(saved', task', core'.receipts) /\ LockInv' /\ HookInv'
<1>1. LockInv'
  BY LockKept DEF IntakeInv, LockInv, Grows
<1> QED BY <1>1

LEMMA CoreCommitsKeeps ==
  ASSUME IntakeInv, NEW t \in Times, CoreCommits(t)
  PROVE  Sound(saved', task', core'.receipts) /\ LockInv' /\ HookInv'
<1>1. /\ Sound(saved, task, core.receipts) /\ saved \in Stores
      /\ UNCHANGED <<event, ingest, lock, saved, task, inbox>>
      /\ core'.receipts = core.receipts \cup {t}
  BY DEF IntakeInv, Sound, CoreCommits
<1>2. PICK heard \in SUBSET Deliveries : heard = {d \in pending : At(d) = t}
  BY DEF IntakeInv, RestTyped
<1>3. hook' = [hook EXCEPT ![t].todo = heard]
  BY <1>2 DEF CoreCommits
<1>4. \A u \in Times : /\ hook'[u].kept = hook[u].kept
                       /\ u # t => hook'[u].todo = hook[u].todo
                       /\ u = t => hook'[u].todo = heard
  BY <1>3 DEF IntakeInv, RestTyped
<1>5. \A u \in Times : \A d \in InHook(u)' : d \in InHook(u) \/ (At(d) = u /\ u \in core'.receipts)
  BY <1>1, <1>2, <1>4 DEF InHook
<1>6. \A d \in Deliveries : d \in hook'[At(d)].kept => d \in hook[At(d)].kept
  BY <1>4, AtTyped DEF IntakeInv
<1>7. HookInv'
  BY <1>1, <1>5, <1>6, GrowsAgain, HookKept DEF IntakeInv
<1> QED BY <1>1, <1>7, GrowsAgain, ReceiptsGrow, Between

LEMMA CoreCompletesKeeps ==
  ASSUME IntakeInv, NEW t \in Times, CoreCompletes(t)
  PROVE  Sound(saved', task', core'.receipts) /\ LockInv' /\ HookInv'
<1>1. /\ UNCHANGED <<event, ingest, lock, saved, task, inbox, hook>>
      /\ core'.receipts = core.receipts
  BY DEF IntakeInv, RestTyped, CoreCompletes
<1>2. \A d \in Deliveries :
        /\ ingest'[d] \in Working => ingest'[d] = ingest[d] /\ lock' = lock
        /\ ingest'[d] = "answer" => ingest[d] = "answer" \/ Kind(d) = "prompt"
        /\ Kind(d) = "stop" => ingest'[d] \in {ingest[d], "none", "hand"}
        /\ ingest'[d] = "ack" => ingest[d] = "ack" \/ Kind(d) # "delegation"
  BY <1>1
<1> QED BY <1>1, <1>2, Untouched

\* The input's receipt is the conversation's anchor.
LEMMA RemembersKeeps ==
  ASSUME NEW s, NEW k, NEW R, Sound(s, k, R), NEW d, At(d) \in Times, At(d) \in R
  PROVE  LET z == RemembersInput(s, d)
         IN  Sound(z, k, R) /\ SameWork(s, k, z, k)
<1> DEFINE z == [s EXCEPT !.anchor = At(d)]
<1>1. s \in Stores /\ k \in NativeTasks /\ Agree(s, k, R)
  BY DEF Sound
<1>2. At(d) \in 0..LastTime
  BY IntakeAssumption DEF Times, IntakeAssumption
<1>3. /\ z \in Stores /\ z.anchor = At(d) /\ z.create = s.create /\ z.row = s.row
      /\ z.source = s.source /\ z.input = s.input /\ z.unbound = s.unbound
      /\ z.stop = s.stop /\ z.told = s.told
  BY <1>1, <1>2 DEF Stores
<1>4. RemembersInput(s, d) = z \/ RemembersInput(s, d) = s
  BY DEF RemembersInput
<1> HIDE DEF z
<1>5. Agree(z, k, R)
  BY <1>1, <1>3 DEF Agree
<1>6. SameWork(s, k, z, k) /\ SameWork(s, k, s, k)
  BY <1>3 DEF SameWork
<1> QED BY <1>1, <1>3, <1>4, <1>5, <1>6 DEF Sound

\* What the hook keeps of the delivery, and what it does for it.
LEMMA HookKeepsKeeps ==
  ASSUME IntakeInv, NEW t \in Times, NEW d \in Deliveries, HookKeeps(t, d)
  PROVE  Sound(saved', task', core'.receipts) /\ LockInv' /\ HookInv'
<1>1. /\ Sound(saved, task, core.receipts) /\ saved \in Stores
      /\ UNCHANGED <<event, ingest, lock, core, inbox>>
      /\ d \in InHook(t) /\ At(d) = t /\ t \in core.receipts
  BY DEF IntakeInv, Sound, HookKeeps, HookInv, InHook
<1>2. /\ Sound(saved', task', core.receipts) /\ Grows(saved, saved') /\ saved'.row = saved.row
      /\ task'.made = task.made
      /\ Kind(d) = "stop" /\ hook'[t].kept # {} => Heeded(saved', t)
  <2>1. CASE Kind(d) = "stop"
    <3> DEFINE done == Control(saved, task, t)
    <3>1. saved' = done.store /\ task' = done.task
      BY <2>1 DEF HookKeeps, Keeps
    <3>2. /\ Sound(done.store, done.task, core.receipts) /\ Grows(saved, done.store)
          /\ done.store.row = saved.row /\ done.task.made = task.made
          /\ done.accepted => Heeded(done.store, t)
      BY <1>1, ControlKeeps
    <3>3. hook' = [hook EXCEPT ![t] = IF done.accepted
                     THEN [todo |-> @.todo \ {d}, kept |-> @.kept \cup {d}]
                     ELSE [todo |-> {}, kept |-> {}]]
      BY <2>1 DEF HookKeeps
    <3> HIDE DEF done
    <3>4. hook'[t].kept # {} => done.accepted
      BY <3>3 DEF IntakeInv, RestTyped
    <3> QED BY <3>1, <3>2, <3>4
  <2>2. CASE Kind(d) # "stop"
    <3> DEFINE s == RemembersInput(saved, d)
               z == Admitted(s, task).store
               l == Admitted(s, task).task
    <3>1. Sound(s, task, core.receipts) /\ SameWork(saved, task, s, task)
      BY <1>1, RemembersKeeps
    <3>2. \/ saved' = z /\ task' = l
          \/ saved' = s /\ task' = task
      BY <2>2 DEF HookKeeps, Keeps
    <3> HIDE DEF s
    <3>3. Sound(z, l, core.receipts) /\ SameWork(s, task, z, l)
      BY <3>1, AdmittedKeeps
    <3> HIDE DEF z, l
    <3>4. Sound(saved', task', core.receipts) /\ SameWork(saved, task, saved', task')
      BY <3>1, <3>2, <3>3, SameAgain
    <3> QED BY <1>1, <2>2, <3>4, SameGrows DEF SameWork
  <2> QED BY <2>1, <2>2
<1>3. \A u \in Times : /\ u # t => hook'[u] = hook[u]
                       /\ u = t => /\ hook'[u].todo \subseteq hook[u].todo
                                   /\ hook'[u].kept \subseteq hook[u].kept \cup {d}
  BY DEF HookKeeps, IntakeInv, RestTyped
<1>4. \A u \in Times : \A e \in InHook(u)' : e \in InHook(u)
  BY <1>1, <1>3 DEF InHook
<1>5. ASSUME NEW e \in Deliveries, Kind(e) = "stop", e \in hook'[At(e)].kept
      PROVE  e \in hook[At(e)].kept \/ Heeded(saved', At(e))
  BY <1>1, <1>2, <1>3, <1>5, AtTyped DEF IntakeInv
<1>6. saved' \in Stores
  BY <1>2 DEF Sound
<1>7. HookInv'
  BY <1>1, <1>2, <1>4, <1>5, <1>6, HookKept DEF IntakeInv
<1> QED BY <1>1, <1>2, <1>7, Between

LEMMA HookAcksKeeps ==
  ASSUME IntakeInv, NEW t \in Times, NEW d \in Deliveries, HookAcks(t, d)
  PROVE  Sound(saved', task', core'.receipts) /\ LockInv' /\ HookInv'
<1>1. UNCHANGED <<event, ingest, lock, core, saved, task>>
  BY DEF HookAcks
<1>2. At(d) = t /\ d \in hook[At(d)].kept
  BY DEF HookAcks, IntakeInv, HookInv, InHook
<1>3. \A u \in Times : /\ hook'[u].todo \subseteq hook[u].todo
                       /\ hook'[u].kept \subseteq hook[u].kept
  <2>1. PICK rest \in SUBSET Deliveries : rest = hook[t].kept \ {d}
    BY DEF IntakeInv, RestTyped
  <2>2. \/ hook' = [hook EXCEPT ![t].kept = rest]
        \/ hook' = [hook EXCEPT ![t] = [todo |-> {}, kept |-> {}]]
    BY <2>1 DEF HookAcks, IntakeInv, RestTyped
  <2>3. hook \in [Times -> [todo : SUBSET Deliveries, kept : SUBSET Deliveries]]
    BY DEF IntakeInv, RestTyped
  <2>4. CASE hook' = [hook EXCEPT ![t].kept = rest]
    BY <2>1, <2>3, <2>4
  <2>5. CASE hook' = [hook EXCEPT ![t] = [todo |-> {}, kept |-> {}]]
    BY <2>3, <2>5
  <2> QED BY <2>2, <2>4, <2>5
<1>4. \A e \in Deliveries : inbox'[e] = "imported" => inbox[e] = "imported" \/ e = d
  BY DEF HookAcks, IntakeInv, RestTyped
<1>5. \A e \in Deliveries :
        /\ ingest'[e] \in Working => ingest'[e] = ingest[e] /\ lock' = lock
        /\ ingest'[e] = "answer" => ingest[e] = "answer" \/ Kind(e) = "prompt"
        /\ Kind(e) = "stop" => ingest'[e] \in {ingest[e], "none", "hand"}
        /\ ingest'[e] = "ack" => ingest[e] = "ack" \/ Kind(e) # "delegation"
  BY <1>1
<1> QED BY <1>1, <1>2, <1>3, <1>4, <1>5, Untouched

\* A Stop that could not be settled is marked for an operator.
LEMMA MarkedKeeps ==
  ASSUME NEW s, NEW k, NEW R, Sound(s, k, R), s.row # 0, NEW t \in Times, s.stop[t] = "none"
  PROVE  LET z == [s EXCEPT !.stop[t] = "reconcile"]
         IN  Sound(z, k, R) /\ SameWork(s, k, z, k)
<1> DEFINE z == [s EXCEPT !.stop[t] = "reconcile"]
<1>1. s \in Stores /\ k \in NativeTasks /\ Agree(s, k, R)
  BY DEF Sound
<1>2. Settles(s, t, "reconcile", z)
  BY <1>1, StopWrites, Zenon
<1> HIDE DEF z
<1>3. Agree(z, k, R)
  BY <1>1, <1>2 DEF Agree, Settles
<1>4. \A u \in Times : s.stop[u] \in {"applied", "superseded"} => z.stop[u] = s.stop[u]
  BY <1>2 DEF Settles
<1>5. SameWork(s, k, z, k)
  BY <1>2, <1>4 DEF SameWork, Settles
<1> QED BY <1>1, <1>2, <1>3, <1>5 DEF Sound, Settles, z

LEMMA HookFailsKeeps ==
  ASSUME IntakeInv, NEW t \in Times, HookFails(t)
  PROVE  Sound(saved', task', core'.receipts) /\ LockInv' /\ HookInv'
<1>1. /\ Sound(saved, task, core.receipts) /\ saved \in Stores
      /\ UNCHANGED <<event, ingest, lock, core, inbox>>
      /\ hook' = [hook EXCEPT ![t] = [todo |-> {}, kept |-> {}]]
  BY DEF IntakeInv, Sound, HookFails
<1>2. Sound(saved', task', core.receipts) /\ SameWork(saved, task, saved', task')
  <2>1. CASE UNCHANGED <<saved, task>>
    BY <1>1, <2>1 DEF SameWork
  <2>2. ASSUME NEW d \in hook[t].todo, NEW left \in Interrupted(RemembersInput(saved, d), task), Keeps(left)
        PROVE  Sound(saved', task', core.receipts) /\ SameWork(saved, task, saved', task')
    <3> DEFINE s == RemembersInput(saved, d)
    <3>1. At(d) = t /\ t \in core.receipts
      BY DEF IntakeInv, HookInv, InHook
    <3>2. Sound(s, task, core.receipts) /\ SameWork(saved, task, s, task)
      BY <1>1, <3>1, RemembersKeeps
    <3> HIDE DEF s
    <3>3. Sound(left.store, left.task, core.receipts) /\ SameWork(s, task, left.store, left.task)
      BY <3>2, InterruptedKeeps DEF s
    <3>4. saved' = left.store /\ task' = left.task
      BY <2>2 DEF Keeps
    <3> QED BY <3>2, <3>3, <3>4, SameAgain
  <2>3. CASE saved.row # 0 /\ saved.stop[t] = "none" /\ saved' = [saved EXCEPT !.stop[t] = "reconcile"] /\ task' = task
    BY <1>1, <2>3, MarkedKeeps, Zenon
  <2> QED BY <2>1, <2>2, <2>3 DEF HookFails
<1>3. Grows(saved, saved') /\ saved'.row = saved.row /\ task'.made = task.made /\ saved' \in Stores
  BY <1>1, <1>2, SameGrows DEF SameWork, Sound
<1>4. \A u \in Times : /\ hook'[u].todo \subseteq hook[u].todo
                       /\ hook'[u].kept \subseteq hook[u].kept
  BY <1>1 DEF IntakeInv, RestTyped
<1>5. \A u \in Times : \A e \in InHook(u)' : e \in InHook(u)
  BY <1>4 DEF InHook
<1>6. \A e \in Deliveries : e \in hook'[At(e)].kept => e \in hook[At(e)].kept
  BY <1>4, AtTyped DEF IntakeInv
<1>7. HookInv'
  BY <1>1, <1>3, <1>5, <1>6, HookKept DEF IntakeInv
<1> QED BY <1>1, <1>2, <1>3, <1>7, Between

-----------------------------------------------------------------------------
(* The service loop, people, the board and the process.                      *)

\* A step that leaves the deliveries, the hooks and Core.
LEMMA Apart ==
  ASSUME IntakeInv, UNCHANGED <<event, ingest, lock, core, inbox, hook>>,
         Sound(saved', task', core.receipts), Grows(saved, saved'), saved'.row = saved.row,
         task'.made = task.made
  PROVE  Sound(saved', task', core'.receipts) /\ LockInv' /\ HookInv'
<1>1. saved \in Stores /\ saved' \in Stores
  BY DEF IntakeInv, Sound
<1>2. \A u \in Times : InHook(u)' = InHook(u)
  BY DEF InHook
<1>3. HookInv'
  BY <1>1, <1>2, HookKept DEF IntakeInv
<1> QED BY <1>3, Between

LEMMA RecoverKeeps ==
  ASSUME IntakeInv, RecoverAdmissions
  PROVE  Sound(saved', task', core'.receipts) /\ LockInv' /\ HookInv'
<1>1. /\ Sound(saved, task, core.receipts) /\ saved \in Stores
      /\ UNCHANGED <<event, ingest, lock, core, inbox, hook>>
  BY DEF IntakeInv, Sound, RecoverAdmissions
<1> DEFINE s == Recovered(saved)
           z == Admitted(s, task).store
           l == Admitted(s, task).task
<1>2. Sound(s, task, core.receipts) /\ Grows(saved, s) /\ s.row = saved.row
  <2>1. CASE saved.row # 0 /\ saved.create = "attempting"
    <3> DEFINE y == [saved EXCEPT !.create = "applied"]
    <3>1. s = y
      BY <2>1 DEF Recovered
    <3>2. Sound(y, task, core.receipts) /\ Grows(saved, y) /\ y.row = saved.row
      BY <1>1, <2>1, OutcomeKeeps
    <3> HIDE DEF y, s
    <3> QED BY <3>1, <3>2
  <2>2. CASE ~(saved.row # 0 /\ saved.create = "attempting")
    <3>1. s = saved
      BY <2>2 DEF Recovered
    <3> QED BY <1>1, <3>1, GrowsAgain
  <2> QED BY <2>1, <2>2
<1>3. saved' = z /\ task' = l
  BY DEF RecoverAdmissions, Keeps
<1> HIDE DEF s
<1>4. Sound(z, l, core.receipts) /\ SameWork(s, task, z, l)
  BY <1>2, AdmittedKeeps
<1> HIDE DEF z, l
<1>5. Grows(s, z) /\ z.row = s.row /\ l.made = task.made
  BY <1>2, <1>4, SameGrows DEF SameWork, Sound
<1>6. Grows(saved, z) /\ z \in Stores
  BY <1>1, <1>2, <1>4, <1>5, GrowsOn DEF Sound
<1> QED BY <1>1, <1>2, <1>3, <1>4, <1>5, <1>6, Apart

LEMMA PeopleKeep ==
  ASSUME IntakeInv, PersonResumes \/ WorkFinishes
  PROVE  Sound(saved', task', core'.receipts) /\ LockInv' /\ HookInv'
<1>1. /\ Sound(saved, task, core.receipts) /\ saved \in Stores /\ task \in NativeTasks
      /\ UNCHANGED <<event, ingest, lock, core, inbox, hook, saved>>
  BY DEF IntakeInv, Sound, PersonResumes, WorkFinishes, Native
<1>2. /\ task' \in NativeTasks /\ task'.made = task.made /\ task'.activated = task.activated
      /\ task'.control # "none" /\ task'.status # "staged"
  BY <1>1 DEF PersonResumes, WorkFinishes, Native, NativeTasks
<1>3. Agree(saved, task', core.receipts)
  BY <1>1, <1>2 DEF Sound, Agree
<1> QED BY <1>1, <1>2, <1>3, GrowsAgain, Apart DEF Sound

\* A reassignment and a day that passes, and the process dying.
LEMMA OthersKeep ==
  ASSUME IntakeInv, PersonReassigns \/ DayPasses \/ Crash \/ UNCHANGED intakeVars
  PROVE  Sound(saved', task', core'.receipts) /\ LockInv' /\ HookInv'
<1>1. /\ event' = event /\ saved' = saved /\ task' = task /\ inbox' = inbox
      /\ core'.receipts = core.receipts
  BY DEF PersonReassigns, DayPasses, Crash, intakeVars, IntakeInv, RestTyped
<1>2. \A d \in Deliveries : ingest'[d] = "none" \/ (ingest'[d] = ingest[d] /\ lock' = lock)
  BY DEF PersonReassigns, DayPasses, Crash, intakeVars
<1>3. \A t \in Times : /\ hook'[t].todo \subseteq hook[t].todo
                       /\ hook'[t].kept \subseteq hook[t].kept
  BY DEF PersonReassigns, DayPasses, Crash, intakeVars
<1>4. \A d \in Deliveries :
        /\ ingest'[d] \in Working => ingest'[d] = ingest[d] /\ lock' = lock
        /\ ingest'[d] = "answer" => ingest[d] = "answer" \/ Kind(d) = "prompt"
        /\ Kind(d) = "stop" => ingest'[d] \in {ingest[d], "none", "hand"}
        /\ ingest'[d] = "ack" => ingest[d] = "ack" \/ Kind(d) # "delegation"
  BY <1>2 DEF Working
<1> QED BY <1>1, <1>3, <1>4, Untouched

-----------------------------------------------------------------------------
(* The theorem.                                                              *)

LEMMA IntakeStart == IntakeInit => IntakeInv
<1> SUFFICES ASSUME NEW script \in Scripts, IntakeIdle(script) PROVE IntakeInv
  BY DEF IntakeInit
<1>1. script \in [Deliveries -> [kind : Kinds, at : Times]] /\ MaxTrouble \in Nat /\ LastTime \in Nat
  BY IntakeAssumption DEF IntakeAssumption
<1>2. RestTyped
  <2>1. event \in [Deliveries -> [kind : Kinds, at : Times]]
    BY <1>1 DEF IntakeIdle
  <2>2. hook \in [Times -> [todo : SUBSET Deliveries, kept : SUBSET Deliveries]]
    BY DEF IntakeIdle
  <2>3. core \in [queued : SUBSET Times, admitted : SUBSET Times, receipts : SUBSET Times]
    BY DEF IntakeIdle
  <2>4. /\ ingest = [d \in Deliveries |-> "none"] /\ submitted = [d \in Deliveries |-> "none"]
        /\ inbox = [d \in Deliveries |-> "pending"] /\ trouble \in 0..MaxTrouble
    BY <1>1 DEF IntakeIdle
  <2> QED BY <2>1, <2>2, <2>3, <2>4 DEF IntakeIdle, RestTyped
<1>3. saved \in Stores
  BY <1>1 DEF IntakeIdle, Stores
<1>4. task \in NativeTasks
  BY DEF IntakeIdle, NativeTasks
<1>5. Agree(saved, task, core.receipts)
  BY DEF IntakeIdle, Agree
<1>6. LockInv
  BY DEF IntakeIdle, LockInv, Working
<1>7. HookInv
  <2>1. \A t \in Times : InHook(t) = {}
    BY DEF IntakeIdle, InHook
  <2>2. \A d \in Deliveries : d \notin hook[At(d)].kept
    BY <1>2, AtTyped DEF IntakeIdle
  <2> QED BY <2>1, <2>2 DEF IntakeIdle, HookInv
<1> QED BY <1>2, <1>3, <1>4, <1>5, <1>6, <1>7 DEF IntakeInv, Sound

LEMMA IntakeKept == IntakeInv /\ [IntakeNext]_intakeVars => IntakeInv'
<1> SUFFICES ASSUME IntakeInv, [IntakeNext]_intakeVars PROVE IntakeInv'
  OBVIOUS
<1>1. RestTyped'
  <2>1. CASE IntakeNext
    BY <2>1, RestKept DEF IntakeInv
  <2>2. CASE UNCHANGED intakeVars
    BY <2>2 DEF intakeVars, IntakeInv, RestTyped
  <2> QED BY <2>1, <2>2
<1>2. Sound(saved', task', core'.receipts) /\ LockInv' /\ HookInv'
  <2>1. CASE RecoverAdmissions
    BY <2>1, RecoverKeeps
  <2>2. CASE PersonResumes \/ WorkFinishes
    BY <2>2, PeopleKeep
  <2>3. CASE PersonReassigns \/ DayPasses \/ Crash \/ UNCHANGED intakeVars
    BY <2>3, OthersKeep
  <2>4. ASSUME NEW d \in Deliveries, Route(d)
        PROVE  Sound(saved', task', core'.receipts) /\ LockInv' /\ HookInv'
    BY <2>4, RouteKeeps
  <2>5. ASSUME NEW d \in Deliveries, IngestStep(d)
        PROVE  Sound(saved', task', core'.receipts) /\ LockInv' /\ HookInv'
    BY <2>5, OwnSteps, AdmitKnownKeeps, AdmitUnsentKeeps, AdmitPreparesKeeps, AdmitFindsKeeps,
       CreationKeeps, BindsKeeps, SettlesKeeps, StartActivatesKeeps DEF IngestStep
  <2>6. ASSUME NEW d \in Deliveries, IngestFails(d)
        PROVE  Sound(saved', task', core'.receipts) /\ LockInv' /\ HookInv'
    BY <2>6, IngestFailsKeeps
  <2>7. ASSUME NEW t \in Times, CoreCommits(t) \/ CoreCompletes(t) \/ HookFails(t)
        PROVE  Sound(saved', task', core'.receipts) /\ LockInv' /\ HookInv'
    BY <2>7, CoreCommitsKeeps, CoreCompletesKeeps, HookFailsKeeps
  <2>8. ASSUME NEW t \in Times, NEW d \in Deliveries, HookStep(t, d)
        PROVE  Sound(saved', task', core'.receipts) /\ LockInv' /\ HookInv'
    BY <2>8, HookKeepsKeeps, HookAcksKeeps DEF HookStep
  <2> QED BY <2>1, <2>2, <2>3, <2>4, <2>5, <2>6, <2>7, <2>8 DEF IntakeNext
<1> QED BY <1>1, <1>2 DEF IntakeInv

LEMMA IntakeHolds == IntakeInv => IntakeSound
<1> SUFFICES ASSUME IntakeInv PROVE IntakeSound
  OBVIOUS
<1>1. /\ saved \in Stores /\ task \in NativeTasks /\ Agree(saved, task, core.receipts)
  BY DEF IntakeInv, Sound
<1>2. OneTask
  BY <1>1 DEF OneTask, Agree
<1>3. StartsAfterReceipt
  BY <1>1 DEF StartsAfterReceipt, Agree
<1>4. StopHolds
  <2> SUFFICES ASSUME NEW d \in Deliveries, Kind(d) = "stop", inbox[d] = "imported",
                      At(d) > saved.source, At(d) >= saved.row, task.control = "none",
                      task.status = "ready"
               PROVE  FALSE
    BY DEF StopHolds
  <2>1. Heeded(saved, At(d)) /\ At(d) \in Times /\ At(d) \in Nat
    BY AtTyped DEF IntakeInv, HookInv
  <2>2. saved.source \in Nat /\ saved.row \in Nat /\ saved.unbound \in Nat
    BY <1>1, IntakeAssumption DEF Stores, IntakeAssumption
  <2>3. CASE saved.create # "none" /\ At(d) <= saved.source
    BY <2>1, <2>2, <2>3
  <2>4. CASE saved.row # 0 /\ At(d) < saved.row
    BY <2>1, <2>2, <2>4
  <2>5. CASE saved.unbound >= At(d)
    <3>1. saved.unbound # 0 /\ ~(saved.unbound < saved.source)
      BY <2>1, <2>2, <2>5
    <3> QED BY <1>1, <3>1 DEF Agree
  <2>6. CASE saved.stop[At(d)] \in {"applied", "superseded"}
    BY <1>1, <2>1, <2>6 DEF Agree
  <2> QED BY <2>1, <2>3, <2>4, <2>5, <2>6 DEF Heeded
<1>5. ImportedIsAnswered
  BY DEF ImportedIsAnswered, IntakeInv, HookInv, HasAnswer
<1> QED BY <1>2, <1>3, <1>4, <1>5, Typed DEF IntakeSound

\* handle_webhook and the hooks keep what they promise a person, whatever is
\* delivered twice, fails or dies on the way: one task per issue, started after the
\* input that asked for it, held by a Stop, and every delegation answered.
THEOREM IntakePromises == IntakeSpec => []IntakeSound
<1>1. IntakeInit => IntakeInv
  BY IntakeStart
<1>2. IntakeInv /\ [IntakeNext]_intakeVars => IntakeInv'
  BY IntakeKept
<1>3. IntakeInv => IntakeSound
  BY IntakeHolds
<1> QED BY <1>1, <1>2, <1>3, PTL DEF IntakeSpec
=============================================================================
