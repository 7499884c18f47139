------------------------------- MODULE Intake -------------------------------
(***************************************************************************)
(* plugins/linear native_input.py and bridge.py: a delivery from the inbox   *)
(* becomes one input of the agent's conversation, a delegation one native    *)
(* task, and a Stop pauses it.                                               *)
(*                                                                           *)
(* The reporting thread drains the inbox and schedules each delivery on the  *)
(* adapter's loop; the bridge stages a delegated issue's task before the     *)
(* input is handed to Core; Core commits the input in its own time, and only *)
(* the hook it then calls activates the task and acknowledges the delivery.  *)
(* Any read or write may fail, and the process may die between two steps.    *)
(*                                                                           *)
(* One issue.  An input is named by the time its person acted, so two        *)
(* deliveries of one time are one input delivered twice.                     *)
(***************************************************************************)
EXTENDS Naturals

CONSTANTS
  Deliveries,
  LastTime,    \* bound: the moments at which people act
  Scripts,     \* what the deliveries may be: functions from Deliveries to events
  MaxTrouble   \* bound: reads and writes that fail, and deaths of the process

VARIABLES
  event,     \* delivery -> its kind and time
  inbox,     \* delivery -> its row
  aged,      \* a day has passed since the deliveries arrived
  submitted, \* delivery -> the adapter's future for it
  failed,    \* deliveries whose input Core refused
  pending,   \* deliveries handed to Core and not acknowledged
  ingest,    \* delivery -> where its coroutine is
  core,      \* inputs Core holds, and the receipts it has committed
  hook,      \* input -> deliveries whose committed-input hook is under way
  lock,      \* the delivery that holds the issue's lock, or Free
  saved,     \* the bridge's store for the issue
  task,      \* the native task
  mine,      \* Linear shows this agent as delegate of the open issue
  trouble    \* faults and crashes so far

intakeVars == <<event, inbox, aged, submitted, failed, pending, ingest, core, hook,
                lock, saved, task, mine, trouble>>

Free == "free"
Times == 1..LastTime
Kinds == {"delegation", "actorless", "mention", "prompt", "stop"}

ASSUME IntakeAssumption ==
  /\ LastTime \in Nat /\ MaxTrouble \in Nat
  /\ Free \notin Deliveries
  /\ Scripts \subseteq [Deliveries -> [kind : Kinds, at : Times]]

At(d) == event[d].at
Kind(d) == event[d].kind

IntakeTypeOK ==
  /\ event \in [Deliveries -> [kind : Kinds, at : Times]]
  /\ inbox \in [Deliveries -> {"pending", "imported", "failed"}]
  /\ aged \in BOOLEAN
  /\ submitted \in [Deliveries -> {"none", "running", "raised", "done"}]
  /\ failed \subseteq Deliveries /\ pending \subseteq Deliveries
  /\ ingest \in [Deliveries -> {"none", "admit", "create", "bind", "settle",
                                "activate", "answer", "hand", "ack"}]
  /\ core \in [queued : SUBSET Times, admitted : SUBSET Times, receipts : SUBSET Times]
  /\ hook \in [Times -> [todo : SUBSET Deliveries, kept : SUBSET Deliveries]]
  /\ lock \in Deliveries \cup {Free}
  /\ saved \in [create : {"none", "attempting", "applied", "reconcile"}, source : 0..LastTime,
                input : BOOLEAN, unbound : 0..LastTime, row : 0..LastTime,
                anchor : 0..LastTime,
                activate : {"none", "attempting", "applied", "reconcile"},
                stop : [Times -> {"none", "attempting", "applied", "reconcile", "superseded"}],
                told : SUBSET Times]
  /\ task \in [made : 0..2, status : {"none", "staged", "ready", "stopped", "done"},
               activated : BOOLEAN, control : {"none", "same", "later"}]
  /\ mine \in BOOLEAN
  /\ trouble \in 0..MaxTrouble

IntakeIdle(script) ==
  /\ event = script
  /\ inbox = [d \in Deliveries |-> "pending"] /\ aged = FALSE
  /\ submitted = [d \in Deliveries |-> "none"] /\ failed = {} /\ pending = {}
  /\ ingest = [d \in Deliveries |-> "none"]
  /\ core = [queued |-> {}, admitted |-> {}, receipts |-> {}]
  /\ hook = [t \in Times |-> [todo |-> {}, kept |-> {}]]
  /\ lock = Free
  /\ saved = [create |-> "none", source |-> 0, input |-> FALSE, unbound |-> 0, row |-> 0,
              anchor |-> 0, activate |-> "none", stop |-> [t \in Times |-> "none"], told |-> {}]
  /\ task = [made |-> 0, status |-> "none", activated |-> FALSE, control |-> "none"]
  /\ mine = TRUE
  /\ trouble = 0

IntakeInit == \E script \in Scripts : IntakeIdle(script)

-----------------------------------------------------------------------------
(* The drain and the adapter's route.                                        *)

\* Mutant: a future that ended with an error is not looked at.
RouteOverlooks(d) == d \in failed

\* route() raises what became of the last attempt, once, and forgets it.
RouteRaises(d) == d \in failed \/ submitted[d] = "raised"

\* project_input: what the coroutine does with the delivery first.
Project(d) ==
  CASE Kind(d) \in {"delegation", "actorless"} -> "admit"
    [] Kind(d) = "prompt" -> "answer"
    [] OTHER -> "hand"

\* The drain keeps a delivery that raised for a day and then parks it.
KeepsOrParks(d) == inbox' = [inbox EXCEPT ![d] = IF aged THEN "failed" ELSE "pending"]

\* The drain routes pending rows; one it read before the row was acknowledged
\* it routes all the same, which is counted as trouble.  A delivery still under
\* way is left alone.
Drained(d) ==
  \/ inbox[d] = "pending" /\ UNCHANGED trouble
  \/ inbox[d] = "imported" /\ trouble < MaxTrouble /\ trouble' = trouble + 1

Route(d) ==
  /\ Drained(d)
  /\ \/ /\ RouteRaises(d)
        /\ KeepsOrParks(d)
        /\ failed' = failed \ {d}
        /\ submitted' = [submitted EXCEPT ![d] = "none"]
        /\ UNCHANGED ingest
     \/ /\ ~RouteRaises(d) /\ submitted[d] = "none"
        /\ submitted' = [submitted EXCEPT ![d] = "running"]
        /\ ingest' = [ingest EXCEPT ![d] = Project(d)]
        /\ UNCHANGED <<inbox, failed>>
  /\ UNCHANGED <<event, aged, pending, core, hook, lock, saved, task, mine>>

-----------------------------------------------------------------------------
(* Activation and Stop, on the issue's store and native task.                *)

Released(d) == lock' = IF lock = d THEN Free ELSE lock

\* An unbound Stop no older than the assignment, or a delegate that changed.
Outdated(s) == (s.unbound # 0 /\ s.unbound >= s.source) \/ ~mine

\* A person's control or a completion after the Stop was pressed overrides it;
\* within the same second the order cannot be told.
StopOutcome(k) ==
  IF k.status = "done" THEN "applied"
  ELSE CASE k.control = "later" -> "superseded"
         [] k.control = "same" -> "reconcile"
         [] OTHER -> "applied"

Paused(k) == IF k.status \in {"staged", "ready"} THEN [k EXCEPT !.status = "stopped"] ELSE k

\* _guarded_stop for the Stop of time t: a settled one is not repeated.
Stopping(s, k, t) ==
  IF s.stop[t] \in {"applied", "superseded"} THEN [store |-> s, task |-> k]
  ELSE LET end == StopOutcome(k) IN
       [store |-> [s EXCEPT !.stop[t] = end],
        task |-> IF end = "applied" THEN Paused(k) ELSE k]

\* A Stop recorded before there was a task is applied to the task.
PendingStop(s, k) ==
  IF s.unbound = 0 \/ s.row = 0 \/ ~mine \/ s.unbound < s.row THEN [store |-> s, task |-> k]
  ELSE Stopping(s, k, s.unbound)

\* Mutant: the activation does not wait for the conversation input.
InputUnawaited(s) == s.input /\ s.row = 0

\* The conversation input a staged task waits for.
InputMissing(s) == s.input /\ s.anchor # s.row

\* _assignment_activation: TRUE in "settled" when the admission needs nothing more.
Activatable(s) ==
  /\ s.row # 0 /\ s.create = "applied" /\ ~InputMissing(s)

Activation(s, k) ==
  IF s.activate \in {"applied", "reconcile"} THEN PendingStop(s, k)
  ELSE IF k.status # "staged" /\ ~k.activated
       THEN [store |-> [s EXCEPT !.activate = "reconcile", !.told = @ \cup {s.row}], task |-> k]
  ELSE IF Outdated(s)
       THEN PendingStop([s EXCEPT !.activate = "reconcile", !.told = @ \cup {s.row}], k)
  ELSE PendingStop([s EXCEPT !.activate = "applied"],
                   IF k.activated THEN k ELSE [k EXCEPT !.status = "ready", !.activated = TRUE])

\* What it leaves when it fails on the way: nothing, its saved request, or the
\* native event without the receipt.
Interrupted(s, k) ==
  {[store |-> s, task |-> k]}
  \cup IF s.activate # "none" \/ ~Activatable(s) THEN {}
       ELSE {[store |-> [s EXCEPT !.activate = "attempting"], task |-> k]}
            \cup IF k.status # "staged" \/ Outdated(s) THEN {}
                 ELSE {[store |-> [s EXCEPT !.activate = "attempting"],
                        task |-> [k EXCEPT !.status = "ready", !.activated = TRUE]]}

Admitted(s, k) == IF Activatable(s) THEN Activation(s, k) ELSE [store |-> s, task |-> k]

Keeps(outcome) == saved' = outcome.store /\ task' = outcome.task

-----------------------------------------------------------------------------
(* _ingest: one coroutine for each delivery.                                 *)

Step(d, from, to) == ingest[d] = from /\ ingest' = [ingest EXCEPT ![d] = to]
Locked(d) == lock = d
Fault == trouble < MaxTrouble /\ trouble' = trouble + 1
SameRelay == UNCHANGED <<event, inbox, aged, core, hook, mine, trouble>>

\* A typed answer goes to the waiting question; any other prompt is ordinary.
AnswerOrOrdinary(d) ==
  /\ \/ Step(d, "answer", "ack") \/ Step(d, "answer", "hand")
  /\ UNCHANGED <<submitted, failed, pending, lock, saved, task>> /\ SameRelay

\* What the bridge did with the assignment decides the turn: a session it
\* answered itself needs none.
Decided(d, s) ==
  IF At(d) \in s.told THEN "ack"
  ELSE IF s.row = At(d) /\ Kind(d) # "actorless" THEN "hand"
  ELSE IF s.row # 0 THEN "ack" ELSE "raise"

\* The end of handle_webhook: the lock is released and the turn decided.
EndsAdmission(d, s) ==
  LET next == Decided(d, s) IN
  /\ Released(d)
  /\ ingest' = [ingest EXCEPT ![d] = IF next = "raise" THEN "none" ELSE next]
  /\ submitted' = [submitted EXCEPT ![d] = IF next = "raise" THEN "raised" ELSE @]
  /\ UNCHANGED <<failed, pending>> /\ SameRelay

\* The work exists: an echo of its own session, an older assignment, or another
\* session, which is told.
AdmitKnown(d) ==
  /\ ingest[d] = "admit" /\ lock = Free /\ saved.row # 0
  /\ LET done == IF At(d) < saved.row THEN [store |-> saved, task |-> task]
                 ELSE Admitted(saved, task)
         told == [done.store EXCEPT !.told = IF saved.row = At(d) THEN @ ELSE @ \cup {At(d)}] IN
     /\ Keeps([done EXCEPT !.store = told])
     /\ EndsAdmission(d, told)

\* _start refuses what was assigned away or closed, and work that is already on
\* the agents' boards.
AdmitRefused(d) ==
  /\ ingest[d] = "admit" /\ lock = Free /\ saved.row = 0
  /\ ~mine \/ saved.create = "none"
  /\ saved' = [saved EXCEPT !.told = @ \cup {At(d)}]
  /\ EndsAdmission(d, saved') /\ UNCHANGED task

\* A Stop that came before the assignment could be set up leaves its request unsent.
AdmitStopped(d) ==
  /\ ingest[d] = "admit" /\ lock = Free /\ saved.row = 0 /\ mine
  /\ saved.create = "none" /\ saved.unbound >= At(d)
  /\ saved' = [saved EXCEPT !.told = @ \cup {At(d)}, !.create = "reconcile", !.source = At(d)]
  /\ EndsAdmission(d, saved') /\ UNCHANGED task

\* The request is saved before the native call, which is then made once.
AdmitPrepares(d) ==
  /\ ingest[d] = "admit" /\ lock = Free /\ saved.row = 0 /\ mine
  /\ saved.create = "none" /\ saved.unbound < At(d)
  /\ saved' = [saved EXCEPT !.create = "attempting", !.source = At(d),
                            !.input = Kind(d) = "delegation"]
  /\ lock' = d
  /\ Step(d, "admit", "create")
  /\ UNCHANGED <<submitted, failed, pending, task>> /\ SameRelay

\* Mutant: a request whose task is not known is sent again.
AdmitSendsAgain(d) ==
  /\ ingest[d] = "admit" /\ lock = Free /\ saved.row = 0 /\ mine /\ saved.create # "none"
  /\ lock' = d /\ Step(d, "admit", "create")
  /\ UNCHANGED <<submitted, failed, pending, saved, task>> /\ SameRelay

\* A saved request is never sent again: it is found natively, or an operator decides.
AdmitFinds(d) ==
  /\ ingest[d] = "admit" /\ lock = Free /\ saved.row = 0 /\ mine /\ saved.create # "none"
  /\ \/ /\ task.made = 1
        /\ lock' = d /\ Step(d, "admit", "bind")
        /\ UNCHANGED <<submitted, failed, pending, saved, task>> /\ SameRelay
     \/ /\ task.made # 1
        /\ saved' = [saved EXCEPT !.create = "reconcile", !.told = @ \cup {At(d)}]
        /\ EndsAdmission(d, saved') /\ UNCHANGED task

Creation(d) ==
  /\ Step(d, "create", "bind") /\ Locked(d)
  /\ task' = [task EXCEPT !.made = @ + 1, !.status = "staged"]
  /\ UNCHANGED <<submitted, failed, pending, lock, saved>> /\ SameRelay

Binds(d) ==
  /\ Step(d, "bind", "settle") /\ Locked(d)
  /\ saved' = [saved EXCEPT !.row = At(d)]
  /\ UNCHANGED <<submitted, failed, pending, lock, task>> /\ SameRelay

SettlesCreation(d) ==
  /\ Step(d, "settle", "activate") /\ Locked(d)
  /\ saved' = [saved EXCEPT !.create = "applied"]
  /\ UNCHANGED <<submitted, failed, pending, lock, task>> /\ SameRelay

StartActivates(d) ==
  /\ ingest[d] = "activate" /\ Locked(d)
  /\ Keeps(Admitted(saved, task))
  /\ EndsAdmission(d, saved')

\* Mutant: scheduling the input acknowledges it.
HandsOverAndAcks(d) ==
  /\ Step(d, "hand", "none")
  /\ pending' = pending \cup {d}
  /\ core' = [core EXCEPT !.queued = @ \cup {At(d)}]
  /\ submitted' = [submitted EXCEPT ![d] = "done"]
  /\ inbox' = [inbox EXCEPT ![d] = "imported"]
  /\ UNCHANGED <<event, aged, failed, hook, lock, saved, task, mine, trouble>>

\* The input is listed for the committed-input hook and handed to Core.
HandsOver(d) ==
  /\ Step(d, "hand", "none")
  /\ pending' = pending \cup {d}
  /\ core' = [core EXCEPT !.queued = @ \cup {At(d)}]
  /\ submitted' = [submitted EXCEPT ![d] = "done"]
  /\ UNCHANGED <<event, inbox, aged, failed, hook, lock, saved, task, mine, trouble>>

\* InboxDelivery.acknowledge: only from pending, or already done.
Acknowledgeable(d) == inbox[d] # "failed"

AcksItself(d) ==
  /\ Step(d, "ack", "none")
  /\ IF Acknowledgeable(d)
     THEN inbox' = [inbox EXCEPT ![d] = "imported"] /\ submitted' = [submitted EXCEPT ![d] = "none"]
     ELSE submitted' = [submitted EXCEPT ![d] = "raised"] /\ UNCHANGED inbox
  /\ UNCHANGED <<event, aged, failed, pending, core, hook, lock, saved, task, mine, trouble>>

\* A read or a write fails: the future keeps the error for the next route().
IngestFails(d) ==
  /\ Fault
  /\ ingest[d] # "none"
  /\ ingest' = [ingest EXCEPT ![d] = "none"]
  /\ submitted' = [submitted EXCEPT ![d] = "raised"]
  /\ Released(d)
  /\ pending' = IF ingest[d] = "hand" THEN pending \cup {d} ELSE pending
  /\ \/ ingest[d] # "activate" /\ UNCHANGED <<saved, task>>
     \/ ingest[d] = "create" /\ task' = [task EXCEPT !.made = @ + 1, !.status = "staged"]
                             /\ UNCHANGED saved
     \/ ingest[d] = "activate" /\ \E left \in Interrupted(saved, task) : Keeps(left)
  /\ UNCHANGED <<event, inbox, aged, failed, core, hook, mine>>

-----------------------------------------------------------------------------
(* Core commits or refuses an input and calls the adapter's hooks.           *)

InHook(t) == hook[t].todo \cup hook[t].kept

CoreCommits(t) ==
  /\ t \in core.queued \ core.admitted
  /\ core' = [queued |-> core.queued \ {t}, admitted |-> core.admitted \cup {t},
              receipts |-> core.receipts \cup {t}]
  /\ hook' = [hook EXCEPT ![t].todo = {d \in pending : At(d) = t}]
  /\ UNCHANGED <<event, inbox, aged, submitted, failed, pending, ingest, lock, saved,
                 task, mine, trouble>>

\* The processing ended: what the hook did not acknowledge is refused and retried.
CoreCompletes(t) ==
  /\ t \in core.queued \cup core.admitted /\ InHook(t) = {}
  /\ core' = IF t \in core.admitted THEN [core EXCEPT !.admitted = @ \ {t}]
             ELSE [core EXCEPT !.queued = @ \ {t}]
  /\ LET left == {d \in pending : At(d) = t} IN
     /\ pending' = pending \ left
     /\ failed' = failed \cup left
  /\ UNCHANGED <<event, inbox, aged, submitted, ingest, hook, lock, saved, task, mine, trouble>>

\* on_message_admitted for an ordinary input: the receipt becomes the
\* conversation's anchor, and a delegation's task may start.
RemembersInput(s, d) ==
  IF At(d) >= s.anchor THEN [s EXCEPT !.anchor = At(d)] ELSE s

\* Mutant: a Stop that finds no task is only answered.
AnswersStop(s, t) == [s EXCEPT !.told = @ \cup {t}]

\* _handle_control: without a task the Stop is recorded against one being made.
RecordsStop(s, t) == [s EXCEPT !.unbound = IF t >= @ THEN t ELSE @]

\* The Stop as handle_webhook applies it, and whether it was accepted.
Control(s, k, t) ==
  IF s.row = 0 THEN [store |-> RecordsStop(s, t), task |-> k, accepted |-> TRUE]
  ELSE IF ~mine
       THEN [store |-> IF s.stop[t] = "none" THEN [s EXCEPT !.stop[t] = "reconcile"] ELSE s,
             task |-> k, accepted |-> FALSE]
  ELSE IF t < s.row THEN [store |-> s, task |-> k, accepted |-> TRUE]
  ELSE LET done == Stopping(s, k, t) IN
       [store |-> done.store, task |-> done.task,
        accepted |-> done.store.stop[t] \in {"applied", "superseded"}]

HookKeeps(t, d) ==
  /\ d \in hook[t].todo /\ lock = Free
  /\ IF Kind(d) = "stop"
     THEN LET done == Control(saved, task, t) IN
          /\ Keeps(done)
          /\ hook' = [hook EXCEPT ![t] = IF done.accepted
                        THEN [todo |-> @.todo \ {d}, kept |-> @.kept \cup {d}]
                        ELSE [todo |-> {}, kept |-> {}]]
     ELSE /\ LET s == RemembersInput(saved, d) IN
             Keeps(IF Kind(d) = "delegation" THEN Admitted(s, task) ELSE [store |-> s, task |-> task])
          /\ hook' = [hook EXCEPT ![t] = [todo |-> @.todo \ {d}, kept |-> @.kept \cup {d}]]
  /\ UNCHANGED <<event, inbox, aged, submitted, failed, pending, ingest, core, lock, mine, trouble>>

HookAcks(t, d) ==
  /\ d \in hook[t].kept
  /\ IF Acknowledgeable(d)
     THEN /\ inbox' = [inbox EXCEPT ![d] = "imported"]
          /\ pending' = pending \ {d}
          /\ submitted' = [submitted EXCEPT ![d] = "none"]
          /\ hook' = [hook EXCEPT ![t].kept = @ \ {d}]
     ELSE hook' = [hook EXCEPT ![t] = [todo |-> {}, kept |-> {}]]
          /\ UNCHANGED <<inbox, pending, submitted>>
  /\ UNCHANGED <<event, aged, failed, ingest, core, lock, saved, task, mine, trouble>>

\* An error leaves the hook, with what it had done already.
HookFails(t) ==
  /\ Fault
  /\ InHook(t) # {}
  /\ hook' = [hook EXCEPT ![t] = [todo |-> {}, kept |-> {}]]
  /\ \/ UNCHANGED <<saved, task>>
     \/ /\ lock = Free
        /\ \E d \in hook[t].todo :
             /\ Kind(d) = "delegation"
             /\ \E left \in Interrupted(RemembersInput(saved, d), task) : Keeps(left)
     \/ /\ lock = Free /\ saved.row # 0 /\ saved.stop[t] = "none"
        /\ \E d \in hook[t].todo : Kind(d) = "stop"
        /\ saved' = [saved EXCEPT !.stop[t] = "reconcile"] /\ UNCHANGED task
  /\ UNCHANGED <<event, inbox, aged, submitted, failed, pending, ingest, core, lock, mine>>

-----------------------------------------------------------------------------
(* The service loop, people, the native board, time and the process.         *)

\* A binding whose creation receipt was lost is matched with the task found.
Recovered(s) == IF s.row # 0 /\ s.create = "attempting" THEN [s EXCEPT !.create = "applied"] ELSE s

RecoverAdmissions ==
  /\ lock = Free /\ saved.row # 0
  /\ Keeps(Admitted(Recovered(saved), task))
  /\ <<saved', task'>> # <<saved, task>>
  /\ UNCHANGED <<event, inbox, aged, submitted, failed, pending, ingest, core, hook,
                 lock, mine, trouble>>

Native(k) ==
  /\ task' = k
  /\ UNCHANGED <<event, inbox, aged, submitted, failed, pending, ingest, core, hook,
                 lock, saved, mine, trouble>>

\* A person's control of the native task, after any Stop of the script was pressed.
PersonResumes ==
  /\ task.status \in {"staged", "stopped"} /\ task.control = "none"
  /\ \E c \in {"same", "later"} : Native([task EXCEPT !.status = "ready", !.control = c])

WorkFinishes ==
  /\ task.status = "ready"
  /\ Native([task EXCEPT !.status = "done", !.control = "later"])

PersonReassigns ==
  /\ mine /\ mine' = FALSE
  /\ UNCHANGED <<event, inbox, aged, submitted, failed, pending, ingest, core, hook,
                 lock, saved, task, trouble>>

DayPasses ==
  /\ ~aged /\ aged' = TRUE
  /\ UNCHANGED <<event, inbox, submitted, failed, pending, ingest, core, hook, lock,
                 saved, task, mine, trouble>>

\* A restart keeps the inbox, the store, the board and Core's receipts.
Crash ==
  /\ Fault
  /\ failed' = {} /\ pending' = {} /\ lock' = Free
  /\ submitted' = [d \in Deliveries |-> "none"] /\ ingest' = [d \in Deliveries |-> "none"]
  /\ core' = [core EXCEPT !.queued = {}, !.admitted = {}]
  /\ hook' = [t \in Times |-> [todo |-> {}, kept |-> {}]]
  /\ UNCHANGED <<event, inbox, aged, saved, task, mine>>

IngestStep(d) ==
  \/ AnswerOrOrdinary(d)
  \/ AdmitKnown(d) \/ AdmitRefused(d) \/ AdmitStopped(d) \/ AdmitPrepares(d) \/ AdmitFinds(d)
  \/ Creation(d) \/ Binds(d) \/ SettlesCreation(d) \/ StartActivates(d)
  \/ HandsOver(d) \/ AcksItself(d)
HookStep(t, d) == HookKeeps(t, d) \/ HookAcks(t, d)

IntakeNext ==
  \/ RecoverAdmissions
  \/ PersonResumes \/ WorkFinishes \/ PersonReassigns \/ DayPasses \/ Crash
  \/ \E d \in Deliveries : Route(d) \/ IngestStep(d) \/ IngestFails(d)
  \/ \E t \in Times : \/ CoreCommits(t) \/ CoreCompletes(t) \/ HookFails(t)
                      \/ \E d \in Deliveries : HookStep(t, d)

IntakeSpec == IntakeInit /\ [][IntakeNext]_intakeVars

\* The drain runs in a loop, the adapter's loop runs its coroutines, Core ends
\* what it holds, and a day passes.
IntakeFairness ==
  /\ WF_intakeVars(DayPasses)
  /\ \A d \in Deliveries : WF_intakeVars(Route(d)) /\ WF_intakeVars(IngestStep(d))
  /\ \A t \in Times : /\ WF_intakeVars(CoreCompletes(t))
                      /\ \A d \in Deliveries : WF_intakeVars(HookStep(t, d))

-----------------------------------------------------------------------------
(* Properties.                                                               *)

\* One issue gets one native task, whatever is redelivered, fails or dies
\* between saving the creation request, sending it and binding the task.
OneTask == task.made <= 1

\* A task staged for a delegation is activated only after Core committed the
\* input of the session it is bound to.
StartsAfterReceipt ==
  (task.activated /\ saved.input) => saved.row \in core.receipts

\* A Stop that was acknowledged keeps the task from running, unless it was
\* pressed before the assignment or a person's later control overrides it.
StopHolds ==
  \A d \in Deliveries :
    (/\ Kind(d) = "stop" /\ inbox[d] = "imported"
     /\ At(d) > saved.source /\ At(d) >= saved.row /\ task.control = "none")
      => task.status # "ready"

\* A delegation leaves the inbox only when its session was answered or Core
\* committed its input.
ImportedIsAnswered ==
  \A d \in Deliveries :
    (Kind(d) = "delegation" /\ inbox[d] = "imported")
      => At(d) \in core.receipts \cup saved.told \/ saved.row > At(d)

\* Every delivery is imported or parked in the end.
DeliveriesSettle == \A d \in Deliveries : <>[](inbox[d] # "pending")

\* One task per issue, started after the turn that asked for it, kept by a Stop,
\* and no delegation forgotten: Intake's promises to the person, as one invariant.
IntakeSound == IntakeTypeOK /\ OneTask /\ StartsAfterReceipt /\ StopHolds /\ ImportedIsAnswered
=============================================================================
