------------------------------ MODULE TakeOver ------------------------------
(***************************************************************************)
(* plugins/linear handoff.py, chat.py and bridge.py: one agent takes an      *)
(* issue over from the agent Linear shows as its delegate.                   *)
(*                                                                           *)
(* The requester's chat call (take_over, resume_owner) asks the owner's      *)
(* process (hand_off, resume) over a command that may time out, and then     *)
(* starts the work as its own native task.  Around them people stop, resume, *)
(* close and reassign, the owner's worker winds down in its own time, and    *)
(* either process may die.                                                   *)
(*                                                                           *)
(* Native tasks and Linear are modelled as far as these modules use them.    *)
(***************************************************************************)
EXTENDS Naturals

CONSTANTS
  MaxCalls,   \* chat calls made
  MaxEvents,  \* native events people, workers and dispatchers add to the owner's task
  Survives    \* kinds of owner call whose process outlives the requester's timeout

ASSUME TakeOverAssumption == MaxCalls \in Nat /\ MaxEvents \in Nat

VARIABLES
  ownerTask,  \* the owner's native task and the process of its last attempt
  ownerCall,  \* by call number: the owner's process serving it
  ownerLock,  \* holder of the owner's issue lock, or 0
  localTask,  \* the requester's task, its intents and its delegate write
  issue,      \* Linear
  chat        \* the requester's call in progress

toVars == <<ownerTask, ownerCall, ownerLock, localTask, issue, chat>>

CallNumbers == 1..MaxCalls
Nobody == 0

NoCallYet == [kind |-> "none", phase |-> "none", expect |-> 0, stopAt |-> 0,
              ours |-> FALSE, stopped |-> FALSE, tried |-> FALSE, reply |-> "none"]

TakeOverTypeOK ==
  /\ ownerTask \in [status : {"ready", "running", "blocked", "done"},
                    stop : {"none", "handover", "person", "elsewhere"}, stopAt : Nat,
                    events : Nat, worker : BOOLEAN,
                    attempt : {"none", "started", "unknown", "settled"}]
  /\ \A c \in CallNumbers :
       ownerCall[c] \in
         [kind : {"none", "hand_off", "resume"},
          phase : {"none", "start", "check", "stop", "verify", "prove", "replied", "dead"},
          expect : Nat, stopAt : Nat, ours : BOOLEAN, stopped : BOOLEAN, tried : BOOLEAN,
          reply : {"none", "handed_off", "unchanged", "paused", "resumed"}]
  /\ ownerLock \in 0..MaxCalls
  /\ localTask \in [status : {"none", "blocked", "ready", "running", "done"},
                    create : {"none", "attempting", "applied"},
                    activate : {"none", "attempting", "applied", "reconcile"},
                    by : {"none", "stop", "closed", "person", "unverified"},
                    receipt : BOOLEAN, accepted : BOOLEAN,
                    routing : {"none", "queued", "sent"}]
  /\ issue \in [delegate : {"owner", "self", "other", "none"}, closed : BOOLEAN,
                moved : BOOLEAN, stopped : BOOLEAN]
  /\ chat \in [n : 0..MaxCalls, kind : {"none", "take_over", "resume_owner"},
               phase : {"idle", "ask", "create", "bind", "admit", "activate", "settle", "route", "failed"},
               reply : {"none", "taken", "refused", "paused", "resumed", "uncertain"}]

TakeOverIdle(s) ==
  /\ ownerTask = [status |-> s, stop |-> "none", stopAt |-> 0, events |-> 0,
                  worker |-> s = "running",
                  attempt |-> IF s = "running" THEN "started" ELSE "none"]
  /\ ownerCall = [c \in CallNumbers |-> NoCallYet]
  /\ ownerLock = Nobody
  /\ localTask = [status |-> "none", create |-> "none", activate |-> "none", by |-> "none",
                  receipt |-> FALSE, accepted |-> FALSE, routing |-> "none"]
  /\ issue = [delegate |-> "owner", closed |-> FALSE, moved |-> FALSE, stopped |-> FALSE]
  /\ chat = [n |-> 0, kind |-> "none", phase |-> "idle", reply |-> "none"]
TakeOverInit == \E s \in {"ready", "running"} : TakeOverIdle(s)

-----------------------------------------------------------------------------
(* The owner's board: dispatcher, worker and people.                         *)

Event(task) == [task EXCEPT !.events = @ + 1]
Stopped(task, cause) ==
  [Event(task) EXCEPT !.status = "blocked", !.stop = cause, !.stopAt = task.events + 1]
Resumed(task) == [Event(task) EXCEPT !.status = "ready", !.stop = "none"]

OwnerBoard(task) ==
  /\ ownerTask.events < MaxEvents
  /\ ownerTask' = task
  /\ UNCHANGED <<ownerCall, ownerLock, localTask, issue, chat>>

OwnerClaims ==
  /\ ownerTask.status = "ready"
  /\ OwnerBoard([Event(ownerTask) EXCEPT !.status = "running", !.worker = TRUE,
                                         !.attempt = "started"])

OwnerFinishes ==
  /\ ownerTask.status = "running"
  /\ OwnerBoard([Event(ownerTask) EXCEPT !.status = "done", !.worker = FALSE,
                                         !.attempt = "settled"])

\* A stopped worker winds down; its exit result may land as an event of its own.
WorkerExits ==
  /\ ownerTask.status = "blocked" /\ ownerTask.worker
  /\ \E late \in BOOLEAN :
       OwnerBoard([(IF late THEN Event(ownerTask) ELSE ownerTask) EXCEPT
                     !.worker = FALSE,
                     !.attempt = IF @ = "started" THEN "settled" ELSE @])

\* The gateway gives up on the attempt and leaves its admission row unknown.
GatewayGivesUp ==
  /\ ownerTask.status = "blocked" /\ ownerTask.attempt = "started"
  /\ OwnerBoard([ownerTask EXCEPT !.attempt = "unknown"])

PersonStopsOwner ==
  /\ ownerTask.status \in {"ready", "running"}
  /\ OwnerBoard(Stopped(ownerTask, "person"))

OtherAgentTakesOver ==
  /\ ownerTask.status \in {"ready", "running"}
  /\ OwnerBoard(Stopped(ownerTask, "elsewhere"))

\* A pause made for a handover is only lifted through resume_owner, and a person
\* does not resume a pause that has already been handed over.
PersonResumesOwner ==
  /\ ownerTask.status = "blocked" /\ ownerTask.stop = "person"
  /\ \A c \in CallNumbers :
       ~(ownerCall[c].reply = "handed_off" /\ ownerCall[c].stopAt = ownerTask.stopAt)
  /\ OwnerBoard(Resumed(ownerTask))

\* The owner reports to Linear that it works on the issue.
OwnerReports ==
  /\ ownerTask.status = "running" /\ ~issue.moved
  /\ issue' = [issue EXCEPT !.moved = TRUE]
  /\ UNCHANGED <<ownerTask, ownerCall, ownerLock, localTask, chat>>

-----------------------------------------------------------------------------
(* The owner's process: handoff.hand_off and handoff.resume.                 *)

Serving(c, kind, phase) == ownerCall[c].kind = kind /\ ownerCall[c].phase = phase
ServedElsewhere == UNCHANGED <<localTask, issue, chat>>

Goes(c, changes) == ownerCall' = [ownerCall EXCEPT ![c] = changes]
Answers(c, reply) ==
  /\ Goes(c, [ownerCall[c] EXCEPT !.phase = "replied", !.reply = reply])
  /\ ownerLock' = IF ownerLock = c THEN Nobody ELSE ownerLock

\* issue_lock: held for the whole step, or "try again" when it stays busy.
OwnerLocks(c) ==
  /\ ownerCall[c].phase = "start"
  /\ \/ /\ ownerLock = Nobody
        /\ ownerLock' = c
        /\ Goes(c, [ownerCall[c] EXCEPT !.phase = "check"])
     \/ ownerLock # Nobody /\ Answers(c, "unchanged")
  /\ ServedElsewhere /\ UNCHANGED ownerTask

LiveStop == ownerTask.status = "blocked"

\* Everything that can refuse is read before anything is stopped.
HandOffChecks(c) ==
  /\ Serving(c, "hand_off", "check")
  /\ \/ /\ LiveStop /\ ownerTask.stop = "handover"   \* paused for us already: prove it
        /\ Goes(c, [ownerCall[c] EXCEPT !.phase = "prove", !.stopAt = ownerTask.stopAt, !.ours = TRUE])
        /\ UNCHANGED ownerLock
     \/ /\ LiveStop /\ ownerTask.stop = "person"     \* a person's pause: prove, change nothing
        /\ Goes(c, [ownerCall[c] EXCEPT !.phase = "prove", !.stopAt = ownerTask.stopAt])
        /\ UNCHANGED ownerLock
     \/ /\ \/ LiveStop /\ ownerTask.stop = "elsewhere"
           \/ ownerTask.status = "done"
        /\ Answers(c, "unchanged")
     \/ /\ ownerTask.status \in {"ready", "running"}
        /\ Goes(c, [ownerCall[c] EXCEPT !.phase = "stop", !.expect = ownerTask.events])
        /\ UNCHANGED ownerLock
  /\ ServedElsewhere /\ UNCHANGED ownerTask

\* The one guarded Stop: nothing happens when the history has moved.
HandOffStops(c) ==
  /\ Serving(c, "hand_off", "stop")
  /\ LET lands == ownerTask.events = ownerCall[c].expect IN
     /\ ownerTask' = IF lands THEN Stopped(ownerTask, "handover") ELSE ownerTask
     /\ Goes(c, [ownerCall[c] EXCEPT !.phase = "verify", !.stopped = lands,
                                     !.stopAt = IF lands THEN ownerTask.events + 1 ELSE 0])
  /\ ServedElsewhere /\ UNCHANGED ownerLock

\* Mutant: unreadable history counts as nothing changed.
HandOffVerifiesHopeful(c) ==
  /\ Serving(c, "hand_off", "verify")
  /\ \/ Goes(c, [ownerCall[c] EXCEPT !.phase = "prove", !.ours = TRUE]) /\ UNCHANGED ownerLock
     \/ Answers(c, "unchanged")
  /\ ServedElsewhere /\ UNCHANGED ownerTask

\* History, not the answer of the Stop, says what happened; unreadable history
\* means the work may be paused.
HandOffVerifies(c) ==
  /\ Serving(c, "hand_off", "verify")
  /\ LET live == LiveStop /\ ownerCall[c].stopped /\ ownerTask.stopAt = ownerCall[c].stopAt IN
     \/ /\ live
        /\ Goes(c, [ownerCall[c] EXCEPT !.phase = "prove", !.ours = TRUE])
        /\ UNCHANGED ownerLock
     \/ ~live /\ Answers(c, "unchanged")
     \/ Answers(c, "paused")
  /\ ServedElsewhere /\ UNCHANGED ownerTask

\* cleanup.inspect: the work is stopped by exactly this Stop, its worker is gone
\* and its attempt settled.
SameStop(c) == LiveStop /\ ownerTask.stopAt = ownerCall[c].stopAt
Quiescent == ~ownerTask.worker /\ ownerTask.attempt \in {"none", "settled"}

\* Core settles an attempt it left unknown once the owned processes are gone.
ResolveUnknown(c) ==
  /\ Serving(c, "hand_off", "prove")
  /\ SameStop(c) /\ ownerTask.stop = "handover" /\ ownerTask.attempt = "unknown"
  /\ ownerCall[c].ours /\ ~ownerCall[c].tried
  /\ Goes(c, [ownerCall[c] EXCEPT !.tried = TRUE])
  /\ \/ ownerTask' = [ownerTask EXCEPT !.worker = FALSE, !.attempt = "settled"]
     \/ UNCHANGED ownerTask
  /\ ServedElsewhere /\ UNCHANGED ownerLock

\* Proven, or not in time, or never to be.
HandOffProves(c) ==
  /\ Serving(c, "hand_off", "prove")
  /\ Answers(c, IF SameStop(c) /\ Quiescent THEN "handed_off"
                ELSE IF ownerCall[c].ours THEN "paused" ELSE "unchanged")
  /\ ServedElsewhere /\ UNCHANGED ownerTask

\* resume: only this flow's own pause, guarded on the event just read.
ResumeChecks(c) ==
  /\ Serving(c, "resume", "check")
  /\ \/ /\ LiveStop /\ ownerTask.stop = "handover"
        /\ Goes(c, [ownerCall[c] EXCEPT !.phase = "stop", !.expect = ownerTask.events])
        /\ UNCHANGED ownerLock
     \/ /\ ~(LiveStop /\ ownerTask.stop = "handover")
        /\ Answers(c, "unchanged")
  /\ ServedElsewhere /\ UNCHANGED ownerTask

ResumeUnblocks(c) ==
  /\ Serving(c, "resume", "stop")
  /\ \/ /\ ownerTask.events = ownerCall[c].expect
        /\ ownerTask' = Resumed(ownerTask)
        /\ Answers(c, "resumed")
     \/ /\ ownerTask.events # ownerCall[c].expect  \* read again, or give up
        /\ \/ Goes(c, [ownerCall[c] EXCEPT !.phase = "check"]) /\ UNCHANGED ownerLock
           \/ Answers(c, "unchanged")
        /\ UNCHANGED ownerTask
  /\ ServedElsewhere

OwnerStep(c) ==
  \/ OwnerLocks(c) \/ HandOffChecks(c) \/ HandOffStops(c) \/ HandOffVerifies(c)
  \/ ResolveUnknown(c) \/ HandOffProves(c) \/ ResumeChecks(c) \/ ResumeUnblocks(c)

-----------------------------------------------------------------------------
(* Linear, and the requester's board.                                        *)

PersonRoutes ==
  /\ \E to \in {"owner", "other", "none"} \ {issue.delegate} :
       issue' = [issue EXCEPT !.delegate = to, !.moved = TRUE]
  /\ UNCHANGED <<ownerTask, ownerCall, ownerLock, localTask, chat>>

PersonClosesOrReopens ==
  /\ issue' = [issue EXCEPT !.closed = ~@, !.moved = TRUE]
  /\ UNCHANGED <<ownerTask, ownerCall, ownerLock, localTask, chat>>

LocalBoard(status) ==
  /\ localTask' = [localTask EXCEPT !.status = status]
  /\ UNCHANGED <<ownerTask, ownerCall, ownerLock, issue, chat>>

LocalClaims == localTask.status = "ready" /\ LocalBoard("running")
LocalFinishes == localTask.status = "running" /\ LocalBoard("done")

\* Not after asking for the owner to continue.
PersonResumesHere ==
  /\ localTask.status = "blocked" /\ localTask.accepted
  /\ \A c \in CallNumbers : ownerCall[c].kind # "resume"
  /\ LocalBoard("ready")

\* A Stop in Linear is remembered until the task is bound, and stops it then.
PersonStopsHere ==
  /\ \/ /\ ~issue.stopped /\ localTask.status \in {"none", "blocked"}
        /\ issue' = [issue EXCEPT !.stopped = TRUE]
        /\ UNCHANGED localTask
     \/ /\ localTask.status \in {"ready", "running"}
        /\ localTask' = [localTask EXCEPT !.status = "blocked"]
        /\ UNCHANGED issue
  /\ UNCHANGED <<ownerTask, ownerCall, ownerLock, chat>>

-----------------------------------------------------------------------------
(* The requester's chat call.                                                *)

Readmittable == localTask.activate = "reconcile" /\ ~localTask.accepted
                /\ localTask.by \in {"person", "closed"}

\* takeover_preflight.
Preflight ==
  CASE localTask.status \in {"ready", "running"} ->
         IF localTask.activate \notin {"none", "reconcile"} THEN "already_here" ELSE "refuse"
    [] localTask.status = "blocked" ->
         IF localTask.activate \in {"none", "attempting"} \/ Readmittable THEN "ask_owner" ELSE "refuse"
    [] localTask.status = "done" -> "refuse"
    [] localTask.status = "none" ->
         IF localTask.create = "none" THEN "ask_owner" ELSE "refuse"

Says(reply) == chat' = [chat EXCEPT !.phase = "idle", !.reply = reply]
Asks(kind, phase, reply) ==
  chat' = [n |-> chat.n + 1, kind |-> kind, phase |-> phase, reply |-> reply]

\* The owner is asked only when a verified handover would leave the work
\* running here; from this moment a person's change wins.
TakeOverAsks ==
  /\ chat.phase = "idle" /\ chat.n < MaxCalls
  /\ \/ /\ issue.delegate = "owner" /\ ~issue.closed /\ Preflight = "ask_owner"
        /\ Asks("take_over", "ask", "none")
        /\ ownerCall' = [ownerCall EXCEPT ![chat.n + 1] =
                           [NoCallYet EXCEPT !.kind = "hand_off", !.phase = "start"]]
        /\ issue' = [issue EXCEPT !.moved = FALSE]
     \/ /\ issue.delegate = "owner" /\ ~issue.closed /\ Preflight = "already_here"
        /\ Asks("take_over", "route", "none")
        /\ UNCHANGED <<ownerCall, issue>>
     \/ /\ \/ issue.delegate # "owner" \/ issue.closed
           \/ Preflight = "refuse"
        /\ Asks("take_over", "idle", "refused")
        /\ UNCHANGED <<ownerCall, issue>>
  /\ UNCHANGED <<ownerTask, ownerLock, localTask>>

\* resume_owner: never while this agent runs, or ran, the work.
ResumeAsks ==
  /\ chat.phase = "idle" /\ chat.n < MaxCalls
  /\ LET may == /\ issue.delegate = "owner"
                /\ localTask.status \in {"none", "blocked"} /\ ~localTask.accepted
     IN \/ /\ may
           /\ Asks("resume_owner", "ask", "none")
           /\ ownerCall' = [ownerCall EXCEPT ![chat.n + 1] =
                              [NoCallYet EXCEPT !.kind = "resume", !.phase = "start"]]
        \/ /\ ~may
           /\ Asks("resume_owner", "idle", "refused")
           /\ UNCHANGED ownerCall
  /\ UNCHANGED <<ownerTask, ownerLock, localTask, issue>>

OwnerAnswers ==
  /\ chat.phase = "ask" /\ ownerCall[chat.n].phase = "replied"
  /\ LET reply == ownerCall[chat.n].reply IN
     \/ /\ reply = "handed_off"
        /\ chat' = [chat EXCEPT !.phase = "create"]
     \/ reply = "paused" /\ Says("paused")
     \/ reply = "unchanged" /\ Says("refused")
     \/ reply = "resumed" /\ Says("resumed")
  /\ UNCHANGED <<ownerTask, ownerCall, ownerLock, localTask, issue>>

\* The end of a process the requester no longer waits for.
Abandoned(c) ==
  IF ownerCall[c].phase \in {"none", "replied"} \/ ownerCall[c].kind \in Survives
  THEN UNCHANGED <<ownerCall, ownerLock>>
  ELSE /\ Goes(c, [ownerCall[c] EXCEPT !.phase = "dead"])
       /\ ownerLock' = IF ownerLock = c THEN Nobody ELSE ownerLock

\* A timeout, a lost reply, a missing bridge: the outcome is unknown.
OwnerUnknown ==
  /\ chat.phase = "ask"
  /\ Abandoned(chat.n)
  /\ Says(IF chat.kind = "take_over" THEN "paused" ELSE "uncertain")
  /\ UNCHANGED <<ownerTask, localTask, issue>>

ChatGoes(phase) == chat' = [chat EXCEPT !.phase = phase]

\* entrust_checks: delegated elsewhere meanwhile, or closed before a task exists.
EntrustRefuses ==
  /\ chat.phase = "create"
  /\ issue.delegate = "other" \/ (localTask.status = "none" /\ issue.closed)
  /\ ChatGoes("failed")
  /\ UNCHANGED <<ownerTask, ownerCall, ownerLock, localTask, issue>>

\* The create intent first, then the parked task, then its binding.
EntrustCreates ==
  /\ chat.phase = "create" /\ issue.delegate # "other"
  /\ localTask.status = "none" /\ ~issue.closed
  /\ localTask' = [localTask EXCEPT !.create = "attempting"]
  /\ ChatGoes("bind")
  /\ UNCHANGED <<ownerTask, ownerCall, ownerLock, issue>>

\* _entrust_bound: the one bound task is reused.
EntrustReuses ==
  /\ chat.phase = "create" /\ issue.delegate # "other" /\ localTask.status # "none"
  /\ ChatGoes("admit")
  /\ UNCHANGED <<ownerTask, ownerCall, ownerLock, localTask, issue>>

EntrustBinds ==
  /\ chat.phase = "bind"
  /\ localTask' = [localTask EXCEPT !.status = "blocked", !.create = "applied"]
  /\ ChatGoes("admit")
  /\ UNCHANGED <<ownerTask, ownerCall, ownerLock, issue>>

\* _assignment_activation with this call's proof: a Stop, a closure or a
\* person's change since the owner was asked wins.
Superseded ==
  IF issue.stopped THEN "stop" ELSE IF issue.closed THEN "closed"
  ELSE IF issue.delegate \in {"none", "owner"} /\ ~issue.moved THEN "none"
  ELSE IF issue.delegate = "self" THEN "none" ELSE "person"

Admit ==
  /\ chat.phase = "admit"
  /\ LET retried == localTask.activate = "attempting" \/ Readmittable IN
     \/ /\ localTask.activate # "none" /\ ~retried  \* settled before
        /\ chat' = [chat EXCEPT !.phase = IF localTask.accepted THEN "route" ELSE "failed"]
        /\ UNCHANGED localTask
     \/ /\ localTask.activate = "none" \/ retried
        /\ Superseded # "none"
        /\ localTask' = [localTask EXCEPT !.activate = "reconcile", !.by = Superseded,
                                          !.routing = IF @ = "queued" THEN "none" ELSE @]
        /\ ChatGoes("failed")
     \/ /\ localTask.activate = "none" \/ retried
        /\ Superseded = "none"
        /\ localTask' = [localTask EXCEPT !.activate = IF Readmittable THEN @ ELSE "attempting"]
        /\ chat' = [chat EXCEPT !.phase = "activate"]
  /\ UNCHANGED <<ownerTask, ownerCall, ownerLock, issue>>

\* The native unblock, guarded by the event the task was created with.
Activate ==
  /\ chat.phase = "activate"
  /\ localTask' = IF localTask.status = "blocked" /\ ~localTask.receipt
                  THEN [localTask EXCEPT !.status = "ready", !.receipt = TRUE] ELSE localTask
  /\ ChatGoes("settle")
  /\ UNCHANGED <<ownerTask, ownerCall, ownerLock, issue>>

\* The receipt in native history decides, not the answer.
SettleActivation ==
  /\ chat.phase = "settle"
  /\ localTask' = [localTask EXCEPT !.activate = IF localTask.receipt THEN "applied" ELSE "reconcile",
                                    !.accepted = localTask.receipt,
                                    !.by = IF localTask.receipt THEN "none" ELSE "unverified"]
  /\ chat' = [chat EXCEPT !.phase = IF localTask.receipt THEN "route" ELSE "failed"]
  /\ UNCHANGED <<ownerTask, ownerCall, ownerLock, issue>>

\* _route_to_self: the delegate write replaces exactly the delegate that stopped.
RoutingAllowed ==
  issue.delegate \in {"none", "owner"} /\ ~issue.closed /\ ~issue.moved

Routes ==
  /\ chat.phase = "route"
  /\ localTask' = [localTask EXCEPT !.routing =
                     IF @ = "none" /\ localTask.accepted /\ RoutingAllowed
                        /\ localTask.status # "done" THEN "queued" ELSE @]
  /\ Says("taken")
  /\ UNCHANGED <<ownerTask, ownerCall, ownerLock, issue>>

\* A step of the start raises: what runs here decides the answer.
StartRaises ==
  /\ chat.phase \in {"create", "bind", "admit", "activate", "settle", "route"}
  /\ ChatGoes("failed")
  /\ UNCHANGED <<ownerTask, ownerCall, ownerLock, localTask, issue>>

StartFails ==
  /\ chat.phase = "failed"
  /\ Says(IF localTask.status \in {"ready", "running"} THEN "taken" ELSE "paused")
  /\ UNCHANGED <<ownerTask, ownerCall, ownerLock, localTask, issue>>

\* The requester's service dies in the middle of a call.
RequesterDies ==
  /\ chat.phase # "idle"
  /\ Abandoned(chat.n)
  /\ Says("none")
  /\ UNCHANGED <<ownerTask, localTask, issue>>

-----------------------------------------------------------------------------
(* The requester's tick: recovery and delegate delivery.                     *)

Tick(changes) == localTask' = changes /\ UNCHANGED <<ownerTask, ownerCall, ownerLock, chat>>

\* Mutant: recovery admits the parked task as it does an assignment's.
RecoverAdmitsParked ==
  /\ chat.phase \in {"idle", "ask"}
  /\ localTask.create = "applied" /\ localTask.activate = "attempting"
  /\ Tick([localTask EXCEPT !.activate = "applied", !.accepted = TRUE, !.receipt = TRUE,
                            !.status = IF @ = "blocked" THEN "ready" ELSE @])
  /\ UNCHANGED issue

\* A parked takeover task is never admitted late: without a fresh proof only an
\* admission that has landed is recognised, by its receipt.
RecoverAdmission ==
  /\ chat.phase \in {"idle", "ask"}
  /\ localTask.create = "applied" /\ localTask.activate = "attempting" /\ localTask.receipt
  /\ Tick([localTask EXCEPT !.activate = "applied", !.accepted = TRUE])
  /\ UNCHANGED issue

\* _recover_binding_delegate: the delegate of work admitted here.
RecoverDelegate ==
  /\ localTask.accepted /\ localTask.routing = "none" /\ localTask.status # "done"
  /\ RoutingAllowed
  /\ Tick([localTask EXCEPT !.routing = "queued"])
  /\ UNCHANGED issue

\* Mutant: what was queued is written, whatever happened since.
SendDelegateQueued ==
  /\ localTask.routing = "queued"
  /\ issue' = [issue EXCEPT !.delegate = "self"]
  /\ Tick([localTask EXCEPT !.routing = "sent"])

\* _send_delegate: nothing is written when the issue has moved meanwhile.
SendDelegate ==
  /\ localTask.routing = "queued"
  /\ \/ /\ RoutingAllowed /\ localTask.status # "done"
        /\ issue' = [issue EXCEPT !.delegate = "self"]
        /\ Tick([localTask EXCEPT !.routing = "sent"])
     \/ /\ ~RoutingAllowed \/ localTask.status = "done"
        /\ Tick([localTask EXCEPT !.routing = "sent"])
        /\ UNCHANGED issue

TakeOverNext ==
  \/ OwnerClaims \/ OwnerFinishes \/ WorkerExits \/ GatewayGivesUp
  \/ PersonStopsOwner \/ OtherAgentTakesOver \/ PersonResumesOwner \/ OwnerReports
  \/ \E c \in CallNumbers : OwnerStep(c)
  \/ PersonRoutes \/ PersonClosesOrReopens
  \/ LocalClaims \/ LocalFinishes \/ PersonResumesHere \/ PersonStopsHere
  \/ TakeOverAsks \/ ResumeAsks \/ OwnerAnswers \/ OwnerUnknown
  \/ EntrustRefuses \/ EntrustCreates \/ EntrustReuses \/ EntrustBinds \/ Admit \/ Activate \/ SettleActivation
  \/ Routes \/ StartRaises \/ StartFails \/ RequesterDies
  \/ RecoverAdmission \/ RecoverDelegate \/ SendDelegate

TakeOverSpec == TakeOverInit /\ [][TakeOverNext]_toVars

-----------------------------------------------------------------------------

\* Two agents never run the same work: while this agent's task is runnable, the
\* owner's is not, and no process of its last attempt is alive.
OneRunner ==
  localTask.status \in {"ready", "running"}
    => /\ ownerTask.status \notin {"ready", "running"}
       /\ ~ownerTask.worker

\* An answer that nothing was changed is true: the call it answers has left no
\* pause of its own behind.
RefusalLeavesNoPause ==
  chat.phase = "idle" /\ chat.reply = "refused"
    => ~(/\ ownerCall[chat.n].stopped /\ LiveStop
         /\ ownerTask.stopAt = ownerCall[chat.n].stopAt)

\* Linear shows this agent as delegate by its own write only for work that was
\* admitted here, and never over a change a person made since.
DelegateFollowsAdmission ==
  [][issue.delegate # "self" /\ issue'.delegate = "self"
       => localTask.accepted /\ ~issue.moved /\ ~issue.closed]_toVars

\* An issue's work has one runner through every hand-over, and a refusal is one:
\* chat.py's calls, the owner's broker and the person's moves interleave freely.
TakeOverSound == TakeOverTypeOK /\ OneRunner /\ RefusalLeavesNoPause
=============================================================================
