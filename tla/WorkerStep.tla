----------------------------- MODULE WorkerStep -----------------------------
(***************************************************************************)
(* Live steps of a delegated worker (worker_progress.py) and how the outbox  *)
(* delivers them: what the worker is doing right now is posted to the issue's *)
(* Linear session, which it shares with the worker's closing reply and with    *)
(* open questions.  A step is optional; the reply and the questions are not.   *)
(* The worker moves at any time; a posted step's answer may be lost, and the   *)
(* step may land late or never.                                                *)
(***************************************************************************)
EXTENDS Integers, Sequences

CONSTANTS
  Tools,     \* the tools Core's status names
  MaxRuns,   \* bound: attempts of the task
  MaxSteps,  \* bound: steps queued
  MaxAsked,  \* bound: times a question opens
  MaxLost    \* bound: answers lost

ASSUME WorkerStepAssumption ==
  /\ Tools # {} /\ "none" \notin Tools
  /\ MaxRuns \in Nat \ {0} /\ MaxSteps \in Nat /\ MaxAsked \in Nat /\ MaxLost \in Nat

VARIABLES
  worker,        \* [run, tool, stopped, done]: the attempt in Core
  questionOpen,  \* a question of the session is open
  outbox,        \* rows of the session, oldest first
  minute,        \* a minute has passed since the last step was queued
  queue,         \* the pump's queue(): the step it has read, and whether the worker moved since
  flusher,       \* flush: its row (the last one, at rest), and whether the worker moved since
  air,           \* requests Linear may still apply: rows whose answer was lost
  session,       \* what the session shows, oldest first
  asked, lost    \* counters of the bounds

stepVars == <<worker, questionOpen, asked, lost, outbox, minute, queue, flusher, air, session>>

NoStep == [run |-> 0, tool |-> "none"]
NotQueueing == [at |-> "idle", moved |-> FALSE, step |-> NoStep]
SessionRow(kind, step) ==
  [kind |-> kind, step |-> step, state |-> "pending", started |-> FALSE, applied |-> "unset",
   expired |-> FALSE]

StepInit ==
  /\ worker = [run |-> 1, tool |-> "none", stopped |-> FALSE, done |-> FALSE]
  /\ questionOpen = FALSE /\ asked = 0 /\ lost = 0
  /\ outbox = <<>> /\ minute = TRUE /\ queue = NotQueueing
  /\ flusher = [at |-> "idle", row |-> 0, moved |-> FALSE]
  /\ air = {} /\ session = <<>>

-----------------------------------------------------------------------------
(* The worker, the session's questions, time.                                 *)

\* What was read of the worker before this step no longer equals what is read now.
WorkerMoves(w) ==
  /\ worker' = w
  /\ queue' = [queue EXCEPT !.moved = queue.at # "idle"]
  /\ flusher' = [flusher EXCEPT !.moved = flusher.at = "looked"]

Runnable == ~worker.done /\ ~worker.stopped

Working(w) ==
  WorkerMoves(w) /\ UNCHANGED <<questionOpen, asked, lost, outbox, minute, air, session>>

\* A tool call starts or ends.
ToolChanges ==
  /\ Runnable
  /\ \E t \in (Tools \cup {"none"}) \ {worker.tool} :
       Working([worker EXCEPT !.tool = t])

\* Stop is requested, or the attempt ends and another one claims the task.
StopAsked == Runnable /\ Working([worker EXCEPT !.stopped = TRUE, !.tool = "none"])
NewAttempt ==
  /\ Runnable /\ worker.run < MaxRuns
  /\ Working([worker EXCEPT !.run = @ + 1, !.tool = "none"])

\* The task is done; the native projector queues the session's closing reply.
Finishes ==
  /\ ~worker.done
  /\ WorkerMoves([worker EXCEPT !.done = TRUE, !.tool = "none"])
  /\ outbox' = Append(outbox, SessionRow("reply", NoStep))
  /\ UNCHANGED <<questionOpen, asked, lost, minute, air, session>>

\* The session asks and is answered (Answers, Conversation); asking shows it.
QuestionAsked ==
  /\ ~questionOpen /\ asked < MaxAsked /\ ~worker.done
  /\ questionOpen' = TRUE /\ asked' = asked + 1 /\ session' = Append(session, "question")
  /\ UNCHANGED <<worker, lost, outbox, minute, queue, flusher, air>>
QuestionAnswered ==
  /\ questionOpen /\ questionOpen' = FALSE
  /\ UNCHANGED <<worker, asked, lost, outbox, minute, queue, flusher, air, session>>

\* A queued step is worth showing for a minute (step_expires_at).
MinutePasses ==
  /\ ~minute /\ minute' = TRUE
  /\ outbox' = [i \in DOMAIN outbox |-> [outbox[i] EXCEPT !.expired = TRUE]]
  /\ UNCHANGED <<worker, questionOpen, asked, lost, queue, flusher, air, session>>

-----------------------------------------------------------------------------
(* queue: one step a minute, none while one is unsettled.  The issue's lock    *)
(* keeps it and the sender apart.                                              *)

UnsettledPending(i) ==
  /\ outbox[i].kind \in {"step", "repair"} /\ outbox[i].state = "pending"
  /\ outbox[i].started /\ outbox[i].applied = "unset"
\* unsettled_worker_action.
Unsettled(i) ==
  /\ outbox[i].kind \in {"step", "repair"} /\ outbox[i].state \in {"pending", "failed"}
  /\ outbox[i].started /\ outbox[i].applied = "unset"
SomeUnsettled == \E i \in DOMAIN outbox : Unsettled(i)

Queueing(q) ==
  queue' = q /\ UNCHANGED <<worker, questionOpen, asked, lost, outbox, minute, flusher, air, session>>

\* The tool Core reports now, with the execution it belongs to (current).
QueueLooks ==
  /\ queue.at = "idle" /\ flusher.at = "idle"
  /\ Runnable /\ minute /\ ~SomeUnsettled /\ Len(outbox) < MaxSteps
  /\ worker.tool # "none"
  /\ Queueing([at |-> "looked", moved |-> FALSE,
               step |-> [run |-> worker.run, tool |-> worker.tool]])

\* The second snapshot has to equal the first.
QueueConfirms ==
  /\ queue.at = "looked"
  /\ Queueing(IF queue.moved THEN NotQueueing ELSE [queue EXCEPT !.at = "verifies"])

\* The claim is read again, and the minute's cap reserved with the row.
Queues ==
  /\ queue.at = "verifies" /\ queue' = NotQueueing
  /\ IF Runnable /\ worker.run = queue.step.run /\ minute
     THEN outbox' = Append(outbox, SessionRow("step", queue.step)) /\ minute' = FALSE
     ELSE UNCHANGED <<outbox, minute>>
  /\ UNCHANGED <<worker, questionOpen, asked, lost, flusher, air, session>>

-----------------------------------------------------------------------------
(* flush: one row at a time, under the issue's lock.                          *)

Sending(s) ==
  flusher' = s /\ UNCHANGED <<worker, questionOpen, asked, lost, outbox, minute, queue, air, session>>
RowOf == outbox[flusher.row]

\* A pass visits the due rows oldest first; passes follow one another.
Pending == {i \in DOMAIN outbox : outbox[i].state = "pending"}
Takes ==
  /\ flusher.at = "idle" /\ queue.at = "idle"
  /\ \E i \in Pending :
       /\ \A j \in Pending : IF i > flusher.row THEN j =< flusher.row \/ j >= i
                                                ELSE j =< flusher.row /\ j >= i
       /\ Sending([at |-> "taken", row |-> i, moved |-> FALSE])
Resting == [flusher EXCEPT !.at = "idle", !.moved = FALSE]

SettledRow(i, applied) == [outbox EXCEPT ![i].state = "sent", ![i].applied = applied]
Settled(i, applied) ==
  /\ outbox' = SettledRow(i, applied) /\ flusher' = Resting
  /\ UNCHANGED <<worker, questionOpen, asked, lost, minute, queue, air, session>>

\* An expired step that never left is dropped (retire_unattempted_action).
DropsExpired ==
  /\ flusher.at = "taken" /\ RowOf.kind = "step" /\ RowOf.expired /\ ~RowOf.started
  /\ Settled(flusher.row, "no")

\* current_payload: the exact attempt and tool, looked at twice again; its minute
\* is looked at once, before.
SendLooks ==
  /\ flusher.at = "taken" /\ RowOf.kind = "step" /\ ~RowOf.expired /\ ~RowOf.started
  /\ Sending([flusher EXCEPT !.at = "looked"])
StepSuperseded ==
  /\ flusher.at = "looked"
  /\ ~flusher.moved => (~Runnable \/ RowOf.step # [run |-> worker.run, tool |-> worker.tool])
  /\ Settled(flusher.row, "no")
AdmitRow ==
  /\ outbox' = [outbox EXCEPT ![flusher.row].started = TRUE]
  /\ flusher' = [flusher EXCEPT !.at = "posts"]
  /\ UNCHANGED <<worker, questionOpen, asked, lost, minute, queue, air, session>>
AdmitsStep ==
  /\ flusher.at = "looked" /\ ~flusher.moved /\ Runnable
  /\ RowOf.step = [run |-> worker.run, tool |-> worker.tool]
  /\ AdmitRow

\* The reply waits for every step that may still land.
ReplyWaits ==
  /\ flusher.at = "taken" /\ RowOf.kind = "reply" /\ SomeUnsettled /\ Sending(Resting)
AdmitsReply ==
  /\ flusher.at = "taken" /\ RowOf.kind = "reply" /\ ~SomeUnsettled /\ AdmitRow

\* A repair shows the open question again, while it is open.
AdmitsRepair ==
  /\ flusher.at = "taken" /\ RowOf.kind = "repair" /\ ~RowOf.started /\ questionOpen /\ AdmitRow
DropsRepair ==
  /\ flusher.at = "taken" /\ RowOf.kind = "repair" /\ ~RowOf.started /\ ~questionOpen
  /\ Settled(flusher.row, "no")

ShownAs(i) == IF outbox[i].kind = "repair" THEN "question" ELSE outbox[i].kind

RepairedNever(rows, i) == rows
\* reconcile_after_send: an open question under a step is shown again, by a new row.
Repaired(rows, i) ==
  IF rows[i].kind = "step" /\ questionOpen THEN Append(rows, SessionRow("repair", NoStep)) ELSE rows

\* Linear takes the post and answers.
Posts ==
  /\ flusher.at = "posts"
  /\ session' = Append(session, ShownAs(flusher.row))
  /\ outbox' = Repaired(SettledRow(flusher.row, "yes"), flusher.row)
  /\ flusher' = Resting
  /\ UNCHANGED <<worker, questionOpen, asked, lost, minute, queue, air>>

\* The answer is lost, or the process dies in the post: it may land later.  A
\* reply's own uncertainty is the outbox's (Outbox).
AnswerLost ==
  /\ flusher.at = "posts" /\ RowOf.kind # "reply" /\ lost < MaxLost
  /\ lost' = lost + 1 /\ air' = air \cup {flusher.row} /\ flusher' = Resting
  /\ UNCHANGED <<worker, questionOpen, asked, outbox, minute, queue, session>>
\* Linear refuses the post: it was not attempted, and is tried or dropped again.
StepRefused ==
  /\ flusher.at = "posts" /\ RowOf.kind # "reply" /\ lost < MaxLost
  /\ lost' = lost + 1 /\ flusher' = Resting
  /\ outbox' = [outbox EXCEPT ![flusher.row].started = FALSE]
  /\ UNCHANGED <<worker, questionOpen, asked, minute, queue, air, session>>
LandsLate ==
  /\ \E i \in air : air' = air \ {i} /\ session' = Append(session, ShownAs(i))
  /\ UNCHANGED <<worker, questionOpen, asked, lost, outbox, minute, queue, flusher>>

\* An uncertain row is read back, never sent again: found, it is settled; else
\* it waits, and after a day it is given up and still counts as unsettled.
ReadsStepBack ==
  /\ flusher.at = "taken" /\ RowOf.started
  /\ IF flusher.row \notin air
     THEN outbox' = Repaired(SettledRow(flusher.row, "yes"), flusher.row)
     ELSE \E state \in {"pending", "failed"} :
            outbox' = [outbox EXCEPT ![flusher.row].state = state]
  /\ flusher' = Resting
  /\ UNCHANGED <<worker, questionOpen, asked, lost, minute, queue, air, session>>

-----------------------------------------------------------------------------
StepSends ==
  \/ DropsExpired \/ SendLooks \/ StepSuperseded \/ AdmitsStep \/ ReplyWaits \/ AdmitsReply
  \/ AdmitsRepair \/ DropsRepair \/ Posts \/ ReadsStepBack
StepNext ==
  \/ ToolChanges \/ StopAsked \/ NewAttempt \/ Finishes \/ QuestionAsked \/ QuestionAnswered
  \/ MinutePasses
  \/ QueueLooks \/ QueueConfirms \/ Queues
  \/ Takes \/ StepSends \/ AnswerLost \/ StepRefused \/ LandsLate
StepSpec == StepInit /\ [][StepNext]_stepVars

StepTypeOK ==
  /\ worker \in [run : 1..MaxRuns, tool : Tools \cup {"none"}, stopped : BOOLEAN, done : BOOLEAN]
  /\ questionOpen \in BOOLEAN /\ asked \in 0..MaxAsked /\ lost \in 0..MaxLost /\ minute \in BOOLEAN
  /\ Len(outbox) =< 2 * MaxSteps + 1 /\ flusher.row \in 0..Len(outbox)
  /\ air \subseteq DOMAIN outbox
  /\ \A i \in DOMAIN outbox :
       outbox[i] \in [kind : {"step", "repair", "reply"},
                     step : [run : 0..MaxRuns, tool : Tools \cup {"none"}],
                     state : {"pending", "sent", "failed"}, started : BOOLEAN,
                     applied : {"unset", "yes", "no"}, expired : BOOLEAN]
  /\ session \in Seq({"step", "question", "reply"})

\* Nothing of the worker's live status reaches the session after its closing
\* reply, however late Linear takes a post whose answer was lost.
ReplyIsLast ==
  \A i, j \in DOMAIN session : session[i] = "reply" /\ session[j] = "step" => j < i

\* "Keep one uncertain optional status" (worker_progress.py:104): a step is never
\* admitted while another one may still land, though one queued before is due.
OneUncertain ==
  \A i, j \in DOMAIN outbox :
    outbox[i].kind = "step" /\ outbox[j].kind = "step" /\ Unsettled(i) /\ Unsettled(j) => i = j
\* The live status stays below the reply, and only one may be in the air.
StepSound == StepTypeOK /\ ReplyIsLast /\ OneUncertain

Top == IF session = <<>> THEN "none" ELSE session[Len(session)]
ReplyPending == \E i \in DOMAIN outbox : outbox[i].kind = "reply" /\ outbox[i].state # "sent"
\* A finished task's reply is shown, and an open question that a step covered is
\* shown again, unless a lost post does not come to light within the day it is
\* looked for: one such post holds the reply for good (store.py:1530).
Unresolved == air # {} \/ \E i \in DOMAIN outbox : Unsettled(i) /\ outbox[i].state = "failed"
ReplyArrives == ReplyPending ~> (~ReplyPending \/ Unresolved)
QuestionReturns == (questionOpen /\ Top = "step") ~> (~questionOpen \/ Top # "step" \/ Unresolved)
\* What the session shows of a finished task and of an open question comes right.
StepsSettle == ReplyArrives /\ QuestionReturns
=============================================================================
