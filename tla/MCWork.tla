------------------------------- MODULE MCWork -------------------------------
(***************************************************************************)
(* The Linear plugin's work on small instances: deliveries that become native *)
(* tasks, the reports on them, the hourly look at issues nothing tracks, and  *)
(* a worker's steps.  They share only the outbox, which Outbox models: a      *)
(* behaviour moves one of them, so an idle one neither multiplies the states  *)
(* nor makes a behaviour unfair.                                              *)
(***************************************************************************)
EXTENDS Intake, MCReporting, Sweep, WorkerStep

VARIABLES on \* the component that moves

\* Intake: what two deliveries of an issue are, in the order they were made.
InOrder(first, second) == [d \in Deliveries |-> IF d = "d1" THEN [kind |-> first, at |-> 1]
                                               ELSE [kind |-> second, at |-> 2]]
SomeScripts == {InOrder("delegation", "delegation"), InOrder("delegation", "stop"),
                InOrder("stop", "delegation"), InOrder("actorless", "prompt")}

otherVars(name) ==
  /\ name # "intake" => UNCHANGED intakeVars
  /\ name # "reporting" => UNCHANGED repVars
  /\ name # "sweep" => UNCHANGED sweepVars
  /\ name # "step" => UNCHANGED stepVars

Init ==
  /\ on \in {"intake", "reporting", "sweep", "step"}
  /\ IF on = "intake" THEN IntakeInit ELSE IntakeIdle(InOrder("stop", "delegation"))
  /\ IF on = "reporting" THEN ReportingInit ELSE ReportingIdle(CHOOSE p \in Plots : TRUE)
  /\ IF on = "sweep" THEN SweepInit ELSE SweepIdle("app", "none")
  /\ StepInit

\* The step is this component's and leaves the others alone.
Only(name) == on = name /\ on' = on /\ otherVars(name)

Next ==
  \/ Only("intake") /\ IntakeNext
  \/ Only("reporting") /\ ReportingNext
  \/ Only("sweep") /\ SweepNext
  \/ Only("step") /\ StepNext

vars == <<on, intakeVars, repVars, sweepVars, stepVars>>

\* What the components' own fairness asks, of the one that moves.
Fairness ==
  /\ WF_vars(Only("intake") /\ DayPasses)
  /\ \A d \in Deliveries : /\ WF_vars(Only("intake") /\ Route(d))
                          /\ WF_vars(Only("intake") /\ IngestStep(d))
  /\ \A t \in Times : /\ WF_vars(Only("intake") /\ CoreCompletes(t))
                     /\ \A d \in Deliveries : WF_vars(Only("intake") /\ HookStep(t, d))
  /\ WF_vars(Only("reporting") /\ Pass)
  /\ WF_vars(Only("reporting") /\ Send)
  /\ WF_vars(Only("reporting") /\ HoldRunsOut)
  /\ WF_vars(Only("reporting") /\ \E i \in 1..Len(store.rows) : WeekPasses(i))
  /\ WF_vars(Only("sweep") /\ HourPasses)
  /\ WF_vars(Only("sweep") /\ Lists)
  /\ SF_vars(Only("sweep") /\ Rechecks)
  /\ WF_vars(Only("sweep") /\ SweepSteps)
  /\ WF_vars(Only("step") /\ (QueueConfirms \/ Queues))
  /\ WF_vars(Only("step") /\ (Takes \/ StepSends))

Spec == Init /\ [][Next]_vars /\ Fairness

\* The components' promises of progress, each of the behaviours that move it:
\* every delivery is imported or parked (Intake),
DeliveriesSettled == on = "intake" => DeliveriesSettle

\* Linear comes to show what the task does and waits for GitHub end (Reporting),
ReportsSettled == on = "reporting" => ReportingSettles

\* and what nobody asked for ends too: the hourly pass and a worker's live status
\* (Sweep, WorkerStep).
OptionalWorkSettled == (on = "sweep" => SweepSettles) /\ (on = "step" => StepsSettle)
=============================================================================
