------------------------------ MODULE Reporting ------------------------------
(***************************************************************************)
(* What the Linear bridge reports of one bound native task: the pass over  *)
(* the task's events (pump_kanban), the closeout of a completed task with  *)
(* its pull request's verdict, the wait for a verdict GitHub did not give, *)
(* the release of a task that the open-PR guard parked, the repair of the  *)
(* issue's status, and the delivery of the status rows.                    *)
(*                                                                         *)
(* The board belongs to other processes: the worker, people and core move  *)
(* the task between any two reads of a pass.  Kanban events are numbered   *)
(* by their place in the log.  GitHub answers every question anew.         *)
(***************************************************************************)
EXTENDS Naturals, Sequences, FiniteSets

CONSTANTS
    Plots,          \* how a task is observed: the kinds of its events and (bound) their number
    MaxLog,      \* bound: events in the log of any plot
    MaxRestarts,    \* bound: restarts of the process
    MaxRefusals     \* bound: Done rows that the check at delivery refuses

VARIABLES
    plot,       \* the plot of this task
    board,      \* the native task: its status and its log of events
    pull,       \* the pull request that parked the task: "open" or "closed"
    store,      \* the plugin's database: cursor, status rows, decisions
    displayed,      \* the state that Linear shows
    pump,       \* the pass of the bridge
    restarts,   \* restarts of the process so far
    fresh       \* the admission's hold (FIRST_CLAIM_HOLD) has not run out

repVars == <<plot, board, pull, store, displayed, pump, restarts, fresh>>

Statuses == {"ready", "running", "blocked", "done", "archived"}
PullAnswers  == {"pass", "fail", "silent"}

LastOf(kinds, log) ==
    LET places == {i \in 1..Len(log) : log[i] \in kinds}
    IN  IF places = {} THEN 0 ELSE CHOOSE i \in places : \A j \in places : j <= i

LastClaim(log)     == LastOf({"claimed"}, log)
LastCompleted(log) == LastOf({"completed"}, log)

(* The newest block, unblock or release is the open-PR guard's own block.  *)
StandingPark(log) ==
    LET last == LastOf({"asked", "parked", "answered", "resumed", "released"}, log)
    IN  IF last # 0 /\ log[last] = "parked" THEN last ELSE 0

Idle == [pc |-> "idle", seen |-> "ready", batch |-> 0, event |-> 0, heard |-> "silent"]

(* A status row: what it shows, the completion it closes out (0: none),    *)
(* whether it is a wait for GitHub, the claim behind it, and its delivery. *)
StatusRow(state, event, wait, claim) ==
    [state |-> state, event |-> event, wait |-> wait, claim |-> claim, sent |-> "pending"]

(* A task that the agent's own admission has just made ready, its events   *)
(* so far reported; the issue is to show In Progress.                      *)
ReportingIdle(scene) ==
    /\ plot = scene
    /\ board = [status |-> "ready", log |-> <<>>]
    /\ pull = "open"
    /\ store = [cursor |-> 0, rows |-> <<StatusRow("in_progress", 0, FALSE, 0)>>, settled |-> {},
                old |-> {}, parks |-> [i \in 1..MaxLog |-> "none"], said |-> <<>>]
    /\ displayed = "todo"
    /\ pump = Idle
    /\ restarts = 0
    /\ fresh = TRUE

ReportingInit == \E scene \in Plots : ReportingIdle(scene)

-----------------------------------------------------------------------------
(* The board: external.                                                    *)

Happens(from, kind, to) ==
    /\ board.status \in from
    /\ kind \in plot.kinds /\ Len(board.log) < plot.events
    /\ board' = [status |-> to, log |-> Append(board.log, kind)]
    /\ UNCHANGED <<plot, store, displayed, pump, fresh, restarts>>

Claim    == Happens({"ready"}, "claimed", "running") /\ UNCHANGED pull
Complete == Happens({"running"}, "completed", "done") /\ UNCHANGED pull
Ask      == Happens({"running"}, "asked", "blocked") /\ UNCHANGED pull
Answer   == Happens({"blocked"}, "answered", "ready") /\ UNCHANGED pull
TaskReopened   == Happens({"done"}, "reopened", "ready") /\ UNCHANGED pull
Archive  == Happens({"ready", "blocked", "done"}, "archived", "archived") /\ UNCHANGED pull
Park     == pull = "open" /\ Happens({"ready"}, "parked", "blocked") /\ UNCHANGED pull
Release  == StandingPark(board.log) # 0 /\ Happens({"blocked"}, "released", "ready") /\ UNCHANGED pull
PullSettled    == pull = "open" /\ pull' = "closed" /\ UNCHANGED <<plot, board, store, displayed, pump, fresh, restarts>>

HoldRunsOut == fresh /\ fresh' = FALSE /\ UNCHANGED <<plot, board, pull, store, displayed, pump, restarts>>

Board == Claim \/ Complete \/ Ask \/ Answer \/ TaskReopened \/ Archive \/ Park \/ Release \/ PullSettled

-----------------------------------------------------------------------------
(* The database.                                                           *)

LatestRow == store.rows[Len(store.rows)]
RefusedRow(row) == row.state = "in_progress" /\ row.sent = "unapplied"
Terminal(row) == row.event # 0 /\ ~row.wait
TerminalCaptured(state) ==
    \E i \in 1..Len(store.rows) : Terminal(store.rows[i]) /\ store.rows[i].state \in state

(* acceptance_recheck: the newest row, passing over a Done that the check  *)
(* at delivery refused, is an unsettled In Review that names a completion, *)
(* and no Done is pending or delivered.  0: nothing waits.                 *)
AcceptanceWait ==
    LET live == {i \in 1..Len(store.rows) : store.rows[i].sent # "refused"}
        last == CHOOSE i \in live : \A j \in live : j <= i
    IN  IF /\ live # {} /\ store.rows[last].wait /\ last \notin store.settled
           /\ ~\E i \in 1..Len(store.rows) :
                    store.rows[i].state = "done" /\ store.rows[i].sent \in {"pending", "sent", "unapplied"}
        THEN last ELSE 0

Queue(row) == store.rows \o <<row>>

(* Native completion is still what the row says: the task is done and the  *)
(* named event is its latest completion.                                   *)
CompletionReport(event) == board.status = "done" /\ event = LastCompleted(board.log)

-----------------------------------------------------------------------------
(* The pass.  The task's status is read first and its history afterwards.  *)

Begin ==
    /\ pump.pc = "idle"
    /\ pump' = [pump EXCEPT !.pc = "history", !.seen = board.status]
    /\ UNCHANGED <<plot, board, pull, store, displayed, fresh, restarts>>

ReadHistory ==
    /\ pump.pc = "history"
    /\ pump' = [pump EXCEPT !.batch = Len(board.log),
                            !.pc = IF store.cursor = Len(board.log) THEN "recheck" ELSE "event"]
    /\ UNCHANGED <<plot, board, pull, store, displayed, fresh, restarts>>

NextEvent == store.cursor + 1
Onward(event) == [pump EXCEPT !.pc = IF event = pump.batch THEN "recheck" ELSE "event",
                              !.event = 0, !.heard = "silent"]

(* The message of an event, left out when the status read at the start of  *)
(* the pass shows that the event no longer stands.                         *)
Message(kind, seen) ==
    CASE kind \in {"asked", "parked"} -> seen = "blocked"
      [] kind = "reopened"            -> seen \in {"ready", "running"}
      [] kind = "released"            -> seen = "ready"
      [] OTHER                        -> FALSE

Capture(event, rows, message) ==
    store' = [store EXCEPT !.cursor = event, !.rows = rows,
                           !.said = IF message THEN Append(@, event) ELSE @]

(* An event that only carries what people should read, or one that the     *)
(* status read at the start of the pass no longer stands behind.           *)
TellEvent ==
    /\ pump.pc = "event"
    /\ ~(board.log[NextEvent] = "completed" /\ pump.seen = "done")
    /\ Capture(NextEvent, store.rows, Message(board.log[NextEvent], pump.seen))
    /\ pump' = Onward(NextEvent)
    /\ UNCHANGED <<plot, board, pull, displayed, fresh, restarts>>

(* _finished: the closeout reads the task again; an earlier completion, or *)
(* one of a task that runs again, is consumed without a word.              *)
FinishStale ==
    /\ pump.pc = "event" /\ pump.seen = "done" /\ board.log[NextEvent] = "completed"
    /\ ~CompletionReport(NextEvent)
    /\ Capture(NextEvent, store.rows, FALSE)
    /\ pump' = Onward(NextEvent)
    /\ UNCHANGED <<plot, board, pull, displayed, fresh, restarts>>

FinishAsks ==
    /\ pump.pc = "event" /\ pump.seen = "done" /\ board.log[NextEvent] = "completed"
    /\ CompletionReport(NextEvent)
    /\ \E a \in PullAnswers : pump' = [pump EXCEPT !.pc = "write", !.event = NextEvent, !.heard = a]
    /\ UNCHANGED <<plot, board, pull, store, displayed, fresh, restarts>>

(* The row that a verdict asks for.                                        *)
Closeout(heard, event) ==
    CASE heard = "pass" -> StatusRow("done", event, FALSE, 0)
      [] heard = "fail" -> StatusRow("blocked", event, FALSE, 0)
      [] OTHER          -> StatusRow("in_review", event, TRUE, 0)

(* The cursor and the closeout commit together.  A Done is not captured    *)
(* when the completion changed while GitHub was asked: the pass ends and   *)
(* the event is taken up again.                                            *)
FinishWrites ==
    /\ pump.pc = "write"
    /\ IF pump.heard = "pass" /\ ~CompletionReport(pump.event)
       THEN pump' = Idle /\ UNCHANGED store
       ELSE /\ Capture(pump.event, Queue(Closeout(pump.heard, pump.event)), TRUE)
            /\ pump' = Onward(pump.event)
    /\ UNCHANGED <<plot, board, pull, displayed, fresh, restarts>>

-----------------------------------------------------------------------------
(* _recheck_acceptance: GitHub is asked again, for at most a week from the *)
(* start of the wait; then Blocked is written and the wait is settled.     *)

Recheckable ==
    /\ board.status = "done" /\ AcceptanceWait # 0
    /\ store.rows[AcceptanceWait].event = LastCompleted(board.log)
    /\ LastCompleted(board.log) <= store.cursor

AskAgain(heard) ==
    /\ pump' = [pump EXCEPT !.pc = "rewrite", !.event = AcceptanceWait, !.heard = heard]
    /\ UNCHANGED store

Expire ==
    /\ store' = [store EXCEPT !.rows = Queue(StatusRow("blocked", LastCompleted(board.log), FALSE, 0)),
                              !.settled = @ \cup {AcceptanceWait}]
    /\ pump' = [pump EXCEPT !.pc = "park"]

ReaskFirst(heard) ==
    IF heard # "silent" /\ AcceptanceWait \in store.old THEN Expire ELSE AskAgain(heard)
Reask(heard) == IF AcceptanceWait \in store.old THEN Expire ELSE AskAgain(heard)

Recheck ==
    /\ pump.pc = "recheck"
    /\ IF Recheckable
       THEN \E heard \in PullAnswers : Reask(heard)
       ELSE pump' = [pump EXCEPT !.pc = "park"] /\ UNCHANGED store
    /\ UNCHANGED <<plot, board, pull, displayed, fresh, restarts>>

(* The closeout after a recheck is written only while its wait is still    *)
(* the issue's last word, and a Done only for an unchanged completion.     *)
RecheckWrites ==
    /\ pump.pc = "rewrite"
    /\ LET event == store.rows[pump.event].event
       IN  IF /\ pump.heard # "silent" /\ AcceptanceWait = pump.event
              /\ pump.heard = "pass" => CompletionReport(event)
           THEN store' = [store EXCEPT !.rows = Queue(Closeout(pump.heard, event))]
           ELSE UNCHANGED store
    /\ pump' = [pump EXCEPT !.pc = "park", !.event = 0, !.heard = "silent"]
    /\ UNCHANGED <<plot, board, pull, displayed, fresh, restarts>>

WeekPasses(i) ==
    /\ i \in 1..Len(store.rows) /\ store.rows[i].wait /\ i \notin store.old
    /\ store' = [store EXCEPT !.old = @ \cup {i}]
    /\ UNCHANGED <<plot, board, pull, displayed, pump, fresh, restarts>>

-----------------------------------------------------------------------------
(* _resume_pr_park: one guarded unblock of a reported park whose pull      *)
(* request has closed, decided once, nothing having happened since.        *)

StillParked(i) == board.status = "blocked" /\ StandingPark(board.log) = i /\ i = Len(board.log)

Resumable ==
    LET i == StandingPark(board.log)
    IN  i # 0 /\ StillParked(i) /\ i <= store.cursor /\ store.parks[i] = "none" /\ pull = "closed"

ParkAsks ==
    /\ pump.pc = "park"
    /\ pump' = IF Resumable THEN [pump EXCEPT !.pc = "decide", !.event = StandingPark(board.log)]
                            ELSE [pump EXCEPT !.pc = "status"]
    /\ UNCHANGED <<plot, board, pull, store, displayed, fresh, restarts>>

ParkDecides ==
    /\ pump.pc = "decide"
    /\ IF StillParked(pump.event)
       THEN /\ store' = [store EXCEPT !.parks[pump.event] = "decided"]
            /\ pump' = [pump EXCEPT !.pc = "unblock"]
       ELSE pump' = [pump EXCEPT !.pc = "status", !.event = 0] /\ UNCHANGED store
    /\ UNCHANGED <<plot, board, pull, displayed, fresh, restarts>>

(* Core unblocks only while the expected event is the newest one.          *)
AcceptsAnyBlock(i) == board.status = "blocked"
Accepts(i) == board.status = "blocked" /\ i = Len(board.log)

ParkUnblocks ==
    /\ pump.pc = "unblock"
    /\ board' = IF Accepts(pump.event)
                THEN [status |-> "ready", log |-> Append(board.log, "resumed")] ELSE board
    /\ store' = [store EXCEPT !.parks[pump.event] = "settled"]
    /\ pump' = [pump EXCEPT !.pc = "status", !.event = 0]
    /\ UNCHANGED <<plot, pull, displayed, fresh, restarts>>

-----------------------------------------------------------------------------
(* _reconcile_status: show what native execution is doing now.             *)

(* Ready only because the agent's own admission has just unblocked it.     *)
AwaitingFirstClaimEver ==
    LatestRow.state = "in_progress" /\ ~RefusedRow(LatestRow) /\ LastClaim(board.log) = 0
AwaitingFirstClaim ==
    /\ fresh /\ LatestRow.state = "in_progress" /\ ~RefusedRow(LatestRow)
    /\ LastClaim(board.log) = 0

NativeState ==
    CASE board.status = "blocked" /\ StandingPark(board.log) = 0 -> "blocked"
      [] board.status = "ready"                                  -> "todo"
      [] OTHER                                                   -> "in_review"

ShowsRunning ==
    /\ board.status = "running" /\ LastClaim(board.log) <= store.cursor
    /\ LatestRow.state = "in_progress" => RefusedRow(LatestRow) /\ LatestRow.claim = 0

ShowsParked ==
    /\ board.status = "archived" /\ ~TerminalCaptured({"done"}) /\ LatestRow.state # "todo"
    /\ LastOf({"archived"}, board.log) <= store.cursor /\ LastCompleted(board.log) = 0

ShowsState ==
    /\ board.status \in {"ready", "blocked", "done"}
    /\ board.status = "done" => ~TerminalCaptured({"done", "blocked"})
    /\ ~(board.status = "ready" /\ AwaitingFirstClaim)
    /\ NativeState # LatestRow.state

ReconcileStatus ==
    /\ pump.pc = "status"
    /\ store' = [store EXCEPT !.rows =
                    IF ShowsRunning THEN Queue(StatusRow("in_progress", 0, FALSE, LastClaim(board.log)))
                    ELSE IF ShowsParked THEN Queue(StatusRow("todo", 0, FALSE, 0))
                    ELSE IF ShowsState THEN Queue(StatusRow(NativeState, 0, FALSE, 0))
                    ELSE @]
    /\ pump' = Idle
    /\ UNCHANGED <<plot, board, pull, displayed, fresh, restarts>>

-----------------------------------------------------------------------------
(* The delivery of the oldest pending row.                                 *)

NextRow ==
    LET pending == {i \in 1..Len(store.rows) : store.rows[i].sent = "pending"}
    IN  IF pending = {} THEN 0 ELSE CHOOSE i \in pending : \A j \in pending : i <= j

Settle(i, sent) == store' = [store EXCEPT !.rows[i].sent = sent]
Refusals == Cardinality({i \in 1..Len(store.rows) : store.rows[i].sent = "refused"})

(* An issue that Linear shows as closed is left alone.                     *)
SendStatus ==
    /\ NextRow # 0
    /\ LET i == NextRow
           row == store.rows[i]
       IN  /\ row.state # "done"
           /\ Settle(i, IF displayed = "done" THEN "unapplied" ELSE "sent")
           /\ displayed' = IF displayed = "done" THEN displayed ELSE row.state
    /\ UNCHANGED <<plot, board, pull, pump, fresh, restarts>>

(* A Done is proved again: the same completion, and the recorded heads     *)
(* still accepted.  An unanswered question is put off, a refusal is final. *)
SendDone ==
    /\ NextRow # 0
    /\ LET i == NextRow
           row == store.rows[i]
       IN  /\ row.state = "done"
           /\ IF ~CompletionReport(row.event) THEN Settle(i, "failed") /\ UNCHANGED displayed
              ELSE IF displayed = "done" THEN Settle(i, "unapplied") /\ UNCHANGED displayed
              ELSE \/ Settle(i, "sent") /\ displayed' = "done"
                   \/ Refusals < MaxRefusals /\ Settle(i, "refused") /\ UNCHANGED displayed
    /\ UNCHANGED <<plot, board, pull, pump, fresh, restarts>>

-----------------------------------------------------------------------------
(* The process ends and starts again: the pass is lost.                    *)
Restart ==
    /\ pump.pc # "idle" /\ restarts < MaxRestarts
    /\ pump' = Idle /\ restarts' = restarts + 1
    /\ UNCHANGED <<plot, board, pull, store, displayed, fresh>>

Closing == TellEvent \/ FinishStale \/ FinishAsks \/ FinishWrites
Pass == Begin \/ ReadHistory \/ Closing \/ Recheck \/ RecheckWrites
            \/ ParkAsks \/ ParkDecides \/ ParkUnblocks \/ ReconcileStatus
Send == SendStatus \/ SendDone

ReportingNext ==
    \/ Board \/ HoldRunsOut \/ Pass \/ Send \/ Restart
    \/ \E i \in 1..Len(store.rows) : WeekPasses(i)

(* The bridge keeps ticking, rows go out, the hold and the weeks run out.  *)
ReportingFairness ==
    /\ WF_repVars(Pass) /\ WF_repVars(Send) /\ WF_repVars(HoldRunsOut)
    /\ WF_repVars(\E i \in 1..Len(store.rows) : WeekPasses(i))

ReportingSpec == ReportingInit /\ [][ReportingNext]_repVars /\ ReportingFairness
-----------------------------------------------------------------------------
(* Properties.                                                             *)

ReportingTypeOK ==
    /\ board.status \in Statuses /\ Len(board.log) <= MaxLog
    /\ pull \in {"open", "closed"} /\ fresh \in BOOLEAN /\ restarts \in 0..MaxRestarts
    /\ store.cursor \in 0..Len(board.log) /\ store.settled \subseteq 1..Len(store.rows)
    /\ displayed \in {"todo", "in_progress", "in_review", "blocked", "done"}
    /\ pump.pc \in {"idle", "history", "event", "write", "recheck", "rewrite",
                    "park", "decide", "unblock", "status"}

(* People's blocks are never touched (bridge.py:3779): an unblock of the   *)
(* bridge follows directly on a park of the open-PR guard whose pull       *)
(* request is closed, whatever happened to the task while it decided.      *)
OnlyParksResumed ==
    \A i \in 1..Len(board.log) :
        board.log[i] = "resumed" => pull = "closed" /\ i > 1 /\ board.log[i - 1] = "parked"

(* Status follows the work (bridge.py:3294): once the task moves no more,  *)
(* Linear comes to show what an open task is doing, unless the issue was   *)
(* closed by an earlier outcome, which stands.                             *)
OpenTaskShown ==
    LET showing == IF board.status = "running" THEN "in_progress" ELSE NativeState
    IN  board.status \in {"ready", "running", "blocked"} => displayed \in {showing, "done"}
StatusFollowsWork == <>[]OpenTaskShown

(* Nothing rechecks forever (bridge.py:42, 3703): a finished task's wait   *)
(* for GitHub ends, in an answer or with the week, also when every answer  *)
(* is silence and when a Done is refused at delivery.                      *)
Waits == board.status = "done" /\ AcceptanceWait # 0
WaitsEnd == []<>(~Waits)

(* _finished, "Close out a completed native task: Done with accepted       *)
(* evidence, else Blocked with the reason" (bridge.py:3537): when a pass   *)
(* has reported everything, the last completion of a finished task is      *)
(* closed out or waits for GitHub.                                         *)
ClosedOut(event) ==
    \/ \E i \in 1..Len(store.rows) : store.rows[i].event = event
    \/ AcceptanceWait # 0
CompletionsClosedOut ==
    (pump.pc = "idle" /\ board.status = "done" /\ store.cursor = Len(board.log))
        => ClosedOut(LastCompleted(board.log))

(* The bridge's view of a task settles: Linear shows its state and the wait *)
(* for GitHub is over (bridge.py:3294, 3703).                              *)
ReportingSettles == StatusFollowsWork /\ WaitsEnd
=============================================================================
