------------------------------- MODULE Outbox -------------------------------
(***************************************************************************)
(* The durable outbox of the Linear plugin: plugins/linear/store.py keeps   *)
(* the rows in SQLite, plugins/linear/bridge.py (_flush, _send,             *)
(* _mutate_outbox) delivers them.  One tick thread per profile is the only  *)
(* sender of these rows; the threads that capture native events, the chat   *)
(* command that re-tracks an issue and the operator's command line change   *)
(* rows between any two of its transactions, and it can crash between any   *)
(* two of them.                                                             *)
(*                                                                          *)
(* Every action is one store transaction or one step of a request.  A row   *)
(* is its position (SQLite's rowid).  Wall-clock time is abstracted: which  *)
(* rows have reached next_at, GIVE_UP_AFTER or REVIVE_EVERY is a choice.    *)
(***************************************************************************)
EXTENDS Integers, FiniteSets, FiniteSetsExt

CONSTANTS
  Issues,         \* Linear issues
  Intents,        \* workflow states a status row may ask for
  InProgress,     \* the one whose refusal may be retried by a new claim
  Workload,       \* bound: the kinds of rows native events produce
  MaxRows,        \* bound: rows ever inserted
  MaxTask,        \* bound: reporting bindings an issue goes through
  ReviveLimit,    \* REVIVE_LIMIT
  OperatorWaits   \* TRUE: the operator looks at Linear only between sends

ASSUME OutboxAssumption ==
  /\ InProgress \in Intents
  /\ Workload \subseteq {"status", "closeout", "history"}
  /\ MaxRows \in Nat
  /\ MaxTask \in Nat \ {0}
  /\ ReviveLimit \in Nat
  /\ OperatorWaits \in BOOLEAN

RowId == 1 .. MaxRows
NoRow == 0
Tasks == 1 .. MaxTask

\* A status row is written once and never repeated; a receipt is the comment
\* of a closeout; a history comment follows the status current when it is sent.
StatusKinds == {"status", "closeout"}
Kinds == StatusKinds \cup {"receipt", "history"}

Row == [kind : Kinds, issue : Issues, task : Tasks, intent : Intents,
        dep : RowId \cup {NoRow},              \* requires_status_id
        state : {"pending", "sent", "failed"},
        tried : BOOLEAN,                       \* attempts > 0
        started : BOOLEAN,                     \* write_started
        required : BOOLEAN,                    \* reconcile_required
        reconciled : BOOLEAN,                  \* reconciliation recorded
        rejected : BOOLEAN,                    \* failure_kind = 'rejected'
        applied : {"unset", "no", "yes"},
        receipt : BOOLEAN,                     \* issue_write_receipt
        held : BOOLEAN,                        \* hold_reason
        revivals : 0 .. ReviveLimit]

VARIABLES
  row,       \* the outbox table, rowid -> row
  last,      \* the newest rowid
  binding,   \* issue -> its current reporting task
  pc,        \* where the sender is
  batch,     \* the rows due() returned and that this pass has not finished
  cur,       \* the row being delivered
  fresh,     \* prior_started is False: this send may take its marker back
  attempt,   \* first or second request of this mutation (401 refresh)
  progress,  \* this pass decided something
  net,       \* writes on their way to Linear
  landed,    \* rowid -> effects Linear has applied
  shown      \* issue -> the status row whose state Linear shows

table  == <<row, last, binding>>
sender == <<pc, batch, cur, fresh, attempt, progress>>
remote == <<net, landed, shown>>
vars   == <<row, last, binding, pc, batch, cur, fresh, attempt,
            progress, net, landed, shown>>

PC == {"idle", "pass", "check", "guard", "marked", "wire", "answered",
       "unauthorized", "limited", "retrying", "refused", "applied", "unapplied"}

TypeOK ==
  /\ last \in 0 .. MaxRows
  /\ row \in [1 .. last -> Row]
  /\ binding \in [Issues -> Tasks]
  /\ pc \in PC
  /\ DOMAIN batch \in SUBSET (1 .. last)
  /\ batch \in [DOMAIN batch -> Row]
  /\ cur \in DOMAIN batch \cup {NoRow}
  /\ fresh \in BOOLEAN
  /\ attempt \in {1, 2}
  /\ progress \in BOOLEAN
  /\ net \in SUBSET (1 .. last)
  /\ landed \in [RowId -> Nat]
  /\ shown \in [Issues -> RowId \cup {NoRow}]

-----------------------------------------------------------------------------
(* What the store computes from a row.                                      *)

IsStatus(x) == x.kind \in StatusKinds

\* Mutant: only a write that was given up fences its issue.
UncertainWhenFailed(x) ==
  IsStatus(x) /\ ~x.reconciled /\ (x.required \/ (x.state = "failed" /\ x.started))

\* A write whose remote effect is unknown until an operator resolves it.
Uncertain(x) ==
  /\ IsStatus(x)
  /\ ~x.reconciled
  /\ x.required \/ (x.state \in {"pending", "failed"} /\ x.started)

\* No uncertain status write fences the issue, leaving out one row.
EffectAdmitted(i, except) ==
  \A r \in DOMAIN row : r # except /\ row[r].issue = i => ~Uncertain(row[r])

\* Mutant: a closeout Linear refused counts as shown once it was decided.
TerminalStatusDecided(r) == r \in DOMAIN row /\ row[r].state = "sent" /\ ~row[r].held

TerminalStatusApplied(r) ==
  /\ r \in DOMAIN row
  /\ row[r].state = "sent" /\ row[r].applied = "yes" /\ ~row[r].held

\* The status before this history is shown, or is known never to have been sent.
HistoryStatusSettled(r) ==
  /\ r \in DOMAIN row
  /\ ~row[r].held
  /\ \/ row[r].state = "sent" /\ row[r].applied = "yes"
     \/ /\ ~row[r].started
        /\ \/ row[r].state = "sent" /\ row[r].applied = "no"
           \/ row[r].state = "failed" /\ ~row[r].tried

StatusRows(i) == {r \in DOMAIN row : IsStatus(row[r]) /\ row[r].issue = i}

LatestStatus(i) == Max(StatusRows(i))

RefusedInProgress(x) ==
  x.intent = InProgress /\ x.state = "sent" /\ x.applied # "yes" /\ ~x.held

-----------------------------------------------------------------------------
(* due(): per issue the oldest pending row, unless it waits for another one. *)

Eligible(r) ==
  LET d == row[r].dep IN
  /\ row[r].state = "pending" /\ ~row[r].held
  /\ d # NoRow =>
       /\ ~row[d].required
       /\ \/ row[d].state = "sent"
          \/ /\ row[d].state = "failed"
             /\ \/ ~row[d].tried
                \/ \E l \in DOMAIN row : /\ l > d /\ IsStatus(row[l])
                                         /\ row[l].state = "sent"
                                         /\ row[l].issue = row[d].issue

Heads == {r \in DOMAIN row : /\ Eligible(r)
                             /\ \A q \in DOMAIN row :
                                  Eligible(q) /\ row[q].issue = row[r].issue => r <= q}

-----------------------------------------------------------------------------
(* Rows enter the table.                                                     *)

NewRow(kind, i, intent, dep) ==
  [kind |-> kind, issue |-> i, task |-> binding[i], intent |-> intent, dep |-> dep,
   state |-> "pending", tried |-> FALSE, started |-> FALSE, required |-> FALSE,
   reconciled |-> FALSE, rejected |-> FALSE, applied |-> "unset", receipt |-> FALSE,
   held |-> FALSE, revivals |-> 0]

\* Unstarted history waits for the newest status still to be sent.
SequenceNativeHistory(t, i) ==
  LET own(r)  == t[r].issue = i /\ t[r].task = binding[i]
                 /\ t[r].state = "pending" /\ ~t[r].held
      waiting == {r \in DOMAIN t : own(r) /\ IsStatus(t[r])}
      moves(r) == own(r) /\ t[r].kind = "history" /\ ~t[r].tried /\ ~t[r].started
  IN  IF waiting = {} THEN t
      ELSE [r \in DOMAIN t |-> IF moves(r) THEN [t[r] EXCEPT !.dep = Max(waiting)] ELSE t[r]]

\* Append one row, then sequence the issue's history, in one transaction.
Inserted(x) == [r \in 1 .. last + 1 |-> IF r = last + 1 THEN x ELSE row[r]]

Insert(x) ==
  /\ last < MaxRows
  /\ last' = last + 1
  /\ row' = SequenceNativeHistory(Inserted(x), x.issue)
  /\ UNCHANGED <<binding, sender, remote>>

\* reconcile_status: queue a native state only when the newest intent differs.
ReconcileStatus(i, intent) ==
  /\ EffectAdmitted(i, NoRow)
  /\ StatusRows(i) # {} =>
       LET latest == row[LatestStatus(i)]
       IN  latest.intent # intent \/ RefusedInProgress(latest)
  /\ Insert(NewRow("status", i, intent, NoRow))

\* capture_event: a comment that reports one native event.
CaptureEvent(i) ==
  /\ EffectAdmitted(i, NoRow)
  /\ Insert(NewRow("history", i, InProgress, NoRow))

TerminalCaptured(i) ==
  \E r \in DOMAIN row : /\ row[r].kind = "closeout" /\ row[r].issue = i
                        /\ row[r].task = binding[i] /\ ~row[r].held

\* finish: the closing status and the comment that depends on it, together.
Finish(i, intent) ==
  /\ EffectAdmitted(i, NoRow)
  /\ ~TerminalCaptured(i)
  /\ last + 1 < MaxRows
  /\ last' = last + 2
  /\ LET closed == Inserted(NewRow("closeout", i, intent, NoRow))
         both   == [r \in 1 .. last + 2 |->
                      IF r = last + 2 THEN NewRow("receipt", i, intent, last + 1)
                      ELSE closed[r]]
     IN  row' = SequenceNativeHistory(both, i)
  /\ UNCHANGED <<binding, sender, remote>>

\* replace_native_binding: report another task; every retained row is held.
ReplaceNativeBinding(i) ==
  /\ binding[i] < MaxTask
  /\ binding' = [binding EXCEPT ![i] = @ + 1]
  /\ row' = [r \in DOMAIN row |->
               IF row[r].issue = i THEN [row[r] EXCEPT !.held = TRUE] ELSE row[r]]
  /\ UNCHANGED <<last, sender, remote>>

NeedsResolution(x) ==
  /\ IsStatus(x) /\ ~x.reconciled
  /\ x.held \/ (Uncertain(x) /\ (x.state = "failed" \/ x.required))

\* Row r's request is being sent: its marker is set, its answer is awaited.
Delivering(r) == cur = r /\ row[r].started /\ pc \in {"marked", "wire"}

\* `hermes linear resolve': an operator records what Linear shows.
ReconcileTerminal(r) ==
  /\ NeedsResolution(row[r])
  /\ OperatorWaits => cur # r /\ r \notin net
  /\ row' = [row EXCEPT ![r].reconciled = TRUE, ![r].required = TRUE, ![r].state = "failed"]
  /\ UNCHANGED <<last, binding, sender, remote>>

-----------------------------------------------------------------------------
(* One pass of the sender.                                                   *)

NoBatch == [r \in {} |-> row[r]]

\* Mutant: a row handled in this pass is handled again from the same snapshot.
LeaveInBatch ==
  /\ pc' = "pass" /\ cur' = NoRow
  /\ batch' \in {batch, [r \in DOMAIN batch \ {cur} |-> batch[r]]}
  /\ fresh' = FALSE /\ attempt' = 1

Leave ==
  /\ pc' = "pass" /\ cur' = NoRow
  /\ batch' = [r \in DOMAIN batch \ {cur} |-> batch[r]]
  /\ fresh' = FALSE /\ attempt' = 1

Stop ==
  /\ pc' = "idle" /\ cur' = NoRow /\ batch' = NoBatch
  /\ fresh' = FALSE /\ attempt' = 1 /\ progress' = FALSE

\* The snapshot of due(): rows whose next_at has passed.
StartPass ==
  /\ pc = "idle"
  /\ \E due \in SUBSET Heads \ {{}} : batch' = [r \in due |-> row[r]]
  /\ pc' = "pass"
  /\ UNCHANGED <<table, cur, fresh, attempt, progress, remote>>

Pick ==
  /\ pc = "pass" /\ DOMAIN batch # {}
  /\ cur' = Min(DOMAIN batch)
  /\ pc' = "check"
  /\ UNCHANGED <<table, batch, fresh, attempt, progress, remote>>

\* Mutant: revive every row that timed out, however often.
RevivableForever(r) ==
  /\ row[r].state = "failed" /\ ~row[r].held /\ row[r].tried /\ ~row[r].rejected
  /\ ~row[r].required
  /\ IsStatus(row[r]) => \A l \in StatusRows(row[r].issue) : l <= r

\* Mutant: revive a status although a later one was queued.
RevivableSuperseded(r) ==
  /\ row[r].state = "failed" /\ ~row[r].held /\ row[r].tried /\ ~row[r].rejected
  /\ row[r].revivals < ReviveLimit /\ ~row[r].required

Revivable(r) ==
  /\ row[r].state = "failed" /\ ~row[r].held /\ row[r].tried /\ ~row[r].rejected
  /\ row[r].revivals < ReviveLimit /\ ~row[r].required
  /\ IsStatus(row[r]) => \A l \in StatusRows(row[r].issue) : l <= r

\* revive_failed: a first revival is immediate, later ones wait REVIVE_EVERY.
ReviveFailed ==
  LET able == {r \in DOMAIN row : Revivable(r)} IN
  \E again \in SUBSET {r \in able : row[r].revivals > 0} :
    LET revived == again \cup {r \in able : row[r].revivals = 0} IN
    row' = [r \in DOMAIN row |->
              IF r \in revived THEN [row[r] EXCEPT !.state = "pending", !.revivals = @ + 1]
              ELSE row[r]]

EndPass ==
  /\ pc = "pass" /\ DOMAIN batch = {}
  /\ IF progress THEN ReviveFailed ELSE UNCHANGED row
  /\ Stop
  /\ UNCHANGED <<last, binding, remote>>

\* rewrite(): the whole payload is replaced; the columns are the table's own.
Rewritten(x, payload) ==
  IF x.held THEN x
  ELSE [payload EXCEPT !.state = x.state, !.tried = x.tried, !.held = x.held]

\* The row's requester is not authorized now: note it from the snapshot, and
\* give the row up when its requester was never recorded.
NotAuthorized ==
  /\ pc = "check"
  /\ \E missing \in BOOLEAN :
       LET noted == Rewritten(row[cur], batch[cur])
           after == IF missing /\ ~noted.held
                    THEN [noted EXCEPT !.state = "failed", !.rejected = TRUE] ELSE noted
       IN  /\ row' = [row EXCEPT ![cur] = after]
           /\ progress' = (progress \/ (missing /\ after.state = "failed"))
  /\ Leave
  /\ UNCHANGED <<last, binding, remote>>

Fenced == ~EffectAdmitted(row[cur].issue, cur)

\* The row waits: another write is uncertain, it was held, or its history is early.
Deferred ==
  /\ \/ /\ pc = "check"
        /\ \/ Fenced
           \/ row[cur].held
           \/ /\ batch[cur].kind = "history" /\ batch[cur].dep # NoRow
              /\ ~HistoryStatusSettled(batch[cur].dep)
     \/ pc = "guard" \* a guard refused, or the fresh row is not admitted
  /\ Leave
  /\ UNCHANGED <<table, progress, remote>>

Ready == ~row[cur].held /\ ~Fenced

Goto(p) == pc' = p /\ UNCHANGED <<table, batch, cur, remote>>

\* The mutation response that a former pass recorded proves the write.
SettleFromReceipt ==
  /\ pc = "check" /\ Ready
  /\ batch[cur].receipt
  /\ Goto("applied")
  /\ UNCHANGED <<fresh, attempt, progress>>

\* hold_terminal: a started status is never sent again.
HoldTerminal ==
  /\ row' = [row EXCEPT ![cur].required = TRUE, ![cur].tried = TRUE]
  /\ pc' = "refused"
  /\ UNCHANGED <<last, binding, batch, cur, fresh, attempt, progress, remote>>

HoldUncertain ==
  /\ pc = "check" /\ Ready
  /\ IsStatus(batch[cur]) /\ batch[cur].started /\ ~batch[cur].receipt
  /\ HoldTerminal

\* A comment whose prerequisite is not shown, a status a human's move wins over.
DropUnapplied ==
  /\ pc = "check" /\ Ready
  /\ ~batch[cur].receipt
  /\ CASE batch[cur].kind = "receipt" -> TRUE
       [] batch[cur].kind = "history" -> ~batch[cur].started /\ ~batch[cur].tried
       [] OTHER -> ~batch[cur].started
  /\ Goto("unapplied")
  /\ UNCHANGED <<fresh, attempt, progress>>

\* Mutant: a started status is sent again, like a comment.
UnsentOrStarted ==
  /\ Ready
  /\ IsStatus(batch[cur]) => ~batch[cur].receipt
  /\ batch[cur].kind = "receipt" => TerminalStatusApplied(batch[cur].dep)
  /\ batch[cur].kind = "history" /\ batch[cur].dep # NoRow =>
       HistoryStatusSettled(batch[cur].dep)

\* The checks of _send that come before any request may go on to one.
Unsent ==
  /\ Ready
  /\ IsStatus(batch[cur]) => ~batch[cur].started /\ ~batch[cur].receipt
  /\ batch[cur].kind = "receipt" => TerminalStatusApplied(batch[cur].dep)
  /\ batch[cur].kind = "history" /\ batch[cur].dep # NoRow =>
       HistoryStatusSettled(batch[cur].dep)

\* Linear already shows the state, or has none for it: nothing to write.
NothingToWrite ==
  /\ pc = "check" /\ Unsent
  /\ IsStatus(batch[cur])
  /\ Goto("applied")
  /\ UNCHANGED <<fresh, attempt, progress>>

\* Mutant: the marker of a completion comment is taken for its delivery.
ReadBackMarker ==
  /\ pc = "check" /\ Unsent
  /\ batch[cur].kind = "receipt" /\ batch[cur].started
  /\ Goto("applied")
  /\ UNCHANGED <<fresh, attempt, progress>>

\* A started completion comment is looked for before it is sent again.
ReadBack ==
  /\ pc = "check" /\ Unsent
  /\ batch[cur].kind = "receipt" /\ batch[cur].started /\ landed[cur] > 0
  /\ Goto("applied")
  /\ UNCHANGED <<fresh, attempt, progress>>

Encode ==
  /\ pc = "check" /\ Unsent
  /\ ~(batch[cur].kind = "receipt" /\ batch[cur].started /\ landed[cur] > 0)
  /\ Goto("guard")
  /\ UNCHANGED <<fresh, attempt, progress>>

\* Before the request a read may fail, be throttled, or refuse the write.
BeforeRequest ==
  /\ pc \in {"check", "guard"} /\ Ready
  /\ ~batch[cur].receipt
  /\ \E p \in {"retrying", "limited", "refused"} : Goto(p)
  /\ UNCHANGED <<fresh, attempt, progress>>

\* admit_mutation: the marker is durable before the request may exist.
AdmitMutation ==
  /\ pc = "guard"
  /\ row[cur].state = "pending" /\ ~row[cur].held
  /\ row[cur].kind = "history" /\ row[cur].dep # NoRow => HistoryStatusSettled(row[cur].dep)
  /\ EffectAdmitted(row[cur].issue, cur)
  /\ fresh' = ~row[cur].started
  /\ row' = [row EXCEPT ![cur].started = TRUE]
  /\ pc' = "marked"
  /\ UNCHANGED <<last, binding, batch, cur, attempt, progress, remote>>

\* Mutant: a refusal clears the marker although an older request may land.
MutationNotAttemptedEver ==
  IF row[cur].state = "pending" /\ row[cur].started
  THEN row' = LET cleared == [row EXCEPT ![cur].started = FALSE]
              IN  IF row[cur].kind = "history"
                  THEN SequenceNativeHistory(cleared, row[cur].issue) ELSE cleared
  ELSE UNCHANGED row

\* mutation_not_attempted: this send's own marker, proven to have sent nothing.
MutationNotAttempted ==
  IF fresh /\ row[cur].state = "pending" /\ row[cur].started
  THEN row' = LET cleared == [row EXCEPT ![cur].started = FALSE]
              IN  IF row[cur].kind = "history"
                  THEN SequenceNativeHistory(cleared, row[cur].issue) ELSE cleared
  ELSE UNCHANGED row

\* The native state may have changed while the marker was written.
Untouched == fresh /\ row[cur].kind = "history" /\ ~row[cur].tried

\* Mutant: no second look at the queued status once the marker is written.
StatusNotLookedAt == FALSE

StatusWaiting ==
  LET i == row[cur].issue IN
  /\ StatusRows(i) # {}
  /\ LET l == row[LatestStatus(i)]
     IN  ~l.held /\ l.state = "pending" /\ l.task = row[cur].task

Withdraw ==
  /\ pc = "marked" /\ Untouched
  /\ MutationNotAttempted
  /\ Leave
  /\ UNCHANGED <<last, binding, progress, remote>>

Send ==
  /\ pc = "marked"
  /\ Untouched => ~StatusWaiting
  /\ net' = net \cup {cur}
  /\ pc' = "wire"
  /\ UNCHANGED <<table, batch, cur, fresh, attempt, progress, landed, shown>>

-----------------------------------------------------------------------------
(* Linear and the network.                                                   *)

\* Linear applies a write; a comment's own id makes its repetition harmless.
\* The answer may not arrive, and the sender may have stopped waiting for it.
Land(r) ==
  /\ r \in net
  /\ net' = net \ {r}
  /\ landed' = [landed EXCEPT ![r] = IF IsStatus(row[r]) THEN @ + 1 ELSE 1]
  /\ shown' = IF IsStatus(row[r]) THEN [shown EXCEPT ![row[r].issue] = r] ELSE shown
  /\ IF pc = "wire" /\ cur = r THEN pc' \in {"wire", "answered"} ELSE UNCHANGED pc
  /\ UNCHANGED <<table, batch, cur, fresh, attempt, progress>>

Lose(r) ==
  /\ r \in net
  /\ net' = net \ {r}
  /\ UNCHANGED <<table, sender, landed, shown>>

\* A definite refusal: a GraphQL error or 403, 429, 401.
Reject ==
  /\ pc = "wire" /\ cur \in net
  /\ net' = net \ {cur}
  /\ pc' \in {"refused", "limited", "unauthorized"}
  /\ UNCHANGED <<table, batch, cur, fresh, attempt, progress, landed, shown>>

\* No answer, or one that does not say (5xx, 408): the write may still land.
NoAnswer ==
  /\ pc = "wire"
  /\ pc' = "retrying"
  /\ UNCHANGED <<table, batch, cur, fresh, attempt, progress, remote>>

-----------------------------------------------------------------------------
(* The sender records what it learnt.                                        *)

\* guard.rejected is only there for the completion comment.
TakeBack == IF row[cur].kind = "receipt" THEN MutationNotAttempted ELSE UNCHANGED row

\* 401: refresh the credential and go through the guard once more.
Unauthorized ==
  /\ pc = "unauthorized"
  /\ TakeBack
  /\ pc' = IF attempt = 1 THEN "guard" ELSE "retrying"
  /\ attempt' = 2
  /\ UNCHANGED <<last, binding, batch, cur, fresh, progress, remote>>

\* RateLimited: defer the row and end the flush.
RateLimited ==
  /\ pc = "limited"
  /\ TakeBack
  /\ Stop
  /\ UNCHANGED <<last, binding, remote>>

\* retry(): back off, or give up on a row older than GIVE_UP_AFTER.
Retry(giveUp) ==
  /\ pc = "retrying"
  /\ row' = IF row[cur].held THEN row
            ELSE [row EXCEPT ![cur].tried = TRUE,
                             ![cur].state = IF giveUp THEN "failed" ELSE @]
  /\ Leave
  /\ UNCHANGED <<last, binding, progress, remote>>

\* mark(row, 'failed')
MarkFailed ==
  /\ pc = "refused"
  /\ row' = IF row[cur].held THEN row
            ELSE [row EXCEPT ![cur].state = "failed", ![cur].rejected = TRUE]
  /\ progress' = (progress \/ row[cur].required)
  /\ Leave
  /\ UNCHANGED <<last, binding, remote>>

\* _record_status_receipt: the response names the exact version it wrote.
RecordReceipt ==
  /\ pc = "answered" /\ IsStatus(row[cur])
  /\ row' = IF row[cur].held THEN row ELSE [row EXCEPT ![cur].receipt = TRUE]
  /\ pc' = "applied"
  /\ UNCHANGED <<last, binding, batch, cur, fresh, attempt, progress, remote>>

\* The response names another version, assignee or binding.
ReceiptMismatch ==
  /\ pc = "answered" /\ IsStatus(row[cur])
  /\ HoldTerminal

\* A completion or repeated comment is read back; a failed read is retried.
CommentReadback ==
  /\ pc = "answered" /\ ~IsStatus(row[cur])
  /\ \/ pc' = "applied"
     \/ /\ batch[cur].kind = "receipt" \/ batch[cur].started \/ batch[cur].tried
        /\ pc' = "retrying"
  /\ UNCHANGED <<table, batch, cur, fresh, attempt, progress, remote>>

MarkSent ==
  /\ pc \in {"applied", "unapplied"}
  /\ IF row[cur].held THEN UNCHANGED <<row, progress>>
     ELSE /\ row' = [row EXCEPT ![cur].state = "sent",
                                ![cur].applied = IF pc = "applied" THEN "yes" ELSE "no"]
          /\ progress' = TRUE
  /\ Leave
  /\ UNCHANGED <<last, binding, remote>>

\* The process stops anywhere; the table and the requests in flight survive.
Crash ==
  /\ pc # "idle"
  /\ Stop
  /\ UNCHANGED <<table, remote>>

-----------------------------------------------------------------------------
Init ==
  /\ row = <<>> /\ last = 0
  /\ binding = [i \in Issues |-> 1]
  /\ pc = "idle" /\ batch = NoBatch /\ cur = NoRow
  /\ fresh = FALSE /\ attempt = 1 /\ progress = FALSE
  /\ net = {}
  /\ landed = [r \in RowId |-> 0]
  /\ shown = [i \in Issues |-> NoRow]

Sender ==
  \/ StartPass \/ Pick \/ EndPass
  \/ NotAuthorized \/ Deferred \/ SettleFromReceipt \/ HoldUncertain \/ DropUnapplied
  \/ NothingToWrite \/ ReadBack \/ Encode \/ BeforeRequest
  \/ AdmitMutation \/ Withdraw \/ Send
  \/ NoAnswer \/ Unauthorized \/ RateLimited \/ Retry(TRUE) \/ Retry(FALSE) \/ MarkFailed
  \/ RecordReceipt \/ ReceiptMismatch \/ CommentReadback \/ MarkSent

Capture ==
  \E i \in Issues :
    \/ "history" \in Workload /\ CaptureEvent(i)
    \/ ReplaceNativeBinding(i)
    \/ \E intent \in Intents :
         \/ "status" \in Workload /\ ReconcileStatus(i, intent)
         \/ "closeout" \in Workload /\ Finish(i, intent)

Operator == \E r \in DOMAIN row : ReconcileTerminal(r)

Linear == Reject \/ \E r \in net : Land(r) \/ Lose(r)

Next == Sender \/ Capture \/ Operator \/ Linear \/ Crash

Spec == Init /\ [][Next]_vars

-----------------------------------------------------------------------------
(* What may never happen.                                                    *)

\* No status is applied by Linear twice: not after a lost answer, a crash
\* between the request and its record, a refreshed credential or a revival
\* (admit_mutation, hold_terminal).
AtMostOnce ==
  \A r \in DOMAIN row : IsStatus(row[r]) => landed[r] <= 1

\* A write that is on its way to Linear, or was applied there, has its durable
\* marker: no stale payload and no withdrawal erases it (rewrite,
\* mutation_not_attempted).
MarkerTruth ==
  \A r \in DOMAIN row : r \in net \/ landed[r] > 0 => row[r].started

\* What the outbox promises of an issue's state (IssueStatus): each status takes
\* effect at most once, and the state shown never goes back to an older row's;
\* revive_failed says a superseded status "cannot land stale".
Promised == INSTANCE IssueStatus WITH
  Writes <- RowId,
  effects <- [r \in RowId |-> IF r <= last /\ IsStatus(row[r]) THEN landed[r] ELSE 0]

NeverStale == Promised!Spec

\* The fence of _effect_admitted: of one issue at most one status is being
\* delivered or still on its way to Linear.
OneStatusInFlight ==
  \A i \in Issues :
    Cardinality({r \in StatusRows(i) : r \in net \/ (cur = r /\ pc \in {"marked", "wire"})}) <= 1

\* A completion comment is posted only after its closing status was recorded
\* as applied: the comment never claims a closeout Linear does not show
\* (terminal_status_applied).
ReceiptAfterCloseout ==
  \A r \in DOMAIN row :
    row[r].kind = "receipt" /\ (r \in net \/ landed[r] > 0) => row[row[r].dep].applied = "yes"

\* A row whose request was started is recorded as applied only when Linear
\* really applied it (mark_sent after a receipt or a readback).
SentMeansLanded ==
  \A r \in DOMAIN row : row[r].applied = "yes" /\ row[r].started => landed[r] > 0

\* A history comment on its first attempt never overtakes a status of its task
\* that is waiting to be sent (_sequence_native_history and the second check of
\* _mutate_outbox's guard).
HistoryFollowsStatus ==
  [][\A r \in net' \ net :
       row[r].kind = "history" /\ ~row[r].tried /\ fresh =>
         \A s \in StatusRows(row[r].issue) :
           row[s].task = row[r].task /\ ~row[s].held => row[s].state # "pending"]_vars

\* "unknown until an explicit durable resolution" (_unresolved_terminal): what
\* the operator recorded stays recorded.
ResolutionDurable ==
  [][\A r \in DOMAIN row : row[r].reconciled => row'[r].reconciled]_vars

\* "in flight write ... cannot be resolved under the sender" (a test of the
\* operator's command): a write being sent is not declared settled.
NotResolvedUnderSender ==
  [][\A r \in DOMAIN row : row'[r].reconciled /\ ~row[r].reconciled => ~Delivering(r)]_vars

-----------------------------------------------------------------------------
(* Inductive invariants behind AtMostOnce, MarkerTruth and NeverStale.       *)

Quiet(r) == r \notin net /\ landed[r] = 0

\* The sender's local state: it works on a row of its batch.
SenderInv ==
  /\ cur = NoRow <=> pc \in {"idle", "pass"}
  /\ pc = "idle" => DOMAIN batch = {}
  /\ cur = NoRow => ~fresh

\* What a row's fields say of each other.
RowInv ==
  \A r \in DOMAIN row :
    /\ IsStatus(row[r]) => row[r].dep = NoRow
    /\ row[r].reconciled => row[r].state # "pending" /\ row[r].required
    /\ row[r].applied # "unset" =>
         row[r].state = "sent" \/ (row[r].state = "failed" /\ row[r].required)

\* The snapshot agrees with the table on what decides a send until its row is
\* handled: nobody else starts, decides or receipts a row (the single sender
\* that due() and rewrite() rely on).
SnapshotCurrent ==
  \A r \in DOMAIN batch :
    /\ batch[r].kind = row[r].kind
    /\ batch[r].issue = row[r].issue
    /\ batch[r].task = row[r].task
    /\ IsStatus(batch[r]) => batch[r].dep = NoRow
    /\ ~batch[r].reconciled
    /\ batch[r].applied = "unset" /\ row[r].applied = "unset"
    /\ row[r].state # "sent"
    /\ batch[r].receipt => row[r].receipt
    /\ r # cur \/ pc = "check" => batch[r].started = row[r].started

\* Nothing has happened of a row without its marker, and a status at most once.
EffectInv ==
  /\ \A r \in RowId : r > last => landed[r] = 0
  /\ \A r \in DOMAIN row :
       /\ ~row[r].started => Quiet(r)
       /\ row[r].receipt => landed[r] > 0
       /\ IsStatus(row[r]) => landed[r] <= 1 /\ (r \in net => landed[r] = 0)

\* Whoever may start a row, or take its marker back, knows it has no effect.
MarkerInv ==
  /\ pc \in {"marked", "wire"} => row[cur].started
  /\ pc \in {"guard", "marked", "unauthorized"} /\ IsStatus(row[cur]) => Quiet(cur)
  /\ fresh /\ pc \in {"check", "guard", "marked", "unauthorized", "limited"} => Quiet(cur)
  /\ fresh /\ pc = "wire" /\ cur \in net => landed[cur] = 0

\* What the sender is about to record agrees with what Linear did.
RecordInv ==
  /\ pc = "answered" => landed[cur] > 0
  /\ pc \in {"applied", "unapplied"} /\ IsStatus(row[cur]) => cur \notin net
  /\ pc = "applied" /\ row[cur].started => landed[cur] > 0

\* A status that is on its way, or whose request is about to leave.
Active(r) == IsStatus(row[r]) /\ (r \in net \/ (cur = r /\ pc \in {"marked", "wire"}))

\* A newer status is due only when the older ones can never be due again.
Due(r) == IsStatus(row[r]) /\ (r \in DOMAIN batch \/ r \in net \/ landed[r] > 0)

\* One status of an issue is active, the fence sees it, and it is the newest.
ActiveInv ==
  \A r \in DOMAIN row : Active(r) =>
    /\ row[r].started /\ row[r].state # "sent" /\ ~row[r].reconciled
    /\ landed[r] = 0 => shown[row[r].issue] < r
    /\ \A s \in DOMAIN row : Active(s) /\ row[s].issue = row[r].issue => s = r

OlderSettled ==
  \A r, s \in DOMAIN row :
    Due(s) /\ r < s /\ IsStatus(row[r]) /\ row[r].issue = row[s].issue =>
      row[r].state # "pending" \/ row[r].held

ShownInv ==
  \A i \in Issues : shown[i] # NoRow =>
    /\ shown[i] \in DOMAIN row
    /\ IsStatus(row[shown[i]]) /\ row[shown[i]].issue = i /\ landed[shown[i]] > 0

\* Everything a step of the outbox preserves; the order of statuses only while
\* the operator waits for the sender.
Inv ==
  /\ SenderInv /\ RowInv /\ SnapshotCurrent
  /\ EffectInv /\ MarkerInv /\ RecordInv /\ SentMeansLanded
  /\ OperatorWaits => ActiveInv /\ OlderSettled /\ ShownInv

=============================================================================
