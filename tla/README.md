# A TLA+ model of hermes-fleet

hermes-fleet packages plugins and sidecars for a fleet of agents.  The parts
modelled here are those that keep state several threads, processes or machines
change at once:

* the **Linear plugin**: a durable outbox that writes to an issue tracker which
  may lose answers, the intake of deliveries, the hand-over of an issue between
  agents, the session's conversation, the reports on native work, and what
  guards and feeds them;
* the **browser hand-off**, in which a human takes an agent's browser over and
  automation must stay out until the human is done;
* the **speech server's worker lane**, a bounded pool with cancellation,
  deadlines and hung inferences;
* the two **model providers**, which run another program as a process, cancel
  it from any thread and must hand a whole answer on, or none.

Contents: 1. the system, 2. the modules, 3. the runs, 4. bounds and
abstractions, 5. fairness, 6. the proofs, 7. disagreements found, 8. what the
models leave out, 9. plan.  Paths are relative to `src/`.

## 1. The system

### 1.1 Linear plugin (`plugins/linear/`)

| part | files | state | operations | module |
|---|---|---|---|---|
| outbox | `store.py`, `bridge.py` (`_flush`, `_send`, `_mutate_outbox`), `outcome.py`, `ops.py` | SQLite `outbox` rows: state, attempts, `next_at`, payload with the marker `write_started`, holds, receipts, reconciliations | enqueue, due, mark sent/failed, hold, rewrite, marker set and withdrawn, revive, operator's resolution | `Outbox` |
| intake and Stop | `native_input.py`, `bridge.py`, `store.py` | inbox rows, adapter futures, Core's queue and receipts, creation and activation intents, anchors | drain, admit, create once, bind, activate after the receipt, acknowledge, park after a day, Stop | `Intake` |
| answers | `native_input.py` (`_answer`) | displayed questions, caches of two adapters, reservations | decide a question, or become input | `Answers` |
| conversation | `native_input.py`, `bridge.py` | the rows of an Agent Session, live status, the question on screen | post, refuse, read back, repair | `Conversation` |
| take-over | `chat.py` (`take_over`, `resume_owner`), `handoff.py`, `cleanup.py`, `bridge.py` | per-issue file lock, native Stop, owner calls, local task and its intents, delegate row | hand off, prove the end, resume, lost attempts, admit late | `TakeOver` |
| reporting | `bridge.py` (`pump_kanban`, `_finished`), `store.py` | cursor, task events, acceptance wait, PR parks, status rows | capture, close out, recheck, release a park, repair | `Reporting` |
| evidence | `acceptance.py` | none between two verdicts | read pull request, runs and jobs, decide | `Evidence` |
| recheck, sweep | `bridge.py` (`recheck` to `_app_set_started_state`), `store.py`, `api.py` | sweep intents by issue version | recheck, retire, send stale work to Todo | `Sweep` |
| worker progress | `worker_progress.py`, `store.py` | live step, its row, the closing reply | queue, admit one, repair under a question | `WorkerStep` |
| chat guard | `guard.py` | armed turns, calls, seconds | arm, count, block, release, evict | `ChatGuard` |
| API and credentials | `api.py`, `oauth.py` | cooldown file, token cache and its lock | pause on 429, refresh, rotate, retry a 401 | `LinearClient` |
| origin, diagnostics | `origin*.py`, `diag.py`, `work.py` | none of their own | validate, format | none |

*Interactions.*  One tick thread per profile (`__init__.py`; `transport.Server`
refuses a second owner) captures native events, sends the outbox and sweeps.
The adapters' coroutines, Core's hooks and chat commands run in other threads;
the operator's command line, the owner's process in a take-over, GitHub, Linear
and Core are other processes.  Everything the plugin's own parts share is in
SQLite or in files, and between two transactions anyone can come.  The
components meet in the outbox: `Conversation`, `TakeOver`, `Reporting` and
`WorkerStep` each model the rows they write to the point where they are sent,
and `Outbox` what a row lives through there.

*What is hard.*  A request whose answer is lost may or may not have been
applied; a crash forgets which step was reached; a snapshot is older than the
row, the task or the issue when its turn comes; an owner's process goes on after
its caller stopped waiting; Core commits an input in its own time; two adapters
of before and after a reconnect route the same reply.

*Correct means.*  A status takes effect at most once and an issue never goes
back; what is recorded as delivered was delivered; one delivery becomes one
native task and a Stop holds; one owner's work runs; a reply decides one
question or is input; the panel tells the truth once everything is settled; Done
rests on proof; a person's choice stands.

### 1.2 Browser hand-off (`sidecars/browser-broker/`, `sidecars/rest-lock-proxy/`, `plugins/browser-handoff/`)

| part | files | state | operations |
|---|---|---|---|
| REST automation lock | `rest-lock-proxy/lock_proxy.py`, `browser-broker/origin_routing.py` | marker file, flock on its directory | check, lock shared, recheck, forward; take over, release |
| hand-off sessions | `browser-broker/session_policy.py`, `origin.py` | sessions with their action locks, owner by agent, policy, inherited marker and its eligible session | mint, take over, observe, forward, end, expire, prune, revoke, recover |
| stream filter, pages | `rfb_filter.py`, `ux.py`, `public_config.py`, `rollout_contract.py` | parser position | admit or drop a record; text |
| plugin | `plugins/browser-handoff/` | hand-offs it believes are held | start, status, observe, end, guard browser tools |
| TCP proxy, browser patches | `tcp-proxy/`, `camofox/` | none | copy bytes |

*Interactions.*  Proxy and broker are separate processes that share only a
directory.  Inside the broker, HTTP threads, the viewer's stream, expiry, policy
reload and shutdown meet in a lifecycle mutex, one action lock per session, and
callbacks that checkpoint the browser's storage.

*What is hard.*  A request checked before the marker appeared and forwarded
after; input read before a release and sent after it; an End waiting for an
action stuck in a socket nobody reads; a save that fails after the human was
disconnected; a broker that restarts with somebody's marker; a grant withdrawn
while an End is under way.

*Correct means.*  Human and automation never have the browser at once; the
marker is removed only by whoever may; one owner per workspace; an End that
began comes to a result.

### 1.3 Speech (`sidecars/kokoro/`, `plugins/kokoro-voice/`)

`worker_lane.py` keeps a bounded queue, a closed event and worker threads;
`server.py` submits to it, waits with a timeout and cancels, and ends the
process some seconds after the lane reports a stall; `text_normalize.py` is a
pure text transformation.  *Hard:* submission against closing, cancellation
against start, inferences that never return.  *Correct means:* callers are told
what happened; nothing waits in a closed lane; nobody waits for ever unnoticed.

### 1.4 Model providers (`plugins/model-providers/`, `plugins/claude-subscription-directsdk/`)

| part | files | state | operations | module |
|---|---|---|---|---|
| ACP client | `claude-acp/client.py` | submission slots, request lock, process, cancel events, futures | submit, spawn, prompt, cancel, close, abort, stream | `ClaudeAcp` |
| its prompt loop | `claude-acp/client.py`, `tool_bridge_mcp.py` | pending and captured calls, the bridge's log | match a call with the bridge's record, refuse | `AcpPrompt` |
| its stream | `client.py` (`LiveStream`) | bounded queue, finished, error | put, poll, end | `AcpStream` |
| native process | `directsdk.py` | owner, reader, drain and killers of one process group | spawn, yield, hand to a drain, kill, reap | `NativeCall` |
| relay | `admission.py` | one admission, sockets, gzip latch, the captured answer | admit once, forward, resend, abort | `Relay` |
| cache marks | `admission.py` | none | restore the queried turn, move the marks | `CacheMarks` |

*Hard:* a cancellation that comes between spawning a process and storing it; a
slot that the caller, the worker thread and the stream's producer might all give
back; a process group that belongs to somebody else once its leader is reaped; an
abort during a connect.  *Correct means:* slots come back, nobody's process is
left or killed by another, and an answer is whole.

### 1.5 Other parts

The account connectors, the read-only source and `plugins/web` are stateless
adapters; `scripts/`, `release/` and `contracts/` build and verify images.
Section 8 says why these are not modelled.

## 2. The modules

| module | models | kind |
|---|---|---|
| `IssueStatus` | what the outbox promises of an issue's state | abstract specification |
| `Outbox` | rows, sender, native capture, operator, Linear, crash | component |
| `OutboxProofs` | invariants and refinement of `Outbox` | proofs |
| `TakeOver` | the requester's calls, the owner's processes, both tasks, Linear, people | component |
| `TakeOverProofs` | one runner per issue | proofs |
| `Intake`, `IntakeProofs` | deliveries, coroutines, Core, the staged task | component and proofs |
| `Answers` | replies routed by two adapters, questions | component |
| `Conversation` | the rows and the panel of an Agent Session | component |
| `ConversationProofs` | the panel tells the truth | proofs |
| `Reporting` | one bound task: the pass, the board, GitHub's answers, the status rows | component |
| `Evidence` | one verdict, with GitHub moving | component |
| `Sweep` | one issue: sweep, recheck, people, other processes | component |
| `WorkerStep` | one worker's live steps and its closing reply | component |
| `ChatGuard` | armed turns | component |
| `LinearClient` | the clients of one profile | component |
| `LinearProofs` | `Sweep`, `Reporting`, `Evidence`, `LinearClient`, `ChatGuard`, `Answers`, `WorkerStep` | proofs |
| `ClaudeAcp`, `AcpPrompt`, `AcpStream` | the ACP provider | components |
| `ProvidersProofs` | both providers: slots, processes, prompts, streams, natives, relays, cache marks | proofs |
| `NativeCall`, `Relay`, `CacheMarks` | the subscription provider | components |
| `RestLock` | the proxy's threads and a takeover, at the marker and the flock | component, and abstract specification of the fence |
| `HandoffSession` | sessions of the broker composed with the proxy's threads | component, refines `RestLock` |
| `HandoffProofs` | the invariants of the sessions, and that refinement | proofs |
| `WorkLane` | callers, workers, stall timer, close() | component |
| `SidecarProofs` | exclusion of `RestLock`, the callers and the closing of `WorkLane` | proofs |
| `MCOutbox`, `MCLinear`, `MCWork`, `MCReporting`, `MCProviders`, `MCSidecars` | the small instances | TLC instances |

`MCLinear`, `MCWork`, `MCProviders` and `MCSidecars` hold several components
that share no variable.  Their variable `on` names the one that moves, and
`Only(name)` is "this one's step, the others unchanged": the states are the sum
of the components' and not the product.  An idle component is in an initial state
that makes none of its fair actions wait for ever, so that it leaves the
behaviours of the others as they are.  A conjunction of a component's type
invariant and its safety invariants (`TakeOverSound`, `StepSound`, ...) is
defined in the component's module and checked as one.

Some modules have, beside an operator of the code, the form of it that a
plausible bug would have, marked "Mutant" or "A bug" (`SendDelegateQueued` next
to `SendDelegate`).  Next never uses it.  Put in the operator's place it
violates the property that guards that piece of code, which shows that the
property looks at it; `PROJECT.json` lists one for each property of each run.

### 2.1 Outbox

`row` is the table; a row's fields are the columns and payload keys on which the
code branches (`started` is `write_started`, `required` `reconcile_required`, and
so on).  `binding` is each issue's reporting task.  The sender has a program
counter `pc`, its snapshot `batch`, the row `cur`, `fresh` (this delivery set
the marker, so it may take it back) and `attempt` (the request after a 401 is
the second).  `net`, `landed` and `shown` are Linear: writes under way, effects
per row, and the row an issue shows.

Every action is one store transaction or one step of a request, so that capture,
re-tracking, the operator and a crash come between any two.

* Sender: `StartPass` (revival and `due()`), `Pick`, the decisions of
  `_flush` and `_send` before the request (`NotAuthorized`, `Deferred`,
  `SettleFromReceipt`, `HoldTerminal`, `HoldUncertain`, `DropUnapplied`, ...),
  `AdmitMutation` (the durable marker), the guard, `Send`, then one action per
  kind of answer (`Reject`, `NoAnswer`, `Unauthorized`, `RateLimited`) and per
  transaction that records it (`RecordReceipt`, `MarkSent`, `MarkFailed`,
  `Retry`, `MutationNotAttempted`).
* Others: `CaptureEvent`, `Finish`, `ReplaceNativeBinding`, `ReconcileTerminal`,
  `Crash`; Linear's `Land` and `Lose`.

`IssueStatus` says: each status write takes effect at most once and `shown`
only moves to newer writes.  `NeverStale` is `Promised!Spec`, its instance under
`effects <- landed` (of status rows) and `shown <- shown`.

### 2.2 RestLock and HandoffSession

In `RestLock` a request goes idle, body, gate, shared, forwarding, as `_handle`
does: marker, body, shared flock, marker again, forward.  The broker's side is
`Touch` (the marker is created), `Drain` (exclusive flock granted),
`Acknowledge` (the human may drive), `Release`, and `Leave` (start-up or
recovery with a marker already there).

`HandoffSession` replaces the broker's side by the real one.  `sess[s]` is a
session record, `op[s]` what the holder of its `action_lock` is doing, `term[s]`
the thread of a terminal cleanup, `revoke[s]` a revocation, `active` the index by
agent, `inherited` and `eligible` the fields of `InheritedLockLifecycle`.  The
proxy's actions are those of `RestLock`, through
`Fence == INSTANCE RestLock WITH hold <- Hold, control <- \E s : Drives(s)`, and
`KeepsFence == Fence!RestSpec` says that the composition implements the fence.  The
lifecycle mutex is held only within a step; where a checkpoint keeps
`InheritedLockLifecycle._lock`, `LifecycleFree` keeps others out.

Some steps of the code are one action because nothing observable lies between
them: check and touch in `Button` and `Connect`, unlink and mode in `Released`,
the lock's release and the state in `Recovery`.

### 2.3 WorkLane

A job's `future` is the state of its `concurrent.futures.Future` (or "refused").
A worker's place is the line it is about to execute: in the loop, in the get,
with a job taken, past the closed check ("begun"), running by
`set_running_or_notify_cancel` ("ready"), in the function, back from it, past
the completion lock.  `close()` sets the event and drains holding the admission
lock, then joins with a timeout.

### 2.4 Linear: whose work, whose words

**TakeOver.**  `chat` is the requester's call in progress and `ownerCall[c]` the
owner's process that serves call `c`: start, check (the record that was read,
`expect`), stop (the native Stop), verify (is the pause ours), prove (no process
of the last attempt lives) and the reply, which the requester may no longer wait
for.  `Survives` says for which kinds of call the owner's process outlives the
requester's timeout.  `ownerTask` is the owner's native task with the pause on it
(`stop`, `stopAt`) and the process of its last attempt; `localTask` the task that
`EntrustCreates`, `EntrustBinds`, `Admit` and `Activate` build, with its two
intents and the queued delegate row; `issue` is Linear.  `RequesterDies` leaves
both intents where they are, and `RecoverAdmission`, `RecoverDelegate` are the
reporting thread's later look at them.  People stop, resume, close, reassign.

**Intake.**  A delivery's row in the inbox, the adapter's future for it
(`submitted`), and the line its coroutine is at (`ingest`).  `saved` is the
bridge's store for the issue: the creation intent, the source (the time of the
Stop or delegation that counts), the anchor, what was told.  `core` has what Core
holds and the receipts it has committed, `hook` the committed-input hook, which
alone activates the task and acknowledges.  `IngestFails`, `HookFails` and
`Crash` come between any two steps; `DayPasses` ends the waiting of a delivery.

**Answers.**  `_answer` of each of two adapters is a small program (`routing`):
receipts, chronology (what is on screen, what has been answered), decision.
`cache` is what an adapter remembers, `routed` the Store's reservation,
`decision` and `waiting` Core's.  `DiesDeciding` dies with the reply reserved.

**Conversation.**  `posts` wait for the session's reply lock, `rows` is the
outbox, `sender` the row being sent; what a row may be is decided when it is
sent (`Refused`, `SendsInterim`, `SendsReply`, `ReplyObsolete`, `SendsRepair`).
A create that timed out may land at any later time (`CreatedLate`), and
`SettlesRow` compares a row that turns out to have been applied with the
conversation once more, which may store a repair.  A row `shows` a question, and two
presentations of different questions are different (`SamePresentation`); Core gives
a question up on its own (`CoreGivesUp`) and the adapter takes its card down later
(`retiring`, `RetiresCard`).  `panel` is the newest activity.

### 2.5 Linear: what is reported

**Reporting.**  `board` is the task and its log of events, moved by the worker,
people and Core (`Board`); `pump` is one pass: `Begin` reads the task, `ReadHistory`
its events, then each event is told, and the closeout, the recheck of an
acceptance wait, the release of a park (ask, decide, unblock) and the status
repair follow.  Between any two of these the board may move.  `store` is the
cursor with the rows, `displayed` the status Linear shows.

**Evidence.**  `proof` is one verdict (pull request, runs, jobs of each run);
`runs` and `pr` are GitHub, which starts, re-runs and finishes runs and moves
the head meanwhile; `during` records what held at some time of the verdict or all
along it.  A run re-run between the listing and the reading of its jobs shows its
new attempt's jobs or those of the attempt before (`Read`), none of which count
(`acceptance.py:229`); `Concluded` reads the pull request once more (271).

**Sweep.**  `card` is the issue with its history, `pass` the pass with what it
has read, `decided` the applied intents by version.  Another process of the home
may link the issue at any time, for the issue's lock is a process's own.

**WorkerStep.**  `QueueLooks`, `QueueConfirms`, `Queues` are the two reads of
Core and the row; `flusher` sends; `session` is what Linear has.  A post whose
answer is lost is in the `air` until it lands or is given up.

**ChatGuard.**  A turn arms in two separately locked sections (`Begins`, `Arms`);
the insertion-ordered table is the number `armed[t]` of each turn's latest insertion
(0 when it is not there), so that `_prune` keeps the `MaxTurns` highest; `Calls` is
pre_tool_call, `EndsTurn` post_llm_call.  **LinearClient.**  One
request of a client goes through the file lock, Connect, Linear's token endpoint
(`Refreshes`; `RefreshUnheard` when Linear has rotated the token and the answer is
lost), the cache (`KeepsTokens`; `WriteFails`) and the request itself.  A 401 is
`Rejected` and `Invalidates`: a read of the cache and, later, the write of that copy,
without the file lock, so that another client's step may come between.  `linear`
has, beside the token that Linear accepts, the two ghosts that the properties
except: the last token that never reached the cache (`lost`) and the one that was
current when an older copy of the cache was written back (`torn`).

### 2.6 Providers

**ClaudeAcp.**  A request is seen at four places, as in the code: its caller
(`task`), the worker's future (`future`), `_create_sync` and the producer (`job`)
and its process (`process`, `alive`, `dying`).  **AcpPrompt.**  `stage` is the
request `_run` waits for; `log` is what the tool bridge, a process of its own,
has recorded, `taken` and `captured` what the client has matched and accepted.
**AcpStream.**  `LooksAgain` is the second look of `__next__` after the producer
was seen finished.  **NativeCall.**  `aiming` holds the threads that have seen an
unreaped leader and are about to signal its group.  **Relay.**  `hand` is the
server thread, `known` and `woken` the sockets an abort can wake.
**CacheMarks.**  `Rewrite` is the pipeline of `admission.py` on a request's
messages, over every conversation of a bounded shape: a first turn, a later one, one
within a tool loop, and one that native ends with a system message of its own.

## 3. The runs

| run | states | checks | shows |
|---|---|---|---|
| `outbox_issue` | 3.6 M | `TypeOK`, `AtMostOnce`, `OneStatusInFlight`, `ReceiptAfterCloseout`, `SentMeansLanded`, `MarkerTruth`, `NeverStale` | one issue: no double effect, no two statuses at once, never back; comments do not run ahead, records are true, markers are not lost; the refinement of `IssueStatus` |
| `outbox_issues` | 3.2 M | `SnapshotCurrent`, `HistoryFollowsStatus` | two issues in one pass: the second row's snapshot ages, yet agrees on what is decided from it |
| `linear` | 3.3 M | `TakeOverSound`, `AnswersSound`, `ConversationSound`, `EvidenceSound`, `GuardSound`, `ClientsSound`, `OnlyParksResumed`, `SweepRespectsPeople`, `DelegateFollowsAdmission` | safety of eight Linear components |
| `linear_work` | 288 k | `IntakeSound`, `StepSound`, `DeliveriesSettled`, `ReportsSettled`, `OptionalWorkSettled` | intake and worker steps, and the progress of what is reported, swept and delivered |
| `providers` | 144 k | `AcpSound`, `AnswersWhole`, `CancelsOnlyItsOwn`, `SlotsComeBack`, `DirectSettles` | slots, processes and answers of both providers, and that closing and aborting end |
| `handoff` | 537 k | `TypeOK`, `HumanAlone`, `OneOwner`, `KeepsFence`, `FreshRelease`, `EndCompletes` | sessions through their whole life, with restarts |
| `sidecars` | 252 k | `LaneInv`, `AnswersTruthful`, `ClosedLane`, `NoOverlap`, `EveryoneAnswered`, `Drains` | the lane under cancellation, deadlines, hangs, closing; three proxy threads against takeovers |
| `outbox_resolve`, `outbox_resolution`, `handoff_revoke`, `reporting_stale`, `linear_token` | to a counterexample | one property each | section 7 |

The two that need a word: `SnapshotCurrent` is not "the snapshot is equal to the
row" but that they agree on the fields the sender decides from; and
`FreshRelease` says that a marker nobody alive put up is removed only by a
session that itself completed a takeover.

What the conjunctions say, beside the type invariant:

| property | parts |
|---|---|
| `TakeOverSound` | `OneRunner`: while this agent's task is runnable the owner's is not, and no process of its last attempt lives; `RefusalLeavesNoPause`: "nothing was changed" is true |
| `AnswersSound` | `AnswersOnce`: a reply decides one question or is input; `AnswersWhatWasSeen`: free text decides only the question that was on screen when it was written |
| `ConversationSound` | `PanelTrue`: once every row is settled the panel shows what Core has committed; `StatusYields`: no live status over an open question |
| `EvidenceSound` | `AcceptedIsProven`: what is accepted was proved on the head that the pull request has at that moment; `FailureIsSaid`: a definite failure is not reported as "ask again"; `RefusalIsDeserved`: nor a gap between two reads as a definite "no" |
| `GuardSound` | `AllowanceHolds`, `BlockedWereAsked`, `TableBounded` of `ChatGuard` |
| `ClientsSound` | `TokenKept`: a rotated token that reached the cache is not lost; `PauseKept`: no client shortens a cooldown |
| `IntakeSound` | `OneTask`, `StartsAfterReceipt`, `StopHolds`, `ImportedIsAnswered` |
| `StepSound` | `ReplyIsLast`, `OneUncertain` |
| `ReportsSettled` | `StatusFollowsWork`, `WaitsEnd` |
| `OptionalWorkSettled` | `StaleIsParked`, `GoneIsRetired` (`Sweep`); `ReplyArrives`, `QuestionReturns` (`WorkerStep`) |
| `AcpSound` | `SlotsConserved`, `NoStrayProcess` |
| `AnswersWhole` | `CallsProven`, `StreamComplete`, `OneWholeAnswer`, `OwnedLeavesNoOrphans`, `MarksSound` |
| `DirectSettles` | `CloseEndsNatives`, `AbortEnds` |

## 4. Bounds and abstractions

**Outbox.**  Three rows of one issue (or two of each of two kinds over two
issues), two reporting bindings, one revival.  Three status rows are enough for
an older, a current and a newer one, which is what ordering is about; the second
binding lets a re-track hold the rows of the first; one revival lets a row that
was given up meet one that landed meanwhile.  In one behaviour of `outbox_issue`
the rows are statuses, or closeouts (which never say In Progress) with their comments
and history (`StatusesOrComments`), since their mixtures are more than 8 M states.  The proofs
cover all sizes and mixtures.
`CHECK_DEADLOCK FALSE`: the bounded system stops when its rows are used up.

Wall-clock time is a choice: which rows reached `next_at`, which are older than
`GIVE_UP_AFTER` (a day) and which may be revived (`REVIVE_EVERY`) is
nondeterministic, so every schedule is covered.  A lost answer, a 5xx and a
timeout are one action.  Not in the model: rows of older versions without a
marker, `superseded` rows, content comments, project updates, descriptions and
the fences of a chat transfer or a specialist.  Conversation rows, a worker's
steps and the delegate row are in `Conversation`, `WorkerStep` and `TakeOver`.

`OperatorWaits`: the operator resolves a row after looking at Linear.  If the
request is still under way, what the operator saw may change afterwards.
`OneStatusInFlight` and `NeverStale` need an operator who waits; the others do
not.  `outbox_resolve` drops the assumption.

**HandoffSession.**  One agent and its default workspace, one proxy request, one
user, two sessions, one mint at a time, one viewer per session.  Two sessions
are what confusions between an old and a new one need; the number of requests is
covered by `RestLock` and its proof; who the owner is matters only for whether
they still have a grant, so that a second user adds nothing (safety was also
checked with two).  `EndWaits`: no End or expiry begins while its own session
is being revoked; `handoff_revoke` drops the assumption.  Not in the model: the
policy file itself, workspaces other than the default one (for these the lookup
after a revocation never matches and minting answers 409 until the session is
pruned), and two brokers overlapping at start-up.

**WorkLane.**  Three jobs, two workers, a queue of one: the queue is full, a
second worker is idle, and a job waits behind another.  `close()` is called once.
`CHECK_DEADLOCK FALSE`: a closed lane is done.  Thread exhaustion at
`timer.start()` is not modelled.

**TakeOver.**  Two chat calls, two native events on the owner's side; a
take-over's owner process may outlive the requester's timeout.  Two calls are a
lost one and its retry, or a take-over and a resumption; two events are a claim
and a completion between a call's two reads.  One issue: the lock and the
records are per issue.  The assumptions, each of which is needed:
*(a)* a pause that came from a hand-over is lifted by `resume_owner` only, and a
person's pause that has been handed over is not lifted natively; *(b)* whoever
asked `resume_owner` does not also resume the local task; *(c)* a `resume` does
not outlive its requester's timeout.  Without (c) a late one resumes the owner
after a retried hand-off proved the pause (`chat.py:880`, `handoff.py:496`): with
`Survives = {"hand_off", "resume"}`, `MaxCalls = 3` and `MaxEvents = 1`
`OneRunner` fails.  Related reads of the code that the assumptions cover:
`handoff.py:328` proves a person's pause for any requester, so that two agents
can both be handed it; `bridge.py:2431` looks at an `accepted` that is recorded
after the native unblock.

**Intake.**  Two deliveries of one issue in the four combinations that matter
(a delegation twice, with a Stop after and before it, an assignment by nobody
with a prompt) at two times (`LastTime`), one fault.  Two deliveries of the same
time are the redelivery.  `IntakeInv` (6.5) was checked with more: all combinations
of two deliveries with two faults, and three deliveries at three times.

**Answers.**  A clarification and an approval; two replies of which one reaches
both adapters, or that one alone with a mishap (a death or a failed read).  (Two
replies with a mishap, 1.6 M states, were also checked.)  **Conversation.**  Two inputs and, in three mixes, a
note, a question, a lost answer: two inputs are one that is running and one that
waits.  (One input with a note, two questions and a lost answer, 2.7 M states, was
also checked: only there can a late card of a question given up follow the card of
the next one.)

**Reporting.**  Three plots (`MCReporting`): claimed and completed over and over,
parked and released, finished and answered late; with at most four events and one
refusal of GitHub; two shorter plots, with a restart, for liveness.  Five events hold
a whole cycle with a move of the board inside each window.  **Evidence.**  Two
checks, two runs of every origin, two heads, one change during the verdict.  Of
the runs one is in its first attempt when the proof begins, and the other has been
re-run or may yet start (`Begun`, `OpenWhenRerun`), so that the one change may be a
new run, a re-run, a job's end, a push, a merge or a close.  (Two changes with runs
of every attempt, 6.7 M states, and `EvidenceInv`, 10.3 M, were also checked.)

**Sweep.**  Three changes of the issue (two for liveness), a window of one, one
fault.  Three are the app's start, a person's move and a change in the
window between read and write.  **WorkerStep.**  One tool, two runs, two steps,
one question, one lost answer: the step of an old run meets the question of the new.

**ChatGuard.**  Three turns in two sessions, a table of one, an allowance of one
call, two calls per turn: eviction and overlap both happen.  The hooks name their
turn (`Named`).  **LinearClient.**  Two clients with an outage and a 401 or a
death, or one client with an outage, two 401s and a death; three tokens, a clock of
two.  An answer that is lost and a cache that cannot be written have no bound.  Two
clients and one 401 are the rewrite of the cache under another's refresh (section
7); three tokens let a token that was lost or torn be followed by another.  (Two
clients with a 401, an outage and a death, 0.9 M states, were also checked.)

**Providers.**  Two asynchronous requests and a synchronous one over one slot,
one stream of each; two captured calls; a stream's queue of two with three
chunks, so that it is full; one native call (they share only the client's
`closed`); a relay with two posts and two blocks; every conversation of at most
five messages over two blocks of each kind, a look-back of two.

## 5. Fairness

* `RestLock`, `HandoffSession`: handler threads go on, the proxy's requests end
  (its upstream socket has a timeout), a checkpoint ends, cleanup and revocation
  threads run.  The socket to a viewer has no timeout: `ScreenSent` is fair only
  once that socket has been closed, which is what makes `EndCompletes` more than
  a formality.  People, failures (`CloseFails`) and `Restart` are not fair.
* `WorkLane`: worker threads run, the stall timer fires, a `close()` that was
  called goes on.  Nothing makes an inference return or a caller cancel.
* `Intake`: the drain runs in a loop, the adapter's loop runs its coroutines,
  hooks run, Core completes what it holds, a day passes.  Faults are bounded and
  not fair; that Core *commits* an input is not assumed, and neither is anything
  of people.
* `Reporting`: the tick thread goes on with its pass and sends rows, the hold
  and the weeks run out.  The board is not fair: the properties say what is shown
  once it moves no more.
* `Sweep`: the hour passes, the passes go on.  The recheck is strongly fair: each
  tick runs it, but another pass of the same tick may be the one under way.
* `WorkerStep`: the queue's reads and the sender go on.  A lost post that nobody
  finds again within a day is excepted (`Unresolved`).
* `ClaudeAcp`, `NativeCall`: every thread is scheduled, every wait of a request
  ends by its deadline.  Nothing is assumed of the adapter, of native, of who
  reads a stream, calls or cancels.
* `Relay`: a blocked socket call returns once its socket has been shut down, a
  connect by its timeout.  Nothing makes native or Anthropic speak.
* `Outbox`, `TakeOver`, `Answers`, `Conversation`, `Evidence`, `ChatGuard`,
  `LinearClient`, `AcpPrompt`, `AcpStream`, `CacheMarks`: safety only.

`MCWork` and `MCSidecars` state these conditions of `Only(name) /\ action`, so
that they ask nothing of a behaviour that moves another component; in
`MCProviders` an idle component has no fair action enabled.

## 6. The proofs

Checked by TLAPS for all values of the constants that satisfy the modules' named
assumptions.  Only liveness is left to TLC (section 6.9).

The modules' assumptions say only what the code fixes (a positive limit, disjoint
kinds, a retry bound).  Where a property is true only while somebody behaves, the
theorem has that as its hypothesis, by name, and the run has it as its constant:
`OperatorWaits`, `EndWaits`, `ResumeWaits`, `Named` (section 4
says what goes wrong without each).  Each inductive invariant named below was
first checked by TLC as an invariant of a small instance.

| part | theorems | in |
|---|---|---|
| Outbox | `InvCorrect`, `TypeCorrect`, `AppliedOnce`, `MarkerNeverLost`, `DeliveredTruthfully`, `SnapshotStaysCurrent`, `OneAtATime`, `ReceiptsFollowCloseouts`, `HistoryWaits`, `ImplementsIssueStatus` | 6.1 |
| Automation lock | `HumanDrivesAlone` | 6.2 |
| Handoff sessions | `SessionsTyped`, `InputIsAlone`, `OwnerIsTheLiveSession`, `InheritedReleasedFreshly`, `ImplementsRestLock` | 6.2 |
| Worker lane | `LaneInvariant`, `CallersTold`, `ClosesCompletely` | 6.3 |
| Take-over | `OneRunnerPerIssue`, `DelegateIsAdmitted` | 6.4 |
| Intake and Stop | `IntakePromises` | 6.5 |
| Conversation | `PanelTellsTruth` | 6.8 |
| Sweep, reporting, evidence | `SweepRespects`, `PeoplesBlocksStand`, `VerdictIsProven` | 6.6 |
| Chat guard, API client | `GuardIsSound`, `ClientsAgree` | 6.6 |
| Answers, worker steps | `ReplyDecidesOnce`, `ReplyClosesProgress` | 6.6 |
| ACP provider | `AcpIsSound`, `OwnRequestOnly`, `PromptsAreProven`, `StreamsEndWhole` | 6.7 |
| Subscription provider | `NativesLeaveNoOrphans`, `RelaysAnswerWhole`, `MarksSafe` | 6.7 |
| Both providers composed | `AnswersAreWhole` | 6.7 |

### 6.1 Outbox (`OutboxProofs`)

| theorem | states |
|---|---|
| `InvCorrect` | `Spec => []Inv` |
| `TypeCorrect`, `AppliedOnce`, `MarkerNeverLost`, `DeliveredTruthfully`, `SnapshotStaysCurrent` | `TypeOK`, `AtMostOnce`, `MarkerTruth`, `SentMeansLanded`, `SnapshotCurrent` |
| `OneAtATime` | `Spec => []OneStatusInFlight`, assuming `OperatorWaits` |
| `ReceiptsFollowCloseouts` | `Spec => []ReceiptAfterCloseout` |
| `HistoryWaits` | `Spec => HistoryFollowsStatus`, an action property |
| `ImplementsIssueStatus` | `Spec => NeverStale`, the refinement, assuming `OperatorWaits` |

`AtMostOnce` is not inductive.  That a status is sent only once depends on the
marker: a row without it has no effect at Linear and none under way
(`EffectInv`), and a sender that finds it does not send.  But the sender decides
from a snapshot, so `SnapshotCurrent` has to hold until the row's turn is over;
and the marker may be taken back, so that between setting it and sending, and
as long as this delivery may withdraw it (`fresh`), nothing of the row may be
under way or applied (`MarkerInv`).  `RecordInv` ties what is about to be recorded
to what Linear did, `RowInv` a row's fields to each other, `SenderInv` the
program counter to the batch.

The order of an issue's statuses adds three parts, under `OperatorWaits`:
`ActiveInv` (a status that is under way or about to leave is the only one of its
issue, is not resolved, and is newer than what the issue shows), `OlderSettled`
(the older statuses of a row that is due, under way or applied are decided or
held) and `ShownInv` (what an issue shows is a status row of its own that was
applied).  With these `Land` is a step of `IssueStatus` and every other action
leaves its variables unchanged.

`CloseoutInv` is about completion comments.  A comment's row names a closeout of
its own issue (`ReceiptsLinked`), which re-sequencing never changes since it moves
history only; the snapshot knows it too (`SnapshotLinked`); and from the guard to
the request the closeout that the snapshot looked at is recorded as applied
(`WayClosedOut`), a record that no later transaction takes back, not even the
operator's.

`QueueInv` is about history.  The guard of `_mutate_outbox` looks only at the
*newest* status of the issue, while the property speaks of every status of the
task.  The older ones are covered because an issue's statuses are reached in the
order of the queue, and a re-track holds all there are (`StatusOrder`), and because
what is not held reports the issue's current task (`CurrentTask`): a status that
waits behind one that was reached would have had to be passed over by `due()`.
Neither part needs an operator who waits.

The module's first lemmas state once what the operators on rows preserve: which
changes of a row keep it typed, and which of its fields they leave alone.  Then
`TypeStep` preserves the types, `SafeStep` the parts that hold
whatever the operator does, `OrderStep` the other three, `CloseoutStep` and
`QueueStep` the two above, and `PromisedStep` maps every step to `IssueStatus`.

### 6.2 RestLock and HandoffSession (`SidecarProofs`, `HandoffProofs`)

`HumanDrivesAlone`: `RestSpec => []NoOverlap`.  The invariant `LockInv` keeps the
marker up from before the drain until the release, and nobody inside the flock
at the moment it is granted; a handler that enters afterwards finds the marker
in its second look.

The broker's own theorems hold for any numbers of requests, users and sessions,
under `EndWaits`.  `HandoffInv` says of each session where the threads at work on
it may be (`Threads`: a cleanup runs exactly while the session is ending, and excludes
a revocation), who may watch and type (`Viewing`: input needs a confirmed takeover),
what may release an inherited marker (`Entitled`: the End of a session that took the
fence itself) and what of the fence it has (`Fenced`: the marker is up from before
the drain until the human is gone, and nobody is inside from the drain on); and that
the index names the one live session (`OneOwner`).
A step of one session is shown to keep what is said of that session, and
`Touches(s)` with the uniqueness of the owner keeps the rest.

From it `InputIsAlone` (`HumanAlone`), and `ImplementsRestLock` (`KeepsFence`): every
step of the broker and the proxy is a step of `RestLock` under
`hold <- Hold, control <- \E s : Drives(s)`, or leaves its variables unchanged.
`InheritedReleasedFreshly` (`FreshRelease`) is an action property: a marker
nobody alive put up goes only by the End of a session whose own takeover was
completed, which is what `Entitled` keeps.

### 6.3 WorkLane (`SidecarProofs`)

`CallersTold` (`AnswersTruthful`) and `ClosesCompletely` (`ClosedLane`) from the
inductive `LaneInv` (`LaneInvariant`).  A job is in one place only, in the queue or
in one worker's hands (`OnePlace`), and its future agrees with the place
(`PlaceAgrees`): an open future is somewhere, and a worker that has the job
knows how often it ran.  Without the uniqueness one worker's answer could be
about another's job.  `ClosingInv` adds that draining leaves the queue empty for
good, since `submit` looks at the event under the same lock.

### 6.4 TakeOver (`TakeOverProofs`)

`OneRunnerPerIssue` (`TakeOverSound`), for any numbers of calls and native events,
under `ResumeWaits`.  What a reply "handed off" rests on is `Down(c)`: the owner's
task is blocked by the pause that call proved, at `stopAt`, and no process of
its last attempt lives.  `HandOverInv` carries it from the owner's proof over the
requester's start of the local task to its end, and has to say that no
`resume_owner` is under way while the local task may run; this is where a late
resume would break it.  `HistoryInv` keeps what a call has read of the owner's
history behind that history, so that a stop's comparison with `expect` proves
that nothing started meanwhile; `RefusalInv` says what a call that stopped the
owner must still do before it may reply "unchanged".

`DelegateIsAdmitted` (`DelegateFollowsAdmission`) is an action property and needs
no hypothesis: `AdmissionInv` orders receipt, admission and the queued delegate row.

### 6.5 Intake (`IntakeProofs`)

`IntakePromises` (`IntakeSound`), for any deliveries at any times, and any number of
faults and deaths.  `IntakeInv` has three parts:

* `Agree`, of the store, the task and Core's receipts: no task before its request is
  saved; a task is ready only by its activation or a person; an activated task's
  input is a receipt, and no unbound Stop is as new as the delegation it was
  activated for; a Stop recorded as applied left the task stopped.
* `LockInv`: the coroutine between the saved request and the activation has the
  issue's lock, and what it has reached (no task yet; a task not bound; bound to it).
  A request is made once because only that coroutine may make it, and a death
  leaves a request that nobody sends again.
* `HookInv`: what was acknowledged is accounted for.  A Stop is `Heeded`: older than
  the assignment, recorded against it, or settled; a delegation `HasAnswer`.  Both
  can only grow (`Grows`), whatever step follows.

Activation, the pending Stop and what either leaves when it fails on the way are
shown once to keep `Sound` and the request (`AdmittedKeeps`, `InterruptedKeeps`,
`ControlKeeps`); every path to them cites that.  `StopHolds` then goes by the ways
in which its Stop may be heeded.

### 6.6 The smaller Linear components (`LinearProofs`)

* `SweepRespects`: `SweepRespectsPeople` is an action property; `ReadRight` says that
  a pass about to write has read a history in which nobody but the app decided,
  for any page size and history length.
* `PeoplesBlocksStand`: `OnlyParksResumed`; `ParkInv` says what a pass that has
  decided to unblock has seen in the log.
* `VerdictIsProven`: `EvidenceSound`; `EvidenceInv` relates what a proof has read to
  `during`, what held since it began (`Observed`).  `ListedRight` ties the listing to
  the head and to what the attempt before has shown; `FoundRight` says that what was
  found was there, and that a job that has failed, or passed, all along is still of
  the listed attempt, so that it is read as what it is.
* `ClientsAgree`: `ClientsSound`, for any number of clients, 401s, outages, lost
  answers, failed writes and deaths.  `ClientInv` says who may know the token that
  Linear accepts: Connect, the cache or the client that has the file lock and was just
  given it (`Reachable`), and that the holder's copy is still the cache's (`Copied`);
  or else the token never reached the cache, or an older cache was written back over it
  (`Torn`).  Those two exceptions last until the next rotation; the second one is
  disagreement 5 of section 7, without which `TokenHeld` would be the property.
* `GuardIsSound`: `GuardSound`, when hooks name their turn.  `TableBounded` needs a
  counting argument (`NewestFew`: fewer than k turns have fewer than k newer ones
  only if there are at most k); `AllowanceHolds` and `BlockedWereAsked` need to know
  what a turn has used when it leaves the table, which is `TurnSound`.
* `ReplyDecidesOnce`: `AnswersSound`.  `AnswersInv` says what two adapters' caches may
  know (`CachesAgree`), that an answered question was on screen before its answer was
  written (`SeenFirst`), and that a routing that has read that much still sees it
  when it decides (`RoutingsRead`); decisions and the order of what is recorded are
  final (`StandsSettled`).
* `ReplyClosesProgress`: `StepSound`.  A step that may still land holds everything
  behind it in the queue: `OneUncertain` with `InHand` (what the sender has taken),
  `AirUnsettled` (what is in the air is not settled) and `NoStepAfter` (no step is
  queued behind a closing reply).

### 6.7 The model providers (`ProvidersProofs`)

`AcpIsSound` (`AcpSound`), for any numbers of requests and slots.  `JobInv` relates the
four places where a request is seen, `HolderInv` says that the client runs, obeys
and holds the process of the request that has its lock, `AdapterInv` that an adapter
that runs is stored or being killed, and `SlotInv` counts: the free slots and those
of the requests that owe one make the limit.  `OwnRequestOnly` (`CancelsOnlyItsOwn`) is
an action property from the same invariant.

`AnswersAreWhole` (`AnswersWhole`) is about the composition: each component keeps its
own invariant, and a step of one leaves the others where they are (`EachSteps`).  The
five parts are theorems of their components' specifications too.  `PromptsAreProven` (`CallsProven`): a call is accepted only with the
next record, so the records taken are the calls accepted, and an id that was
accepted is refused before it is looked at.  `StreamsEndWhole` (`StreamComplete`): the
consumer is past its second look only when the producer has finished, and a producer
finishes without a result only when nobody listens.  `NativesLeaveNoOrphans`
(`OwnedLeavesNoOrphans`): in `NativeShows`, whoever may reap a leader that is unreaped
has its signal still to send or has cleared the group; a request's end and the reader
each rely on their own, and the signal is the group's because the leader is unreaped.
`RelaysAnswerWhole` (`OneWholeAnswer`): `SendsShow` says where the thread can be after
how many sends, and only the last block of an answer is ever open.

`MarksSafe` (`MarksSound`) is for conversations of any length, any lookback and any
limit.  Its invariant only says that the request is one native may send (`Asked`) and
that what was forwarded is its `Rewrite`; the work is in the pipeline, pass by pass:

* `OwnFormIs`: restoring the queried turn keeps every mark, since the blocks it leaves
  out have none, and leaves no text of native's.
* `DropIs`: a frame found once is as long as the turn has blocks of Hermes', and all
  its blocks are Hermes'; so it is all of them, and what lies before it is native's.
  Only one of the two passes can find it (`FramedIs`), and the marks that are left map
  one to one into those there were (`FrontedIs`).
* `FoldMarks`, `KeepMarks`: folding takes at least one mark for the one it sets, and the
  turn's mark is set only before the target, where there is room or in the place of
  another.  So what is forwarded has at most a mark more, within the limit, and none
  after the target (`PinIs`).
* What recurs does not depend on the marks (`TwinTargets`), so the target is still the
  last block that recurs in what is forwarded.  *Twins* are lists that differ in their
  marks only; every pass after the frames makes a twin of its input.

`FirstIs`, `LastIs`, `LatestIs` and `NthIs` say that what the operators choose exists;
they rest on the well-foundedness of the numbers.

To be reasoned about, `Queried` says what Hermes' n-th block is instead of filtering
the turn, and `MarksSound` became stronger: it was that native's text is all that may
be missing, and is now that it is missing only before the queried turn.

### 6.8 Conversation (`ConversationProofs`)

`PanelTellsTruth` (`ConversationSound`), for any number of inputs and any budget of
posts, questions and lost answers.  `PanelTrue` speaks of the moment when everything
is settled, which no step can be asked to preserve.  `PanelFine` says it of every
state in which the newest activity is settled and no repair is still to be created
(`Still`): then the panel shows the open question's card if one has landed
(`ShowsTruth`), a card only if it still stands (`CardStands`: its question is open,
or is yet to be taken down, or a card of it is on its way again), a completion only if
nothing was admitted after it, and the completion if everything is answered.  It
becomes true when a row is settled, since that row presents the target
(`PresentsTruth`) or is repaired at once, so that the panel is not still
(`RepairsKeeps`); taking a card down finds the newest card that was sent, which is
why none can be left behind (`CardReplaced`).  It stays true because what changes
afterwards is newer: a prompt, an admission, a card.

The other parts are what that rests on.  `TurnsFine`: Core runs its inputs in order.
`RowsFine`: a row names only earlier rows, a repair only one that is settled, a reply
that is not a completion was overtaken by an admission.  `AskedFine`: a question with
a card out is of an input that is not over, so that none of its cards is finished
(`CardsOpen`), no live status is queued after its row, and whatever repairs one of its
cards is a card.  `YieldFine`: while Core waits, no live status in the queue is current,
or the question's input is over and it will never be shown.  `PostsFine`: a question
leaves the queue for its row, and an input whose live status is closed has a reply.

Trying to prove this corrected the model: a question that Core gives up on its own
and whose card is taken down later (`CoreGivesUp`, `RetiresCard`) was missing, and
redisplaying another question had been taken for the same presentation.

### 6.9 Only model-checked

* All liveness: `Drains`, `EndCompletes`, `EveryoneAnswered`, `SlotsComeBack`,
  `DirectSettles`, `DeliveriesSettled`, `ReportsSettled`, `OptionalWorkSettled`.
  Fairness and ENABLED are out of the prover's reach.

Every invariant and every action property of the passing runs is a theorem.

## 7. Disagreements found

1. **A write can be resolved while it is being sent** (`outbox_resolve`).
   `tests/test_linear_ops.py:70` says an in-flight write "cannot be resolved
   under the sender".  `needs_resolution` is true of every *held* status row,
   and re-tracking the issue holds a row whose request is under way.
2. **A recorded resolution can be erased** (`outbox_resolution`).  `_flush`
   rewrites the payload of a row whose requester is not authorized from the
   snapshot taken before the issue lock; `Store.rewrite` replaces the payload
   whatever the row has become, and a reconciliation recorded between the two is
   gone.  `store.py:422` says the write is "unknown until an explicit durable
   resolution".
3. **An End can release the fence of a revoked grant** (`handoff_revoke`).
   `session_policy.py:254` says a withdrawn grant "is never authority to release
   the automation fence", but `_begin_terminal` does not refuse a session in
   state `revoking`, and the End's cleanup then checkpoints and unlinks.

4. **A completion can be passed over** (`reporting_stale`).  `bridge.py:3537`
   says "Close out a completed native task: Done with accepted evidence, else
   Blocked with the reason."  `pump_kanban` reads the task (3146), then its
   history (3155), and gives every event the status it read first; a completion
   that falls between the two is captured as an event with nothing to say
   (3421), the cursor passes it, and the repair shows In Review with no wait for
   the pull request.  The same property also fails, with rarer histories, for a
   task completed again after a Done that was delivered, when GitHub does not
   answer (`store.py:1257`), and for a Done whose check at delivery refuses
   because the head moved.
5. **A rejected client can undo another's rotated token** (`linear_token`).
   `oauth.py:3-6` says that Connect holds the current refresh token and the cache "a
   rotated refresh token that Connect has not accepted yet".  `invalidate`
   (`oauth.py:160`) marks the credential expired by a read and a write of the whole
   cache under the thread's lock only, not under the file lock of a refresh.  One
   client's 401 reads the cache; another refreshes, and keeps the new token there;
   the first writes its older copy back; and Connect is out when the second stores
   the token.  The token that Linear accepts is then in neither place.  `TokenHeld`
   is that claim, with lost answers, failed writes and deaths before the cache
   excepted (`linear.lost`), and fails; `TokenKept`, which excepts this as well
   (`linear.torn`), is what holds.

## 8. What the models leave out

By component; what is named here can go wrong without a property noticing.

* **TakeOver**: several issues; the wording of refusals; the assumptions of
  section 4.  The delegate is read, checked and written in one step
  (`bridge.py:2904`-`2913`): a person who moves the issue between the last read and
  Linear's answer is overridden, and `DelegateFollowsAdmission` does not see it.
* **Intake**: a linked delegation's note repeats the task's status as it was read
  (`native_input.py:1014`); `drain_ingress` routes rows it read before the
  acknowledgement once more (`bridge.py:5042`); a delivery that was handed to Core and whose commit never comes
  is never parked.
* **Answers**: question cards of older versions, redisplays, senders without
  authority, questions of a turn that has ended.
* **Conversation**: Core marks a turn terminal before its final reply; the fence
  of native work's Done, a worker's questions and the options of approvals are
  left out; an uncertain row that was given up and lands later is not compared
  with the conversation again; a prompt that is shown before Core admits it may
  follow a completed panel until the next post.
* **Reporting**: moves of people in Linear, turns of sessions, the review and
  scheduled statuses, parks before admission, a refused `effect_admitted`, a
  mismatch of the completion's scope.  After a Done the issue stays closed.  The
  staleness of finding 4 also drops the message of a block (`bridge.py:3475`).
* **Evidence**: a run that starts, or fails again, after it was listed or read is not
  seen, and neither is a push after the last read: `AcceptedIsProven` speaks of what
  held during the proof and of the head at its end.  When the head moves during the reads, a
  failed check of the old head is a definite refusal, although the comment at
  `acceptance.py:101` would ask again (186).
* **ChatGuard**: hooks that do not name their turn (`Named = FALSE`) fall back on
  the session's latest; two concurrent arms of one turn leave an orphan in the
  table; the later calls of a turn that was interrupted are not guarded once a
  newer turn of its session has armed.
* **LinearClient**: a token of which Linear's answer was lost (no answer within the
  timeout, 5xx, an unusable answer, `oauth.py:199`-`218`), or that its client could
  not keep (a failed write, `oauth.py:203`; a death), is lost: `TokenHeld` and
  `TokenKept` except it, by `linear.lost`.  The flock is held while Connect is polled,
  up to 300 s.  Left out: a write that Connect applies after its answer timed out, a
  cache that is corrupt, the backoff of a failing refresh (a refresh may be tried at
  any time), a new authorization by a person, guarded mutations, budgets, the proof of
  identity, deadlines.  A transport failure is answered as a request without answer.
* **Sweep**: the fence of scopes waiting for the operator, the end of a pass by a
  rate limit, the bounds of pages and moves.  A person's change between the read
  of the history and the update is overridden (`bridge.py:4012`-`4017`), which the
  property excepts; a version decided "a native task exists" keeps In Progress
  when that unlinked task is deleted.
* **WorkerStep**: a step or repair whose answer was lost and that neither lands
  nor is found within 24 hours holds the closing reply (`store.py:1530`,
  `bridge.py:4324`).
* **Providers**: prompt texts, usage figures, credentials, settings, the
  translation of messages.  Whether Anthropic refuses the compressed body, so that
  the relay sends it again (`admission.py:806`-`841`), and whether a call's arguments
  parse (573-593) are choices of one step.  A drain that reaps the leader itself does not clear
  the group (`directsdk.py:459`); `Request.cancel` reads its admission twice
  outside the lock.
* **Outbox**: `reconcile_status` compares with the newest row even when that row
  is held (`store.py:1644`); a row that requires a status waiting for the
  operator is not due until then (`store.py:1459`).
* **HandoffSession**: a revocation waits for the action lock before it closes the
  sockets (`session_policy.py:288`), and no property says that it ends; `mint`
  lets go of the lifecycle mutex between the policy check and the creation
  (`session_policy.py:316`); two administrators publish a policy in the other order
  (`origin.py:1128`); the marker is read before the lease at start-up
  (`origin.py:1247`).
* **WorkLane**: `timer.start()` fails when the process is out of threads
  (`worker_lane.py:76`).

Not modelled at all, because they have no state machine of their own: validation
of origins and work records, diagnostics and wording, the browser plugin (a
client of the broker, whose requests are `HandoffSession`'s inputs), the broker's
pages and stream parser (a sequential function of its bytes), the speech
server's handlers and `text_normalize.py` (a text transformation), the account
connectors, the read-only source, `plugins/web`, and the release tooling.

## 9. Plan

Every safety property of the passing runs is proved; what remains only checked is
liveness (section 6.9).  What is left is to model more: the hazards that
`PROJECT.json` lists without a property, beginning with a resume request that outlives
its caller's wait, and the parts that section 8 leaves out.
