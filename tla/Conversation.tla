---------------------------- MODULE Conversation ----------------------------
(***************************************************************************)
(* plugins/linear native_input.py and bridge.py: what one Agent Session's    *)
(* panel shows.                                                              *)
(*                                                                           *)
(* Core runs the inputs of a session one after another.  The adapter posts   *)
(* live status, notes, a question and each turn's reply, one at a time under *)
(* the session's reply lock; every post is a row of the outbox, sent by one  *)
(* sender at a time under the issue's lock, at once or, after a failure,     *)
(* by the reporting thread.  What a row may be is decided when it is sent,   *)
(* from the state Core has committed; a create may time out and land later,  *)
(* so a sent row is compared with the conversation once more and a repair    *)
(* row restores what the panel should show.                                  *)
(***************************************************************************)
EXTENDS Naturals, Sequences

CONSTANTS
  MaxInputs,  \* messages of the person
  Budgets     \* how many posts, questions and lost answers a history may have

ASSUME ConversationAssumption ==
  /\ MaxInputs \in Nat
  /\ Budgets \subseteq [posts : Nat, asks : Nat, lost : Nat]

VARIABLES
  written,    \* messages the person has written
  turn,       \* input -> Core's admission of it
  question,   \* the question Core waits on: its row once it has one, and the turn asking it
  retiring,    \* questions Core gave up on whose card is still to be taken down
  known,      \* the newest input whose receipt the bridge has recorded
  steps,      \* live status: generation, paused, closed inputs
  posts,      \* posts waiting for the reply lock
  holder,     \* the post that holds it
  rows,       \* the outbox
  sender,     \* the row being sent
  panel,      \* the newest activity of the session
  left        \* posts, questions and lost answers the history may still have

conversationVars == <<written, turn, question, retiring, known, steps, posts, holder, rows, sender, panel, left>>

Inputs == 1..MaxInputs
Nothing == [row |-> 0, turn |-> 0]
NoPost == [kind |-> "none", of |-> 0, gen |-> 0]
Open(r) == r.state = "pending"
Live == \E i \in Inputs : turn[i] \in {"queued", "live"}
InputsAdmitted == {i \in Inputs : turn[i] # "none"}
Latest == CHOOSE i \in InputsAdmitted : \A j \in InputsAdmitted : j <= i

ConversationTypeOK ==
  /\ written \in 0..MaxInputs
  /\ turn \in [Inputs -> {"none", "queued", "live", "over"}]
  /\ question \in [row : 0..Len(rows), turn : 0..MaxInputs]
  /\ retiring \subseteq 1..Len(rows)
  /\ known \in 0..MaxInputs
  /\ steps.gen \in Nat /\ steps.paused \in BOOLEAN /\ steps.closed \subseteq Inputs
  /\ \A p \in posts : p.kind \in {"step", "note", "question", "final"} /\ p.of \in 0..MaxInputs
  /\ holder.at \in {"free", "queue"}
  /\ \A k \in 1..Len(rows) :
       /\ rows[k].kind \in {"step", "note", "question", "final", "repair"}
       /\ rows[k].type \in {"action", "thought", "elicitation", "response"}
       /\ rows[k].state \in {"pending", "sent", "off"}
       /\ rows[k].tried \in BOOLEAN /\ rows[k].landed \in BOOLEAN
       /\ rows[k].fixes \in 0..Len(rows) /\ rows[k].shows \in 0..Len(rows)
  /\ sender \in 0..Len(rows)
  /\ panel.type \in {"prompt", "action", "thought", "elicitation", "response"}
  /\ left \in [posts : Nat, asks : Nat, lost : Nat]

ConversationIdle(budget) ==
  /\ written = 0 /\ turn = [i \in Inputs |-> "none"] /\ question = Nothing /\ retiring = {} /\ known = 0
  /\ steps = [gen |-> 0, paused |-> FALSE, closed |-> {}]
  /\ posts = {} /\ holder = [at |-> "free", post |-> NoPost]
  /\ rows = <<>> /\ sender = 0
  /\ panel = [type |-> "prompt", row |-> 0, admitted |-> 0]
  /\ left = budget

ConversationInit == \E budget \in Budgets : ConversationIdle(budget)

-----------------------------------------------------------------------------
(* The person and Core *)

Writes ==
  /\ written < MaxInputs /\ written' = written + 1
  /\ panel' = [type |-> "prompt", row |-> 0, admitted |-> 0]
  /\ UNCHANGED <<turn, question, retiring, known, steps, posts, holder, rows, sender, left>>

CoreAdmits(i) ==
  /\ i <= written /\ turn[i] = "none" /\ \A j \in 1..(i - 1) : turn[j] # "none"
  /\ turn' = [turn EXCEPT ![i] = "queued"]
  /\ UNCHANGED <<written, question, retiring, known, steps, posts, holder, rows, sender, panel, left>>

TurnStarts(i) ==
  /\ turn[i] = "queued" /\ \A j \in 1..(i - 1) : turn[j] = "over"
  /\ turn' = [turn EXCEPT ![i] = "live"]
  /\ UNCHANGED <<written, question, retiring, known, steps, posts, holder, rows, sender, panel, left>>

(* Core's committed-input hook: the newest receipt becomes the reply anchor, *)
(* and live status of an earlier input is over.                              *)
Anchored(i) ==
  /\ turn[i] # "none" /\ i > known /\ known' = i
  /\ steps' = [steps EXCEPT !.gen = @ + 1, !.paused = FALSE]
  /\ UNCHANGED <<written, turn, question, retiring, posts, holder, rows, sender, panel, left>>

Posted(p) == posts' = posts \cup {p}

(* send_typing: one scheduled status at a time, for the input being answered *)
SendsTyping(i) ==
  /\ turn[i] = "live" /\ i = known /\ ~steps.paused /\ i \notin steps.closed
  /\ \A p \in posts \cup {holder.post} : p.kind # "step"
  /\ left.posts > 0 /\ left' = [left EXCEPT !.posts = @ - 1]
  /\ Posted([kind |-> "step", of |-> i, gen |-> steps.gen])
  /\ UNCHANGED <<written, turn, question, retiring, known, steps, holder, rows, sender, panel>>

SendsNote(i) ==
  /\ turn[i] = "live" /\ question = Nothing
  /\ left.posts > 0 /\ left' = [left EXCEPT !.posts = @ - 1]
  /\ Posted([kind |-> "note", of |-> i, gen |-> 0])
  /\ UNCHANGED <<written, turn, question, retiring, known, steps, holder, rows, sender, panel>>

(* send_clarify, _send_exec_approval_prompt: live status pauses before the   *)
(* question queues for the lock.  Its source is the newest recorded input.   *)
AsksQuestion(i) ==
  /\ turn[i] = "live" /\ question = Nothing /\ known # 0
  /\ left.asks > 0 /\ left' = [left EXCEPT !.asks = @ - 1]
  /\ question' = [row |-> 0, turn |-> i]
  /\ steps' = [steps EXCEPT !.gen = @ + 1, !.paused = TRUE]
  /\ Posted([kind |-> "question", of |-> known, gen |-> 0])
  /\ UNCHANGED <<written, turn, retiring, known, holder, rows, sender, panel>>

TurnEnds(i) ==
  /\ turn[i] = "live" /\ question.turn # i
  /\ \A p \in posts \cup {holder.post} : p.kind \in {"note", "question"} => p.of # i
  /\ turn' = [turn EXCEPT ![i] = "over"]
  /\ UNCHANGED <<written, question, retiring, known, steps, posts, holder, rows, sender, panel, left>>

(* send: the turn's reply closes its live status. *)
SendsFinal(i) ==
  /\ turn[i] = "over" /\ i \notin steps.closed
  /\ steps' = [steps EXCEPT !.gen = @ + 1, !.closed = @ \cup {i}]
  /\ Posted([kind |-> "final", of |-> i, gen |-> 0])
  /\ UNCHANGED <<written, turn, question, retiring, known, holder, rows, sender, panel, left>>

(* Core's own lock is held while a question is published. *)
CoreUnlocked == sender # 0 => rows[sender].type # "elicitation"

resume_typing == steps' = [steps EXCEPT !.paused = FALSE]

PersonAnswers ==
  /\ question.row # 0 /\ CoreUnlocked /\ \E k \in 1..Len(rows) : rows[k].shows = question.row /\ rows[k].landed
  /\ question' = Nothing /\ resume_typing
  /\ panel' = [type |-> "prompt", row |-> 0, admitted |-> 0]
  /\ UNCHANGED <<written, turn, retiring, known, posts, holder, rows, sender, left>>

-----------------------------------------------------------------------------
(* What the panel should show *)

(* A row of the outbox: the row it repairs, and the question it displays. *)
Row(kind, of, type, fixes, shows) ==
  [kind |-> kind, of |-> of, type |-> type, state |-> "pending", tried |-> FALSE,
   landed |-> FALSE, fixes |-> fixes, shows |-> shows]

(* conversation_finished: the input's reply is queued, whatever has become   *)
(* of it except a definite failure.                                          *)
conversation_finished(i) ==
  \E k \in 1..Len(rows) : rows[k].kind = "final" /\ rows[k].of = i

(* conversation_step_superseded: a newer input, or a newer row. *)
conversation_step_superseded(k) ==
  \/ known # rows[k].of
  \/ \E m \in (k + 1)..Len(rows) : rows[m].state # "off"

InterimFinished(k) ==
  \/ conversation_finished(rows[k].of)
  \/ turn[rows[k].of] = "over"
  \/ /\ rows[k].kind = "step"
     /\ (conversation_step_superseded(k) \/ Latest # rows[k].of)

(* _conversation_final_type with Core's committed state: a reply completes   *)
(* the session only if no input is open, and is not published at all once a  *)
(* newer input has been completed.                                           *)
FinalType(i) == IF Live THEN "thought" ELSE IF Latest # i THEN "none" ELSE "response"

(* conversation_question_candidates, question_publication_guard: rows that   *)
(* may display the question Core waits on, the repairs among them.           *)
Displays == {k \in 1..Len(rows) :
  rows[k].shows = question.row /\ rows[k].state # "off" /\ ~InterimFinished(k)}

(* _conversation_lifecycle_target: the open question, running work, or the   *)
(* completion.                                                               *)
Target(k) ==
  IF question.row # 0 /\ Displays # {} THEN "elicitation"
  ELSE IF rows[k].kind = "step" /\ ~InterimFinished(k) THEN "action"
  ELSE IF Live THEN "thought" ELSE "response"

(* Redisplaying a different question is a distinct effect. *)
SamePresentation(k) ==
  rows[k].type = Target(k) /\ (Target(k) = "elicitation" => rows[k].shows = question.row)

(* _queue_conversation_lifecycle_repair: one row for its original and what   *)
(* it presents.                                                              *)
Repair(k, type) ==
  IF type = "elicitation" THEN Row("repair", rows[question.row].of, type, k, question.row)
  ELSE Row("repair", rows[k].of, type, k, 0)

Queued(rs, fix) ==
  \E m \in 1..Len(rs) : rs[m].fixes = fix.fixes /\ rs[m].type = fix.type /\ rs[m].shows = fix.shows

(* It is sent at once, in the same hold of the issue's lock. *)
Repairs(rs, k, type) ==
  IF Queued(rs, Repair(k, type)) THEN rows' = rs /\ sender' = 0
  ELSE rows' = Append(rs, [Repair(k, type) EXCEPT !.tried = TRUE]) /\ sender' = Len(rs) + 1

(* _reconcile_conversation_lifecycle *)
Reconciles(rs, k) ==
  IF SamePresentation(k) THEN rows' = rs /\ sender' = 0 ELSE Repairs(rs, k, Target(k))

-----------------------------------------------------------------------------
(* The reply lock *)

(* A bug: a scheduled status is not looked at again once it has the lock. *)
CurrentAlways(p) == TRUE

Current(p) == p.kind = "step" => p.gen = steps.gen /\ ~steps.paused /\ p.of \notin steps.closed

TakesLock(p) ==
  /\ p \in posts /\ holder.at = "free" /\ Current(p)
  /\ posts' = posts \ {p} /\ holder' = [at |-> "queue", post |-> p]
  /\ UNCHANGED <<written, turn, question, retiring, known, steps, rows, sender, panel, left>>

Dropped(p) ==
  /\ p \in posts /\ holder.at = "free" /\ ~Current(p)
  /\ posts' = posts \ {p}
  /\ UNCHANGED <<written, turn, question, retiring, known, steps, holder, rows, sender, panel, left>>

Frees == holder' = [at |-> "free", post |-> NoPost]

(* Core withdraws a question it could not display. *)
Withdraws == question' = Nothing /\ resume_typing

(* _post_reply, queue_reply.  The row's first sending is under the lock too; *)
(* here the lock is free once the row is queued, which allows more.          *)
Enqueues ==
  /\ holder.at = "queue" /\ Frees
  /\ LET p == holder.post
         type == CASE p.kind = "step" -> "action" [] p.kind = "question" -> "elicitation"
                   [] p.kind = "final" -> "response" [] OTHER -> "thought"
     IN IF p.kind # "final" /\ conversation_finished(p.of)
        THEN /\ UNCHANGED rows
             /\ IF p.kind = "question" THEN Withdraws ELSE UNCHANGED <<question, steps>>
        ELSE /\ rows' = Append(rows, Row(p.kind, p.of, type, 0,
                                         IF p.kind = "question" THEN Len(rows) + 1 ELSE 0))
             /\ question' = IF p.kind = "question" THEN [question EXCEPT !.row = Len(rows) + 1] ELSE question
             /\ UNCHANGED steps
  /\ UNCHANGED <<written, turn, retiring, known, posts, sender, panel, left>>

-----------------------------------------------------------------------------
(* Sending, under the issue's lock *)

Interim(r) == r.kind \in {"step", "note", "question"}

Puts(k, r) == rows' = [rows EXCEPT ![k] = r]

(* Refused before transport: the turn is over, the status was superseded or  *)
(* Core no longer waits on the question.                                     *)
Refused(k) ==
  /\ sender = 0 /\ Open(rows[k]) /\ ~rows[k].tried /\ Interim(rows[k])
  /\ InterimFinished(k) \/ (rows[k].kind = "question" /\ question.row # k)
  /\ Puts(k, [rows[k] EXCEPT !.state = "off"])
  /\ IF question.row = k THEN Withdraws ELSE UNCHANGED <<question, steps>>
  /\ UNCHANGED <<written, turn, retiring, known, posts, holder, sender, panel, left>>

Admits(k) == sender' = k /\ UNCHANGED <<written, turn, question, retiring, known, steps, posts, holder, panel, left>>

SendsInterim(k) ==
  /\ sender = 0 /\ Open(rows[k]) /\ ~rows[k].tried /\ Interim(rows[k])
  /\ ~InterimFinished(k) /\ (rows[k].kind = "question" => question.row = k)
  /\ Puts(k, [rows[k] EXCEPT !.tried = TRUE]) /\ Admits(k)

(* An attempted reply keeps its bytes: it is sent again only as it was. *)
SendsReply(k) ==
  /\ sender = 0 /\ Open(rows[k]) /\ rows[k].kind = "final" /\ ~rows[k].landed
  /\ LET type == FinalType(rows[k].of) IN
       /\ type # "none" /\ (rows[k].tried => type = rows[k].type)
       /\ Puts(k, [rows[k] EXCEPT !.tried = TRUE, !.type = type]) /\ Admits(k)

ReplyObsolete(k) ==
  /\ sender = 0 /\ Open(rows[k]) /\ rows[k].kind = "final" /\ ~rows[k].tried
  /\ FinalType(rows[k].of) = "none" /\ Puts(k, [rows[k] EXCEPT !.state = "off"])
  /\ UNCHANGED <<written, turn, question, retiring, known, steps, posts, holder, sender, panel, left>>

SendsRepair(k) ==
  /\ sender = 0 /\ Open(rows[k]) /\ rows[k].kind = "repair" /\ ~rows[k].landed /\ SamePresentation(k)
  /\ (rows[k].tried => rows[k].type # "elicitation")
  /\ Puts(k, [rows[k] EXCEPT !.tried = TRUE]) /\ Admits(k)

(* What it was to restore has changed: the repair gives way to another. *)
RepairObsolete(k) ==
  /\ sender = 0 /\ Open(rows[k]) /\ rows[k].kind = "repair" /\ ~rows[k].tried /\ ~SamePresentation(k)
  /\ Reconciles([rows EXCEPT ![k].state = "off"], k)
  /\ UNCHANGED <<written, turn, question, retiring, known, steps, posts, holder, panel, left>>

(* Linear creates the activity: during the call, which then settles the row, *)
(* or after its timeout.                                                     *)
Shows(k) == panel' = [type |-> rows[k].type, row |-> k, admitted |-> IF InputsAdmitted = {} THEN 0 ELSE Latest]

Sent(k) == [rows EXCEPT ![k].state = "sent", ![k].landed = TRUE]

(* A bug: what was sent is not compared with the conversation again. *)
SettlesRowOnly(k) == rows' = Sent(k) /\ sender' = 0

SettlesRow(k) == Reconciles(Sent(k), k)

SendAnswered ==
  /\ sender # 0 /\ ~rows[sender].landed
  /\ SettlesRow(sender) /\ Shows(sender)
  /\ UNCHANGED <<written, turn, question, retiring, known, steps, posts, holder, left>>

CreatedLate(k) ==
  /\ Open(rows[k]) /\ rows[k].tried /\ ~rows[k].landed /\ sender # k
  /\ Puts(k, [rows[k] EXCEPT !.landed = TRUE]) /\ Shows(k)
  /\ UNCHANGED <<written, turn, question, retiring, known, steps, posts, holder, sender, left>>

Loses == left.lost > 0 /\ left' = [left EXCEPT !.lost = @ - 1]

SendTimesOut ==
  /\ sender # 0 /\ Loses /\ sender' = 0
  /\ UNCHANGED <<written, turn, question, retiring, known, steps, posts, holder, rows, panel>>

(* Linear's definite refusal: the row was not attempted.  A status or a note *)
(* is tried once only.                                                       *)
SendRejected ==
  /\ sender # 0 /\ Loses /\ sender' = 0
  /\ Puts(sender, [rows[sender] EXCEPT !.tried = FALSE,
                     !.state = IF rows[sender].kind \in {"step", "note"} THEN "off" ELSE @])
  /\ UNCHANGED <<written, turn, question, retiring, known, steps, posts, holder, panel>>

(* An attempted row is read back; only what landed settles it. *)
ReadsBack(k) ==
  /\ sender = 0 /\ Open(rows[k]) /\ rows[k].tried /\ rows[k].landed
  /\ SettlesRow(k)
  /\ UNCHANGED <<written, turn, question, retiring, known, steps, posts, holder, panel, left>>

(* Core's waiter ends without an answer: its time is over. *)
CoreGivesUp ==
  /\ question.row # 0 /\ CoreUnlocked
  /\ question' = Nothing /\ retiring' = retiring \cup {question.row}
  /\ UNCHANGED <<written, turn, known, steps, posts, holder, rows, sender, panel, left>>

(* retire_clarify_card: the repair is stored before live status may resume,  *)
(* and looked at again when it is sent.                                      *)
RetiresCard(q) ==
  /\ q \in retiring /\ sender = 0
  /\ retiring' = retiring \ {q}
  /\ IF question = Nothing THEN resume_typing ELSE UNCHANGED steps
  /\ LET shown == {k \in 1..Len(rows) : rows[k].shows = q /\ rows[k].tried}
         newest == {k \in shown : rows[k].state = "sent" /\ \A m \in shown : m <= k}
     IN rows' = IF \A k \in newest : Queued(rows, Repair(k, "thought")) THEN rows
                ELSE Append(rows, Repair(CHOOSE k \in newest : TRUE, "thought"))
  /\ UNCHANGED <<written, turn, question, known, posts, holder, sender, panel, left>>

ConversationNext ==
  \/ Writes \/ PersonAnswers \/ Enqueues \/ SendAnswered \/ SendTimesOut \/ SendRejected \/ CoreGivesUp
  \/ \E i \in Inputs : \/ CoreAdmits(i) \/ TurnStarts(i) \/ Anchored(i) \/ SendsTyping(i) \/ SendsNote(i)
                       \/ AsksQuestion(i) \/ TurnEnds(i) \/ SendsFinal(i)
  \/ \E p \in posts : TakesLock(p) \/ Dropped(p)
  \/ \E q \in retiring : RetiresCard(q)
  \/ \E k \in 1..Len(rows) : \/ Refused(k) \/ SendsInterim(k) \/ SendsReply(k) \/ ReplyObsolete(k)
                             \/ SendsRepair(k) \/ RepairObsolete(k) \/ CreatedLate(k) \/ ReadsBack(k)

ConversationSpec == ConversationInit /\ [][ConversationNext]_conversationVars

-----------------------------------------------------------------------------
Quiet == /\ posts = {} /\ retiring = {} /\ holder.at = "free" /\ sender = 0
         /\ \A k \in 1..Len(rows) : ~Open(rows[k])
         /\ \A i \in InputsAdmitted : turn[i] = "over" => i \in steps.closed

(* Once every row is settled the panel tells the truth, whatever landed late *)
(* or out of order: nothing of the agent's follows an open question, a session whose *)
(* inputs are all answered is complete, and one with an input still open has *)
(* not been completed by anything that landed after Core admitted it.        *)
PanelTrue == Quiet =>
  /\ question.row # 0 => panel.type \in {"elicitation", "prompt"}
  /\ InputsAdmitted = 1..written /\ written > 0 /\ ~Live => panel.type = "response"
  /\ Live /\ question = Nothing => /\ panel.type # "elicitation"
                                   /\ panel.type = "response" => panel.admitted < Latest

(* No live status is newly sent over a question that is on screen: it would  *)
(* show work where the session waits for the person.                         *)
StatusYields == sender # 0 => ~(rows[sender].kind = "step" /\ question.row # 0 /\ rows[question.row].landed
                                /\ ~rows[sender].landed)

\* The session's panel tells the truth, and no status hides an open question.
ConversationSound == ConversationTypeOK /\ PanelTrue /\ StatusYields
=============================================================================
