----------------------------- MODULE CacheMarks -----------------------------
(***************************************************************************)
(* plugins/claude-subscription-directsdk/admission.py: what the relay does   *)
(* to a request before it forwards it.  Native adds text of its own to the   *)
(* turn Hermes queried and puts cache marks on blocks the next request will  *)
(* not repeat; the relay restores Hermes' turn, drops what native put before *)
(* it, and moves the marks onto content that recurs.                         *)
(*                                                                           *)
(* A block's text is "host" as Hermes sent it, "longer" when native appended *)
(* to it, and "native" when native wrote it.                                 *)
(***************************************************************************)
EXTENDS Integers, Sequences, FiniteSets

CONSTANTS
  Conversations, \* message lists native may send, without marks
  Elsewhere,     \* numbers of marks on tools and system
  Lookback,      \* LOOKBACK
  MaxMarks       \* MAX_BREAKPOINTS

VARIABLES request, forwarded

marksVars == <<request, forwarded>>

-----------------------------------------------------------------------------

Plain(block) == [block EXCEPT !.mark = FALSE]
PlainAll(blocks) == [k \in DOMAIN blocks |-> Plain(blocks[k])]
Marked(blocks) == \E k \in DOMAIN blocks : blocks[k].mark
OnlyText(blocks) == \A k \in DOMAIN blocks : blocks[k].kind = "text"
Last(S) == CHOOSE x \in S : \A y \in S : y <= x
First(S) == CHOOSE x \in S : \A y \in S : x <= y

\* Positions of blocks, and their order in the request.
Positions(messages) ==
  UNION {{<<i, j>> : j \in DOMAIN messages[i].blocks} : i \in DOMAIN messages}
At(messages, p) == messages[p[1]].blocks[p[2]]
Before(p, q) == p[1] < q[1] \/ (p[1] = q[1] /\ p[2] < q[2])
Latest(P) == CHOOSE p \in P : \A q \in P : q = p \/ Before(q, p)
Earliest(P) == CHOOSE p \in P : \A q \in P : q = p \/ Before(p, q)
Marks(messages) == {p \in Positions(messages) : At(messages, p).mark}
SetMark(messages, p, on) == [messages EXCEPT ![p[1]].blocks[p[2]].mark = on]

\* The messages with these marks and no other.
Remark(block, on) == [kind |-> block.kind, text |-> block.text, mark |-> on]
Remarked(messages, M) ==
  [i \in DOMAIN messages |-> [role |-> messages[i].role,
     blocks |-> [j \in DOMAIN messages[i].blocks |-> Remark(messages[i].blocks[j], <<i, j>> \in M)]]]

Assistants(messages) == {i \in DOMAIN messages : messages[i].role = "assistant"}
LastAssistant(messages) == IF Assistants(messages) = {} THEN 0 ELSE Last(Assistants(messages))
Users(messages) == {i \in DOMAIN messages : messages[i].role = "user"}

\* The turn Hermes queried, which may have a system message of native's after it.
Turn(messages) == LastAssistant(messages) + 1

Blocks == [kind : {"text", "result", "thinking", "use"},
           text : {"host", "longer", "native"}, mark : BOOLEAN]
Messages == Seq([role : {"user", "assistant", "system"}, blocks : Seq(Blocks) \ {<<>>}])

\* A conversation ends with a user's turn.
Asked(messages) ==
  /\ messages \in Messages
  /\ Turn(messages) \in Users(messages)
  /\ \A i \in DOMAIN messages : i > Turn(messages) => messages[i].role = "system"

ASSUME MarksAssumption ==
  /\ \A m \in Conversations : Asked(m)
  /\ Elsewhere \subseteq Nat /\ Lookback \in Nat /\ MaxMarks \in Nat

-----------------------------------------------------------------------------
(* Native's text before and after the queried turn.                          *)

\* Drop plain text before the whole frame, found exactly once; a mark on it
\* moves to the frame.
DropBeforeFrame(blocks, queried) ==
  LET n == Len(queried)
      starts == {k \in 1..(Len(blocks) - n + 1) :
                   PlainAll(SubSeq(blocks, k, k + n - 1)) = queried}
      k == First(starts)
      kept == SubSeq(blocks, k, Len(blocks))
      dropped == SubSeq(blocks, 1, k - 1)
  IN IF Cardinality(starts) = 1 /\ k > 1 /\ OnlyText(dropped)
     THEN [kept EXCEPT ![1].mark = @ \/ Marked(dropped)]
     ELSE blocks

\* stable_request_context: on a later user turn that is not tool results only.
\* (The date line it moves between system messages is not modelled.)
StableContext(messages, queried) ==
  IF queried # <<>> /\ Assistants(messages) # {} /\ Users(messages) # {}
     /\ \E k \in DOMAIN queried : queried[k].kind # "result"
  THEN [messages EXCEPT ![Last(Users(messages))].blocks = DropBeforeFrame(@, queried)]
  ELSE messages

\* _frame_first: the same on the conversation's first turn.
FrameFirst(messages, queried) ==
  IF queried # <<>> /\ Assistants(messages) = {} /\ Users(messages) # {}
  THEN [messages EXCEPT ![First(Users(messages))].blocks = DropBeforeFrame(@, queried)]
  ELSE messages

\* restore_queried_turn: a turn with tool results gets Hermes' own form back
\* when native only appended: unmarked text after the frame, or text at the end
\* of its last block or of a result.  Otherwise it is forwarded as it is.
Restore(messages, queried) ==
  LET newest == Turn(messages)
      sent == messages[newest].blocks
      n == Len(queried)
      Same(k) == /\ sent[k].kind = queried[k].kind
                 /\ \/ sent[k].text = queried[k].text
                    \/ /\ sent[k].text = "longer"
                       /\ (sent[k].kind = "result" \/ (k = n /\ ~sent[k].mark))
  IN IF /\ \E k \in 1..n : queried[k].kind = "result"
        /\ newest <= Len(messages) /\ messages[newest].role = "user" /\ n <= Len(sent)
        /\ \A k \in 1..n : Same(k)
        /\ \A k \in (n + 1)..Len(sent) : sent[k].kind = "text" /\ ~sent[k].mark
     THEN [messages EXCEPT ![newest].blocks =
             [k \in 1..n |-> [queried[k] EXCEPT !.mark = sent[k].mark]]]
     ELSE messages

-----------------------------------------------------------------------------
(* pin_message_breakpoint.                                                   *)

\* Blocks the next request repeats: through the last assistant message, and the
\* leading blocks of the newest turn that are Hermes' own, unless a changed
\* tool result follows them.
Recurring(messages, queried) ==
  LET last == LastAssistant(messages)
      newest == IF last < Len(messages) THEN messages[last + 1] ELSE [role |-> "none", blocks |-> <<>>]
      same == {k \in 0..Len(queried) : /\ k <= Len(newest.blocks)
                                       /\ \A j \in 1..k : Plain(newest.blocks[j]) = queried[j]}
      prefix == IF newest.role = "user" THEN Last(same) ELSE 0
      changed == /\ prefix < Len(newest.blocks)
                 /\ newest.blocks[prefix + 1].kind = "result"
  IN {p \in Positions(messages) :
        p[1] <= last \/ (p[1] = last + 1 /\ p[2] <= prefix /\ ~changed)}

\* The last of them that can carry a mark.
Targets(messages, queried) ==
  {p \in Recurring(messages, queried) : At(messages, p).kind # "thinking"}

\* Marks after the target become one on the target.
Fold(messages, target) ==
  LET late == {p \in Marks(messages) : Before(target, p)}
  IN Remarked(messages, (Marks(messages) \ late) \cup {p \in {target} : late # {}})

OpensTurn(message) ==
  message.role = "user" /\ \E k \in DOMAIN message.blocks : message.blocks[k].kind # "result"

HasThinking(message) ==
  message.role = "assistant" /\ \E k \in DOMAIN message.blocks : message.blocks[k].kind = "thinking"

\* Mutant: the marks in use are not counted.
KeepTurnMarkAlways(messages, target, elsewhere) ==
  LET openings == {i \in 1..(LastAssistant(messages) - 1) : OpensTurn(messages[i])}
      place == <<Last(openings), Len(messages[Last(openings)].blocks)>>
  IN IF openings # {} /\ Before(place, target) THEN SetMark(messages, place, TRUE) ELSE messages

\* _keep_turn_mark: the block before the open turn's first thinking, when the
\* lookback from the target no longer reaches it, gets a mark of its own; with
\* every mark in use, one between it and the target moves there.
KeepTurnMark(messages, target, elsewhere) ==
  LET last == LastAssistant(messages)
      openings == {i \in 1..(last - 1) : OpensTurn(messages[i])}
      opening == Last(openings)
      thoughts == {i \in (opening + 1)..last : HasThinking(messages[i])}
      frames == {i \in Users(messages) : opening < i /\ i < First(thoughts)}
      frame == IF frames = {} THEN opening ELSE Last(frames)
      place == <<frame, Len(messages[frame].blocks)>>
      span == Cardinality({p \in Positions(messages) : frame <= p[1] /\ p[1] < target[1]})
      marks == Marks(messages)
      later == {p \in marks : Before(place, p)}
      spare == {p \in later : Before(p, target)}
  IN IF \/ openings = {} \/ thoughts = {}
        \/ At(messages, place).mark \/ ~Before(place, target)
        \/ span - place[2] + target[2] + 1 <= Lookback
        \/ later = {}
     THEN messages
     ELSE IF Cardinality(marks) + elsewhere < MaxMarks THEN SetMark(messages, place, TRUE)
     ELSE IF spare # {} /\ At(messages, target).mark
          THEN SetMark(SetMark(messages, Earliest(spare), FALSE), place, TRUE)
     ELSE messages

Pin(messages, queried, elsewhere) ==
  LET framed == FrameFirst(messages, queried)
      targets == Targets(framed, queried)
  IN IF queried = <<>> \/ targets = {} \/ Marks(framed) = {} THEN framed
     ELSE KeepTurnMark(Fold(framed, Latest(targets)), Latest(targets), elsewhere)

Rewrite(r) ==
  Pin(StableContext(Restore(r.messages, r.queried), r.queried), r.queried, r.elsewhere)

-----------------------------------------------------------------------------

NotYet == <<>>

\* Hermes' own blocks of its turn, as it queried them, in order.
Own(blocks) == {k \in DOMAIN blocks : blocks[k].text # "native"}
Nth(S, n) == CHOOSE k \in S : Cardinality({j \in S : j <= k}) = n
Queried(messages) ==
  LET blocks == messages[Turn(messages)].blocks
  IN [n \in 1..Cardinality(Own(blocks)) |->
        [kind |-> blocks[Nth(Own(blocks), n)].kind, text |-> "host", mark |-> FALSE]]

MarksTypeOK ==
  /\ request.queried = Queried(request.messages)
  /\ forwarded # NotYet => DOMAIN forwarded = DOMAIN request.messages

\* One or two marks on the messages.
MarksInit ==
  /\ \E m \in Conversations, e \in Elsewhere : \E p, q \in Positions(m) :
       request = [messages |-> SetMark(SetMark(m, p, TRUE), q, TRUE),
                  queried |-> Queried(m), elsewhere |-> e]
  /\ forwarded = NotYet

\* No request of this kind at all.
MarksIdle == request = NotYet /\ forwarded = NotYet

Forward == forwarded = NotYet /\ forwarded' = Rewrite(request) /\ UNCHANGED request

\* The next request of the conversation, or of another.
Another == forwarded # NotYet /\ forwarded' = NotYet /\ UNCHANGED request

MarksNext == Forward \/ Another

MarksSpec == MarksInit /\ [][MarksNext]_marksVars

-----------------------------------------------------------------------------

\* The relay keeps within the API's limit when native did, and adds at most one
\* mark.
MarksCounted ==
  LET before == Cardinality(Marks(request.messages))
      after == Cardinality(Marks(forwarded))
  IN /\ after <= before + 1
     /\ before + request.elsewhere <= MaxMarks => after + request.elsewhere <= MaxMarks

\* It leaves no message mark after the last block that recurs.
MarksRecur ==
  LET targets == Targets(forwarded, request.queried)
  IN request.queried # <<>> /\ targets # {}
       => \A p \in Marks(forwarded) : ~Before(Latest(targets), p)

\* Text of native's own is dropped from the front, and nothing else is touched.
Trimmed(old, new) ==
  \E d \in 0..(Len(old) - 1) :
    /\ \A k \in 1..d : old[k].text = "native"
    /\ PlainAll(new) = PlainAll(SubSeq(old, d + 1, Len(old)))

\* It never touches what Hermes or the model said: the queried turn loses native's
\* text before it or gets Hermes' own form back, the other messages are the same.
SpeechKept ==
  \A i \in DOMAIN forwarded :
    LET old == request.messages[i] new == forwarded[i]
    IN /\ new.role = old.role
       /\ \/ PlainAll(new.blocks) = PlainAll(old.blocks)
          \/ /\ i = Turn(request.messages)
             /\ Trimmed(old.blocks, new.blocks) \/ PlainAll(new.blocks) = request.queried

\* What the relay makes of a request is the request as Hermes meant it, marked
\* where the next one can use it.
MarksSound == forwarded # NotYet => MarksCounted /\ MarksRecur /\ SpeechKept
=============================================================================
