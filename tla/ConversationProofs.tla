------------------------- MODULE ConversationProofs -------------------------
(***************************************************************************)
(* What an Agent Session's panel shows, for any number of inputs and any     *)
(* budget of posts, questions and lost answers: ConversationSound is an      *)
(* invariant of Conversation.                                                *)
(*                                                                         *)
(* The invariant is PanelFine: once the newest activity is settled and no    *)
(* repair is still to be created, the activity is the open question's card   *)
(* if that card has landed, a completion only while nothing has been         *)
(* admitted after it, and the completion if everything is answered.  It      *)
(* becomes true when a row is settled and compared with the conversation,    *)
(* and stays true because whatever changes the target afterwards either      *)
(* stores a repair or shows something newer.  The other parts say what that  *)
(* rests on: the order of Core's turns, what waits for the reply lock, what  *)
(* each row says of the rows it repairs and the question it shows.           *)
(***************************************************************************)
EXTENDS Conversation, WellFoundedInduction, TLAPS

-----------------------------------------------------------------------------
(* The values                                                                *)

Turns == [Inputs -> {"none", "queued", "live", "over"}]
Posting == [kind : {"step", "note", "question", "final"}, of : Inputs, gen : Nat]
Holders == [at : {"free", "queue"}, post : Posting \cup {NoPost}]
Kept == [kind : {"step", "note", "question", "final", "repair"}, of : Inputs,
         type : {"action", "thought", "elicitation", "response"},
         state : {"pending", "sent", "off"}, tried : BOOLEAN, landed : BOOLEAN,
         fixes : Nat, shows : Nat]
Panels == [type : {"prompt", "action", "thought", "elicitation", "response"}, row : Nat,
           admitted : 0..MaxInputs]

Statuses == [gen : Nat, paused : BOOLEAN, closed : SUBSET Inputs]

Typed ==
  /\ written \in 0..MaxInputs
  /\ turn \in Turns
  /\ question \in [row : Nat, turn : 0..MaxInputs]
  /\ known \in 0..MaxInputs
  /\ steps \in Statuses
  /\ posts \subseteq Posting
  /\ holder \in Holders
  /\ rows \in Seq(Kept)
  /\ sender \in 0..Len(rows)
  /\ retiring \subseteq 1..Len(rows)
  /\ panel \in Panels
  /\ left \in [posts : Nat, asks : Nat, lost : Nat]

(* Something was admitted after this input. *)
Followed(i, tn) == \E j \in Inputs : j > i /\ tn[j] # "none"

(* Core admits and runs the inputs in order, and waits on a question of the  *)
(* turn that runs.                                                           *)
TurnsFine ==
  /\ \A i \in Inputs : turn[i] # "none" => (i <= written /\ \A j \in 1..(i - 1) : turn[j] # "none")
  /\ \A i \in Inputs : turn[i] \in {"live", "over"} => \A j \in 1..(i - 1) : turn[j] = "over"
  /\ known # 0 => turn[known] # "none"
  /\ question = Nothing \/ (question.turn \in Inputs /\ turn[question.turn] = "live")

(* What waits for the reply lock, or holds it. *)
PostFine(p, tn, kn, q) ==
  /\ tn[p.of] # "none"
  /\ p.kind = "final" => tn[p.of] = "over"
  /\ p.kind = "question" => (q.row = 0 /\ q # Nothing /\ p.of <= kn)

Promised(i, ps, h) == \E p \in ps \cup {h.post} : p.kind = "final" /\ p.of = i
Finished(i, rs) == \E k \in 1..Len(rs) : rs[k].kind = "final" /\ rs[k].of = i

PostsFine ==
  /\ holder.at = "free" <=> holder.post = NoPost
  /\ \A p \in posts : PostFine(p, turn, known, question)
  /\ holder.at = "queue" => PostFine(holder.post, turn, known, question)
  /\ \A p \in posts : p.kind = "question" =>
       (holder.post.kind # "question" /\ \A o \in posts : o.kind = "question" => o = p)
  /\ \A p \in posts : p.kind = "step" => p.gen <= steps.gen
  /\ \A i \in steps.closed : Promised(i, posts, holder) \/ Finished(i, rows)

(* A row by itself, and with the rows it names. *)
RowFine(k, r, tn) ==
  /\ tn[r.of] # "none"
  /\ r.landed => r.tried
  /\ r.state = "off" => ~r.tried
  /\ r.state = "sent" => r.landed
  /\ (r.type = "elicitation") <=> (r.shows # 0)
  /\ r.kind = "question" => r.shows = k
  /\ r.kind \in {"step", "note"} => r.shows = 0
  /\ r.kind = "final" => /\ tn[r.of] = "over" /\ r.shows = 0
                         /\ (r.state = "off" \/ r.type # "response") => Followed(r.of, tn)
  /\ r.fixes # 0 => r.kind = "repair"

Linked(k, rs) ==
  /\ rs[k].fixes # 0 => (rs[k].fixes < k /\ ~Open(rs[rs[k].fixes]))
  /\ rs[k].shows # 0 => /\ rs[k].shows <= k /\ rs[rs[k].shows].kind = "question"
                        /\ rs[rs[k].shows].of = rs[k].of

RowsFine(rs, tn) == \A k \in 1..Len(rs) : RowFine(k, rs[k], tn) /\ Linked(k, rs)

SenderFine(s, rs, asked) == s # 0 =>
  /\ Open(rs[s]) /\ rs[s].tried /\ ~rs[s].landed
  /\ rs[s].type = "elicitation" => rs[s].shows = asked
  /\ (rs[s].kind = "step" /\ asked # 0) => ~rs[asked].tried

(* No card of the question has been replaced by anything but a card. *)
OnlyCards(q, rs) ==
  \A m \in 1..Len(rs) : (rs[m].fixes # 0 /\ rs[rs[m].fixes].shows = q) => rs[m].type = "elicitation"

(* The row of the question Core waits on.  If it may be shown at all, its    *)
(* source is not over, and no live status comes after it.                    *)
AskedFine(q, rs, kn, h) == q.row # 0 =>
  /\ q.row \in 1..Len(rs) /\ rs[q.row].kind = "question" /\ rs[q.row].state # "off"
  /\ rs[q.row].of <= kn
  /\ (rs[q.row].tried \/ \E k \in 1..Len(rs) : k # q.row /\ rs[k].shows = q.row) => rs[q.row].of >= q.turn
  /\ rs[q.row].of >= q.turn => /\ h.post.kind # "step"
                               /\ \A k \in 1..Len(rs) : rs[k].kind = "step" => k < q.row
  /\ OnlyCards(q.row, rs)

(* While Core waits, no live status is current, unless the question's source *)
(* is over and it will never be shown.                                       *)
YieldFine == question # Nothing =>
  \/ /\ steps.paused \/ known > question.turn
     /\ \A p \in posts : p.kind = "step" => p.gen < steps.gen
  \/ /\ \A p \in posts : p.kind = "question" => p.of < question.turn
     /\ holder.post.kind = "question" => holder.post.of < question.turn
     /\ question.row # 0 => rows[question.row].of < question.turn

LiveIn(tn) == \E i \in Inputs : tn[i] \in {"queued", "live"}

(* Everything the person wrote is answered, and the last answer has landed. *)
Answered(tn, wr, rs) ==
  /\ ~LiveIn(tn) /\ wr # 0 /\ \A i \in 1..wr : tn[i] # "none"
  /\ \E k \in 1..Len(rs) : rs[k].kind = "final" /\ rs[k].of = wr /\ rs[k].landed

(* The newest activity is settled and no repair is still to be created. *)
Still(p, rs) ==
  /\ p.row # 0 /\ ~Open(rs[p.row])
  /\ \A k \in 1..Len(rs) : rs[k].fixes # 0 => (~Open(rs[k]) \/ rs[k].landed)

CardStands(s, asked, ret, rs) ==
  \/ s = asked
  \/ s \in ret /\ OnlyCards(s, rs)
  \/ \E m \in 1..Len(rs) : Open(rs[m]) /\ rs[m].tried /\ rs[m].shows = s

ShowsTruth(p, asked, ret, rs, tn, wr) ==
  /\ (asked # 0 /\ rs[asked].landed) => (p.type = "elicitation" /\ rs[p.row].shows = asked)
  /\ p.type = "elicitation" => CardStands(rs[p.row].shows, asked, ret, rs)
  /\ p.type = "response" => (~LiveIn(tn) \/ Followed(p.admitted, tn))
  /\ Answered(tn, wr, rs) => p.type = "response"

PanelFine(p, asked, ret, rs, tn, wr) ==
  /\ p.row = 0 => p.type = "prompt"
  /\ p.row # 0 => p.row \in 1..Len(rs) /\ rs[p.row].landed /\ p.type = rs[p.row].type
  /\ p.admitted # 0 => tn[p.admitted] # "none"
  /\ Answered(tn, wr, rs) => p.row # 0
  /\ Still(p, rs) => ShowsTruth(p, asked, ret, rs, tn, wr)

ConversationInv ==
  /\ Typed /\ TurnsFine /\ PostsFine /\ RowsFine(rows, turn)
  /\ SenderFine(sender, rows, question.row) /\ AskedFine(question, rows, known, holder)
  /\ question.row \notin retiring /\ YieldFine
  /\ PanelFine(panel, question.row, retiring, rows, turn, written)

-----------------------------------------------------------------------------
(* Rows                                                                      *)

SameRow(r, s) == r.kind = s.kind /\ r.of = s.of /\ r.fixes = s.fixes /\ r.shows = s.shows

Extends(z, rs) == Len(z) >= Len(rs) /\ \A k \in 1..Len(rs) : SameRow(z[k], rs[k])

LEMMA FieldsTyped ==
  ASSUME NEW rs \in Seq(Kept), NEW k \in 1..Len(rs)
  PROVE  /\ rs[k] \in Kept /\ rs[k].of \in Inputs /\ rs[k].fixes \in Nat /\ rs[k].shows \in Nat
         /\ rs[k].tried \in BOOLEAN /\ rs[k].landed \in BOOLEAN
         /\ rs[k].state \in {"pending", "sent", "off"}
<1>1. rs[k] \in Kept
  OBVIOUS
<1> QED BY <1>1 DEF Kept

\* A row that keeps its kind, its input, what it repairs and what it shows may change.
Changeable(k, r, rs, tn) ==
  /\ k \in 1..Len(rs) /\ r \in Kept /\ SameRow(r, rs[k]) /\ (Open(r) => Open(rs[k]))
  /\ RowFine(k, r, tn)

Changed(z, k, r, rs) ==
  /\ z \in Seq(Kept) /\ Len(z) = Len(rs) /\ z[k] = r
  /\ \A m \in 1..Len(rs) : m # k => z[m] = rs[m]
  /\ Extends(z, rs)

LEMMA RowChanges ==
  ASSUME NEW rs, NEW tn, NEW k, NEW r, NEW z, rs \in Seq(Kept), RowsFine(rs, tn),
         Changeable(k, r, rs, tn), z = [rs EXCEPT ![k] = r]
  PROVE  Changed(z, k, r, rs) /\ RowsFine(z, tn)
<1> USE DEF Changeable
<1>1. /\ z \in Seq(Kept) /\ Len(z) = Len(rs) /\ z[k] = r
      /\ \A m \in 1..Len(rs) : m # k => z[m] = rs[m]
  OBVIOUS
<1>2. ASSUME NEW m \in 1..Len(z) PROVE RowFine(m, z[m], tn)
  BY <1>1, <1>2 DEF RowsFine
<1>3. \A m \in 1..Len(rs) : SameRow(z[m], rs[m]) /\ (Open(z[m]) => Open(rs[m]))
  BY <1>1 DEF SameRow
<1>4. ASSUME NEW m \in 1..Len(z) PROVE Linked(m, z)
  <2>1. Linked(m, rs) /\ m \in 1..Len(rs)
    BY <1>1 DEF RowsFine
  <2>2. rs[m].fixes \in Nat /\ rs[m].shows \in Nat
    BY <2>1, FieldsTyped
  <2>3. CASE rs[m].fixes # 0
    <3>1. rs[m].fixes \in 1..Len(rs)
      BY <2>1, <2>2, <2>3 DEF Linked
    <3> QED BY <2>1, <2>2, <1>3, <3>1 DEF Linked, SameRow
  <2>4. CASE rs[m].fixes = 0
    BY <2>1, <2>2, <2>4, <1>3 DEF Linked, SameRow
  <2> QED BY <2>3, <2>4
<1>5. Extends(z, rs)
  BY <1>1, <1>3 DEF Extends
<1>6. RowsFine(z, tn)
  BY <1>2, <1>4 DEF RowsFine
<1> QED BY <1>1, <1>5, <1>6 DEF Changed

\* A row may be added that repairs a settled row and shows a question that has a row, or itself.
Addable(r, rs, tn) ==
  /\ r \in Kept /\ RowFine(Len(rs) + 1, r, tn)
  /\ r.fixes # 0 => (r.fixes \in 1..Len(rs) /\ ~Open(rs[r.fixes]))
  /\ r.shows # 0 => \/ r.shows = Len(rs) + 1 /\ r.kind = "question"
                    \/ /\ r.shows \in 1..Len(rs) /\ rs[r.shows].kind = "question"
                       /\ rs[r.shows].of = r.of

Added(z, r, rs) ==
  /\ z \in Seq(Kept) /\ Len(z) = Len(rs) + 1 /\ z[Len(rs) + 1] = r
  /\ \A m \in 1..Len(rs) : z[m] = rs[m]
  /\ Extends(z, rs)

LEMMA RowAdded ==
  ASSUME NEW rs, NEW tn, NEW r, NEW z, rs \in Seq(Kept), RowsFine(rs, tn), Addable(r, rs, tn),
         z = Append(rs, r)
  PROVE  Added(z, r, rs) /\ RowsFine(z, tn)
<1> USE DEF Addable
<1>1. /\ z \in Seq(Kept) /\ Len(z) = Len(rs) + 1 /\ z[Len(rs) + 1] = r
      /\ \A m \in 1..Len(rs) : z[m] = rs[m]
  OBVIOUS
<1>2. ASSUME NEW m \in 1..Len(z) PROVE RowFine(m, z[m], tn)
  BY <1>1, <1>2 DEF RowsFine
<1>3. ASSUME NEW m \in 1..Len(z) PROVE Linked(m, z)
  <2>1. CASE m \in 1..Len(rs)
    <3>1. Linked(m, rs) /\ z[m] = rs[m]
      BY <1>1, <2>1 DEF RowsFine
    <3>2. rs[m].fixes \in Nat /\ rs[m].shows \in Nat
      BY <2>1, FieldsTyped
    <3>3. rs[m].fixes # 0 => z[rs[m].fixes] = rs[rs[m].fixes]
      BY <3>1, <3>2, <1>1, <2>1 DEF Linked
    <3>4. rs[m].shows # 0 => z[rs[m].shows] = rs[rs[m].shows]
      BY <3>1, <3>2, <1>1, <2>1 DEF Linked
    <3> QED BY <3>1, <3>3, <3>4 DEF Linked
  <2>2. CASE m = Len(rs) + 1
    BY <1>1, <2>2 DEF Linked
  <2> QED BY <1>1, <2>1, <2>2
<1> QED BY <1>2, <1>3, <1>1 DEF RowsFine, Added, Extends, SameRow

\* The rows stay what they are when Core's turns move on.
LEMMA RowsOutlast ==
  ASSUME NEW rs \in Seq(Kept), NEW tn, NEW to, RowsFine(rs, tn),
         \A i \in Inputs : /\ tn[i] # "none" => to[i] # "none"
                           /\ tn[i] = "over" => to[i] = "over"
  PROVE  RowsFine(rs, to)
<1>1. ASSUME NEW k \in 1..Len(rs) PROVE RowFine(k, rs[k], to) /\ Linked(k, rs)
  <2>1. RowFine(k, rs[k], tn) /\ Linked(k, rs) /\ rs[k].of \in Inputs
    BY FieldsTyped DEF RowsFine
  <2>2. Followed(rs[k].of, tn) => Followed(rs[k].of, to)
    BY DEF Followed
  <2> QED BY <2>1, <2>2 DEF RowFine
<1> QED BY <1>1 DEF RowsFine

-----------------------------------------------------------------------------
(* The person and Core                                                       *)

\* A new message is on screen and is not admitted yet.
LEMMA WritesKeeps ==
  ASSUME ConversationInv, Writes
  PROVE  ConversationInv'
<1>1. /\ written < MaxInputs /\ written' = written + 1
      /\ panel' = [type |-> "prompt", row |-> 0, admitted |-> 0]
      /\ UNCHANGED <<turn, question, retiring, known, steps, posts, holder, rows, sender, left>>
  BY DEF Writes
<1>2. Typed'
  BY <1>1, ConversationAssumption DEF ConversationInv, Typed, Panels, ConversationAssumption
<1>3. TurnsFine'
  BY <1>1 DEF ConversationInv, Typed, TurnsFine, Inputs
<1>4. PostsFine' /\ YieldFine'
  BY <1>1 DEF ConversationInv, PostsFine, YieldFine
<1>5. /\ RowsFine(rows, turn)' /\ SenderFine(sender, rows, question.row)'
      /\ AskedFine(question, rows, known, holder)' /\ question'.row \notin retiring'
  BY <1>1 DEF ConversationInv
<1>6. ~Answered(turn', written', rows')
  BY <1>1, <1>2 DEF ConversationInv, Typed, TurnsFine, Answered, Inputs
<1>7. PanelFine(panel, question.row, retiring, rows, turn, written)'
  BY <1>1, <1>6 DEF PanelFine, Still
<1> QED BY <1>2, <1>3, <1>4, <1>5, <1>7 DEF ConversationInv

\* Whatever is shown already, something is admitted after it.
LEMMA AdmitsKeeps ==
  ASSUME ConversationInv, NEW i \in Inputs, CoreAdmits(i)
  PROVE  ConversationInv'
<1>1. /\ i <= written /\ turn[i] = "none" /\ \A j \in 1..(i - 1) : turn[j] # "none"
      /\ turn' = [turn EXCEPT ![i] = "queued"]
      /\ UNCHANGED <<written, question, retiring, known, steps, posts, holder, rows, sender, panel, left>>
  BY DEF CoreAdmits
<1>2. Typed'
  BY <1>1 DEF ConversationInv, Typed, Turns
<1>3. /\ turn'[i] = "queued" /\ \A j \in Inputs : j # i => turn'[j] = turn[j]
      /\ \A j \in Inputs : /\ turn[j] # "none" => turn'[j] # "none"
                           /\ turn[j] = "over" => turn'[j] = "over"
  BY <1>1 DEF ConversationInv, Typed, Turns
<1>4. TurnsFine'
  BY <1>1, <1>3 DEF ConversationInv, Typed, TurnsFine, Inputs, Nothing
<1>5. PostsFine' /\ YieldFine'
  BY <1>1, <1>3 DEF ConversationInv, Typed, PostsFine, PostFine, YieldFine, Posting, Holders
<1>6. /\ RowsFine(rows, turn)' /\ SenderFine(sender, rows, question.row)'
      /\ AskedFine(question, rows, known, holder)' /\ question'.row \notin retiring'
  <2>1. rows \in Seq(Kept) /\ RowsFine(rows, turn)
    BY DEF ConversationInv, Typed
  <2>2. RowsFine(rows, turn')
    BY <1>3, <2>1, RowsOutlast
  <2> QED BY <1>1, <2>2 DEF ConversationInv
<1>7. LiveIn(turn')
  BY <1>3 DEF LiveIn
<1>8. Followed(panel.admitted, turn')
  BY <1>1, <1>3 DEF ConversationInv, Typed, TurnsFine, PanelFine, Followed, Inputs, Panels
<1>9. PanelFine(panel, question.row, retiring, rows, turn, written)'
  <2>1. /\ panel.row = 0 => panel.type = "prompt"
        /\ panel.row # 0 => panel.row \in 1..Len(rows) /\ rows[panel.row].landed
                              /\ panel.type = rows[panel.row].type
        /\ panel.admitted # 0 => turn'[panel.admitted] # "none"
        /\ Still(panel, rows) => ShowsTruth(panel, question.row, retiring, rows, turn, written)
    BY <1>3 DEF ConversationInv, Typed, PanelFine, Panels, Inputs
  <2>2. ~Answered(turn', written', rows')
    BY <1>7 DEF Answered
  <2> QED BY <1>1, <1>8, <2>1, <2>2 DEF PanelFine, ShowsTruth
<1> QED BY <1>2, <1>4, <1>5, <1>6, <1>9 DEF ConversationInv

\* A turn that is live was queued.
LEMMA StartsKeeps ==
  ASSUME ConversationInv, NEW i \in Inputs, TurnStarts(i)
  PROVE  ConversationInv'
<1>1. /\ turn[i] = "queued" /\ \A j \in 1..(i - 1) : turn[j] = "over"
      /\ turn' = [turn EXCEPT ![i] = "live"]
      /\ UNCHANGED <<written, question, retiring, known, steps, posts, holder, rows, sender, panel, left>>
  BY DEF TurnStarts
<1>2. Typed'
  BY <1>1 DEF ConversationInv, Typed, Turns
<1>3. /\ turn'[i] = "live" /\ \A j \in Inputs : j # i => turn'[j] = turn[j]
      /\ \A j \in Inputs : /\ turn[j] # "none" <=> turn'[j] # "none"
                           /\ turn[j] = "over" <=> turn'[j] = "over"
  BY <1>1 DEF ConversationInv, Typed, Turns
<1>4. TurnsFine'
  BY <1>1, <1>3 DEF ConversationInv, Typed, TurnsFine, Inputs, Nothing
<1>5. PostsFine' /\ YieldFine'
  BY <1>1, <1>3 DEF ConversationInv, Typed, PostsFine, PostFine, YieldFine, Posting, Holders
<1>6. /\ RowsFine(rows, turn)' /\ SenderFine(sender, rows, question.row)'
      /\ AskedFine(question, rows, known, holder)' /\ question'.row \notin retiring'
  <2>1. rows \in Seq(Kept) /\ RowsFine(rows, turn)
    BY DEF ConversationInv, Typed
  <2>2. RowsFine(rows, turn')
    BY <1>3, <2>1, RowsOutlast
  <2> QED BY <1>1, <2>2 DEF ConversationInv
<1>7. LiveIn(turn') /\ LiveIn(turn)
  BY <1>1, <1>3 DEF LiveIn
<1>8. ~Answered(turn', written', rows')
  BY <1>7 DEF Answered
<1>9. Followed(panel.admitted, turn) => Followed(panel.admitted, turn')
  BY <1>3 DEF Followed
<1>10. panel.admitted # 0 => panel.admitted \in Inputs
  BY DEF ConversationInv, Typed, Panels, Inputs
<1>11. PanelFine(panel, question.row, retiring, rows, turn, written)'
  BY <1>1, <1>3, <1>7, <1>8, <1>9, <1>10 DEF ConversationInv, PanelFine, ShowsTruth
<1> QED BY <1>2, <1>4, <1>5, <1>6, <1>11 DEF ConversationInv

\* A turn that ends has not been answered yet, and Core waits on no question of it.
LEMMA EndsKeeps ==
  ASSUME ConversationInv, NEW i \in Inputs, TurnEnds(i)
  PROVE  ConversationInv'
<1>1. /\ turn[i] = "live" /\ question.turn # i /\ turn' = [turn EXCEPT ![i] = "over"]
      /\ UNCHANGED <<written, question, retiring, known, steps, posts, holder, rows, sender, panel, left>>
  BY DEF TurnEnds
<1>2. Typed'
  BY <1>1 DEF ConversationInv, Typed, Turns
<1>3. /\ turn'[i] = "over" /\ \A j \in Inputs : j # i => turn'[j] = turn[j]
      /\ \A j \in Inputs : /\ turn[j] # "none" <=> turn'[j] # "none"
                           /\ turn[j] = "over" => turn'[j] = "over"
  BY <1>1 DEF ConversationInv, Typed, Turns
<1>4. TurnsFine'
  BY <1>1, <1>3 DEF ConversationInv, Typed, TurnsFine, Inputs, Nothing
<1>5. PostsFine' /\ YieldFine'
  BY <1>1, <1>3 DEF ConversationInv, Typed, PostsFine, PostFine, YieldFine, Posting, Holders
<1>6. /\ RowsFine(rows, turn)' /\ SenderFine(sender, rows, question.row)'
      /\ AskedFine(question, rows, known, holder)' /\ question'.row \notin retiring'
  <2>1. rows \in Seq(Kept) /\ RowsFine(rows, turn)
    BY DEF ConversationInv, Typed
  <2>2. RowsFine(rows, turn')
    BY <1>3, <2>1, RowsOutlast
  <2> QED BY <1>1, <2>2 DEF ConversationInv
<1>7. ~Answered(turn', written', rows')
  <2>1. SUFFICES ASSUME Answered(turn', written', rows') PROVE FALSE
    OBVIOUS
  <2>2. PICK k \in 1..Len(rows) : rows[k].kind = "final" /\ rows[k].of = written
    BY <1>1, <2>1 DEF Answered
  <2>3. turn[written] = "over" /\ written \in Inputs
    BY <2>2, FieldsTyped DEF ConversationInv, Typed, RowsFine, RowFine
  <2>4. i <= written
    BY <1>1 DEF ConversationInv, TurnsFine
  <2> QED BY <1>1, <2>3, <2>4 DEF ConversationInv, TurnsFine, Inputs
<1>8. /\ Followed(panel.admitted, turn) => Followed(panel.admitted, turn')
      /\ ~LiveIn(turn) => ~LiveIn(turn')
  BY <1>1, <1>3 DEF Followed, LiveIn
<1>9. panel.admitted # 0 => panel.admitted \in Inputs
  BY DEF ConversationInv, Typed, Panels, Inputs
<1>10. PanelFine(panel, question.row, retiring, rows, turn, written)'
  BY <1>1, <1>3, <1>7, <1>8, <1>9 DEF ConversationInv, PanelFine, ShowsTruth
<1> QED BY <1>2, <1>4, <1>5, <1>6, <1>10 DEF ConversationInv

\* A newer input is on record: what was current status is not.
LEMMA AnchoredKeeps ==
  ASSUME ConversationInv, NEW i \in Inputs, Anchored(i)
  PROVE  ConversationInv'
<1>1. /\ turn[i] # "none" /\ i > known /\ known' = i
      /\ steps' = [steps EXCEPT !.gen = @ + 1, !.paused = FALSE]
      /\ UNCHANGED <<written, turn, question, retiring, posts, holder, rows, sender, panel, left>>
  BY DEF Anchored
<1>2. /\ steps' \in Statuses /\ steps.gen \in Nat
      /\ steps'.gen = steps.gen + 1 /\ steps'.closed = steps.closed /\ ~steps'.paused
  <2>1. steps \in Statuses
    BY DEF ConversationInv, Typed
  <2>2. steps.gen + 1 \in Nat /\ steps.gen \in Nat /\ steps.closed \in SUBSET Inputs
    BY <2>1 DEF Statuses
  <2>3. steps' = [gen |-> steps.gen + 1, paused |-> FALSE, closed |-> steps.closed]
    BY <1>1, <2>1 DEF Statuses
  <2> QED BY <2>2, <2>3 DEF Statuses
<1>3. Typed'
  BY <1>1, <1>2 DEF ConversationInv, Typed, Inputs
<1>4. TurnsFine'
  BY <1>1 DEF ConversationInv, TurnsFine
<1>5. \A p \in posts : p.of \in Inputs /\ p.gen \in Nat
  BY DEF ConversationInv, Typed, Posting
<1>6. known \in Nat /\ i \in Nat
  BY DEF ConversationInv, Typed, Inputs
<1>7. PostsFine'
  <2>1. ASSUME NEW p, p.of \in Inputs, PostFine(p, turn, known, question)
        PROVE  PostFine(p, turn, known', question)
    BY <1>1, <1>6, <2>1 DEF PostFine, Inputs
  <2>2. holder.at = "queue" => holder.post.of \in Inputs
    BY DEF ConversationInv, Typed, PostsFine, Holders, Posting
  <2>3. /\ \A p \in posts : PostFine(p, turn, known', question)
        /\ holder.at = "queue" => PostFine(holder.post, turn, known', question)
    BY <1>5, <2>1, <2>2 DEF ConversationInv, PostsFine
  <2>4. \A p \in posts : p.kind = "step" => p.gen <= steps'.gen
    BY <1>2, <1>5 DEF ConversationInv, PostsFine
  <2> QED BY <1>1, <1>2, <2>3, <2>4 DEF ConversationInv, PostsFine
<1>8. YieldFine'
  <2>1. SUFFICES ASSUME question # Nothing PROVE YieldFine'
    BY <1>1 DEF YieldFine
  <2>2. \A p \in posts : p.kind = "step" => p.gen < steps'.gen
    BY <1>2, <1>5 DEF ConversationInv, PostsFine
  <2>3. question.turn \in Nat
    BY DEF ConversationInv, Typed
  <2>4. CASE i > question.turn
    BY <1>1, <2>2, <2>4 DEF YieldFine
  <2>5. CASE i <= question.turn
    <3>1. known < question.turn
      BY <1>1, <1>6, <2>3, <2>5
    <3>2. \A p \in posts : p.kind = "question" => p.of < question.turn
      BY <1>5, <1>6, <2>3, <3>1 DEF ConversationInv, PostsFine, PostFine, Inputs
    <3>3. holder.post.kind = "question" => holder.post.of < question.turn
      BY <1>6, <2>3, <3>1 DEF ConversationInv, Typed, PostsFine, PostFine, Inputs, Holders, Posting, NoPost
    <3>4. question.row # 0 => rows[question.row].of < question.turn
      BY <1>6, <2>3, <3>1, FieldsTyped DEF ConversationInv, Typed, AskedFine, Inputs
    <3> QED BY <1>1, <3>2, <3>3, <3>4 DEF YieldFine
  <2> QED BY <1>6, <2>3, <2>4, <2>5
<1>9. AskedFine(question, rows, known, holder)'
  <2>1. SUFFICES ASSUME question.row # 0 PROVE AskedFine(question, rows, known', holder)
    BY <1>1 DEF AskedFine
  <2>2. rows[question.row].of \in Nat
    BY <2>1, FieldsTyped DEF ConversationInv, Typed, AskedFine, Inputs
  <2> QED BY <1>1, <1>6, <2>2 DEF ConversationInv, AskedFine
<1>10. /\ RowsFine(rows, turn)' /\ SenderFine(sender, rows, question.row)' /\ question'.row \notin retiring'
       /\ PanelFine(panel, question.row, retiring, rows, turn, written)'
  BY <1>1 DEF ConversationInv
<1> QED BY <1>3, <1>4, <1>7, <1>8, <1>9, <1>10 DEF ConversationInv

-----------------------------------------------------------------------------
(* What is posted                                                            *)

\* A budget that is not used up may be used.
LEMMA BudgetTyped ==
  ASSUME Typed
  PROVE  /\ left.posts > 0 => [left EXCEPT !.posts = @ - 1] \in [posts : Nat, asks : Nat, lost : Nat]
         /\ left.asks > 0 => [left EXCEPT !.asks = @ - 1] \in [posts : Nat, asks : Nat, lost : Nat]
         /\ left.lost > 0 => [left EXCEPT !.lost = @ - 1] \in [posts : Nat, asks : Nat, lost : Nat]
BY DEF Typed

\* Core's turns run one at a time.
LEMMA OneLive ==
  ASSUME Typed, TurnsFine, NEW i \in Inputs, NEW j \in Inputs, turn[i] = "live", turn[j] = "live"
  PROVE  i = j
BY DEF TurnsFine, Inputs

\* One more post in the queue leaves what was promised promised.
LEMMA PromisesStay ==
  ASSUME PostsFine, NEW p, holder' = holder, rows' = rows, posts' = posts \cup {p}
  PROVE  \A i \in steps.closed : Promised(i, posts', holder') \/ Finished(i, rows')
BY DEF PostsFine, Promised

LEMMA TypingKeeps ==
  ASSUME ConversationInv, NEW i \in Inputs, SendsTyping(i)
  PROVE  ConversationInv'
<1> DEFINE new == [kind |-> "step", of |-> i, gen |-> steps.gen]
<1>1. /\ turn[i] = "live" /\ i = known /\ ~steps.paused
      /\ left.posts > 0 /\ left' = [left EXCEPT !.posts = @ - 1] /\ posts' = posts \cup {new}
      /\ UNCHANGED <<written, turn, question, retiring, known, steps, holder, rows, sender, panel>>
  BY DEF SendsTyping, Posted
<1>2. steps.gen \in Nat
  BY DEF ConversationInv, Typed, Statuses
<1>3. new \in Posting /\ new.kind = "step" /\ new.gen = steps.gen /\ new.of = i
  BY <1>2 DEF Posting
<1>4. Typed'
  BY <1>1, <1>3, BudgetTyped DEF ConversationInv, Typed
<1> HIDE DEF new
<1>5. PostsFine'
  <2>1. new.gen <= steps.gen
    BY <1>2, <1>3
  <2>2. PostFine(new, turn, known, question)
    BY <1>1, <1>3 DEF PostFine
  <2> QED BY <1>1, <1>3, <2>1, <2>2, PromisesStay DEF ConversationInv, PostsFine
<1>6. YieldFine'
  <2>1. SUFFICES ASSUME question # Nothing PROVE YieldFine'
    BY <1>1 DEF YieldFine
  <2>2. question.turn = known
    BY <1>1, <2>1, OneLive DEF ConversationInv, TurnsFine
  <2>3. ~(steps.paused \/ known > question.turn)
    BY <1>1, <2>2 DEF Inputs
  <2> QED BY <1>1, <1>3, <2>1, <2>3 DEF ConversationInv, YieldFine
<1>7. /\ TurnsFine' /\ RowsFine(rows, turn)' /\ SenderFine(sender, rows, question.row)'
      /\ AskedFine(question, rows, known, holder)' /\ question'.row \notin retiring'
      /\ PanelFine(panel, question.row, retiring, rows, turn, written)'
  BY <1>1 DEF ConversationInv, TurnsFine
<1> QED BY <1>4, <1>5, <1>6, <1>7 DEF ConversationInv

LEMMA NoteKeeps ==
  ASSUME ConversationInv, NEW i \in Inputs, SendsNote(i)
  PROVE  ConversationInv'
<1> DEFINE new == [kind |-> "note", of |-> i, gen |-> 0]
<1>1. /\ turn[i] = "live" /\ question = Nothing
      /\ left.posts > 0 /\ left' = [left EXCEPT !.posts = @ - 1] /\ posts' = posts \cup {new}
      /\ UNCHANGED <<written, turn, question, retiring, known, steps, holder, rows, sender, panel>>
  BY DEF SendsNote, Posted
<1>2. new \in Posting /\ new.kind = "note" /\ new.of = i
  BY DEF Posting
<1>3. Typed'
  BY <1>1, <1>2, BudgetTyped DEF ConversationInv, Typed
<1> HIDE DEF new
<1>4. PostsFine'
  BY <1>1, <1>2, PromisesStay DEF ConversationInv, PostsFine, PostFine
<1>5. YieldFine'
  BY <1>1 DEF YieldFine
<1>6. /\ TurnsFine' /\ RowsFine(rows, turn)' /\ SenderFine(sender, rows, question.row)'
      /\ AskedFine(question, rows, known, holder)' /\ question'.row \notin retiring'
      /\ PanelFine(panel, question.row, retiring, rows, turn, written)'
  BY <1>1 DEF ConversationInv, TurnsFine
<1> QED BY <1>3, <1>4, <1>5, <1>6 DEF ConversationInv

\* Live status pauses before the question queues for the lock.
LEMMA AsksKeeps ==
  ASSUME ConversationInv, NEW i \in Inputs, AsksQuestion(i)
  PROVE  ConversationInv'
<1> DEFINE new == [kind |-> "question", of |-> known, gen |-> 0]
<1>1. /\ turn[i] = "live" /\ question = Nothing /\ known # 0
      /\ left.asks > 0 /\ left' = [left EXCEPT !.asks = @ - 1]
      /\ question' = [row |-> 0, turn |-> i]
      /\ steps' = [steps EXCEPT !.gen = @ + 1, !.paused = TRUE] /\ posts' = posts \cup {new}
      /\ UNCHANGED <<written, turn, retiring, known, holder, rows, sender, panel>>
  BY DEF AsksQuestion, Posted
<1>2. /\ steps' \in Statuses /\ steps.gen \in Nat
      /\ steps'.gen = steps.gen + 1 /\ steps'.closed = steps.closed /\ steps'.paused
  <2>1. steps \in Statuses
    BY DEF ConversationInv, Typed
  <2>2. steps.gen + 1 \in Nat /\ steps.gen \in Nat /\ steps.closed \in SUBSET Inputs
    BY <2>1 DEF Statuses
  <2>3. steps' = [gen |-> steps.gen + 1, paused |-> TRUE, closed |-> steps.closed]
    BY <1>1, <2>1 DEF Statuses
  <2> QED BY <2>2, <2>3 DEF Statuses
<1>3. known \in Inputs /\ turn[known] # "none"
  BY <1>1 DEF ConversationInv, Typed, TurnsFine, Inputs
<1>4. new \in Posting /\ new.kind = "question" /\ new.of = known
  BY <1>3 DEF Posting
<1>5. question' \in [row : Nat, turn : 0..MaxInputs] /\ question'.row = 0 /\ question'.turn = i
      /\ question' # Nothing /\ question.row = 0
  BY <1>1 DEF Nothing, Inputs
<1>6. Typed'
  BY <1>1, <1>2, <1>4, <1>5, BudgetTyped DEF ConversationInv, Typed
<1> HIDE DEF new
<1>7. /\ \A p \in posts : p.kind # "question" /\ p.gen \in Nat
      /\ holder.post.kind # "question"
  BY <1>1 DEF ConversationInv, Typed, PostsFine, PostFine, Holders, NoPost, Posting
<1>8. PostsFine'
  <2>1. \A p \in posts : p.kind = "step" => p.gen <= steps'.gen
    BY <1>2, <1>7 DEF ConversationInv, PostsFine
  <2>2. \A p \in posts : PostFine(p, turn', known', question')
    BY <1>1, <1>7 DEF ConversationInv, PostsFine, PostFine
  <2>4. holder'.at = "queue" => PostFine(holder'.post, turn', known', question')
    BY <1>1, <1>7 DEF ConversationInv, PostsFine, PostFine
  <2>5. PostFine(new, turn', known', question')
    BY <1>1, <1>3, <1>4, <1>5 DEF PostFine, Inputs
  <2> QED BY <1>1, <1>2, <1>4, <1>7, <2>1, <2>2, <2>4, <2>5, PromisesStay DEF ConversationInv, PostsFine
<1>9. YieldFine'
  BY <1>1, <1>2, <1>4, <1>7 DEF ConversationInv, PostsFine, YieldFine
<1>10. TurnsFine'
  BY <1>1, <1>5 DEF ConversationInv, TurnsFine
<1>11. /\ RowsFine(rows, turn)' /\ SenderFine(sender, rows, question.row)'
       /\ PanelFine(panel, question.row, retiring, rows, turn, written)' /\ question'.row \notin retiring'
  BY <1>1, <1>5 DEF ConversationInv
<1>12. AskedFine(question, rows, known, holder)'
  BY <1>5 DEF AskedFine
<1> QED BY <1>6, <1>8, <1>9, <1>10, <1>11, <1>12 DEF ConversationInv

LEMMA FinalKeeps ==
  ASSUME ConversationInv, NEW i \in Inputs, SendsFinal(i)
  PROVE  ConversationInv'
<1> DEFINE new == [kind |-> "final", of |-> i, gen |-> 0]
<1>1. /\ turn[i] = "over" /\ steps' = [steps EXCEPT !.gen = @ + 1, !.closed = @ \cup {i}]
      /\ posts' = posts \cup {new}
      /\ UNCHANGED <<written, turn, question, retiring, known, holder, rows, sender, panel, left>>
  BY DEF SendsFinal, Posted
<1>2. /\ steps' \in Statuses /\ steps.gen \in Nat
      /\ steps'.gen = steps.gen + 1 /\ steps'.closed = steps.closed \cup {i} /\ steps'.paused = steps.paused
  <2>1. steps \in Statuses
    BY DEF ConversationInv, Typed
  <2>2. /\ steps.gen + 1 \in Nat /\ steps.gen \in Nat /\ steps.closed \cup {i} \in SUBSET Inputs
        /\ steps.paused \in BOOLEAN
    BY <2>1 DEF Statuses
  <2>3. steps' = [gen |-> steps.gen + 1, paused |-> steps.paused, closed |-> steps.closed \cup {i}]
    BY <1>1, <2>1 DEF Statuses
  <2> QED BY <2>2, <2>3 DEF Statuses
<1>3. new \in Posting /\ new.kind = "final" /\ new.of = i
  BY DEF Posting
<1>4. Typed'
  BY <1>1, <1>2, <1>3 DEF ConversationInv, Typed
<1> HIDE DEF new
<1>5. \A p \in posts : p.gen \in Nat
  BY DEF ConversationInv, Typed, Posting
<1>6. PostsFine'
  <2>1. \A p \in posts : p.kind = "step" => p.gen <= steps'.gen
    BY <1>2, <1>5 DEF ConversationInv, PostsFine
  <2>2. PostFine(new, turn', known', question')
    BY <1>1, <1>3 DEF PostFine
  <2>3. Promised(i, posts', holder')
    BY <1>1, <1>3 DEF Promised
  <2>4. \A j \in steps'.closed : Promised(j, posts', holder') \/ Finished(j, rows')
    BY <1>1, <1>2, <2>3, PromisesStay DEF ConversationInv
  <2> QED BY <1>1, <1>3, <2>1, <2>2, <2>4 DEF ConversationInv, PostsFine
<1>7. YieldFine'
  BY <1>1, <1>2, <1>3, <1>5 DEF ConversationInv, PostsFine, YieldFine
<1>8. /\ TurnsFine' /\ RowsFine(rows, turn)' /\ SenderFine(sender, rows, question.row)'
      /\ AskedFine(question, rows, known, holder)' /\ question'.row \notin retiring'
      /\ PanelFine(panel, question.row, retiring, rows, turn, written)'
  BY <1>1 DEF ConversationInv, TurnsFine
<1> QED BY <1>4, <1>6, <1>7, <1>8 DEF ConversationInv

\* Live status may go on.
LEMMA Resumes ==
  ASSUME steps \in Statuses, resume_typing
  PROVE  steps' \in Statuses /\ steps'.gen = steps.gen /\ steps'.closed = steps.closed
<1>1. steps.gen \in Nat /\ steps.closed \in SUBSET Inputs
  BY DEF Statuses
<1>2. steps' = [gen |-> steps.gen, paused |-> FALSE, closed |-> steps.closed]
  BY DEF Statuses, resume_typing
<1> QED BY <1>1, <1>2 DEF Statuses

\* With its row, a question has left the queue: nothing that waits is a question.
LEMMA NothingPosted ==
  ASSUME PostsFine, posts' = posts, holder' = holder, turn' = turn, known' = known,
         \A i \in steps.closed : Finished(i, rows) => Finished(i, rows'),
         steps'.gen = steps.gen, steps'.closed = steps.closed, question.row # 0
  PROVE  PostsFine'
<1>1. ASSUME NEW p, PostFine(p, turn, known, question) PROVE PostFine(p, turn', known', question')
  BY <1>1 DEF PostFine
<1> QED BY <1>1 DEF PostsFine

\* Core's question is answered: its turn is live, so not everything is answered.
LEMMA AnswerKeeps ==
  ASSUME ConversationInv, PersonAnswers
  PROVE  ConversationInv'
<1>1. /\ question.row # 0 /\ CoreUnlocked /\ question' = Nothing /\ resume_typing
      /\ panel' = [type |-> "prompt", row |-> 0, admitted |-> 0]
      /\ UNCHANGED <<written, turn, retiring, known, posts, holder, rows, sender, left>>
  BY DEF PersonAnswers
<1>2. /\ steps' \in Statuses /\ steps'.gen = steps.gen /\ steps'.closed = steps.closed
  BY <1>1, Resumes DEF ConversationInv, Typed
<1>3. question' \in [row : Nat, turn : 0..MaxInputs] /\ question'.row = 0
  BY <1>1, ConversationAssumption DEF Nothing, ConversationAssumption
<1>4. Typed'
  BY <1>1, <1>2, <1>3, ConversationAssumption DEF ConversationInv, Typed, Panels, ConversationAssumption
<1>5. PostsFine'
  BY <1>1, <1>2, NothingPosted DEF ConversationInv
<1>6. TurnsFine' /\ YieldFine' /\ AskedFine(question, rows, known, holder)'
  BY <1>1, <1>3 DEF ConversationInv, TurnsFine, YieldFine, AskedFine
<1>7. SenderFine(sender, rows, question.row)'
  BY <1>1, <1>3 DEF ConversationInv, SenderFine, CoreUnlocked
<1>8. LiveIn(turn)
  BY <1>1 DEF ConversationInv, TurnsFine, LiveIn, Nothing
<1>9. PanelFine(panel, question.row, retiring, rows, turn, written)'
  BY <1>1, <1>8 DEF PanelFine, Still, Answered
<1>10. question'.row \notin retiring' /\ RowsFine(rows, turn)'
  BY <1>1, <1>3 DEF ConversationInv, Typed
<1> QED BY <1>4, <1>5, <1>6, <1>7, <1>9, <1>10 DEF ConversationInv

\* Core gives a question up: its card stands until it is taken down.
LEMMA GivesUpKeeps ==
  ASSUME ConversationInv, CoreGivesUp
  PROVE  ConversationInv'
<1>1. /\ question.row # 0 /\ CoreUnlocked /\ question' = Nothing
      /\ retiring' = retiring \cup {question.row}
      /\ UNCHANGED <<written, turn, known, steps, posts, holder, rows, sender, panel, left>>
  BY DEF CoreGivesUp
<1>2. question' \in [row : Nat, turn : 0..MaxInputs] /\ question'.row = 0
  BY <1>1, ConversationAssumption DEF Nothing, ConversationAssumption
<1>3. question.row \in 1..Len(rows) /\ OnlyCards(question.row, rows)
  BY <1>1 DEF ConversationInv, AskedFine
<1>4. Typed'
  BY <1>1, <1>2, <1>3 DEF ConversationInv, Typed
<1>5. PostsFine'
  BY <1>1, NothingPosted DEF ConversationInv
<1>6. TurnsFine' /\ YieldFine' /\ AskedFine(question, rows, known, holder)'
  BY <1>1, <1>2 DEF ConversationInv, TurnsFine, YieldFine, AskedFine
<1>7. SenderFine(sender, rows, question.row)'
  BY <1>1, <1>2 DEF ConversationInv, SenderFine, CoreUnlocked
<1>8. CardStands(rows[panel.row].shows, question.row, retiring, rows)
         => CardStands(rows[panel.row].shows, 0, retiring', rows)
  BY <1>1, <1>3 DEF CardStands
<1>9. PanelFine(panel, 0, retiring', rows, turn, written)
  BY <1>8 DEF ConversationInv, PanelFine, ShowsTruth
<1>10. question'.row \notin retiring' /\ RowsFine(rows, turn)'
  BY <1>1, <1>2 DEF ConversationInv, Typed
<1> QED BY <1>1, <1>2, <1>4, <1>5, <1>6, <1>7, <1>9, <1>10 DEF ConversationInv

-----------------------------------------------------------------------------
(* The reply lock                                                            *)

\* A post that takes the lock is current; while Core waits on a question that may be shown, no
\* live status is.
LEMMA LockKeeps ==
  ASSUME ConversationInv, NEW p \in posts, TakesLock(p)
  PROVE  ConversationInv'
<1>1. /\ holder.at = "free" /\ Current(p) /\ posts' = posts \ {p}
      /\ holder' = [at |-> "queue", post |-> p]
      /\ UNCHANGED <<written, turn, question, retiring, known, steps, rows, sender, panel, left>>
  BY DEF TakesLock
<1>2. p \in Posting /\ holder.post = NoPost
  BY <1>1 DEF ConversationInv, Typed, PostsFine
<1>3. /\ holder' \in Holders /\ holder'.at = "queue" /\ holder'.post = p /\ p # NoPost
  BY <1>1, <1>2 DEF Holders, Posting, NoPost
<1>4. Typed'
  BY <1>1, <1>3 DEF ConversationInv, Typed
<1>5. PostsFine'
  <2>1. \A i \in steps.closed : Promised(i, posts, holder) => Promised(i, posts', holder')
    BY <1>1, <1>2, <1>3 DEF Promised, NoPost
  <2> QED BY <1>1, <1>3, <2>1 DEF ConversationInv, PostsFine
<1>6. YieldFine'
  BY <1>1, <1>3 DEF ConversationInv, YieldFine
<1>7. AskedFine(question, rows, known, holder)'
  <2>1. SUFFICES ASSUME question.row # 0, rows[question.row].of >= question.turn
                 PROVE  p.kind # "step"
    BY <1>1, <1>2, <1>3 DEF ConversationInv, AskedFine
  <2>2. rows[question.row].of \in Nat /\ question.turn \in Nat
    BY <2>1, FieldsTyped DEF ConversationInv, Typed, AskedFine, Inputs
  <2>3. ~(rows[question.row].of < question.turn) /\ question # Nothing
    BY <2>1, <2>2 DEF Nothing
  <2>4. CASE p.kind = "step"
    <3>1. p.gen = steps.gen /\ ~steps.paused /\ steps.gen \in Nat
      BY <1>1, <2>4 DEF Current, ConversationInv, Typed, Statuses
    <3>2. ~(p.gen < steps.gen)
      BY <3>1
    <3> QED BY <2>1, <2>3, <2>4, <3>2 DEF ConversationInv, YieldFine
  <2> QED BY <2>4
<1>8. /\ TurnsFine' /\ RowsFine(rows, turn)' /\ SenderFine(sender, rows, question.row)'
      /\ question'.row \notin retiring'
      /\ PanelFine(panel, question.row, retiring, rows, turn, written)'
  BY <1>1 DEF ConversationInv, TurnsFine
<1> QED BY <1>4, <1>5, <1>6, <1>7, <1>8 DEF ConversationInv

\* Only a live status is dropped.
LEMMA DropKeeps ==
  ASSUME ConversationInv, NEW p \in posts, Dropped(p)
  PROVE  ConversationInv'
<1>1. /\ ~Current(p) /\ posts' = posts \ {p}
      /\ UNCHANGED <<written, turn, question, retiring, known, steps, holder, rows, sender, panel, left>>
  BY DEF Dropped
<1>2. p.kind = "step"
  BY <1>1 DEF Current
<1>3. Typed'
  BY <1>1 DEF ConversationInv, Typed
<1>4. PostsFine'
  <2>1. \A i \in steps.closed : Promised(i, posts, holder) => Promised(i, posts', holder')
    BY <1>1, <1>2 DEF Promised
  <2> QED BY <1>1, <2>1 DEF ConversationInv, PostsFine
<1>5. YieldFine'
  BY <1>1 DEF ConversationInv, YieldFine
<1>6. /\ TurnsFine' /\ RowsFine(rows, turn)' /\ SenderFine(sender, rows, question.row)'
      /\ AskedFine(question, rows, known, holder)' /\ question'.row \notin retiring'
      /\ PanelFine(panel, question.row, retiring, rows, turn, written)'
  BY <1>1 DEF ConversationInv, TurnsFine
<1> QED BY <1>3, <1>4, <1>5, <1>6 DEF ConversationInv

-----------------------------------------------------------------------------
(* What the parts keep when a row changes or is added                        *)

\* What waits for the lock rests on the rows only through the inputs they are of.
LEMMA RestStays ==
  ASSUME Typed, rows' \in Seq(Kept), TurnsFine, PostsFine, YieldFine, Extends(rows', rows),
         question.row # 0 => question.row \in 1..Len(rows),
         UNCHANGED <<written, turn, question, known, steps, posts, holder>>
  PROVE  TurnsFine' /\ PostsFine' /\ YieldFine'
<1>1. \A i \in Inputs : Finished(i, rows) => Finished(i, rows')
  BY SMTT(20) DEF Finished, Extends, SameRow, Typed
<1>2. steps.closed \subseteq Inputs
  BY DEF Typed, Statuses
<1>3. PostsFine'
  BY <1>1, <1>2 DEF PostsFine
<1>4. YieldFine'
  BY DEF YieldFine, Extends, SameRow
<1> QED BY <1>3, <1>4 DEF TurnsFine

\* The question's row may change in what the guard of its sending says, and others with it.
LEMMA AskedChanges ==
  ASSUME NEW rs \in Seq(Kept), NEW tn, RowsFine(rs, tn), NEW q, NEW kn, NEW h, AskedFine(q, rs, kn, h),
         NEW k \in 1..Len(rs), NEW r \in Kept, SameRow(r, rs[k]),
         rs[k].fixes # 0 => r.type = rs[k].type,
         k = q.row => (r.state # "off" /\ (r.tried => rs[k].of >= q.turn)),
         NEW z, z = [rs EXCEPT ![k] = r]
  PROVE  AskedFine(q, z, kn, h)
<1>1. SUFFICES ASSUME q.row # 0 PROVE AskedFine(q, z, kn, h)
  BY DEF AskedFine
<1>2. /\ Len(z) = Len(rs) /\ z[k] = r /\ \A m \in 1..Len(rs) : m # k => z[m] = rs[m]
  OBVIOUS
<1>3. \A m \in 1..Len(rs) : SameRow(z[m], rs[m])
  BY <1>2 DEF SameRow
<1>4. q.row \in 1..Len(rs)
  BY <1>1 DEF AskedFine
<1>5. OnlyCards(q.row, z)
  <2>1. SUFFICES ASSUME NEW m \in 1..Len(rs), z[m].fixes # 0, z[z[m].fixes].shows = q.row
                 PROVE  z[m].type = "elicitation"
    BY <1>2 DEF OnlyCards
  <2>2. rs[m].fixes # 0 /\ rs[m].fixes \in 1..Len(rs) /\ z[m].fixes = rs[m].fixes
    BY <2>1, <1>3, FieldsTyped DEF RowsFine, Linked, SameRow
  <2>3. rs[rs[m].fixes].shows = q.row
    BY <2>1, <2>2, <1>3 DEF SameRow
  <2>4. rs[m].type = "elicitation"
    BY <1>1, <2>2, <2>3 DEF AskedFine, OnlyCards
  <2> QED BY <1>2, <2>2, <2>4
<1>6. (\E m \in 1..Len(z) : m # q.row /\ z[m].shows = q.row) => \E m \in 1..Len(rs) : m # q.row /\ rs[m].shows = q.row
  BY <1>2, <1>3 DEF SameRow
<1>7. (\A m \in 1..Len(rs) : rs[m].kind = "step" => m < q.row) => \A m \in 1..Len(z) : z[m].kind = "step" => m < q.row
  BY <1>2, <1>3 DEF SameRow
<1>8. z[q.row].kind = rs[q.row].kind /\ z[q.row].of = rs[q.row].of
  BY <1>3, <1>4 DEF SameRow
<1>9. CASE k = q.row
  BY <1>1, <1>2, <1>5, <1>6, <1>7, <1>8, <1>9 DEF AskedFine
<1>10. CASE k # q.row
  BY <1>1, <1>2, <1>4, <1>5, <1>6, <1>7, <1>8, <1>10 DEF AskedFine
<1> QED BY <1>9, <1>10

LEMMA CardsAppended ==
  ASSUME NEW rs \in Seq(Kept), NEW tn, RowsFine(rs, tn), NEW r \in Kept, NEW s, OnlyCards(s, rs),
         (r.fixes # 0 /\ rs[r.fixes].shows = s) => r.type = "elicitation",
         r.fixes # 0 => r.fixes \in 1..Len(rs),
         NEW z, z = Append(rs, r)
  PROVE  OnlyCards(s, z)
<1>1. /\ Len(z) = Len(rs) + 1 /\ z[Len(rs) + 1] = r /\ \A m \in 1..Len(rs) : z[m] = rs[m]
  OBVIOUS
<1>2. ASSUME NEW m \in 1..Len(rs), rs[m].fixes # 0, z[rs[m].fixes].shows = s PROVE rs[m].type = "elicitation"
  <2>1. rs[m].fixes \in 1..Len(rs)
    BY <1>2, FieldsTyped DEF RowsFine, Linked
  <2> QED BY <1>1, <1>2, <2>1 DEF OnlyCards
<1>3. ASSUME r.fixes # 0, z[r.fixes].shows = s PROVE r.type = "elicitation"
  BY <1>1, <1>3
<1>4. ASSUME NEW m \in 1..Len(z), z[m].fixes # 0, z[z[m].fixes].shows = s PROVE z[m].type = "elicitation"
  <2>1. CASE m \in 1..Len(rs)
    <3>1. z[m] = rs[m]
      BY <1>1, <2>1
    <3> QED BY <1>2, <1>4, <2>1, <3>1
  <2>2. CASE m = Len(rs) + 1
    <3>1. z[m] = r
      BY <1>1, <2>2
    <3> QED BY <1>3, <1>4, <3>1
  <2> QED BY <1>1, <2>1, <2>2
<1> QED BY <1>4 DEF OnlyCards

LEMMA AskedAppends ==
  ASSUME NEW rs \in Seq(Kept), NEW tn, RowsFine(rs, tn), NEW q, NEW kn, NEW h, AskedFine(q, rs, kn, h),
         NEW r \in Kept, r.fixes # 0 => r.fixes \in 1..Len(rs),
         (q.row # 0 /\ r.kind = "step") => ~(rs[q.row].of >= q.turn),
         (q.row # 0 /\ r.shows = q.row) => rs[q.row].of >= q.turn,
         (q.row # 0 /\ r.fixes # 0 /\ rs[r.fixes].shows = q.row) => r.type = "elicitation",
         NEW z, z = Append(rs, r)
  PROVE  AskedFine(q, z, kn, h)
<1>1. SUFFICES ASSUME q.row # 0 PROVE AskedFine(q, z, kn, h)
  BY DEF AskedFine
<1>2. /\ Len(z) = Len(rs) + 1 /\ z[Len(rs) + 1] = r /\ \A m \in 1..Len(rs) : z[m] = rs[m]
  OBVIOUS
<1>3. q.row \in 1..Len(rs) /\ z[q.row] = rs[q.row]
  BY <1>1, <1>2 DEF AskedFine
<1>4. OnlyCards(q.row, z)
  BY <1>1, CardsAppended DEF AskedFine
<1>5. (\E m \in 1..Len(z) : m # q.row /\ z[m].shows = q.row)
        => (r.shows = q.row \/ \E m \in 1..Len(rs) : m # q.row /\ rs[m].shows = q.row)
  BY <1>2
<1>6. ASSUME rs[q.row].of >= q.turn PROVE \A m \in 1..Len(z) : z[m].kind = "step" => m < q.row
  BY <1>1, <1>2, <1>6 DEF AskedFine
<1> QED BY <1>1, <1>2, <1>3, <1>4, <1>5, <1>6 DEF AskedFine

\* The panel's activity has landed: a row that has not may change, a repair as long as it is open.
LEMMA PanelChanges ==
  ASSUME NEW rs \in Seq(Kept), NEW tn, RowsFine(rs, tn), NEW p, NEW a, NEW ret, NEW wr,
         a # 0 => a \in 1..Len(rs), PanelFine(p, a, ret, rs, tn, wr),
         NEW k \in 1..Len(rs), NEW r \in Kept, SameRow(r, rs[k]), ~rs[k].landed, ~r.landed,
         rs[k].fixes # 0 => (r.type = rs[k].type /\ Open(r)),
         (Open(rs[k]) /\ rs[k].tried) => ((Open(r) /\ r.tried) \/ rs[k].shows \in {0, a}),
         NEW z, z = [rs EXCEPT ![k] = r]
  PROVE  PanelFine(p, a, ret, z, tn, wr)
<1>1. /\ Len(z) = Len(rs) /\ z[k] = r /\ \A m \in 1..Len(rs) : m # k => z[m] = rs[m]
  OBVIOUS
<1>2. \A m \in 1..Len(rs) : SameRow(z[m], rs[m]) /\ z[m].landed = rs[m].landed
  <2>1. rs[k].landed \in BOOLEAN /\ r.landed \in BOOLEAN
    BY FieldsTyped DEF Kept
  <2>2. r.landed = rs[k].landed
    BY Zenon, <2>1
  <2> QED BY <1>1, <2>2 DEF SameRow
<1>3. Answered(tn, wr, z) => Answered(tn, wr, rs)
  BY <1>1, <1>2 DEF Answered, SameRow
<1>4. p.row # 0 => p.row \in 1..Len(rs) /\ p.row # k /\ z[p.row] = rs[p.row]
  BY <1>1 DEF PanelFine
<1>5. Still(p, z) => Still(p, rs)
  BY <1>1, <1>2, <1>4 DEF Still, SameRow
<1>6. ASSUME NEW s, OnlyCards(s, rs) PROVE OnlyCards(s, z)
  <2>1. SUFFICES ASSUME NEW m \in 1..Len(rs), z[m].fixes # 0, z[z[m].fixes].shows = s
                 PROVE  z[m].type = "elicitation"
    BY <1>1 DEF OnlyCards
  <2>2. rs[m].fixes # 0 /\ rs[m].fixes \in 1..Len(rs) /\ z[m].fixes = rs[m].fixes
    BY <2>1, <1>2, FieldsTyped DEF RowsFine, Linked, SameRow
  <2>3. rs[m].type = "elicitation"
    BY <1>2, <1>6, <2>1, <2>2 DEF SameRow, OnlyCards
  <2> QED BY <1>1, <2>2, <2>3
<1>7. ASSUME NEW s, s # 0, CardStands(s, a, ret, rs) PROVE CardStands(s, a, ret, z)
  <2>1. CASE s = a \/ (s \in ret /\ OnlyCards(s, rs))
    BY <1>6, <2>1 DEF CardStands
  <2>2. ASSUME NEW m \in 1..Len(rs), Open(rs[m]), rs[m].tried, rs[m].shows = s PROVE CardStands(s, a, ret, z)
    <3>1. z[m].shows = s
      BY <1>2, <2>2 DEF SameRow
    <3> QED BY <1>1, <1>7, <2>2, <3>1 DEF CardStands
  <2> QED BY <1>7, <2>1, <2>2 DEF CardStands
<1>8. (p.row # 0 /\ p.type = "elicitation") => rs[p.row].shows # 0
  BY <1>4 DEF PanelFine, RowsFine, RowFine
<1>9. Still(p, z) => ShowsTruth(p, a, ret, z, tn, wr)
  <2>1. SUFFICES ASSUME Still(p, z) PROVE ShowsTruth(p, a, ret, z, tn, wr)
    OBVIOUS
  <2>2. p.row # 0 /\ ShowsTruth(p, a, ret, rs, tn, wr)
    BY <1>5, <2>1 DEF PanelFine, Still
  <2> QED BY <1>2, <1>3, <1>4, <1>7, <1>8, <2>2 DEF ShowsTruth
<1> QED BY <1>1, <1>3, <1>4, <1>9 DEF PanelFine

LEMMA PanelAppends ==
  ASSUME NEW rs \in Seq(Kept), NEW tn, RowsFine(rs, tn), NEW p, NEW a, NEW b, NEW ret, NEW wr,
         a # 0 => a \in 1..Len(rs), PanelFine(p, a, ret, rs, tn, wr), p.row \in Nat,
         NEW r \in Kept, Open(r), ~r.landed,
         b = a \/ (a = 0 /\ b = Len(rs) + 1),
         NEW z, z = Append(rs, r)
  PROVE  PanelFine(p, b, ret, z, tn, wr)
<1>1. /\ Len(z) = Len(rs) + 1 /\ z[Len(rs) + 1] = r /\ \A m \in 1..Len(rs) : z[m] = rs[m]
  OBVIOUS
<1>2. p.row # 0 => p.row \in 1..Len(rs) /\ z[p.row] = rs[p.row]
  BY <1>1 DEF PanelFine
<1>3. Answered(tn, wr, z) => Answered(tn, wr, rs)
  BY <1>1 DEF Answered
<1>4. Still(p, z) => Still(p, rs) /\ r.fixes = 0
  BY <1>1, <1>2 DEF Still
<1>5. (p.row # 0 /\ p.type = "elicitation") => rs[p.row].shows # 0
  BY <1>2 DEF PanelFine, RowsFine, RowFine
<1>6. ASSUME r.fixes = 0, NEW s, s # 0, CardStands(s, a, ret, rs) PROVE CardStands(s, b, ret, z)
  <2>1. OnlyCards(s, rs) => OnlyCards(s, z)
    BY <1>6, CardsAppended
  <2>2. (\E m \in 1..Len(rs) : Open(rs[m]) /\ rs[m].tried /\ rs[m].shows = s)
           => \E m \in 1..Len(z) : Open(z[m]) /\ z[m].tried /\ z[m].shows = s
    BY <1>1
  <2> QED BY <1>6, <2>1, <2>2 DEF CardStands
<1>7. Still(p, z) => ShowsTruth(p, b, ret, z, tn, wr)
  <2>1. SUFFICES ASSUME Still(p, z) PROVE ShowsTruth(p, b, ret, z, tn, wr)
    OBVIOUS
  <2>2. p.row # 0 /\ r.fixes = 0 /\ ShowsTruth(p, a, ret, rs, tn, wr)
    BY <1>4, <2>1 DEF PanelFine, Still
  <2>3. (b # 0 /\ z[b].landed) => (a = b /\ a # 0 /\ rs[a].landed)
    BY <1>1
  <2> QED BY <1>2, <1>3, <1>5, <1>6, <2>2, <2>3 DEF ShowsTruth
<1> QED BY <1>1, <1>2, <1>3, <1>7 DEF PanelFine

-----------------------------------------------------------------------------
(* A post becomes a row                                                      *)

\* A post whose input is answered becomes none; a question is withdrawn.
LEMMA EmptyHandedKeeps ==
  ASSUME ConversationInv, holder.at = "queue", Frees, holder.post.kind # "final",
         IF holder.post.kind = "question" THEN Withdraws ELSE UNCHANGED <<question, steps>>,
         UNCHANGED <<written, turn, retiring, known, posts, rows, sender, panel, left>>
  PROVE  ConversationInv'
<1>1. holder' = [at |-> "free", post |-> NoPost] /\ holder' \in Holders
  BY DEF Frees, Holders
<1>2. /\ steps' \in Statuses /\ steps'.gen = steps.gen /\ steps'.closed = steps.closed
      /\ question.row = question'.row /\ question' \in [row : Nat, turn : 0..MaxInputs]
      /\ question' = question \/ question' = Nothing
      /\ (\E p \in posts : p.kind = "question") => question' = question
  <2>1. CASE holder.post.kind = "question"
    <3>1. question.row = 0 /\ Withdraws /\ \A p \in posts : p.kind # "question"
      BY <2>1 DEF ConversationInv, PostsFine, PostFine
    <3> QED BY <3>1, Resumes, ConversationAssumption DEF Withdraws, Nothing, ConversationInv, Typed, ConversationAssumption
  <2>2. CASE holder.post.kind # "question"
    BY <2>2 DEF ConversationInv, Typed
  <2> QED BY <2>1, <2>2
<1>3. Typed'
  BY <1>1, <1>2 DEF ConversationInv, Typed
<1>4. PostsFine'
  <2>1. \A i \in steps.closed : Promised(i, posts, holder) => Promised(i, posts', holder')
    BY <1>1 DEF Promised, NoPost
  <2>2. \A p \in posts : PostFine(p, turn', known', question')
    BY <1>2 DEF ConversationInv, PostsFine, PostFine
  <2> QED BY <1>1, <1>2, <2>1, <2>2 DEF ConversationInv, PostsFine, NoPost
<1>5. TurnsFine'
  BY <1>2 DEF ConversationInv, TurnsFine
<1>6. YieldFine'
  <2>1. CASE holder.post.kind = "question"
    BY <2>1 DEF YieldFine, Withdraws
  <2>2. CASE holder.post.kind # "question"
    BY <1>1, <2>2 DEF ConversationInv, YieldFine, NoPost
  <2> QED BY <2>1, <2>2
<1>7. AskedFine(question, rows, known, holder)'
  <2>1. CASE question' = question
    BY <1>1, <2>1 DEF ConversationInv, AskedFine, NoPost
  <2>2. CASE question' = Nothing
    BY <2>2 DEF AskedFine, Nothing
  <2> QED BY <1>2, <2>1, <2>2
<1>8. /\ RowsFine(rows, turn)' /\ SenderFine(sender, rows, question.row)' /\ question'.row \notin retiring'
      /\ PanelFine(panel, question.row, retiring, rows, turn, written)'
  BY <1>2 DEF ConversationInv
<1> QED BY <1>3, <1>4, <1>5, <1>6, <1>7, <1>8 DEF ConversationInv

\* A row may be added that nothing is to be made of yet.
LEMMA SenderAppends ==
  ASSUME NEW rs \in Seq(Kept), NEW s \in 0..Len(rs), NEW a, a # 0 => a \in 1..Len(rs), SenderFine(s, rs, a),
         NEW r \in Kept, NEW z, z = Append(rs, r)
  PROVE  SenderFine(s, z, a)
<1>1. /\ Len(z) = Len(rs) + 1 /\ \A m \in 1..Len(rs) : z[m] = rs[m]
  OBVIOUS
<1> QED BY <1>1 DEF SenderFine

LEMMA EnqueuesKeeps ==
  ASSUME ConversationInv, Enqueues
  PROVE  ConversationInv'
<1> DEFINE p == holder.post
           type == CASE p.kind = "step" -> "action" [] p.kind = "question" -> "elicitation"
                     [] p.kind = "final" -> "response" [] OTHER -> "thought"
           n == Len(rows) + 1
           new == Row(p.kind, p.of, type, 0, IF p.kind = "question" THEN n ELSE 0)
<1>1. CASE p.kind # "final" /\ conversation_finished(p.of)
  BY <1>1, EmptyHandedKeeps DEF Enqueues
<1>2. CASE ~(p.kind # "final" /\ conversation_finished(p.of))
  <2>1. /\ holder.at = "queue" /\ holder' = [at |-> "free", post |-> NoPost]
        /\ rows' = Append(rows, new)
        /\ question' = IF p.kind = "question" THEN [question EXCEPT !.row = n] ELSE question
        /\ UNCHANGED <<written, turn, retiring, known, steps, posts, sender, panel, left>>
    BY <1>2 DEF Enqueues, Frees
  <2>2. /\ p \in Posting /\ PostFine(p, turn, known, question) /\ p.of \in Inputs
        /\ p.kind \in {"step", "note", "question", "final"} /\ n \in Nat /\ n # 0
    <3>1. p \in Posting /\ PostFine(p, turn, known, question)
      BY <2>1 DEF ConversationInv, Typed, PostsFine, Holders, NoPost
    <3> QED BY <3>1 DEF Posting, ConversationInv, Typed
  <2>3. /\ new \in Kept /\ new.kind = p.kind /\ new.of = p.of /\ Open(new) /\ ~new.tried /\ ~new.landed
        /\ new.fixes = 0 /\ new.shows = (IF p.kind = "question" THEN n ELSE 0)
        /\ (new.type = "elicitation") <=> (p.kind = "question")
        /\ p.kind = "final" => new.type = "response"
    BY <2>2 DEF Kept, Row, Open
  <2>4. /\ rows \in Seq(Kept) /\ RowsFine(rows, turn) /\ AskedFine(question, rows, known, holder)
        /\ question.row # 0 => question.row \in 1..Len(rows)
    BY DEF ConversationInv, Typed, AskedFine
  <2>5. RowFine(n, new, turn)
    BY <2>2, <2>3 DEF RowFine, PostFine, Open
  <2> HIDE DEF new, type
  <2>6. /\ rows' \in Seq(Kept) /\ Len(rows') = n /\ rows'[n] = new
        /\ \A m \in 1..Len(rows) : rows'[m] = rows[m]
        /\ RowsFine(rows', turn)
    <3>1. Addable(new, rows, turn)
      BY <2>3, <2>5 DEF Addable
    <3>2. Added(rows', new, rows) /\ RowsFine(rows', turn)
      BY <2>1, <2>4, <3>1, RowAdded
    <3> QED BY <3>2 DEF Added
  <2>7. p.kind = "question" => /\ question.row = 0 /\ question # Nothing /\ p.of <= known
                               /\ \A o \in posts : o.kind # "question"
    BY <2>1, <2>2 DEF PostFine, ConversationInv, PostsFine
  <2>8. /\ question' \in [row : Nat, turn : 0..MaxInputs] /\ question'.turn = question.turn
        /\ question'.row = IF p.kind = "question" THEN n ELSE question.row
        /\ question' = Nothing <=> question = Nothing
    <3>1. question \in [row : Nat, turn : 0..MaxInputs]
      BY DEF ConversationInv, Typed
    <3>2. p.kind = "question" => question.turn # 0
      BY <2>7, <3>1 DEF ConversationInv, TurnsFine, Inputs
    <3> QED BY <2>1, <2>2, <2>7, <3>1, <3>2 DEF Nothing
  <2>9. Typed'
    BY <2>1, <2>6, <2>8 DEF ConversationInv, Typed, Holders
  <2>10. TurnsFine'
    BY <2>1, <2>8 DEF ConversationInv, TurnsFine
  <2>11. PostsFine'
    <3>1. \A o \in posts : PostFine(o, turn', known', question')
      BY <2>1, <2>7, <2>8 DEF ConversationInv, PostsFine, PostFine
    <3>2. \A i \in steps.closed : Finished(i, rows) => Finished(i, rows')
      BY <2>6 DEF Finished
    <3>3. \A i \in steps.closed : Promised(i, posts, holder) => (Promised(i, posts', holder') \/ Finished(i, rows'))
      BY <2>1, <2>3, <2>6 DEF Promised, Finished
    <3> QED BY <2>1, <2>6, <3>1, <3>2, <3>3 DEF ConversationInv, PostsFine, NoPost
  <2>12. YieldFine'
    <3>1. SUFFICES ASSUME question # Nothing PROVE YieldFine'
      BY <2>8 DEF YieldFine
    <3>2. p.kind # "question" => (question'.row # 0 => rows'[question'.row].of = rows[question.row].of)
      BY <2>4, <2>6, <2>8
    <3>3. p.kind = "question" => rows'[question'.row].of = p.of
      BY <2>3, <2>6, <2>8
    <3> QED BY <2>1, <2>8, <3>1, <3>2, <3>3 DEF ConversationInv, YieldFine, NoPost
  <2>13. AskedFine(question, rows, known, holder)'
    <3>1. CASE p.kind = "question"
      <4>1. \A m \in 1..Len(rows) : rows[m].shows < n /\ rows[m].fixes < n /\ rows[m].fixes \in Nat
        BY <2>4, FieldsTyped DEF RowsFine, Linked
      <4>2. \A m \in 1..Len(rows') : m # n => (m \in 1..Len(rows) /\ rows'[m] = rows[m])
        BY <2>6
      <4>3. OnlyCards(n, rows')
        <5>1. ASSUME NEW m \in 1..Len(rows'), rows'[m].fixes # 0, rows'[rows'[m].fixes].shows = n PROVE FALSE
          <6>1. m # n /\ m \in 1..Len(rows) /\ rows'[m] = rows[m]
            BY <2>3, <2>6, <4>2, <5>1
          <6>2. rows[m].fixes \in 1..Len(rows)
            BY <4>1, <5>1, <6>1
          <6> QED BY <2>6, <4>1, <5>1, <6>1, <6>2
        <5> QED BY <5>1 DEF OnlyCards
      <4>4. ~\E k \in 1..Len(rows') : k # n /\ rows'[k].shows = n
        BY <4>1, <4>2
      <4>5. \A k \in 1..Len(rows') : rows'[k].kind = "step" => k < n
        BY <2>3, <2>6, <3>1
      <4>6. /\ question'.row = n /\ n \in 1..Len(rows') /\ rows'[n].kind = "question" /\ rows'[n].state # "off"
            /\ rows'[n].of <= known' /\ ~rows'[n].tried /\ holder'.post.kind # "step"
        BY <2>1, <2>2, <2>3, <2>6, <2>7, <2>8, <3>1 DEF Open, NoPost
      <4> QED BY <4>3, <4>4, <4>5, <4>6 DEF AskedFine
    <3>2. CASE p.kind # "question"
      <4>1. /\ question' = question
            /\ (question.row # 0 /\ new.kind = "step") => ~(rows[question.row].of >= question.turn)
            /\ (question.row # 0 /\ new.shows = question.row) => rows[question.row].of >= question.turn
        BY <2>1, <2>3, <2>4, <3>2 DEF AskedFine
      <4>2. AskedFine(question, rows', known, holder)
        BY <2>1, <2>3, <2>4, <4>1, AskedAppends
      <4> QED BY <2>1, <4>1, <4>2 DEF AskedFine, NoPost
    <3> QED BY <3>1, <3>2
  <2>14. SenderFine(sender, rows, question.row)'
    <3>1. CASE p.kind = "question"
      <4>1. sender # 0 => sender \in 1..Len(rows) /\ rows'[sender] = rows[sender]
        BY <2>6 DEF ConversationInv, Typed
      <4>2. sender # 0 => rows[sender].type # "elicitation"
        BY <2>4, <2>7, <3>1, <4>1 DEF ConversationInv, SenderFine, RowsFine, RowFine
      <4> QED BY <2>1, <2>3, <2>6, <2>8, <3>1, <4>1, <4>2 DEF ConversationInv, SenderFine
    <3>2. CASE p.kind # "question"
      <4>1. SenderFine(sender, rows', question.row)
        BY <2>1, <2>3, <2>4, SenderAppends DEF ConversationInv, Typed
      <4> QED BY <2>1, <2>8, <3>2, <4>1
    <3> QED BY <3>1, <3>2
  <2>15. PanelFine(panel, question.row, retiring, rows, turn, written)'
    <3>1. question'.row = question.row \/ (question.row = 0 /\ question'.row = Len(rows) + 1)
      BY <2>7, <2>8
    <3>2. PanelFine(panel, question.row, retiring, rows, turn, written) /\ panel.row \in Nat
      BY DEF ConversationInv, Typed, Panels
    <3>3. PanelFine(panel, question'.row, retiring, rows', turn, written)
      BY <2>1, <2>3, <2>4, <3>1, <3>2, PanelAppends
    <3> QED BY <2>1, <3>3
  <2>16. question'.row \notin retiring'
    BY <2>1, <2>8 DEF ConversationInv, Typed
  <2> QED BY <2>1, <2>6, <2>9, <2>10, <2>11, <2>12, <2>13, <2>14, <2>15, <2>16 DEF ConversationInv
<1> QED BY <1>1, <1>2

-----------------------------------------------------------------------------
(* What Core has committed                                                   *)

\* Of some positions one is the last.
LEMMA LastOf ==
  ASSUME NEW n \in Nat, NEW S \in SUBSET (1..n), S # {}
  PROVE  \E last \in S : \A j \in S : j <= last
<1> DEFINE Ahead == {m \in Nat : \E j \in S : m = n - j}
<1>1. \A j \in S : j \in 1..n
  OBVIOUS
<1>2. \A j \in S : n - j \in Ahead
  BY <1>1
<1>3. PICK least \in Ahead : \A m \in Ahead : ~ <<m, least>> \in OpToRel(<, Nat)
  BY <1>2, NatLessThanWellFounded, WFMin
<1>4. PICK last \in S : least = n - last
  OBVIOUS
<1>5. ASSUME NEW j \in S PROVE j <= last
  <2>1. ~(n - j < least)
    BY <1>1, <1>2, <1>3 DEF OpToRel
  <2> QED BY <1>1, <1>4, <2>1
<1> HIDE DEF Ahead
<1> QED BY <1>5

\* Of the inputs that are admitted one is the last.
LEMMA LastAdmitted ==
  ASSUME NEW i \in InputsAdmitted
  PROVE  Latest \in InputsAdmitted /\ \A j \in InputsAdmitted : j <= Latest
<1>1. MaxInputs \in Nat /\ InputsAdmitted \in SUBSET (1..MaxInputs)
  BY ConversationAssumption DEF InputsAdmitted, Inputs, ConversationAssumption
<1>2. \E l \in InputsAdmitted : \A j \in InputsAdmitted : j <= l
  BY <1>1, LastOf
<1> QED BY <1>2 DEF Latest

\* While Core waits on a question of a turn, the inputs before it are over and no other is.
LEMMA WaitingOn ==
  ASSUME Typed, TurnsFine, RowsFine(rows, turn), question # Nothing, NEW i \in Inputs
  PROVE  /\ i >= question.turn => (turn[i] # "over" /\ ~conversation_finished(i))
         /\ turn[i] # "over" => i >= question.turn
<1>1. question.turn \in Inputs /\ turn[question.turn] = "live"
  BY DEF TurnsFine
<1>2. conversation_finished(i) => turn[i] = "over"
  BY DEF conversation_finished, RowsFine, RowFine
<1>3. i >= question.turn => turn[i] # "over"
  BY <1>1 DEF TurnsFine, Inputs
<1>4. turn[i] # "over" => i >= question.turn
  BY <1>1 DEF TurnsFine, Inputs
<1> QED BY <1>2, <1>3, <1>4

\* A card of the question that may be shown at all may still be shown.
LEMMA CardsOpen ==
  ASSUME Typed, TurnsFine, RowsFine(rows, turn), AskedFine(question, rows, known, holder),
         question.row # 0, NEW k \in 1..Len(rows), rows[k].shows = question.row
  PROVE  /\ rows[question.row].of >= question.turn => ~InterimFinished(k)
         /\ ~InterimFinished(k) => rows[question.row].of >= question.turn
<1>1. question # Nothing /\ rows[k].of = rows[question.row].of /\ rows[k].of \in Inputs
  <2>1. rows \in Seq(Kept) /\ Linked(k, rows)
    BY DEF Typed, RowsFine
  <2> QED BY <2>1, FieldsTyped DEF Nothing, Linked
<1>2. rows[k].kind # "step"
  BY DEF RowsFine, RowFine
<1> QED BY <1>1, <1>2, WaitingOn DEF InterimFinished

\* If everything is answered Core waits on nothing, and no input of a row is open.
LEMMA NothingOpen ==
  ASSUME Typed, TurnsFine, RowsFine(rows, turn), ~Live
  PROVE  /\ question = Nothing /\ question.row = 0
         /\ \A k \in 1..Len(rows) : InterimFinished(k)
<1>1. question = Nothing
  BY DEF TurnsFine, Live
<1>2. ASSUME NEW k \in 1..Len(rows) PROVE turn[rows[k].of] = "over"
  <2>1. turn[rows[k].of] # "none" /\ rows[k].of \in Inputs
    BY FieldsTyped DEF Typed, RowsFine, RowFine
  <2> QED BY <2>1 DEF Typed, Turns, Live
<1> QED BY <1>1, <1>2 DEF InterimFinished, Nothing

-----------------------------------------------------------------------------
(* A row is sent                                                             *)

\* What a step of the sender has to keep.
LEMMA OnlySending ==
  ASSUME ConversationInv, rows' \in Seq(Kept), Extends(rows', rows), RowsFine(rows', turn),
         AskedFine(question, rows', known, holder), SenderFine(sender', rows', question.row),
         PanelFine(panel', question.row, retiring, rows', turn, written),
         sender' \in 0..Len(rows'), panel' \in Panels, left' \in [posts : Nat, asks : Nat, lost : Nat],
         UNCHANGED <<written, turn, question, retiring, known, steps, posts, holder>>
  PROVE  ConversationInv'
<1>1. question.row # 0 => question.row \in 1..Len(rows)
  BY DEF ConversationInv, AskedFine
<1>2. TurnsFine' /\ PostsFine' /\ YieldFine'
  BY <1>1, RestStays DEF ConversationInv
<1>3. Typed'
  <2>1. retiring' \subseteq 1..Len(rows')
    BY DEF Typed, ConversationInv, Extends
  <2> QED BY <2>1 DEF ConversationInv, Typed
<1> QED BY <1>2, <1>3 DEF ConversationInv

\* The parts of the invariant that speak of the rows.
LEMMA RowsKnown ==
  ASSUME ConversationInv
  PROVE  /\ rows \in Seq(Kept) /\ RowsFine(rows, turn) /\ AskedFine(question, rows, known, holder)
         /\ Typed /\ TurnsFine /\ (question.row # 0 => question.row \in 1..Len(rows))
BY DEF ConversationInv, Typed, AskedFine

\* A row that has not landed changes, and the panel stays what it is.
LEMMA RowMoves ==
  ASSUME ConversationInv, NEW k, NEW new, Changeable(k, new, rows, turn),
         rows' = [rows EXCEPT ![k] = new], ~rows[k].landed, ~new.landed,
         rows[k].fixes # 0 => (new.type = rows[k].type /\ Open(new)),
         k = question.row => (new.state # "off" /\ (new.tried => rows[k].of >= question.turn)),
         (Open(rows[k]) /\ rows[k].tried) => ((Open(new) /\ new.tried) \/ rows[k].shows \in {0, question.row})
  PROVE  /\ Changed(rows', k, new, rows) /\ RowsFine(rows', turn)
         /\ AskedFine(question, rows', known, holder)
         /\ PanelFine(panel, question.row, retiring, rows', turn, written)
<1>1. /\ rows \in Seq(Kept) /\ RowsFine(rows, turn) /\ AskedFine(question, rows, known, holder)
      /\ Typed /\ TurnsFine /\ (question.row # 0 => question.row \in 1..Len(rows))
  BY RowsKnown
<1>2. k \in 1..Len(rows) /\ new \in Kept /\ SameRow(new, rows[k])
  BY DEF Changeable
<1>3. Changed(rows', k, new, rows) /\ RowsFine(rows', turn)
  BY <1>1, RowChanges
<1>4. AskedFine(question, rows', known, holder)
  BY <1>1, <1>2, AskedChanges
<1>5. PanelFine(panel, question.row, retiring, rows', turn, written)
  BY <1>1, <1>2, PanelChanges DEF ConversationInv
<1> QED BY <1>3, <1>4, <1>5

LEMMA SendingMoves ==
  ASSUME ConversationInv, NEW k, NEW new, Changed(rows', k, new, rows), RowsFine(rows', turn),
         AskedFine(question, rows', known, holder), SenderFine(sender', rows', question.row),
         PanelFine(panel', question.row, retiring, rows', turn, written),
         sender' \in 0..Len(rows), panel' \in Panels, left' \in [posts : Nat, asks : Nat, lost : Nat],
         UNCHANGED <<written, turn, question, retiring, known, steps, posts, holder>>
  PROVE  ConversationInv'
<1>1. rows' \in Seq(Kept) /\ Extends(rows', rows) /\ Len(rows') = Len(rows)
  BY DEF Changed
<1>2. sender' \in 0..Len(rows')
  BY <1>1
<1> QED BY <1>1, <1>2, OnlySending

LEMMA SendsInterimKeeps ==
  ASSUME ConversationInv, NEW k \in 1..Len(rows), SendsInterim(k)
  PROVE  ConversationInv'
<1> DEFINE new == [rows[k] EXCEPT !.tried = TRUE]
<1>1. /\ sender = 0 /\ Open(rows[k]) /\ ~rows[k].tried /\ Interim(rows[k]) /\ ~InterimFinished(k)
      /\ rows[k].kind = "question" => question.row = k
      /\ rows' = [rows EXCEPT ![k] = new] /\ sender' = k
      /\ UNCHANGED <<written, turn, question, retiring, known, steps, posts, holder, panel, left>>
  BY DEF SendsInterim, Puts, Admits
<1>2. /\ rows \in Seq(Kept) /\ RowsFine(rows, turn) /\ AskedFine(question, rows, known, holder)
      /\ Typed /\ TurnsFine /\ (question.row # 0 => question.row \in 1..Len(rows))
  BY RowsKnown
<1>3. /\ new \in Kept /\ SameRow(new, rows[k]) /\ new.tried /\ new.state = rows[k].state
      /\ new.type = rows[k].type /\ new.landed = rows[k].landed
  BY <1>2, FieldsTyped DEF Kept, SameRow
<1> HIDE DEF new
<1>4. RowFine(k, rows[k], turn) /\ ~rows[k].landed /\ ~new.landed /\ rows[k].fixes = 0
  BY <1>1, <1>2, <1>3 DEF RowsFine, RowFine, Interim
<1>5. Changeable(k, new, rows, turn)
  BY <1>1, <1>3, <1>4 DEF Changeable, RowFine, SameRow, Open
<1>6. question.row = k => (new.state # "off" /\ rows[k].of >= question.turn)
  <2>1. SUFFICES ASSUME question.row = k PROVE rows[k].of >= question.turn
    BY <1>1, <1>3 DEF Open
  <2>2. question.row # 0 /\ rows[k].kind = "question"
    BY <1>2, <2>1 DEF AskedFine
  <2>3. rows[k].shows = question.row
    BY <1>4, <2>1, <2>2 DEF RowFine
  <2>4. rows[question.row].of >= question.turn
    BY <1>1, <1>2, <2>2, <2>3, CardsOpen
  <2> QED BY <2>1, <2>4
<1>7. /\ Changed(rows', k, new, rows) /\ RowsFine(rows', turn)
      /\ AskedFine(question, rows', known, holder)
      /\ PanelFine(panel, question.row, retiring, rows', turn, written)
  BY <1>1, <1>4, <1>5, <1>6, RowMoves
<1>8. SenderFine(sender', rows', question.row)
  <2>1. rows'[k] = new /\ \A m \in 1..Len(rows) : m # k => rows'[m] = rows[m]
    BY <1>7 DEF Changed
  <2>2. new.type = "elicitation" => new.shows = question.row
    BY <1>1, <1>3, <1>4 DEF RowFine, SameRow, Interim
  <2>3. ASSUME rows[k].kind = "step", question.row # 0, rows[question.row].tried PROVE FALSE
    <3>1. k < question.row /\ rows[question.row].state # "off" /\ question.row \in (k + 1)..Len(rows)
      BY <1>2, <2>3 DEF AskedFine
    <3> QED BY <1>1, <2>3, <3>1 DEF InterimFinished, conversation_step_superseded
  <2>4. (new.kind = "step" /\ question.row # 0) => ~rows'[question.row].tried
    BY <1>2, <1>3, <1>6, <2>1, <2>3 DEF SameRow, AskedFine
  <2> QED BY <1>1, <1>3, <1>4, <2>1, <2>2, <2>4 DEF SenderFine, Open
<1>9. /\ sender' \in 0..Len(rows) /\ panel' \in Panels
      /\ left' \in [posts : Nat, asks : Nat, lost : Nat]
  BY <1>1, <1>2 DEF Typed
<1> QED BY <1>1, <1>7, <1>8, <1>9, SendingMoves

\* A reply is sent as the thought it has become only if something was admitted after its input.
LEMMA SendsReplyKeeps ==
  ASSUME ConversationInv, NEW k \in 1..Len(rows), SendsReply(k)
  PROVE  ConversationInv'
<1>1. PICK type \in {"thought", "response"} :
        /\ sender = 0 /\ Open(rows[k]) /\ rows[k].kind = "final" /\ ~rows[k].landed
        /\ type = "thought" => Live
        /\ rows' = [rows EXCEPT ![k] = [rows[k] EXCEPT !.tried = TRUE, !.type = type]] /\ sender' = k
        /\ UNCHANGED <<written, turn, question, retiring, known, steps, posts, holder, panel, left>>
  BY DEF SendsReply, FinalType, Puts, Admits
<1> DEFINE new == [rows[k] EXCEPT !.tried = TRUE, !.type = type]
<1>2. /\ rows \in Seq(Kept) /\ RowsFine(rows, turn) /\ AskedFine(question, rows, known, holder)
      /\ Typed /\ TurnsFine /\ (question.row # 0 => question.row \in 1..Len(rows))
  BY RowsKnown
<1>3. /\ new \in Kept /\ SameRow(new, rows[k]) /\ new.tried /\ new.state = rows[k].state
      /\ new.type = type /\ new.landed = rows[k].landed
  BY <1>2, FieldsTyped DEF Kept, SameRow
<1>4. rows' = [rows EXCEPT ![k] = new]
  BY <1>1
<1> HIDE DEF new
<1>5. RowFine(k, rows[k], turn) /\ rows[k].fixes = 0 /\ rows[k].shows = 0 /\ rows[k].of \in Inputs
  BY <1>1, <1>2, FieldsTyped DEF RowsFine, RowFine
<1>6. Live => Followed(rows[k].of, turn)
  BY <1>1, <1>2, <1>5 DEF RowFine, Live, Followed, TurnsFine, Inputs
<1>7. Changeable(k, new, rows, turn)
  <2>1. RowFine(k, new, turn)
    BY <1>1, <1>3, <1>5, <1>6 DEF RowFine, SameRow, Open
  <2> QED BY <1>1, <1>3, <2>1 DEF Changeable
<1>8. k # question.row
  BY <1>1, <1>2 DEF AskedFine
<1>9. /\ Changed(rows', k, new, rows) /\ RowsFine(rows', turn)
      /\ AskedFine(question, rows', known, holder)
      /\ PanelFine(panel, question.row, retiring, rows', turn, written)
  BY <1>1, <1>3, <1>4, <1>5, <1>7, <1>8, RowMoves
<1>10. SenderFine(sender', rows', question.row)
  <2>1. rows'[k] = new
    BY <1>9 DEF Changed
  <2> QED BY <1>1, <1>3, <2>1 DEF SenderFine, SameRow, Open
<1>11. /\ sender' \in 0..Len(rows) /\ panel' \in Panels
       /\ left' \in [posts : Nat, asks : Nat, lost : Nat] /\ panel' = panel
  BY <1>1, <1>2 DEF Typed
<1> QED BY <1>1, <1>9, <1>10, <1>11, SendingMoves

\* A reply is not published at all once a newer input has been completed.
LEMMA ReplyObsoleteKeeps ==
  ASSUME ConversationInv, NEW k \in 1..Len(rows), ReplyObsolete(k)
  PROVE  ConversationInv'
<1> DEFINE new == [rows[k] EXCEPT !.state = "off"]
<1>1. /\ sender = 0 /\ Open(rows[k]) /\ rows[k].kind = "final" /\ ~rows[k].tried
      /\ ~Live /\ Latest # rows[k].of /\ rows' = [rows EXCEPT ![k] = new]
      /\ UNCHANGED <<written, turn, question, retiring, known, steps, posts, holder, sender, panel, left>>
  BY DEF ReplyObsolete, FinalType, Puts
<1>2. /\ rows \in Seq(Kept) /\ RowsFine(rows, turn) /\ AskedFine(question, rows, known, holder)
      /\ Typed /\ TurnsFine /\ (question.row # 0 => question.row \in 1..Len(rows))
  BY RowsKnown
<1>3. /\ new \in Kept /\ SameRow(new, rows[k]) /\ new.state = "off" /\ new.tried = rows[k].tried
      /\ new.type = rows[k].type /\ new.landed = rows[k].landed
  BY <1>2, FieldsTyped DEF Kept, SameRow
<1> HIDE DEF new
<1>4. RowFine(k, rows[k], turn) /\ rows[k].fixes = 0 /\ ~rows[k].landed /\ rows[k].of \in Inputs
  BY <1>1, <1>2, FieldsTyped DEF RowsFine, RowFine
<1>5. Followed(rows[k].of, turn)
  <2>1. rows[k].of \in InputsAdmitted
    BY <1>4 DEF InputsAdmitted, RowFine
  <2>2. Latest \in InputsAdmitted /\ rows[k].of <= Latest
    BY <2>1, LastAdmitted
  <2> QED BY <1>1, <1>4, <2>2 DEF Followed, InputsAdmitted, Inputs
<1>6. Changeable(k, new, rows, turn)
  BY <1>1, <1>3, <1>4, <1>5 DEF Changeable, RowFine, SameRow, Open
<1>7. k # question.row /\ ~new.landed
  BY <1>1, <1>2, <1>3, <1>4 DEF AskedFine
<1>8. /\ Changed(rows', k, new, rows) /\ RowsFine(rows', turn)
      /\ AskedFine(question, rows', known, holder)
      /\ PanelFine(panel, question.row, retiring, rows', turn, written)
  BY <1>1, <1>4, <1>6, <1>7, RowMoves
<1>9. /\ sender' \in 0..Len(rows) /\ panel' \in Panels /\ panel' = panel
      /\ left' \in [posts : Nat, asks : Nat, lost : Nat] /\ SenderFine(sender', rows', question.row)
  BY <1>1, <1>2 DEF Typed, SenderFine
<1> QED BY <1>1, <1>8, <1>9, SendingMoves

LEMMA SendsRepairKeeps ==
  ASSUME ConversationInv, NEW k \in 1..Len(rows), SendsRepair(k)
  PROVE  ConversationInv'
<1> DEFINE new == [rows[k] EXCEPT !.tried = TRUE]
<1>1. /\ sender = 0 /\ Open(rows[k]) /\ rows[k].kind = "repair" /\ ~rows[k].landed /\ SamePresentation(k)
      /\ rows' = [rows EXCEPT ![k] = new] /\ sender' = k
      /\ UNCHANGED <<written, turn, question, retiring, known, steps, posts, holder, panel, left>>
  BY DEF SendsRepair, Puts, Admits
<1>2. /\ rows \in Seq(Kept) /\ RowsFine(rows, turn) /\ AskedFine(question, rows, known, holder)
      /\ Typed /\ TurnsFine /\ (question.row # 0 => question.row \in 1..Len(rows))
  BY RowsKnown
<1>3. /\ new \in Kept /\ SameRow(new, rows[k]) /\ new.tried /\ new.state = rows[k].state
      /\ new.type = rows[k].type /\ new.landed = rows[k].landed
  BY <1>2, FieldsTyped DEF Kept, SameRow
<1> HIDE DEF new
<1>4. RowFine(k, rows[k], turn) /\ Open(new) /\ ~new.landed
  BY <1>1, <1>2, <1>3 DEF RowsFine, Open
<1>5. Changeable(k, new, rows, turn)
  BY <1>1, <1>3, <1>4 DEF Changeable, RowFine, SameRow, Open
<1>6. k # question.row
  BY <1>1, <1>2 DEF AskedFine
<1>7. /\ Changed(rows', k, new, rows) /\ RowsFine(rows', turn)
      /\ AskedFine(question, rows', known, holder)
      /\ PanelFine(panel, question.row, retiring, rows', turn, written)
  BY <1>1, <1>3, <1>4, <1>5, <1>6, RowMoves
<1>8. SenderFine(sender', rows', question.row)
  <2>1. rows'[k] = new
    BY <1>7 DEF Changed
  <2>2. rows[k].type = "elicitation" => rows[k].shows = question.row
    BY <1>1 DEF SamePresentation
  <2> QED BY <1>1, <1>3, <1>4, <2>1, <2>2 DEF SenderFine, SameRow
<1>9. /\ sender' \in 0..Len(rows) /\ panel' \in Panels /\ panel' = panel
      /\ left' \in [posts : Nat, asks : Nat, lost : Nat]
  BY <1>1, <1>2 DEF Typed
<1> QED BY <1>1, <1>7, <1>8, <1>9, SendingMoves

\* A question whose row is being sent is still asked, so its card stands when Linear refuses it.
LEMMA RejectedKeeps ==
  ASSUME ConversationInv, SendRejected
  PROVE  ConversationInv'
<1> DEFINE k == sender
           new == [rows[k] EXCEPT !.tried = FALSE,
                                  !.state = IF rows[k].kind \in {"step", "note"} THEN "off" ELSE @]
<1>1. /\ k # 0 /\ left.lost > 0 /\ left' = [left EXCEPT !.lost = @ - 1] /\ sender' = 0
      /\ rows' = [rows EXCEPT ![k] = new]
      /\ UNCHANGED <<written, turn, question, retiring, known, steps, posts, holder, panel>>
  BY DEF SendRejected, Puts, Loses
<1>2. /\ rows \in Seq(Kept) /\ RowsFine(rows, turn) /\ AskedFine(question, rows, known, holder)
      /\ Typed /\ TurnsFine /\ (question.row # 0 => question.row \in 1..Len(rows))
  BY RowsKnown
<1>3. /\ k \in 1..Len(rows) /\ Open(rows[k]) /\ rows[k].tried /\ ~rows[k].landed
      /\ rows[k].type = "elicitation" => rows[k].shows = question.row
  BY <1>1, <1>2 DEF ConversationInv, SenderFine, Typed
<1>4. /\ new \in Kept /\ SameRow(new, rows[k]) /\ ~new.tried /\ new.type = rows[k].type
      /\ new.state = (IF rows[k].kind \in {"step", "note"} THEN "off" ELSE rows[k].state)
      /\ new.landed = rows[k].landed
  <2>1. rows[k] \in Kept
    BY <1>2, <1>3, FieldsTyped
  <2>2. new.state = (IF rows[k].kind \in {"step", "note"} THEN "off" ELSE rows[k].state)
    BY <2>1 DEF Kept
  <2>3. /\ SameRow(new, rows[k]) /\ ~new.tried /\ new.type = rows[k].type
        /\ new.landed = rows[k].landed
    BY <2>1 DEF Kept, SameRow
  <2>4. new \in Kept
    BY <2>1 DEF Kept
  <2> QED BY <2>2, <2>3, <2>4
<1> HIDE DEF new
<1>5. RowFine(k, rows[k], turn)
  BY <1>2, <1>3 DEF RowsFine
<1>6. Changeable(k, new, rows, turn)
  BY <1>3, <1>4, <1>5 DEF Changeable, RowFine, SameRow, Open
<1>7. /\ rows[k].fixes # 0 => (new.type = rows[k].type /\ Open(new))
      /\ k = question.row => (new.state # "off" /\ (new.tried => rows[k].of >= question.turn))
      /\ rows[k].shows \in {0, question.row} /\ ~new.landed
  BY <1>2, <1>3, <1>4, <1>5 DEF RowFine, AskedFine, Open
<1>8. /\ Changed(rows', k, new, rows) /\ RowsFine(rows', turn)
      /\ AskedFine(question, rows', known, holder)
      /\ PanelFine(panel, question.row, retiring, rows', turn, written)
  <2> HIDE DEF k
  <2> QED BY <1>1, <1>3, <1>6, <1>7, RowMoves
<1>9. /\ sender' \in 0..Len(rows) /\ panel' \in Panels /\ panel' = panel
      /\ left' \in [posts : Nat, asks : Nat, lost : Nat] /\ SenderFine(sender', rows', question.row)
  BY <1>1, <1>2, BudgetTyped DEF Typed, SenderFine
<1> HIDE DEF k
<1> QED BY <1>1, <1>8, <1>9, SendingMoves

\* An unanswered call leaves its row to be read back.
LEMMA TimesOutKeeps ==
  ASSUME ConversationInv, SendTimesOut
  PROVE  ConversationInv'
<1>1. /\ sender' = 0 /\ left.lost > 0 /\ left' = [left EXCEPT !.lost = @ - 1]
      /\ UNCHANGED <<written, turn, question, retiring, known, steps, posts, holder, rows, panel>>
  BY DEF SendTimesOut, Loses
<1>2. Typed'
  <2>1. Typed
    BY DEF ConversationInv
  <2>2. left' \in [posts : Nat, asks : Nat, lost : Nat]
    BY <1>1, <2>1, BudgetTyped
  <2>3. sender' \in 0..Len(rows')
    BY <1>1, <2>1 DEF Typed
  <2> QED BY <1>1, <2>1, <2>2, <2>3 DEF Typed
<1>3. TurnsFine' /\ PostsFine' /\ YieldFine'
  BY <1>1 DEF ConversationInv, TurnsFine, PostsFine, YieldFine
<1>4. SenderFine(sender, rows, question.row)'
  BY <1>1 DEF SenderFine
<1> QED BY <1>1, <1>2, <1>3, <1>4 DEF ConversationInv

\* A row that is refused before transport was never sent.  A question that is refused has no other
\* card, and Core no longer waits on it.
LEMMA RefusedKeeps ==
  ASSUME ConversationInv, NEW k \in 1..Len(rows), Refused(k)
  PROVE  ConversationInv'
<1> DEFINE new == [rows[k] EXCEPT !.state = "off"]
<1>1. /\ sender = 0 /\ Open(rows[k]) /\ ~rows[k].tried /\ Interim(rows[k])
      /\ InterimFinished(k) \/ (rows[k].kind = "question" /\ question.row # k)
      /\ rows' = [rows EXCEPT ![k] = new]
      /\ IF question.row = k THEN Withdraws ELSE UNCHANGED <<question, steps>>
      /\ UNCHANGED <<written, turn, retiring, known, posts, holder, sender, panel, left>>
  BY DEF Refused, Puts
<1>2. /\ rows \in Seq(Kept) /\ RowsFine(rows, turn) /\ AskedFine(question, rows, known, holder)
      /\ Typed /\ TurnsFine /\ (question.row # 0 => question.row \in 1..Len(rows))
  BY RowsKnown
<1>3. /\ new \in Kept /\ SameRow(new, rows[k]) /\ new.state = "off" /\ new.tried = rows[k].tried
      /\ new.type = rows[k].type /\ new.landed = rows[k].landed
  BY <1>2, FieldsTyped DEF Kept, SameRow
<1> HIDE DEF new
<1>4. RowFine(k, rows[k], turn) /\ rows[k].fixes = 0 /\ ~rows[k].landed /\ ~new.landed
  BY <1>1, <1>2, <1>3 DEF RowsFine, RowFine, Interim
<1>5. Changeable(k, new, rows, turn)
  BY <1>1, <1>3, <1>4 DEF Changeable, RowFine, SameRow, Open, Interim
<1>6. CASE question.row # k
  <2>1. /\ Changed(rows', k, new, rows) /\ RowsFine(rows', turn)
        /\ AskedFine(question, rows', known, holder)
        /\ PanelFine(panel, question.row, retiring, rows', turn, written)
    BY <1>1, <1>4, <1>5, <1>6, RowMoves
  <2>2. /\ sender' \in 0..Len(rows) /\ panel' \in Panels /\ panel' = panel
        /\ left' \in [posts : Nat, asks : Nat, lost : Nat] /\ SenderFine(sender', rows', question.row)
    BY <1>1, <1>2 DEF Typed, SenderFine
  <2> QED BY <1>1, <1>6, <2>1, <2>2, SendingMoves
<1>7. CASE question.row = k
  <2>1. /\ question.row # 0 /\ InterimFinished(k) /\ question' = Nothing /\ resume_typing
        /\ rows[k].shows = k
    BY <1>1, <1>2, <1>4, <1>7 DEF Withdraws, AskedFine, RowFine
  <2>2. steps' \in Statuses /\ steps'.gen = steps.gen /\ steps'.closed = steps.closed
    BY <1>2, <2>1, Resumes DEF Typed
  <2>3. question' \in [row : Nat, turn : 0..MaxInputs] /\ question'.row = 0
    BY <2>1, ConversationAssumption DEF Nothing, ConversationAssumption
  <2>4. Changed(rows', k, new, rows) /\ RowsFine(rows', turn)
    BY <1>1, <1>2, <1>5, RowChanges
  <2>5. Typed'
    <3>1. rows' \in Seq(Kept) /\ Len(rows') = Len(rows)
      BY <2>4 DEF Changed
    <3> QED BY <1>1, <1>2, <2>2, <2>3, <3>1 DEF Typed
  <2>6. PostsFine'
    <3>1. \A i \in steps.closed : Finished(i, rows) => Finished(i, rows')
      BY <2>4 DEF Finished, Changed, Extends, SameRow
    <3> QED BY <1>1, <2>1, <2>2, <3>1, NothingPosted DEF ConversationInv
  <2>7. TurnsFine' /\ YieldFine' /\ AskedFine(question, rows, known, holder)'
    BY <1>1, <1>2, <2>1, <2>3 DEF TurnsFine, YieldFine, AskedFine
  <2>8. SenderFine(sender, rows, question.row)' /\ question'.row \notin retiring'
    BY <1>1, <1>2, <2>3 DEF SenderFine, Typed
  <2>9. \A m \in 1..Len(rows) : m # k => rows[m].shows # k
    <3>1. ~(rows[k].of >= question.turn)
      BY <1>2, <1>7, <2>1, CardsOpen
    <3> QED BY <1>2, <1>7, <2>1, <3>1 DEF AskedFine
  <2>10. PanelFine(panel, k, retiring, rows', turn, written)
    BY <1>1, <1>2, <1>3, <1>4, <1>7, PanelChanges DEF ConversationInv
  <2>11. panel.row # 0 => (panel.row \in 1..Len(rows) /\ rows'[panel.row].shows # k)
    <3>1. SUFFICES ASSUME panel.row # 0 PROVE panel.row \in 1..Len(rows) /\ rows'[panel.row].shows # k
      OBVIOUS
    <3>2. panel.row \in 1..Len(rows) /\ rows[panel.row].landed
      BY <3>1 DEF ConversationInv, PanelFine
    <3>3. panel.row # k
      BY <1>4, <3>2
    <3> QED BY <2>4, <2>9, <3>2, <3>3 DEF Changed
  <2>12. PanelFine(panel, 0, retiring, rows', turn, written)
    BY <2>10, <2>11 DEF PanelFine, ShowsTruth, CardStands, Still
  <2> QED BY <1>1, <2>3, <2>4, <2>5, <2>6, <2>7, <2>8, <2>12 DEF ConversationInv
<1> QED BY <1>6, <1>7

-----------------------------------------------------------------------------
(* A row lands and is settled                                                *)

\* What is shown is shown after everything that is admitted.
LEMMA Shown ==
  ASSUME Typed, RowsFine(rows, turn), NEW k \in 1..Len(rows), Shows(k)
  PROVE  /\ panel' \in Panels /\ panel'.row = k /\ panel'.type = rows[k].type
         /\ panel'.admitted \in Inputs /\ turn[panel'.admitted] # "none"
         /\ panel'.admitted = Latest /\ ~Followed(panel'.admitted, turn)
<1>1. rows \in Seq(Kept)
  BY DEF Typed
<1>2. rows[k].of \in InputsAdmitted
  BY <1>1, FieldsTyped DEF RowsFine, RowFine, InputsAdmitted
<1>3. Latest \in InputsAdmitted /\ \A j \in InputsAdmitted : j <= Latest
  BY <1>2, LastAdmitted
<1>4. panel' = [type |-> rows[k].type, row |-> k, admitted |-> Latest]
  BY <1>2 DEF Shows
<1>5. rows[k].type \in {"action", "thought", "elicitation", "response"}
  <2>1. rows[k] \in Kept
    BY <1>1
  <2> QED BY <2>1 DEF Kept
<1>6. Latest \in Inputs /\ turn[Latest] # "none"
  BY <1>3 DEF InputsAdmitted
<1>7. Latest \in 0..MaxInputs
  BY <1>6 DEF Inputs
<1>8. panel' \in Panels
  BY <1>4, <1>5, <1>7 DEF Panels
<1>9. ~Followed(Latest, turn)
  BY <1>3, <1>6 DEF Followed, InputsAdmitted, Inputs
<1> QED BY <1>4, <1>6, <1>8, <1>9

\* A row that lands after its timeout is on screen, and still to be settled.
LEMMA CreatedLateKeeps ==
  ASSUME ConversationInv, NEW k \in 1..Len(rows), CreatedLate(k)
  PROVE  ConversationInv'
<1> DEFINE new == [rows[k] EXCEPT !.landed = TRUE]
<1>1. /\ Open(rows[k]) /\ rows[k].tried /\ ~rows[k].landed /\ sender # k
      /\ rows' = [rows EXCEPT ![k] = new] /\ Shows(k)
      /\ UNCHANGED <<written, turn, question, retiring, known, steps, posts, holder, sender, left>>
  BY DEF CreatedLate, Puts
<1>2. /\ rows \in Seq(Kept) /\ RowsFine(rows, turn) /\ AskedFine(question, rows, known, holder)
      /\ Typed /\ TurnsFine /\ (question.row # 0 => question.row \in 1..Len(rows))
  BY RowsKnown
<1>3. /\ new \in Kept /\ SameRow(new, rows[k]) /\ new.state = rows[k].state /\ new.tried = rows[k].tried
      /\ new.type = rows[k].type /\ new.landed
  BY <1>2, FieldsTyped DEF Kept, SameRow
<1> HIDE DEF new
<1>4. RowFine(k, rows[k], turn)
  BY <1>2 DEF RowsFine
<1>5. Changeable(k, new, rows, turn)
  BY <1>1, <1>3, <1>4 DEF Changeable, RowFine, SameRow, Open
<1>6. Changed(rows', k, new, rows) /\ RowsFine(rows', turn)
  BY <1>1, <1>2, <1>5, RowChanges
<1>7. k = question.row => (new.state # "off" /\ (new.tried => rows[k].of >= question.turn))
  BY <1>1, <1>2, <1>3 DEF AskedFine, Open
<1>8. AskedFine(question, rows', known, holder)
  BY <1>1, <1>2, <1>3, <1>7, AskedChanges
<1>9. SenderFine(sender', rows', question.row)
  <2>1. sender # 0 => (sender \in 1..Len(rows) /\ rows'[sender] = rows[sender])
    BY <1>1, <1>2, <1>6 DEF Typed, Changed
  <2>2. question.row # 0 => rows'[question.row].tried = rows[question.row].tried
    BY <1>2, <1>3, <1>6 DEF Changed
  <2> QED BY <1>1, <2>1, <2>2 DEF ConversationInv, SenderFine
<1>10. PanelFine(panel', question.row, retiring, rows', turn, written)
  <2>1. rows'[k] = new /\ k \in 1..Len(rows') /\ k # 0
    BY <1>6 DEF Changed
  <2> QED BY <1>1, <1>2, <1>3, <2>1, Shown DEF PanelFine, Still, Open
<1>11. /\ sender' \in 0..Len(rows) /\ panel' \in Panels /\ left' \in [posts : Nat, asks : Nat, lost : Nat]
  BY <1>1, <1>2, Shown DEF Typed
<1> QED BY <1>1, <1>6, <1>8, <1>9, <1>10, <1>11, SendingMoves

\* Where the panel stands, whatever it should show.
PanelOn(p, rs, tn, wr) ==
  /\ p.row = 0 => p.type = "prompt"
  /\ p.row # 0 => p.row \in 1..Len(rs) /\ rs[p.row].landed /\ p.type = rs[p.row].type
  /\ p.admitted # 0 => tn[p.admitted] # "none"
  /\ Answered(tn, wr, rs) => p.row # 0

\* A card the question may have is among those that display it, and what displays it may be shown.
LEMMA CardsDisplay ==
  ASSUME Typed, TurnsFine, RowsFine(rows, turn), AskedFine(question, rows, known, holder), question.row # 0
  PROVE  /\ \A k \in 1..Len(rows) :
              (rows[k].shows = question.row /\ rows[k].state # "off" /\ rows[question.row].of >= question.turn)
                => k \in Displays
         /\ Displays # {} => rows[question.row].of >= question.turn
BY CardsOpen DEF Displays

\* What a settled row is repaired with.
Remedy(k) == [Repair(k, Target(k)) EXCEPT !.tried = TRUE]

Mends(fix, k) ==
  /\ fix \in Kept /\ fix.kind = "repair" /\ fix.fixes = k /\ Open(fix) /\ fix.tried /\ ~fix.landed
  /\ turn[fix.of] # "none"
  /\ fix.type = "elicitation" <=> fix.shows # 0
  /\ fix.shows # 0 => /\ question.row # 0 /\ fix.shows = question.row
                      /\ rows[question.row].of >= question.turn
                      /\ fix.of = rows[question.row].of
  /\ (question.row # 0 /\ rows[k].shows = question.row) => fix.type = "elicitation"

AtOnce(z, row) == z = [row EXCEPT !.tried = TRUE]

LEMMA SentAsMade ==
  ASSUME NEW of, NEW type, NEW fixes, NEW shows, NEW row, row = Row("repair", of, type, fixes, shows),
         NEW z, AtOnce(z, row)
  PROVE  z = [kind |-> "repair", of |-> of, type |-> type, state |-> "pending", tried |-> TRUE,
             landed |-> FALSE, fixes |-> fixes, shows |-> shows]
<1>1. row \in [kind : {"repair"}, of : {of}, type : {type}, state : {"pending"}, tried : BOOLEAN,
              landed : {FALSE}, fixes : {fixes}, shows : {shows}]
  BY DEF Row
<1>2. z = [row EXCEPT !.tried = TRUE]
  BY DEF AtOnce
<1> QED BY <1>1, <1>2

LEMMA RepairFor ==
  ASSUME ConversationInv, NEW k \in 1..Len(rows), Open(rows[k]), rows[k].tried \/ rows[k].kind = "repair"
  PROVE  Mends(Remedy(k), k)
<1>0. SUFFICES ASSUME NEW row, row = Repair(k, Target(k)), NEW fix, AtOnce(fix, row)
               PROVE  Mends(fix, k)
  BY Zenon DEF Remedy, AtOnce
<1>1. /\ rows \in Seq(Kept) /\ RowsFine(rows, turn) /\ AskedFine(question, rows, known, holder)
      /\ Typed /\ TurnsFine /\ (question.row # 0 => question.row \in 1..Len(rows))
  BY RowsKnown
<1>2. /\ rows[k].of \in Inputs /\ turn[rows[k].of] # "none"
      /\ question.row # 0 => (rows[question.row].of \in Inputs /\ turn[rows[question.row].of] # "none")
  BY <1>1, FieldsTyped DEF RowsFine, RowFine
<1>3. question.row \in Nat /\ k \in Nat /\ k # 0
  BY <1>1 DEF Typed
<1>4. Target(k) \in {"action", "thought", "elicitation", "response"}
  BY DEF Target
<1>5. Target(k) = "elicitation" <=> (question.row # 0 /\ Displays # {})
  BY DEF Target
<1>6. (question.row # 0 /\ rows[k].shows = question.row) => Target(k) = "elicitation"
  <2>1. SUFFICES ASSUME question.row # 0, rows[k].shows = question.row PROVE Displays # {}
    BY <1>5
  <2>2. rows[question.row].of >= question.turn
    BY <1>1, <2>1 DEF AskedFine
  <2> QED BY <1>1, <2>1, <2>2, CardsDisplay DEF Open
<1>7. CASE Target(k) = "elicitation"
  <2>1. fix = [kind |-> "repair", of |-> rows[question.row].of, type |-> "elicitation", state |-> "pending",
               tried |-> TRUE, landed |-> FALSE, fixes |-> k, shows |-> question.row]
    <3>1. Repair(k, Target(k)) = Row("repair", rows[question.row].of, "elicitation", k, question.row)
      BY <1>7 DEF Repair
    <3>2. row = Row("repair", rows[question.row].of, "elicitation", k, question.row)
      BY <1>0, <3>1
    <3> QED BY <1>0, <3>2, SentAsMade
  <2>2. fix \in Kept
    <3>1. rows[question.row].of \in Inputs /\ question.row \in Nat /\ k \in Nat
      BY <1>2, <1>3, <1>5, <1>7
    <3> QED BY <2>1, <3>1 DEF Kept
  <2>3. question.row # 0 /\ rows[question.row].of >= question.turn
    BY <1>1, <1>5, <1>7, CardsDisplay
  <2> QED BY <1>2, <1>3, <2>1, <2>2, <2>3 DEF Mends, Open
<1>8. CASE Target(k) # "elicitation"
  <2>1. fix = [kind |-> "repair", of |-> rows[k].of, type |-> Target(k), state |-> "pending",
               tried |-> TRUE, landed |-> FALSE, fixes |-> k, shows |-> 0]
    <3>1. Repair(k, Target(k)) = Row("repair", rows[k].of, Target(k), k, 0)
      BY <1>8 DEF Repair
    <3>2. row = Row("repair", rows[k].of, Target(k), k, 0)
      BY <1>0, <3>1
    <3> QED BY <1>0, <3>2, SentAsMade
  <2>2. fix \in Kept
    <3>1. rows[k].of \in Inputs /\ k \in Nat
      BY <1>2, <1>3
    <3> QED BY <1>4, <2>1, <3>1 DEF Kept
  <2> QED BY <1>2, <1>6, <1>8, <2>1, <2>2 DEF Mends, Open
<1> QED BY <1>7, <1>8

\* A row that is settled and does not present what it should is repaired at once: what the panel
\* should show is still to be created.
LEMMA RepairsKeeps ==
  ASSUME ConversationInv, NEW k \in 1..Len(rows), Open(rows[k]), rows[k].tried \/ rows[k].kind = "repair",
         NEW s, NEW rs, Changed(rs, k, s, rows), ~Open(s), RowsFine(rs, turn),
         AskedFine(question, rs, known, holder), ~SamePresentation(k), Reconciles(rs, k),
         PanelOn(panel', rs, turn, written), panel' \in Panels,
         UNCHANGED <<written, turn, question, retiring, known, steps, posts, holder, left>>
  PROVE  ConversationInv'
<1> DEFINE fix == Remedy(k)
<1>1. /\ rows \in Seq(Kept) /\ RowsFine(rows, turn) /\ AskedFine(question, rows, known, holder)
      /\ Typed /\ TurnsFine /\ (question.row # 0 => question.row \in 1..Len(rows))
  BY RowsKnown
<1>2. /\ rs \in Seq(Kept) /\ Len(rs) = Len(rows) /\ rs[k] = s /\ Extends(rs, rows)
      /\ \A m \in 1..Len(rs) : SameRow(rs[m], rows[m])
  BY DEF Changed, Extends
<1>3. /\ fix \in Kept /\ fix.kind = "repair" /\ fix.fixes = k /\ Open(fix) /\ fix.tried /\ ~fix.landed
      /\ turn[fix.of] # "none"
      /\ fix.type = "elicitation" <=> fix.shows # 0
      /\ fix.shows # 0 => /\ question.row # 0 /\ fix.shows = question.row
                          /\ rows[question.row].of >= question.turn
                          /\ fix.of = rows[question.row].of
      /\ (question.row # 0 /\ rows[k].shows = question.row) => fix.type = "elicitation"
  BY RepairFor DEF Mends
<1>4. Repair(k, Target(k)).fixes = k
  BY DEF Repair, Row
<1>5. ~Queued(rs, Repair(k, Target(k)))
  <2>1. ASSUME NEW m \in 1..Len(rs), rs[m].fixes = k PROVE FALSE
    <3>1. rows[m].fixes = k /\ m \in 1..Len(rows)
      BY <1>2, <2>1 DEF SameRow
    <3> QED BY <1>1, <3>1 DEF RowsFine, Linked
  <2> QED BY <1>4, <2>1 DEF Queued
<1>6. rows' = Append(rs, fix) /\ sender' = Len(rs) + 1
  BY <1>5 DEF Reconciles, Repairs, Remedy
<1> HIDE DEF fix
<1>7. Addable(fix, rs, turn)
  <2>1. RowFine(Len(rs) + 1, fix, turn)
    BY <1>3 DEF RowFine, Open
  <2>2. fix.fixes \in 1..Len(rs) /\ ~Open(rs[fix.fixes])
    BY <1>2, <1>3
  <2>3. fix.shows # 0 => (fix.shows \in 1..Len(rs) /\ rs[fix.shows].kind = "question" /\ rs[fix.shows].of = fix.of)
    BY <1>1, <1>2, <1>3 DEF AskedFine, SameRow
  <2> QED BY <1>3, <2>1, <2>2, <2>3 DEF Addable
<1>8. Added(rows', fix, rs) /\ RowsFine(rows', turn)
  BY <1>2, <1>6, <1>7, RowAdded
<1>9. /\ rows' \in Seq(Kept) /\ Len(rows') = Len(rs) + 1 /\ rows'[Len(rs) + 1] = fix
      /\ \A m \in 1..Len(rs) : rows'[m] = rs[m]
  BY <1>8 DEF Added
<1>10. Extends(rows', rows)
  BY <1>2, <1>9 DEF Extends
<1>11. AskedFine(question, rows', known, holder)
  <2>1. (question.row # 0 /\ fix.shows = question.row) => rs[question.row].of >= question.turn
    BY <1>1, <1>2, <1>3 DEF SameRow
  <2>2. (question.row # 0 /\ rs[fix.fixes].shows = question.row) => fix.type = "elicitation"
    BY <1>2, <1>3 DEF SameRow
  <2> QED BY <1>2, <1>3, <1>6, <2>1, <2>2, AskedAppends
<1>12. SenderFine(sender', rows', question.row)
  BY <1>3, <1>6, <1>9 DEF SenderFine
<1>13. PanelFine(panel', question.row, retiring, rows', turn, written)
  <2>1. Answered(turn, written, rows') => Answered(turn, written, rs)
    BY <1>3, <1>9 DEF Answered
  <2>2. ~Still(panel', rows')
    <3>1. Len(rs) + 1 \in 1..Len(rows')
      BY <1>2, <1>9
    <3>2. k # 0
      OBVIOUS
    <3> QED BY <1>3, <1>9, <3>1, <3>2 DEF Still
  <2>3. panel'.row # 0 => /\ panel'.row \in 1..Len(rows') /\ rows'[panel'.row].landed
                          /\ panel'.type = rows'[panel'.row].type
    BY <1>9 DEF PanelOn
  <2> QED BY <2>1, <2>2, <2>3 DEF PanelFine, PanelOn
<1>14. sender' \in 0..Len(rows') /\ left' \in [posts : Nat, asks : Nat, lost : Nat]
  BY <1>1, <1>2, <1>6, <1>9 DEF Typed
<1> QED BY <1>8, <1>9, <1>10, <1>11, <1>12, <1>13, <1>14, OnlySending

\* A sent row keeps all but its state.
LEMMA SentRows ==
  ASSUME ConversationInv, NEW k \in 1..Len(rows), Open(rows[k]), rows[k].tried
  PROVE  \E s : /\ Changed(Sent(k), k, s, rows) /\ s.state = "sent" /\ s.landed /\ s.type = rows[k].type
                /\ RowsFine(Sent(k), turn) /\ AskedFine(question, Sent(k), known, holder)
<1> DEFINE new == [rows[k] EXCEPT !.state = "sent", !.landed = TRUE]
<1>1. /\ rows \in Seq(Kept) /\ RowsFine(rows, turn) /\ AskedFine(question, rows, known, holder)
      /\ Typed /\ TurnsFine /\ (question.row # 0 => question.row \in 1..Len(rows))
  BY RowsKnown
<1>2. /\ new \in Kept /\ SameRow(new, rows[k]) /\ new.state = "sent" /\ new.landed
      /\ new.type = rows[k].type /\ new.tried = rows[k].tried
  BY <1>1, FieldsTyped DEF Kept, SameRow
<1>3. Sent(k) = [rows EXCEPT ![k] = new]
  BY <1>1 DEF Sent
<1> HIDE DEF new
<1>4. RowFine(k, rows[k], turn)
  BY <1>1 DEF RowsFine
<1>5. Changeable(k, new, rows, turn)
  BY <1>2, <1>4 DEF Changeable, RowFine, SameRow, Open
<1>6. Changed(Sent(k), k, new, rows) /\ RowsFine(Sent(k), turn)
  BY <1>1, <1>3, <1>5, RowChanges
<1>7. k = question.row => (new.state # "off" /\ (new.tried => rows[k].of >= question.turn))
  BY <1>1, <1>2 DEF AskedFine
<1>8. AskedFine(question, Sent(k), known, holder)
  BY <1>1, <1>2, <1>3, <1>7, AskedChanges
<1> QED BY <1>2, <1>6, <1>8

\* What presents the target when it is settled tells the truth.
LEMMA PresentsTruth ==
  ASSUME ConversationInv, NEW k \in 1..Len(rows), rows[k].tried, Open(rows[k]), SamePresentation(k),
         NEW p, p.row = k, p.type = rows[k].type,
         NEW s, NEW rs, Changed(rs, k, s, rows), RowsFine(rs, turn), AskedFine(question, rs, known, holder)
  PROVE  ShowsTruth(p, question.row, retiring, rs, turn, written)
<1>1. /\ rows \in Seq(Kept) /\ RowsFine(rows, turn) /\ AskedFine(question, rows, known, holder)
      /\ Typed /\ TurnsFine /\ (question.row # 0 => question.row \in 1..Len(rows))
  BY RowsKnown
<1>2. /\ p.type = Target(k)
      /\ Target(k) = "elicitation" => rows[k].shows = question.row
      /\ rs[k].shows = rows[k].shows
  BY DEF SamePresentation, Changed, Extends, SameRow
<1>3. ASSUME question.row # 0, rs[question.row].landed
      PROVE  p.type = "elicitation" /\ rs[p.row].shows = question.row
  <2>1. rs[question.row].tried
    BY <1>1, <1>3 DEF Changed, RowsFine, RowFine
  <2>2. /\ rows[question.row].of >= question.turn /\ rows[question.row].state # "off"
        /\ rows[question.row].shows = question.row
    BY <1>1, <1>3, <2>1 DEF AskedFine, Changed, Extends, SameRow, RowsFine, RowFine
  <2>3. Displays # {}
    BY <1>1, <1>3, <2>2, CardsDisplay
  <2> QED BY <1>2, <1>3, <2>3 DEF Target
<1>4. p.type = "elicitation" => CardStands(rs[p.row].shows, question.row, retiring, rs)
  BY <1>2 DEF CardStands
<1>5. p.type = "response" => ~LiveIn(turn)
  BY <1>2 DEF Target, Live, LiveIn
<1>6. Answered(turn, written, rs) => p.type = "response"
  <2>1. SUFFICES ASSUME ~Live PROVE Target(k) = "response"
    BY <1>2 DEF Answered, Live, LiveIn
  <2> QED BY <1>1, <2>1, NothingOpen DEF Target
<1> QED BY <1>3, <1>4, <1>5, <1>6 DEF ShowsTruth

\* What was on screen before a landed row is settled stays true.
LEMMA StaysTrue ==
  ASSUME ConversationInv, NEW k \in 1..Len(rows), rows[k].landed, Open(rows[k]), SamePresentation(k),
         panel.row # k, NEW s, NEW rs, Changed(rs, k, s, rows), s.landed, s.type = rows[k].type, ~Open(s)
  PROVE  PanelFine(panel, question.row, retiring, rs, turn, written)
<1>1. /\ rows \in Seq(Kept) /\ RowsFine(rows, turn) /\ (question.row # 0 => question.row \in 1..Len(rows))
  BY RowsKnown
<1>2. /\ Len(rs) = Len(rows) /\ rs[k] = s /\ \A m \in 1..Len(rows) : m # k => rs[m] = rows[m]
      /\ \A m \in 1..Len(rows) : SameRow(rs[m], rows[m]) /\ rs[m].type = rows[m].type
      /\ \A m \in 1..Len(rows) : rs[m].landed => rows[m].landed
  BY DEF Changed, Extends
<1>3. PanelFine(panel, question.row, retiring, rows, turn, written)
  BY DEF ConversationInv
<1>4. Answered(turn, written, rs) => Answered(turn, written, rows)
  BY <1>2 DEF Answered, SameRow
<1>5. panel.row # 0 => panel.row \in 1..Len(rows) /\ rs[panel.row] = rows[panel.row]
  BY <1>2, <1>3 DEF PanelFine
<1>6. Still(panel, rs) => Still(panel, rows)
  BY <1>2, <1>5 DEF Still, SameRow
<1>7. ASSUME NEW c, OnlyCards(c, rows) PROVE OnlyCards(c, rs)
  <2>1. SUFFICES ASSUME NEW m \in 1..Len(rows), rs[m].fixes # 0, rs[rs[m].fixes].shows = c
                 PROVE  rs[m].type = "elicitation"
    BY <1>2 DEF OnlyCards
  <2>2. rows[m].fixes # 0 /\ rows[m].fixes \in 1..Len(rows) /\ rs[m].fixes = rows[m].fixes
    BY <2>1, <1>1, <1>2, FieldsTyped DEF RowsFine, Linked, SameRow
  <2> QED BY <1>2, <1>7, <2>1, <2>2 DEF SameRow, OnlyCards
<1>8. ASSUME NEW c, c # 0, CardStands(c, question.row, retiring, rows)
      PROVE  CardStands(c, question.row, retiring, rs)
  <2>1. CASE c = question.row \/ (c \in retiring /\ OnlyCards(c, rows))
    BY <1>7, <2>1 DEF CardStands
  <2>2. ASSUME NEW m \in 1..Len(rows), Open(rows[m]), rows[m].tried, rows[m].shows = c
        PROVE  CardStands(c, question.row, retiring, rs)
    <3>1. CASE m = k
      <4>1. rows[k].type = "elicitation"
        BY <1>1, <1>8, <2>2, <3>1 DEF RowsFine, RowFine
      <4>2. c = question.row
        BY <2>2, <3>1, <4>1 DEF SamePresentation
      <4> QED BY <4>2 DEF CardStands
    <3>2. CASE m # k
      BY <1>2, <2>2, <3>2 DEF CardStands
    <3> QED BY <3>1, <3>2
  <2> QED BY <1>8, <2>1, <2>2 DEF CardStands
<1>9. (panel.row # 0 /\ panel.type = "elicitation") => rows[panel.row].shows # 0
  BY <1>1, <1>3, <1>5 DEF PanelFine, RowsFine, RowFine
<1>10. Still(panel, rs) => ShowsTruth(panel, question.row, retiring, rs, turn, written)
  <2>1. SUFFICES ASSUME Still(panel, rs) PROVE ShowsTruth(panel, question.row, retiring, rs, turn, written)
    OBVIOUS
  <2>2. panel.row # 0 /\ ShowsTruth(panel, question.row, retiring, rows, turn, written)
    BY <1>3, <1>6, <2>1 DEF PanelFine, Still
  <2> QED BY <1>1, <1>2, <1>4, <1>5, <1>8, <1>9, <2>2 DEF ShowsTruth
<1> QED BY <1>2, <1>3, <1>4, <1>5, <1>10 DEF PanelFine

\* A settled row presents what it should or is repaired.
LEMMA SettlesKeeps ==
  ASSUME ConversationInv, NEW k \in 1..Len(rows), Open(rows[k]), rows[k].tried, SettlesRow(k),
         Shows(k) \/ (panel' = panel /\ rows[k].landed),
         UNCHANGED <<written, turn, question, retiring, known, steps, posts, holder, left>>
  PROVE  ConversationInv'
<1>1. /\ rows \in Seq(Kept) /\ RowsFine(rows, turn) /\ AskedFine(question, rows, known, holder)
      /\ Typed /\ TurnsFine /\ (question.row # 0 => question.row \in 1..Len(rows))
  BY RowsKnown
<1>2. PICK s : /\ Changed(Sent(k), k, s, rows) /\ s.state = "sent" /\ s.landed /\ s.type = rows[k].type
               /\ RowsFine(Sent(k), turn) /\ AskedFine(question, Sent(k), known, holder)
  BY SentRows
<1> DEFINE rs == Sent(k)
<1>3. /\ rs \in Seq(Kept) /\ Len(rs) = Len(rows) /\ rs[k] = s /\ Extends(rs, rows)
      /\ \A m \in 1..Len(rows) : m # k => rs[m] = rows[m]
      /\ \A m \in 1..Len(rows) : SameRow(rs[m], rows[m])
  BY <1>2 DEF Changed, Extends
<1> HIDE DEF rs
<1>4. ~Open(s)
  BY <1>2 DEF Open
<1>5. panel' \in Panels
  BY <1>1, Shown DEF Typed
<1>6. PanelOn(panel', rs, turn, written)
  <2>1. CASE Shows(k)
    <3>1. k \in 1..Len(rs) /\ k # 0
      BY <1>3
    <3> QED BY <1>1, <1>2, <1>3, <2>1, <3>1, Shown DEF PanelOn
  <2>2. CASE panel' = panel /\ rows[k].landed
    <3>1. PanelFine(panel, question.row, retiring, rows, turn, written)
      BY DEF ConversationInv
    <3>2. Answered(turn, written, rs) => Answered(turn, written, rows)
      BY <1>2, <1>3, <2>2 DEF Answered, SameRow
    <3>3. panel.row # 0 => panel.row \in 1..Len(rs) /\ rs[panel.row].landed /\ panel.type = rs[panel.row].type
      BY <1>2, <1>3, <3>1 DEF PanelFine
    <3> QED BY <2>2, <3>1, <3>2, <3>3 DEF PanelFine, PanelOn
  <2> QED BY <2>1, <2>2
<1>7. CASE SamePresentation(k)
  <2>1. rows' = rs /\ sender' = 0
    BY <1>7 DEF SettlesRow, Reconciles, rs
  <2>2. PanelFine(panel', question.row, retiring, rs, turn, written)
    <3>1. CASE panel'.row = k
      <4>1. panel'.type = rows[k].type
        BY <1>2, <1>3, <1>6, <3>1 DEF PanelOn
      <4>2. ShowsTruth(panel', question.row, retiring, rs, turn, written)
        BY <1>2, <1>7, <3>1, <4>1, PresentsTruth DEF rs
      <4> QED BY <1>6, <4>2 DEF PanelFine, PanelOn
    <3>2. CASE panel'.row # k
      <4>1. panel' = panel /\ rows[k].landed
        BY <1>1, <3>2, Shown
      <4> QED BY <1>2, <1>4, <1>7, <3>2, <4>1, StaysTrue DEF rs
    <3> QED BY <3>1, <3>2
  <2>3. SenderFine(sender', rows', question.row) /\ sender' \in 0..Len(rows')
    BY <1>3, <2>1 DEF SenderFine
  <2>4. /\ rows' \in Seq(Kept) /\ Extends(rows', rows) /\ RowsFine(rows', turn)
        /\ AskedFine(question, rows', known, holder)
        /\ PanelFine(panel', question.row, retiring, rows', turn, written)
        /\ left' \in [posts : Nat, asks : Nat, lost : Nat]
    BY <1>1, <1>2, <1>3, <2>1, <2>2 DEF rs, Typed
  <2> QED BY <1>5, <2>3, <2>4, OnlySending
<1>8. CASE ~SamePresentation(k)
  <2>1. Reconciles(rs, k)
    BY DEF SettlesRow, rs
  <2>2. Changed(rs, k, s, rows) /\ RowsFine(rs, turn) /\ AskedFine(question, rs, known, holder)
    BY <1>2 DEF rs
  <2> QED BY <1>4, <1>5, <1>6, <1>8, <2>1, <2>2, RepairsKeeps
<1> QED BY <1>7, <1>8

LEMMA SendAnsweredKeeps ==
  ASSUME ConversationInv, SendAnswered
  PROVE  ConversationInv'
<1>1. /\ sender # 0 /\ SettlesRow(sender) /\ Shows(sender)
      /\ UNCHANGED <<written, turn, question, retiring, known, steps, posts, holder, left>>
  BY DEF SendAnswered
<1>2. sender \in 1..Len(rows) /\ Open(rows[sender]) /\ rows[sender].tried
  BY <1>1, RowsKnown DEF ConversationInv, SenderFine, Typed
<1> QED BY <1>1, <1>2, SettlesKeeps

LEMMA ReadsBackKeeps ==
  ASSUME ConversationInv, NEW k \in 1..Len(rows), ReadsBack(k)
  PROVE  ConversationInv'
BY SettlesKeeps DEF ReadsBack

\* A repair whose purpose has changed before it was sent gives way to another.
LEMMA RepairObsoleteKeeps ==
  ASSUME ConversationInv, NEW k \in 1..Len(rows), RepairObsolete(k)
  PROVE  ConversationInv'
<1> DEFINE new == [rows[k] EXCEPT !.state = "off"]
           rs == [rows EXCEPT ![k] = new]
<1>1. /\ sender = 0 /\ Open(rows[k]) /\ rows[k].kind = "repair" /\ ~rows[k].tried /\ ~SamePresentation(k)
      /\ Reconciles([rows EXCEPT ![k].state = "off"], k)
      /\ UNCHANGED <<written, turn, question, retiring, known, steps, posts, holder, panel, left>>
  BY DEF RepairObsolete
<1>2. /\ rows \in Seq(Kept) /\ RowsFine(rows, turn) /\ AskedFine(question, rows, known, holder)
      /\ Typed /\ TurnsFine /\ (question.row # 0 => question.row \in 1..Len(rows))
  BY RowsKnown
<1>3. /\ new \in Kept /\ SameRow(new, rows[k]) /\ new.state = "off" /\ new.tried = rows[k].tried
      /\ new.type = rows[k].type /\ new.landed = rows[k].landed
  BY <1>2, FieldsTyped DEF Kept, SameRow
<1>4. [rows EXCEPT ![k].state = "off"] = rs
  BY <1>2
<1>5. Reconciles(rs, k) /\ rs = [rows EXCEPT ![k] = new]
  BY <1>1, <1>4
<1> HIDE DEF new, rs
<1>6. RowFine(k, rows[k], turn) /\ ~rows[k].landed /\ ~Open(new)
  BY <1>1, <1>2, <1>3 DEF RowsFine, RowFine, Open
<1>7. Changeable(k, new, rows, turn)
  BY <1>1, <1>3, <1>6 DEF Changeable, RowFine, SameRow, Open
<1>8. Changed(rs, k, new, rows) /\ RowsFine(rs, turn)
  BY <1>2, <1>5, <1>7, RowChanges
<1>9. k # question.row
  BY <1>1, <1>2 DEF AskedFine
<1>10. AskedFine(question, rs, known, holder)
  BY <1>2, <1>3, <1>5, <1>9, AskedChanges
<1>11. PanelOn(panel', rs, turn, written)
  <2>1. PanelFine(panel, question.row, retiring, rows, turn, written)
    BY DEF ConversationInv
  <2>2. /\ Len(rs) = Len(rows) /\ rs[k] = new /\ \A m \in 1..Len(rows) : m # k => rs[m] = rows[m]
        /\ \A m \in 1..Len(rows) : SameRow(rs[m], rows[m])
    BY <1>8 DEF Changed, Extends
  <2>3. Answered(turn, written, rs) => Answered(turn, written, rows)
    BY <1>3, <1>6, <2>2 DEF Answered, SameRow
  <2>4. panel.row # 0 => /\ panel.row \in 1..Len(rs) /\ rs[panel.row].landed
                         /\ panel.type = rs[panel.row].type
    BY <1>6, <2>1, <2>2 DEF PanelFine
  <2> QED BY <1>1, <2>1, <2>3, <2>4 DEF PanelFine, PanelOn
<1>12. panel' \in Panels
  BY <1>1, <1>2 DEF Typed
<1> QED BY <1>1, <1>5, <1>6, <1>8, <1>10, <1>11, <1>12, RepairsKeeps

-----------------------------------------------------------------------------
(* A card is taken down                                                      *)

Cards(q) == {k \in 1..Len(rows) : rows[k].shows = q /\ rows[k].tried}
NewestCards(q) == {k \in Cards(q) : rows[k].state = "sent" /\ \A m \in Cards(q) : m <= k}

\* A card that is still on screen has been replaced, or is being sent again.
LEMMA CardReplaced ==
  ASSUME ConversationInv, NEW q, q # 0, q # question.row, Cards(q) # {}, OnlyCards(q, rows),
         \A k \in NewestCards(q) : Queued(rows, Repair(k, "thought"))
  PROVE  \E m \in 1..Len(rows) : Open(rows[m]) /\ rows[m].tried /\ rows[m].shows = q
<1>1. rows \in Seq(Kept) /\ RowsFine(rows, turn)
  BY RowsKnown
<1>2. Len(rows) \in Nat /\ Cards(q) \in SUBSET (1..Len(rows))
  BY <1>1 DEF Cards
<1>3. PICK last \in Cards(q) : \A j \in Cards(q) : j <= last
  BY <1>2, LastOf
<1>4. last \in 1..Len(rows) /\ rows[last].shows = q /\ rows[last].tried
  BY <1>3 DEF Cards
<1>5. rows[last].state \in {"pending", "sent"}
  BY <1>1, <1>4, FieldsTyped DEF RowsFine, RowFine
<1>6. CASE rows[last].state = "sent"
  <2>1. Queued(rows, Repair(last, "thought"))
    BY <1>3, <1>6 DEF NewestCards
  <2>2. PICK m \in 1..Len(rows) : rows[m].fixes = last /\ rows[m].type = "thought"
    BY <2>1 DEF Queued, Repair, Row
  <2> QED BY <1>4, <2>2 DEF OnlyCards
<1> QED BY <1>4, <1>5, <1>6 DEF Open

LEMMA RetiresCardKeeps ==
  ASSUME ConversationInv, NEW q \in retiring, RetiresCard(q)
  PROVE  ConversationInv'
<1> DEFINE c == CHOOSE k \in NewestCards(q) : TRUE
           new == Repair(c, "thought")
<1>1. /\ sender = 0 /\ retiring' = retiring \ {q}
      /\ IF question = Nothing THEN resume_typing ELSE UNCHANGED steps
      /\ rows' = IF \A k \in NewestCards(q) : Queued(rows, Repair(k, "thought")) THEN rows
                 ELSE Append(rows, new)
      /\ UNCHANGED <<written, turn, question, known, posts, holder, sender, panel, left>>
  BY DEF RetiresCard, Cards, NewestCards
<1>2. /\ rows \in Seq(Kept) /\ RowsFine(rows, turn) /\ AskedFine(question, rows, known, holder)
      /\ Typed /\ TurnsFine /\ (question.row # 0 => question.row \in 1..Len(rows))
  BY RowsKnown
<1>3. q \in 1..Len(rows) /\ q # 0 /\ q # question.row
  BY <1>2 DEF ConversationInv, Typed
<1>4. steps' \in Statuses /\ steps'.gen = steps.gen /\ steps'.closed = steps.closed
  BY <1>1, <1>2, Resumes DEF Typed
<1>5. TurnsFine' /\ YieldFine' /\ question'.row \notin retiring'
  <2>1. question # Nothing => steps' = steps
    BY <1>1
  <2>2. rows' = rows \/ rows' = Append(rows, new)
    BY <1>1
  <2>3. question.row # 0 => rows'[question.row] = rows[question.row]
    BY <1>2, <2>2
  <2> QED BY <1>1, <1>2, <2>1, <2>3 DEF ConversationInv, TurnsFine, YieldFine
<1>6. ASSUME Extends(rows', rows) PROVE PostsFine'
  <2>1. \A i \in steps.closed : Finished(i, rows) => Finished(i, rows')
    BY <1>6 DEF Extends, Finished, SameRow
  <2> QED BY <1>1, <1>4, <2>1 DEF ConversationInv, PostsFine
<1>7. ASSUME rows' \in Seq(Kept), Len(rows') >= Len(rows) PROVE Typed'
  <2>1. retiring' \subseteq 1..Len(rows') /\ sender' \in 0..Len(rows')
    BY <1>1, <1>2, <1>7 DEF Typed
  <2> QED BY <1>1, <1>2, <1>4, <1>7, <2>1 DEF Typed
<1>8. PanelFine(panel, question.row, retiring, rows, turn, written)
  BY DEF ConversationInv
<1>9. CASE \A k \in NewestCards(q) : Queued(rows, Repair(k, "thought"))
  <2>1. rows' = rows
    BY <1>1, <1>9
  <2>2. ASSUME panel.row # 0, panel.type = "elicitation",
               CardStands(rows[panel.row].shows, question.row, retiring, rows)
        PROVE  CardStands(rows[panel.row].shows, question.row, retiring', rows)
    <3>1. panel.row \in 1..Len(rows) /\ rows[panel.row].tried
      BY <1>2, <1>8, <2>2 DEF PanelFine, RowsFine, RowFine
    <3>2. CASE rows[panel.row].shows = q /\ OnlyCards(q, rows)
      <4>1. panel.row \in Cards(q)
        BY <3>1, <3>2 DEF Cards
      <4> QED BY <1>3, <1>9, <3>2, <4>1, CardReplaced DEF CardStands
    <3>3. CASE ~(rows[panel.row].shows = q /\ OnlyCards(q, rows))
      BY <1>1, <2>2, <3>3 DEF CardStands
    <3> QED BY <3>2, <3>3
  <2>3. PanelFine(panel, question.row, retiring', rows, turn, written)
    BY <1>8, <2>2 DEF PanelFine, ShowsTruth, Still
  <2>4. Extends(rows', rows) /\ Len(rows') >= Len(rows) /\ rows' \in Seq(Kept)
    BY <1>2, <2>1 DEF Extends, SameRow
  <2>5. /\ RowsFine(rows, turn)' /\ SenderFine(sender, rows, question.row)'
        /\ AskedFine(question, rows, known, holder)'
    BY <1>1, <1>2, <2>1 DEF SenderFine
  <2> QED BY <1>1, <1>5, <1>6, <1>7, <2>1, <2>3, <2>4, <2>5 DEF ConversationInv
<1>10. CASE ~\A k \in NewestCards(q) : Queued(rows, Repair(k, "thought"))
  <2>1. rows' = Append(rows, new)
    BY <1>1, <1>10
  <2>2. /\ c \in 1..Len(rows) /\ rows[c].shows = q /\ rows[c].state = "sent" /\ c \in Nat /\ c # 0
        /\ rows[c].of \in Inputs /\ turn[rows[c].of] # "none"
    <3>1. c \in NewestCards(q)
      BY <1>10
    <3>2. c \in 1..Len(rows) /\ rows[c].shows = q /\ rows[c].state = "sent"
      BY <3>1 DEF NewestCards, Cards
    <3> HIDE DEF c
    <3> QED BY <1>2, <3>2, FieldsTyped DEF RowsFine, RowFine
  <2> HIDE DEF c
  <2>3. /\ new \in Kept /\ new.kind = "repair" /\ new.fixes = c /\ new.shows = 0 /\ Open(new)
        /\ new.type = "thought" /\ ~new.landed /\ ~new.tried /\ new.of = rows[c].of
    BY <2>2 DEF Repair, Row, Kept, Open
  <2> HIDE DEF new
  <2>4. Addable(new, rows, turn)
    BY <2>2, <2>3 DEF Addable, RowFine, Open
  <2>5. Added(rows', new, rows) /\ RowsFine(rows', turn)
    BY <1>2, <2>1, <2>4, RowAdded
  <2>6. /\ rows' \in Seq(Kept) /\ Len(rows') = Len(rows) + 1 /\ rows'[Len(rows) + 1] = new
        /\ \A m \in 1..Len(rows) : rows'[m] = rows[m]
        /\ Extends(rows', rows) /\ Len(rows') >= Len(rows)
    BY <1>2, <2>5 DEF Added
  <2>7. AskedFine(question, rows', known, holder)
    BY <1>2, <1>3, <2>1, <2>2, <2>3, AskedAppends
  <2>8. PanelFine(panel, question.row, retiring', rows', turn, written)
    <3>1. Answered(turn, written, rows') => Answered(turn, written, rows)
      BY <2>3, <2>6 DEF Answered
    <3>2. ~Still(panel, rows')
      <4>1. Len(rows) + 1 \in 1..Len(rows')
        BY <1>2, <2>6
      <4> QED BY <2>2, <2>3, <2>6, <4>1 DEF Still
    <3>3. panel.row # 0 => /\ panel.row \in 1..Len(rows') /\ rows'[panel.row].landed
                           /\ panel.type = rows'[panel.row].type
      BY <1>8, <2>6 DEF PanelFine
    <3> QED BY <1>8, <3>1, <3>2, <3>3 DEF PanelFine
  <2>9. SenderFine(sender', rows', question.row)
    BY <1>1 DEF SenderFine
  <2> QED BY <1>1, <1>5, <1>6, <1>7, <2>5, <2>6, <2>7, <2>8, <2>9 DEF ConversationInv
<1> QED BY <1>9, <1>10

-----------------------------------------------------------------------------
(* The invariant                                                             *)

LEMMA ConversationStarts ==
  ASSUME ConversationInit
  PROVE  ConversationInv
<1>1. PICK budget \in Budgets : ConversationIdle(budget)
  BY DEF ConversationInit
<1>2. /\ written = 0 /\ turn = [i \in Inputs |-> "none"] /\ question = Nothing /\ retiring = {} /\ known = 0
      /\ steps = [gen |-> 0, paused |-> FALSE, closed |-> {}]
      /\ posts = {} /\ holder = [at |-> "free", post |-> NoPost]
      /\ rows = <<>> /\ sender = 0
      /\ panel = [type |-> "prompt", row |-> 0, admitted |-> 0]
      /\ left \in [posts : Nat, asks : Nat, lost : Nat] /\ MaxInputs \in Nat
  BY <1>1, ConversationAssumption DEF ConversationIdle, ConversationAssumption
<1>3. /\ rows \in Seq(Kept) /\ Len(rows) = 0 /\ 0 \in 0..MaxInputs
      /\ question.row = 0 /\ question \in [row : Nat, turn : 0..MaxInputs]
  BY <1>2 DEF Nothing
<1>4. holder \in Holders /\ panel \in Panels /\ turn \in Turns
  BY <1>2, <1>3 DEF Holders, Panels, Turns
<1>5. steps \in Statuses
  BY <1>2 DEF Statuses
<1>6. Typed
  BY <1>2, <1>3, <1>4, <1>5 DEF Typed
<1>7. TurnsFine /\ YieldFine
  BY <1>2 DEF TurnsFine, YieldFine
<1>8. PostsFine
  BY <1>2 DEF PostsFine
<1>9. RowsFine(rows, turn) /\ SenderFine(sender, rows, question.row) /\ AskedFine(question, rows, known, holder)
  BY <1>2, <1>3 DEF RowsFine, SenderFine, AskedFine
<1>10. PanelFine(panel, question.row, retiring, rows, turn, written)
  BY <1>2 DEF PanelFine, Answered, Still
<1> QED BY <1>2, <1>3, <1>6, <1>7, <1>8, <1>9, <1>10 DEF ConversationInv

LEMMA ConversationStays ==
  ASSUME ConversationInv, UNCHANGED conversationVars
  PROVE  ConversationInv'
<1>1. UNCHANGED <<written, turn, question, retiring, known, steps, posts, holder, rows, sender, panel, left>>
  BY DEF conversationVars
<1>2. Typed' /\ TurnsFine' /\ PostsFine' /\ YieldFine'
  BY <1>1 DEF ConversationInv, Typed, TurnsFine, PostsFine, YieldFine
<1> QED BY <1>1, <1>2 DEF ConversationInv

LEMMA ConversationSteps ==
  ASSUME ConversationInv, ConversationNext
  PROVE  ConversationInv'
<1>1. ASSUME Writes \/ PersonAnswers \/ Enqueues \/ SendAnswered \/ SendTimesOut \/ SendRejected \/ CoreGivesUp
      PROVE  ConversationInv'
  BY <1>1, WritesKeeps, AnswerKeeps, EnqueuesKeeps, SendAnsweredKeeps, TimesOutKeeps, RejectedKeeps, GivesUpKeeps
<1>2. ASSUME NEW i \in Inputs, \/ CoreAdmits(i) \/ TurnStarts(i) \/ Anchored(i) \/ SendsTyping(i)
                               \/ SendsNote(i) \/ AsksQuestion(i) \/ TurnEnds(i) \/ SendsFinal(i)
      PROVE  ConversationInv'
  BY <1>2, AdmitsKeeps, StartsKeeps, AnchoredKeeps, TypingKeeps, NoteKeeps, AsksKeeps, EndsKeeps, FinalKeeps
<1>3. ASSUME NEW p \in posts, TakesLock(p) \/ Dropped(p) PROVE ConversationInv'
  BY <1>3, LockKeeps, DropKeeps
<1>4. ASSUME NEW q \in retiring, RetiresCard(q) PROVE ConversationInv'
  BY <1>4, RetiresCardKeeps
<1>5. ASSUME NEW k \in 1..Len(rows), \/ Refused(k) \/ SendsInterim(k) \/ SendsReply(k) \/ ReplyObsolete(k)
                                     \/ SendsRepair(k) \/ RepairObsolete(k) \/ CreatedLate(k) \/ ReadsBack(k)
      PROVE  ConversationInv'
  BY <1>5, RefusedKeeps, SendsInterimKeeps, SendsReplyKeeps, ReplyObsoleteKeeps, SendsRepairKeeps,
     RepairObsoleteKeeps, CreatedLateKeeps, ReadsBackKeeps
<1> QED BY <1>1, <1>2, <1>3, <1>4, <1>5 DEF ConversationNext

\* Once every row is settled, so is the newest activity.
LEMMA QuietTellsTruth ==
  ASSUME ConversationInv
  PROVE  PanelTrue
<1> SUFFICES ASSUME Quiet PROVE PanelTrue
  BY DEF PanelTrue
<1>1. /\ rows \in Seq(Kept) /\ RowsFine(rows, turn) /\ AskedFine(question, rows, known, holder)
      /\ Typed /\ TurnsFine /\ (question.row # 0 => question.row \in 1..Len(rows))
  BY RowsKnown
<1>2. /\ retiring = {} /\ \A k \in 1..Len(rows) : ~Open(rows[k])
      /\ PanelFine(panel, question.row, retiring, rows, turn, written)
  BY DEF Quiet, ConversationInv
<1>3. panel.row # 0 => ShowsTruth(panel, question.row, retiring, rows, turn, written)
  <2>1. panel.row # 0 => Still(panel, rows)
    BY <1>2 DEF PanelFine, Still
  <2> QED BY <1>2, <2>1 DEF PanelFine
<1>4. ASSUME NEW k \in 1..Len(rows), rows[k].state # "off" PROVE rows[k].landed
  <2>1. rows[k].state = "sent"
    BY <1>1, <1>2, <1>4, FieldsTyped DEF Open
  <2> QED BY <1>1, <2>1 DEF RowsFine, RowFine
<1>5. question.row # 0 => panel.type \in {"elicitation", "prompt"}
  <2>1. SUFFICES ASSUME question.row # 0 PROVE panel.type \in {"elicitation", "prompt"}
    OBVIOUS
  <2>2. rows[question.row].landed
    BY <1>1, <1>4, <2>1 DEF AskedFine
  <2>3. CASE panel.row = 0
    BY <1>2, <2>3 DEF PanelFine
  <2>4. CASE panel.row # 0
    BY <1>3, <2>1, <2>2, <2>4 DEF ShowsTruth
  <2> QED BY <2>3, <2>4
<1>6. (InputsAdmitted = 1..written /\ written > 0 /\ ~Live) => panel.type = "response"
  <2>1. SUFFICES ASSUME InputsAdmitted = 1..written, written > 0, ~Live PROVE panel.type = "response"
    OBVIOUS
  <2>2. written \in InputsAdmitted /\ written \in Inputs /\ turn[written] = "over"
    BY <1>1, <2>1 DEF Typed, Inputs, InputsAdmitted, Turns, Live
  <2>3. written \in steps.closed /\ ~Promised(written, posts, holder)
    BY <2>2 DEF Quiet, ConversationInv, PostsFine, Promised, NoPost
  <2>4. PICK k \in 1..Len(rows) : rows[k].kind = "final" /\ rows[k].of = written
    BY <2>3 DEF ConversationInv, PostsFine, Finished
  <2>5. ~Followed(written, turn)
    BY <1>1, <2>1 DEF Followed, InputsAdmitted, Typed
  <2>6. rows[k].landed
    BY <1>1, <1>4, <2>4, <2>5 DEF RowsFine, RowFine
  <2>7. Answered(turn, written, rows)
    BY <1>1, <2>1, <2>4, <2>6 DEF Answered, Live, LiveIn, InputsAdmitted, Typed
  <2> QED BY <1>2, <1>3, <2>7 DEF PanelFine, ShowsTruth
<1>7. ASSUME Live, question = Nothing
      PROVE  panel.type # "elicitation" /\ (panel.type = "response" => panel.admitted < Latest)
  <2>1. CASE panel.row = 0
    BY <1>2, <2>1 DEF PanelFine
  <2>2. CASE panel.row # 0
    <3>1. question.row = 0 /\ ShowsTruth(panel, 0, {}, rows, turn, written)
      BY <1>2, <1>3, <1>7, <2>2 DEF Nothing
    <3>2. panel.row \in 1..Len(rows) /\ panel.type = rows[panel.row].type
      BY <1>2, <2>2 DEF PanelFine
    <3>3. panel.type # "elicitation"
      BY <1>1, <1>2, <3>1, <3>2 DEF ShowsTruth, CardStands, RowsFine, RowFine
    <3>4. panel.type = "response" => panel.admitted < Latest
      <4>1. SUFFICES ASSUME panel.type = "response" PROVE panel.admitted < Latest
        OBVIOUS
      <4>2. PICK j \in Inputs : j > panel.admitted /\ turn[j] # "none"
        BY <1>7, <3>1, <4>1 DEF ShowsTruth, Live, LiveIn, Followed
      <4>3. j \in InputsAdmitted
        BY <4>2 DEF InputsAdmitted
      <4>4. Latest \in InputsAdmitted /\ j <= Latest
        BY <4>3, LastAdmitted
      <4> QED BY <1>1, <4>2, <4>4 DEF Typed, Panels, InputsAdmitted, Inputs
    <3> QED BY <3>3, <3>4
  <2> QED BY <2>1, <2>2
<1> QED BY <1>5, <1>6, <1>7 DEF PanelTrue

\* The types that ConversationSound states.
LEMMA ConversationTypes ==
  ASSUME ConversationInv
  PROVE  ConversationTypeOK
<1>1. /\ rows \in Seq(Kept) /\ RowsFine(rows, turn) /\ AskedFine(question, rows, known, holder)
      /\ Typed /\ TurnsFine /\ (question.row # 0 => question.row \in 1..Len(rows))
  BY RowsKnown
<1>2. /\ written \in 0..MaxInputs /\ turn \in [Inputs -> {"none", "queued", "live", "over"}]
      /\ retiring \subseteq 1..Len(rows) /\ known \in 0..MaxInputs /\ sender \in 0..Len(rows)
      /\ left \in [posts : Nat, asks : Nat, lost : Nat]
  BY <1>1 DEF Typed, Turns
<1>3. question \in [row : 0..Len(rows), turn : 0..MaxInputs]
  BY <1>1 DEF Typed
<1>4. steps.gen \in Nat /\ steps.paused \in BOOLEAN /\ steps.closed \subseteq Inputs
  BY <1>1 DEF Typed, Statuses
<1>5. \A p \in posts : p.kind \in {"step", "note", "question", "final"} /\ p.of \in 0..MaxInputs
  BY <1>1 DEF Typed, Posting, Inputs
<1>6. holder.at \in {"free", "queue"}
  BY <1>1 DEF Typed, Holders
<1>7. panel.type \in {"prompt", "action", "thought", "elicitation", "response"}
  BY <1>1 DEF Typed, Panels
<1>8. ASSUME NEW k \in 1..Len(rows)
      PROVE  /\ rows[k].kind \in {"step", "note", "question", "final", "repair"}
             /\ rows[k].type \in {"action", "thought", "elicitation", "response"}
             /\ rows[k].state \in {"pending", "sent", "off"}
             /\ rows[k].tried \in BOOLEAN /\ rows[k].landed \in BOOLEAN
             /\ rows[k].fixes \in 0..Len(rows) /\ rows[k].shows \in 0..Len(rows)
  <2>1. rows[k] \in Kept /\ Linked(k, rows)
    BY <1>1 DEF RowsFine
  <2>2. /\ rows[k].kind \in {"step", "note", "question", "final", "repair"}
        /\ rows[k].type \in {"action", "thought", "elicitation", "response"}
        /\ rows[k].state \in {"pending", "sent", "off"}
        /\ rows[k].tried \in BOOLEAN /\ rows[k].landed \in BOOLEAN
        /\ rows[k].fixes \in Nat /\ rows[k].shows \in Nat
    BY <2>1 DEF Kept
  <2>3. rows[k].fixes \in 0..Len(rows) /\ rows[k].shows \in 0..Len(rows)
    BY <1>1, <2>1, <2>2 DEF Linked
  <2> QED BY <2>2, <2>3
<1> QED BY <1>2, <1>3, <1>4, <1>5, <1>6, <1>7, <1>8 DEF ConversationTypeOK

\* A status is newly sent only while no card of the question is.
LEMMA StatusesYield ==
  ASSUME ConversationInv
  PROVE  StatusYields
<1>1. question.row # 0 => (rows[question.row].landed => rows[question.row].tried)
  BY RowsKnown DEF RowsFine, RowFine
<1> QED BY <1>1 DEF ConversationInv, SenderFine, StatusYields

\* Once every row is settled the panel tells the truth, whatever landed late or out of order, and no
\* status is newly sent over a question on screen: for any number of inputs, posts, questions and
\* lost answers.
THEOREM PanelTellsTruth == ConversationSpec => []ConversationSound
<1>1. ConversationInit => ConversationInv
  BY ConversationStarts
<1>2. ConversationInv /\ [ConversationNext]_conversationVars => ConversationInv'
  BY ConversationSteps, ConversationStays
<1>3. ConversationInv => ConversationSound
  BY ConversationTypes, QuietTellsTruth, StatusesYield DEF ConversationSound
<1> QED BY <1>1, <1>2, <1>3, PTL DEF ConversationSpec
=============================================================================
