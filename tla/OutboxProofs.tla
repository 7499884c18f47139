---------------------------- MODULE OutboxProofs ----------------------------
(***************************************************************************)
(* Theorems about Outbox, for every number of issues, intents, rows, tasks   *)
(* and revivals.  Inv is inductive: SafeStep shows it for the markers and    *)
(* the effects, whatever the operator does; OrderStep shows it for the order *)
(* of an issue's statuses, while the operator looks at Linear only between   *)
(* sends.                                                                    *)
(*                                                                         *)
(* The lemmas before the invariant say what each action writes of a row and  *)
(* which of its fields it keeps.                                             *)
(***************************************************************************)
EXTENDS Outbox, FiniteSetTheorems, WellFoundedInduction, TLAPS

-----------------------------------------------------------------------------
(* Min and Max of sets of row numbers.                                       *)

\* A set of numbers that has a member has a least one.
LEMMA Least ==
  ASSUME NEW T \in SUBSET Nat, T # {}
  PROVE  \E m \in T : \A t \in T : m <= t
<1> DEFINE Below == {p \in Nat \X Nat : p[1] < p[2]}
<1>1. OpToRel(<, Nat) = Below
  BY Zenon DEF OpToRel
<1>2. IsWellFoundedOn(Below, Nat)
  BY <1>1, NatLessThanWellFounded, Zenon
<1>3. \A a, b \in Nat : a < b => <<a, b>> \in Below
  OBVIOUS
<1> HIDE DEF Below
<1>4. PICK x \in T : \A y \in T : <<y, x>> \notin Below
  BY <1>2, WFMin
<1>5. ASSUME NEW y \in T PROVE x <= y
  <2>1. ~ (y < x)
    BY <1>4, <1>3
  <2>2. QED
    BY <2>1
<1> QED
  BY <1>5

\* A bounded set of numbers that has a member has a greatest one (LatestStatus).
LEMMA Greatest ==
  ASSUME NEW n \in Nat, NEW T \in SUBSET (0 .. n), T # {}
  PROVE  \E m \in T : \A t \in T : t <= m
<1> DEFINE U == {n - t : t \in T}
<1>1. PICK s \in T : TRUE
  OBVIOUS
<1>2. n - s \in U /\ \A u \in U : u \in Nat
  OBVIOUS
<1>3. PICK u \in U : \A t \in U : u <= t
  <2> HIDE DEF U
  <2> QED BY <1>2, Least
<1>4. PICK m \in T : u = n - m
  OBVIOUS
<1>5. ASSUME NEW t \in T PROVE t <= m
  <2>1. n - t \in U
    OBVIOUS
  <2>2. u <= n - t
    BY <2>1, <1>3
  <2>3. QED
    BY <2>2, <1>4
<1> QED
  BY <1>5

\* Min of a set of rows is its oldest row (_flush takes rows in rowid order).
LEMMA MinIn ==
  ASSUME NEW T \in SUBSET Nat, T # {}
  PROVE  Min(T) \in T /\ \A t \in T : Min(T) <= t
BY Least DEF Min

\* Max of a set of rows is its newest row (ORDER BY rowid DESC LIMIT 1).
LEMMA MaxIn ==
  ASSUME NEW n \in Nat, NEW T \in SUBSET (0 .. n), T # {}
  PROVE  Max(T) \in T /\ \A t \in T : t <= Max(T)
BY Greatest DEF Max

-----------------------------------------------------------------------------
(* Types.                                                                    *)

\* A row that waits for another row is a row.
LEMMA DepTyped ==
  ASSUME NEW x \in Row, NEW d \in RowId
  PROVE  [x EXCEPT !.dep = d] \in Row
BY DEF Row

\* A row is as it was, or is a history row that waits for another one now.
Sequenced(x, y, n) == \/ y = x
                      \/ x.kind = "history" /\ \E d \in 1 .. n : y = [x EXCEPT !.dep = d]

\* Sequencing the history changes nothing but what a history row waits for.
LEMMA SequenceKeeps ==
  ASSUME NEW n \in 0 .. MaxRows, NEW t \in [1 .. n -> Row], NEW i \in Issues
  PROVE  /\ SequenceNativeHistory(t, i) \in [1 .. n -> Row]
         /\ \A r \in 1 .. n : Sequenced(t[r], SequenceNativeHistory(t, i)[r], n)
<1> DEFINE own(r) == t[r].issue = i /\ t[r].task = binding[i]
                     /\ t[r].state = "pending" /\ ~t[r].held
           waiting == {r \in 1 .. n : own(r) /\ IsStatus(t[r])}
           moves(r) == own(r) /\ t[r].kind = "history" /\ ~t[r].tried /\ ~t[r].started
           m == Max(waiting)
<1>1. SequenceNativeHistory(t, i) =
        IF waiting = {} THEN t
        ELSE [r \in 1 .. n |-> IF moves(r) THEN [t[r] EXCEPT !.dep = m] ELSE t[r]]
  BY DEF SequenceNativeHistory
<1>2. CASE waiting = {}
  BY <1>1, <1>2 DEF Sequenced
<1>3. CASE waiting # {}
  <2>1. m \in 1 .. n
    <3>1. n \in Nat /\ waiting \in SUBSET (0 .. n)
      BY OutboxAssumption DEF OutboxAssumption
    <3>2. m \in waiting
      <4> HIDE DEF waiting
      <4> QED BY <1>3, <3>1, MaxIn
    <3>3. QED
      BY <3>2
  <2>2. \A r \in 1 .. n : [t[r] EXCEPT !.dep = m] \in Row
    <3>1. 1 .. n \subseteq RowId
      BY OutboxAssumption DEF RowId, OutboxAssumption
    <3>2. QED
      BY <2>1, <3>1, DepTyped
  <2>3. QED
    BY <1>1, <1>3, <2>1, <2>2 DEF Sequenced
<1> QED
  BY <1>2, <1>3

\* What an action leaves alone.
LEMMA Typed ==
  ASSUME TypeOK
  PROVE  /\ DOMAIN row = 1 .. last /\ DOMAIN batch \subseteq 1 .. last
         /\ last \in Nat /\ last <= MaxRows /\ 1 .. last \subseteq RowId
         /\ \A r \in 1 .. last : row[r] \in Row
         /\ \A r \in DOMAIN batch : batch[r] \in Row
BY OutboxAssumption DEF TypeOK, RowId, OutboxAssumption

\* Taking a marker back clears the marker of the row, and may re-sequence.
LEMMA TakenBack ==
  ASSUME TypeOK, cur \in DOMAIN batch, MutationNotAttempted
  PROVE  /\ row' \in [1 .. last -> Row]
         /\ \A r \in 1 .. last :
              \/ Sequenced(row[r], row'[r], last)
              \/ r = cur /\ fresh /\ Sequenced([row[r] EXCEPT !.started = FALSE], row'[r], last)
<1> DEFINE cleared == [row EXCEPT ![cur].started = FALSE]
<1> USE Typed
<1>1. CASE UNCHANGED row
  BY <1>1 DEF TypeOK, Sequenced
<1>2. CASE fresh /\ row[cur].state = "pending" /\ row[cur].started
  <2>1. cur \in 1 .. last /\ [row[cur] EXCEPT !.started = FALSE] \in Row
    <3>1. cur \in 1 .. last /\ row[cur] \in Row
      OBVIOUS
    <3>2. QED
      BY <3>1 DEF Row
  <2>2. /\ cleared \in [1 .. last -> Row]
        /\ cleared[cur] = [row[cur] EXCEPT !.started = FALSE]
        /\ \A r \in 1 .. last : r # cur => cleared[r] = row[r]
    BY <2>1 DEF TypeOK
  <2>3. row' = IF row[cur].kind = "history"
               THEN SequenceNativeHistory(cleared, row[cur].issue) ELSE cleared
    BY <1>2 DEF MutationNotAttempted
  <2>4. row[cur].issue \in Issues /\ last \in 0 .. MaxRows
    BY <2>1 DEF Row, TypeOK
  <2>5. CASE row[cur].kind = "history"
    <3> DEFINE s == SequenceNativeHistory(cleared, row[cur].issue)
    <3> HIDE DEF cleared
    <3>1. /\ s \in [1 .. last -> Row]
          /\ \A r \in 1 .. last : Sequenced(cleared[r], s[r], last)
      BY <2>2, <2>4, SequenceKeeps
    <3>2. row' = s
      BY <2>3, <2>5
    <3> HIDE DEF s
    <3>3. ASSUME NEW r \in 1 .. last, r # cur
          PROVE  Sequenced(row[r], row'[r], last)
      BY <3>1, <3>2, <3>3, <2>2
    <3>4. Sequenced([row[cur] EXCEPT !.started = FALSE], row'[cur], last)
      BY <3>1, <3>2, <2>1, <2>2
    <3>5. QED
      BY <3>1, <3>2, <3>3, <3>4, <1>2
  <2>6. CASE row[cur].kind # "history"
    BY <2>6, <2>2, <2>3, <1>2 DEF Sequenced
  <2>7. QED
    BY <2>5, <2>6
<1> QED
  BY <1>1, <1>2 DEF MutationNotAttempted

\* A step that writes the row being delivered, and no other.
OnlyCur(y) ==
  /\ row' \in [1 .. last -> Row]
  /\ row'[cur] = y
  /\ \A r \in 1 .. last : r # cur => row'[r] = row[r]

\* While the sender delivers a row, it is a row of its batch and of the table.
LEMMA CurTyped ==
  ASSUME TypeOK, SenderInv, pc \notin {"idle", "pass"}
  PROVE  /\ cur \in DOMAIN batch /\ cur \in 1 .. last /\ cur # NoRow
         /\ row[cur] \in Row /\ batch[cur] \in Row
BY Typed DEF TypeOK, SenderInv, NoRow

\* Assigning one row writes that row only.
LEMMA WriteCur ==
  ASSUME TypeOK, cur \in 1 .. last, NEW y \in Row, row' = [row EXCEPT ![cur] = y]
  PROVE  OnlyCur(y)
BY DEF TypeOK, OnlyCur

\* hold_terminal writes reconcile_required and a try, of one row.
LEMMA HoldWrites ==
  ASSUME TypeOK, SenderInv, pc \notin {"idle", "pass"}, HoldTerminal
  PROVE  OnlyCur([row[cur] EXCEPT !.required = TRUE, !.tried = TRUE])
<1> DEFINE y == [row[cur] EXCEPT !.required = TRUE, !.tried = TRUE]
<1>1. cur \in 1 .. last /\ row[cur] \in Row
  BY CurTyped
<1>2. y \in Row
  BY <1>1 DEF Row
<1>3. row' = [row EXCEPT ![cur] = y]
  BY <1>1 DEF HoldTerminal
<1> QED
  BY <1>1, <1>2, <1>3, WriteCur

\* admit_mutation writes the marker of one row.
LEMMA AdmitWrites ==
  ASSUME TypeOK, SenderInv, AdmitMutation
  PROVE  OnlyCur([row[cur] EXCEPT !.started = TRUE])
<1> DEFINE y == [row[cur] EXCEPT !.started = TRUE]
<1>1. cur \in 1 .. last /\ row[cur] \in Row /\ batch[cur] \in Row
  BY CurTyped DEF AdmitMutation
<1>2. y \in Row
  BY <1>1 DEF Row
<1>3. row' = [row EXCEPT ![cur] = y]
  BY <1>1 DEF AdmitMutation, TypeOK
<1> QED
  BY <1>1, <1>2, <1>3, WriteCur

\* retry() notes a try, or gives the row up, unless it is held.
LEMMA RetryWrites ==
  ASSUME TypeOK, SenderInv, NEW giveUp \in BOOLEAN, Retry(giveUp)
  PROVE  OnlyCur(IF row[cur].held THEN row[cur]
                 ELSE [row[cur] EXCEPT !.tried = TRUE,
                                       !.state = IF giveUp THEN "failed" ELSE @])
<1> DEFINE y == IF row[cur].held THEN row[cur]
                 ELSE [row[cur] EXCEPT !.tried = TRUE,
                                       !.state = IF giveUp THEN "failed" ELSE @]
<1>1. cur \in 1 .. last /\ row[cur] \in Row /\ batch[cur] \in Row
  BY CurTyped DEF Retry
<1>2. y \in Row
  BY ZenonT(30), <1>1 DEF Row
<1>3. row' = [row EXCEPT ![cur] = y]
  BY <1>1 DEF Retry, TypeOK
<1> QED
  BY <1>1, <1>2, <1>3, WriteCur

\* mark(row, 'failed') writes the state and the refusal, unless it is held.
LEMMA FailedWrites ==
  ASSUME TypeOK, SenderInv, MarkFailed
  PROVE  OnlyCur(IF row[cur].held THEN row[cur]
                 ELSE [row[cur] EXCEPT !.state = "failed", !.rejected = TRUE])
<1> DEFINE y == IF row[cur].held THEN row[cur]
                 ELSE [row[cur] EXCEPT !.state = "failed", !.rejected = TRUE]
<1>1. cur \in 1 .. last /\ row[cur] \in Row /\ batch[cur] \in Row
  BY CurTyped DEF MarkFailed
<1>2. y \in Row
  BY ZenonT(30), <1>1 DEF Row
<1>3. row' = [row EXCEPT ![cur] = y]
  BY <1>1 DEF MarkFailed, TypeOK
<1> QED
  BY <1>1, <1>2, <1>3, WriteCur

\* _record_status_receipt writes the receipt, unless the row is held.
LEMMA ReceiptWrites ==
  ASSUME TypeOK, SenderInv, RecordReceipt
  PROVE  OnlyCur(IF row[cur].held THEN row[cur]
                 ELSE [row[cur] EXCEPT !.receipt = TRUE])
<1> DEFINE y == IF row[cur].held THEN row[cur]
                 ELSE [row[cur] EXCEPT !.receipt = TRUE]
<1>1. cur \in 1 .. last /\ row[cur] \in Row /\ batch[cur] \in Row
  BY CurTyped DEF RecordReceipt
<1>2. y \in Row
  BY <1>1 DEF Row
<1>3. row' = [row EXCEPT ![cur] = y]
  BY <1>1 DEF RecordReceipt, TypeOK
<1> QED
  BY <1>1, <1>2, <1>3, WriteCur

\* mark_sent writes the state and whether it was applied, unless the row is held.
LEMMA SentWrites ==
  ASSUME TypeOK, SenderInv, MarkSent
  PROVE  OnlyCur(IF row[cur].held THEN row[cur]
                 ELSE [row[cur] EXCEPT !.state = "sent",
                                       !.applied = IF pc = "applied" THEN "yes" ELSE "no"])
<1> DEFINE y == IF row[cur].held THEN row[cur]
                 ELSE [row[cur] EXCEPT !.state = "sent",
                                       !.applied = IF pc = "applied" THEN "yes" ELSE "no"]
<1>1. cur \in 1 .. last /\ row[cur] \in Row /\ batch[cur] \in Row
  BY CurTyped DEF MarkSent
<1>2. y \in Row
  <2>1. ASSUME NEW x \in Row, NEW a \in {"no", "yes"}
        PROVE  [x EXCEPT !.state = "sent", !.applied = a] \in Row
    BY <2>1 DEF Row
  <2>2. QED
    BY <1>1, <2>1
<1>3. row' = [row EXCEPT ![cur] = y]
  BY <1>1 DEF MarkSent, TypeOK
<1> QED
  BY <1>1, <1>2, <1>3, WriteCur

\* A row whose requester is not authorized gets its snapshot's payload back.
LEMMA NotedWrites ==
  ASSUME TypeOK, SenderInv, NotAuthorized
  PROVE  \E y \in Row :
           /\ OnlyCur(y)
           /\ \/ row[cur].held /\ y = row[cur]
              \/ /\ ~row[cur].held
                 /\ \/ y = Rewritten(row[cur], batch[cur])
                    \/ y = [Rewritten(row[cur], batch[cur]) EXCEPT !.state = "failed", !.rejected = TRUE]
<1> DEFINE noted == Rewritten(row[cur], batch[cur])
           given == [noted EXCEPT !.state = "failed", !.rejected = TRUE]
<1>1. cur \in 1 .. last /\ row[cur] \in Row /\ batch[cur] \in Row
  BY CurTyped DEF NotAuthorized
<1>2. noted \in Row /\ (row[cur].held => noted = row[cur]) /\ (~row[cur].held => ~noted.held)
  <2>1. CASE row[cur].held
    BY <1>1, <2>1 DEF Rewritten
  <2>2. CASE ~row[cur].held
    <3>1. noted = [batch[cur] EXCEPT !.state = row[cur].state, !.tried = row[cur].tried,
                                     !.held = row[cur].held]
      BY <2>2 DEF Rewritten
    <3>2. ASSUME NEW x \in Row, NEW y \in Row
          PROVE  /\ [x EXCEPT !.state = y.state, !.tried = y.tried, !.held = y.held] \in Row
                 /\ [x EXCEPT !.state = y.state, !.tried = y.tried, !.held = y.held].held = y.held
      BY DEF Row
    <3>3. QED
      BY <1>1, <2>2, <3>1, <3>2
  <2>3. QED
    BY <2>1, <2>2
<1>3. given \in Row
  BY <1>2 DEF Row
<1>4. \/ row' = [row EXCEPT ![cur] = noted]
      \/ ~noted.held /\ row' = [row EXCEPT ![cur] = given]
  BY <1>1 DEF NotAuthorized
<1> HIDE DEF noted, given
<1>5. CASE row' = [row EXCEPT ![cur] = noted]
  BY <1>1, <1>2, <1>5, WriteCur DEF noted
<1>6. CASE ~noted.held /\ row' = [row EXCEPT ![cur] = given]
  BY <1>1, <1>2, <1>3, <1>6, WriteCur DEF noted, given
<1> QED
  BY <1>4, <1>5, <1>6

\* revive_failed makes revivable rows pending and counts the revival.
LEMMA ReviveWrites ==
  ASSUME TypeOK, ReviveFailed
  PROVE  /\ row' \in [1 .. last -> Row]
         /\ \A r \in 1 .. last :
              \/ row'[r] = row[r]
              \/ Revivable(r) /\ row'[r] = [row[r] EXCEPT !.state = "pending", !.revivals = @ + 1]
<1>1. PICK again \in SUBSET {r \in DOMAIN row : Revivable(r) /\ row[r].revivals > 0} :
        row' = [r \in DOMAIN row |->
                  IF Revivable(r) /\ (r \in again \/ row[r].revivals = 0)
                  THEN [row[r] EXCEPT !.state = "pending", !.revivals = @ + 1]
                  ELSE row[r]]
  BY Typed DEF ReviveFailed
<1>2. ASSUME NEW r \in 1 .. last, Revivable(r)
      PROVE  [row[r] EXCEPT !.state = "pending", !.revivals = @ + 1] \in Row
  <2>1. row[r] \in Row /\ row[r].revivals < ReviveLimit /\ ReviveLimit \in Nat
    BY <1>2, Typed, OutboxAssumption DEF Revivable, OutboxAssumption
  <2>2. row[r].revivals \in 0 .. ReviveLimit
    BY <2>1 DEF Row
  <2>3. row[r].revivals + 1 \in 0 .. ReviveLimit
    BY <2>1, <2>2
  <2>4. QED
    BY <2>1, <2>3 DEF Row
<1>3. DOMAIN row = 1 .. last /\ \A r \in 1 .. last : row[r] \in Row
  BY Typed
<1> QED
  BY <1>1, <1>2, <1>3

\* What an event appends is a row.
LEMMA NewRowTyped ==
  ASSUME TypeOK, NEW i \in Issues, NEW intent \in Intents, NEW kind \in Kinds,
         NEW dep \in RowId \cup {NoRow}
  PROVE  NewRow(kind, i, intent, dep) \in Row
BY OutboxAssumption DEF TypeOK, NewRow, Row, OutboxAssumption

\* An insertion appends one row and re-sequences the history before it.
LEMMA InsertWrites ==
  ASSUME TypeOK, NEW x \in Row, Insert(x)
  PROVE  /\ last' = last + 1 /\ last' \in 0 .. MaxRows
         /\ row' \in [1 .. last' -> Row]
         /\ Sequenced(x, row'[last + 1], last')
         /\ \A r \in 1 .. last : Sequenced(row[r], row'[r], last')
<1> DEFINE t == Inserted(x)
<1>1. last' = last + 1 /\ last' \in 0 .. MaxRows /\ last \in Nat
  BY OutboxAssumption DEF Insert, TypeOK, OutboxAssumption
<1>2. /\ t \in [1 .. last' -> Row]
      /\ t[last + 1] = x
      /\ \A r \in 1 .. last : t[r] = row[r]
  BY <1>1, Typed DEF Inserted
<1>3. row' = SequenceNativeHistory(t, x.issue) /\ x.issue \in Issues
  BY DEF Insert, Row
<1> HIDE DEF t
<1>4. /\ SequenceNativeHistory(t, x.issue) \in [1 .. last' -> Row]
      /\ \A r \in 1 .. last' :
           Sequenced(t[r], SequenceNativeHistory(t, x.issue)[r], last')
  BY <1>1, <1>2, <1>3, SequenceKeeps
<1>5. \A r \in 1 .. last' : Sequenced(t[r], row'[r], last')
  BY <1>3, <1>4
<1>6. Sequenced(t[last + 1], row'[last + 1], last')
  BY <1>1, <1>5
<1>7. \A r \in 1 .. last : Sequenced(t[r], row'[r], last')
  BY <1>1, <1>5
<1> QED
  BY <1>1, <1>2, <1>3, <1>4, <1>6, <1>7

\* finish appends a closeout and the receipt that depends on it.
LEMMA FinishWrites ==
  ASSUME TypeOK, NEW i \in Issues, NEW intent \in Intents, Finish(i, intent)
  PROVE  /\ last' = last + 2 /\ last' \in 0 .. MaxRows
         /\ row' \in [1 .. last' -> Row]
         /\ row'[last + 1] = NewRow("closeout", i, intent, NoRow)
         /\ row'[last + 2] = NewRow("receipt", i, intent, last + 1)
         /\ \A r \in 1 .. last : Sequenced(row[r], row'[r], last')
<1> DEFINE c == NewRow("closeout", i, intent, NoRow)
           p == NewRow("receipt", i, intent, last + 1)
           t == [r \in 1 .. last + 2 |->
                   IF r = last + 2 THEN p ELSE Inserted(c)[r]]
<1>1. last' = last + 2 /\ last' \in 0 .. MaxRows /\ last \in Nat /\ last + 1 \in RowId
  BY OutboxAssumption DEF Finish, TypeOK, OutboxAssumption, RowId
<1>2. c \in Row /\ p \in Row /\ c.kind = "closeout" /\ p.kind = "receipt"
  <2>1. c \in Row /\ p \in Row
    BY <1>1, NewRowTyped DEF Kinds, StatusKinds
  <2>2. QED
    BY <2>1 DEF NewRow
<1> HIDE DEF c, p
<1>3. /\ t \in [1 .. last' -> Row]
      /\ t[last + 1] = c /\ t[last + 2] = p
      /\ \A r \in 1 .. last : t[r] = row[r]
  BY <1>1, <1>2, Typed DEF Inserted
<1>4. row' = SequenceNativeHistory(t, i)
  BY DEF Finish, c, p
<1> HIDE DEF t
<1>5. /\ SequenceNativeHistory(t, i) \in [1 .. last' -> Row]
      /\ \A r \in 1 .. last' : Sequenced(t[r], SequenceNativeHistory(t, i)[r], last')
  BY <1>1, <1>3, <1>4, SequenceKeeps
<1>6. \A r \in 1 .. last' : Sequenced(t[r], row'[r], last')
  BY <1>4, <1>5
<1>7. Sequenced(c, row'[last + 1], last') /\ Sequenced(p, row'[last + 2], last')
  BY <1>1, <1>3, <1>6
<1>8. row'[last + 1] = c /\ row'[last + 2] = p
  BY <1>2, <1>7 DEF Sequenced
<1>9. \A r \in 1 .. last : Sequenced(row[r], row'[r], last')
  BY <1>1, <1>3, <1>6
<1> QED
  BY <1>1, <1>4, <1>5, <1>8, <1>9 DEF c, p

\* replace_native_binding writes the hold of its issue's rows only.
LEMMA HeldWrites ==
  ASSUME TypeOK, NEW i \in Issues, ReplaceNativeBinding(i)
  PROVE  /\ row' \in [1 .. last -> Row]
         /\ \A r \in 1 .. last : row'[r] = row[r] \/ row'[r] = [row[r] EXCEPT !.held = TRUE]
<1>1. \A r \in 1 .. last : row[r] \in Row /\ [row[r] EXCEPT !.held = TRUE] \in Row
  <2>1. \A x \in Row : [x EXCEPT !.held = TRUE] \in Row
    BY DEF Row
  <2>2. QED
    BY <2>1, Typed
<1> QED
  BY <1>1, Typed DEF ReplaceNativeBinding

\* The operator's command writes the outcome of one row.
LEMMA ResolveWrites ==
  ASSUME TypeOK, NEW r \in 1 .. last, ReconcileTerminal(r)
  PROVE  /\ row' \in [1 .. last -> Row]
         /\ row'[r] = [row[r] EXCEPT !.reconciled = TRUE, !.required = TRUE, !.state = "failed"]
         /\ \A q \in 1 .. last : q # r => row'[q] = row[q]
<1> DEFINE y == [row[r] EXCEPT !.reconciled = TRUE, !.required = TRUE, !.state = "failed"]
<1>1. row[r] \in Row
  BY Typed
<1>2. y \in Row
  BY <1>1 DEF Row
<1>3. row' = [row EXCEPT ![r] = y]
  BY <1>1, Typed DEF ReconcileTerminal
<1> HIDE DEF y
<1>4. /\ row' \in [1 .. last -> Row] /\ row'[r] = y
      /\ \A q \in 1 .. last : q # r => row'[q] = row[q]
  BY <1>2, <1>3 DEF TypeOK
<1> QED
  BY <1>4 DEF y

\* What a row keeps unless its sender starts it, or takes its marker back.
Alike(x, y) ==
  /\ y.kind = x.kind /\ y.issue = x.issue /\ y.task = x.task
  /\ y.dep = x.dep \/ x.kind = "history"
  /\ y.reconciled = x.reconciled
  /\ x.held => y.held

\* What a decision about the row being delivered leaves alone.
Undecided(x, y) ==
  Alike(x, y) /\ y.started = x.started /\ y.applied = x.applied /\ y.state = x.state

\* A step that may have taken back the marker of the row being delivered.
TookBack ==
  \A r \in 1 .. last :
    /\ Alike(row[r], row'[r])
    /\ row'[r].state = row[r].state /\ row'[r].applied = row[r].applied
    /\ row'[r].required = row[r].required /\ row'[r].receipt = row[r].receipt
    /\ row'[r].started = row[r].started \/ (r = cur /\ fresh /\ ~row'[r].started)

\* mutation_not_attempted changes no decision about a row.
LEMMA TakenBackFields ==
  ASSUME TypeOK, cur \in DOMAIN batch, MutationNotAttempted \/ UNCHANGED row
  PROVE  TookBack
<1> SUFFICES ASSUME NEW r \in 1 .. last
             PROVE  /\ Alike(row[r], row'[r])
                    /\ row'[r].state = row[r].state /\ row'[r].applied = row[r].applied
                    /\ row'[r].required = row[r].required /\ row'[r].receipt = row[r].receipt
                    /\ \/ row'[r].started = row[r].started
                       \/ r = cur /\ fresh /\ ~row'[r].started
  BY DEF TookBack
<1>1. row[r] \in Row
  BY Typed
<1>2. \/ Sequenced(row[r], row'[r], last)
      \/ r = cur /\ fresh /\ Sequenced([row[r] EXCEPT !.started = FALSE], row'[r], last)
  BY TakenBack DEF Sequenced
<1>3. ASSUME NEW x \in Row, Sequenced(x, row'[r], last)
      PROVE  /\ Alike(x, row'[r])
             /\ row'[r].state = x.state /\ row'[r].applied = x.applied
             /\ row'[r].required = x.required /\ row'[r].receipt = x.receipt
             /\ row'[r].started = x.started
  BY <1>3 DEF Sequenced, Alike, Row
<1>4. CASE Sequenced(row[r], row'[r], last)
  BY <1>1, <1>3, <1>4
<1>5. CASE r = cur /\ fresh /\ Sequenced([row[r] EXCEPT !.started = FALSE], row'[r], last)
  <2> DEFINE x == [row[r] EXCEPT !.started = FALSE]
  <2>1. x \in Row /\ Alike(row[r], x) /\ ~x.started
        /\ x.state = row[r].state /\ x.applied = row[r].applied
        /\ x.required = row[r].required /\ x.receipt = row[r].receipt /\ x.kind = row[r].kind
    BY <1>1 DEF Row, Alike
  <2> HIDE DEF x
  <2>2. Alike(x, row'[r])
        /\ row'[r].state = x.state /\ row'[r].applied = x.applied
        /\ row'[r].required = x.required /\ row'[r].receipt = x.receipt
        /\ row'[r].started = x.started
    BY <2>1, <1>3, <1>5 DEF x
  <2>3. QED
    BY <2>1, <2>2, <1>5 DEF Alike
<1> QED
  BY <1>2, <1>4, <1>5

\* hold_terminal changes no decision about a row.
LEMMA HoldFields ==
  ASSUME TypeOK, SenderInv, pc \notin {"idle", "pass"}, HoldTerminal
  PROVE  /\ row'[cur].required
         /\ \A r \in 1 .. last : /\ Undecided(row[r], row'[r])
                                 /\ row[r].required => row'[r].required
                                 /\ row'[r].receipt = row[r].receipt
<1> DEFINE y == [row[cur] EXCEPT !.required = TRUE, !.tried = TRUE]
<1>1. row[cur] \in Row /\ cur \in 1 .. last /\ OnlyCur(y)
  BY CurTyped, HoldWrites
<1>2. Undecided(row[cur], y) /\ y.required /\ y.receipt = row[cur].receipt
  BY <1>1 DEF Undecided, Alike, Row
<1> HIDE DEF y
<1> QED
  BY <1>1, <1>2, Typed DEF OnlyCur, Undecided, Alike

\* What retry() and mark() may change of a row, apart from what they note.
GivenUp(x, y) ==
  /\ Alike(x, y) /\ y.started = x.started /\ y.applied = x.applied
  /\ y.required = x.required /\ y.receipt = x.receipt
  /\ y.state \in {x.state, "failed"}

\* retry() and mark(row, 'failed') keep the marker and what was applied.
LEMMA GiveUpFields ==
  ASSUME TypeOK, SenderInv, MarkFailed \/ \E giveUp \in BOOLEAN : Retry(giveUp)
  PROVE  /\ GivenUp(row[cur], row'[cur])
         /\ \A r \in 1 .. last : r # cur => row'[r] = row[r]
<1>1. cur \in 1 .. last /\ row[cur] \in Row
  BY CurTyped DEF MarkFailed, Retry
<1>2. CASE MarkFailed
  <2> DEFINE y == [row[cur] EXCEPT !.state = "failed", !.rejected = TRUE]
  <2>1. GivenUp(row[cur], y) /\ GivenUp(row[cur], row[cur])
    BY <1>1 DEF GivenUp, Alike, Row
  <2>2. OnlyCur(row[cur]) \/ OnlyCur(y)
    BY <1>2, FailedWrites
  <2>3. QED
    BY <2>1, <2>2 DEF OnlyCur
<1>3. ASSUME NEW giveUp \in BOOLEAN, Retry(giveUp)
      PROVE  /\ GivenUp(row[cur], row'[cur])
             /\ \A r \in 1 .. last : r # cur => row'[r] = row[r]
  <2> DEFINE y == [row[cur] EXCEPT !.tried = TRUE,
                                   !.state = IF giveUp THEN "failed" ELSE @]
  <2>1. GivenUp(row[cur], y) /\ GivenUp(row[cur], row[cur])
    BY <1>1 DEF GivenUp, Alike, Row
  <2>2. OnlyCur(row[cur]) \/ OnlyCur(y)
    BY <1>3, RetryWrites
  <2>3. QED
    BY <2>1, <2>2 DEF OnlyCur
<1> QED
  BY <1>2, <1>3

\* Recording a receipt changes no decision about a row.
LEMMA ReceiptFields ==
  ASSUME TypeOK, SenderInv, RecordReceipt
  PROVE  \A r \in 1 .. last :
           /\ Undecided(row[r], row'[r]) /\ row'[r].required = row[r].required
           /\ row[r].receipt => row'[r].receipt
           /\ r # cur => row'[r].receipt = row[r].receipt
<1>1. cur \in 1 .. last /\ row[cur] \in Row
  BY CurTyped DEF RecordReceipt
<1>2. PICK y \in {row[cur], [row[cur] EXCEPT !.receipt = TRUE]} : OnlyCur(y)
  BY <1>1, ReceiptWrites
<1>3. /\ Undecided(row[cur], y) /\ y.required = row[cur].required
      /\ row[cur].receipt => y.receipt
  BY <1>1, <1>2 DEF Undecided, Alike, Row
<1> QED
  BY <1>1, <1>2, <1>3, Typed DEF OnlyCur, Undecided, Alike

\* What mark_sent() may change of a row.
Decided(x, y) ==
  /\ Alike(x, y) /\ y.started = x.started
  /\ y.required = x.required /\ y.receipt = x.receipt
  /\ \/ y.state = x.state /\ y.applied = x.applied
     \/ y.state = "sent" /\ y.applied = IF pc = "applied" THEN "yes" ELSE "no"

\* mark_sent decides the row being delivered and no other.
LEMMA SentFields ==
  ASSUME TypeOK, SenderInv, MarkSent
  PROVE  /\ Decided(row[cur], row'[cur])
         /\ \A r \in 1 .. last : r # cur => row'[r] = row[r]
<1>1. cur \in 1 .. last /\ row[cur] \in Row
  BY CurTyped DEF MarkSent
<1>2. PICK y \in {row[cur], [row[cur] EXCEPT !.state = "sent",
                               !.applied = IF pc = "applied" THEN "yes" ELSE "no"]} : OnlyCur(y)
  BY <1>1, SentWrites
<1>3. Decided(row[cur], y)
  BY <1>1, <1>2 DEF Decided, Alike, Row
<1> QED
  BY <1>1, <1>2, <1>3, Typed DEF OnlyCur

\* A step that set the marker of the row being delivered.
Marked ==
  /\ row'[cur].started
  /\ \A r \in 1 .. last :
       /\ Alike(row[r], row'[r])
       /\ row'[r].state = row[r].state /\ row'[r].applied = row[r].applied
       /\ row'[r].required = row[r].required /\ row'[r].receipt = row[r].receipt
       /\ r # cur => row'[r].started = row[r].started

\* admit_mutation changes nothing but the marker.
LEMMA AdmitFields ==
  ASSUME TypeOK, SenderInv, AdmitMutation
  PROVE  Marked
<1>1. cur \in 1 .. last /\ row[cur] \in Row
  BY CurTyped DEF AdmitMutation
<1> QED
  BY <1>1, AdmitWrites, Typed DEF Marked, OnlyCur, Alike, Row

\* A step that may have revived rows.
Revived ==
  \A r \in 1 .. last :
    /\ Alike(row[r], row'[r]) /\ row'[r].started = row[r].started
    /\ row'[r].applied = row[r].applied /\ row'[r].required = row[r].required
    /\ row'[r].receipt = row[r].receipt
    /\ row'[r].state = row[r].state \/ (Revivable(r) /\ row'[r].state = "pending")

\* revive_failed keeps the marker and what was applied.
LEMMA ReviveFields ==
  ASSUME TypeOK, ReviveFailed \/ UNCHANGED row
  PROVE  Revived
<1> SUFFICES ASSUME NEW r \in 1 .. last
             PROVE  /\ Alike(row[r], row'[r]) /\ row'[r].started = row[r].started
                    /\ row'[r].applied = row[r].applied /\ row'[r].required = row[r].required
                    /\ row'[r].receipt = row[r].receipt
                    /\ row'[r].state = row[r].state \/ (Revivable(r) /\ row'[r].state = "pending")
  BY DEF Revived
<1>1. row[r] \in Row
  BY Typed
<1>2. \/ row'[r] = row[r]
      \/ Revivable(r) /\ row'[r] = [row[r] EXCEPT !.state = "pending", !.revivals = @ + 1]
  BY ReviveWrites
<1> QED
  BY <1>1, <1>2 DEF Alike, Row

\* What noting that a requester is not authorized writes: the payload p of the
\* snapshot with the state of the table, unless the row x is held.
Noted(x, y, p) ==
  \/ x.held /\ y = x
  \/ /\ y.kind = p.kind /\ y.issue = p.issue /\ y.task = p.task /\ y.dep = p.dep
     /\ y.started = p.started /\ y.reconciled = p.reconciled /\ y.required = p.required
     /\ y.applied = p.applied /\ y.receipt = p.receipt
     /\ y.held = x.held /\ y.state \in {x.state, "failed"}

\* A row whose requester is not authorized keeps what the snapshot says of it.
LEMMA NotedFields ==
  ASSUME TypeOK, SenderInv, NotAuthorized
  PROVE  /\ Noted(row[cur], row'[cur], batch[cur])
         /\ \A r \in 1 .. last : r # cur => row'[r] = row[r]
<1> DEFINE R(x, p) == [p EXCEPT !.state = x.state, !.tried = x.tried, !.held = x.held]
           F(z) == [z EXCEPT !.state = "failed", !.rejected = TRUE]
<1>1. row[cur] \in Row /\ batch[cur] \in Row
  BY CurTyped DEF NotAuthorized
<1>2. PICK y \in Row :
        /\ OnlyCur(y)
        /\ \/ row[cur].held /\ y = row[cur]
           \/ ~row[cur].held /\ (y = R(row[cur], batch[cur]) \/ y = F(R(row[cur], batch[cur])))
  BY NotedWrites DEF Rewritten
<1>3. ASSUME NEW x \in Row, NEW p \in Row
      PROVE  R(x, p) \in Row /\ Noted(x, R(x, p), p) /\ R(x, p).held = x.held
  BY DEF Row, Noted
<1>4. ASSUME NEW x \in Row, NEW p \in Row, NEW z \in Row, Noted(x, z, p), ~x.held
      PROVE  Noted(x, F(z), p)
  BY <1>4 DEF Row, Noted
<1> HIDE DEF R, F
<1>5. Noted(row[cur], y, batch[cur])
  <2>1. CASE row[cur].held /\ y = row[cur]
    BY <2>1 DEF Noted
  <2>2. CASE ~row[cur].held /\ y = R(row[cur], batch[cur])
    BY <1>1, <1>3, <2>2
  <2>3. CASE ~row[cur].held /\ y = F(R(row[cur], batch[cur]))
    BY <1>1, <1>3, <1>4, <2>3
  <2>4. QED
    BY <1>2, <2>1, <2>2, <2>3
<1> QED
  BY <1>2, <1>5 DEF OnlyCur

\* A row as the writes of an event enter the table.
Blank(x) ==
  /\ ~x.started /\ ~x.receipt /\ ~x.reconciled /\ ~x.required
  /\ x.applied = "unset" /\ (IsStatus(x) => x.dep = NoRow)

\* A step that queued rows, and may have re-sequenced history.
Grown ==
  /\ last' \in Nat /\ last <= last'
  /\ \A r \in 1 .. last : /\ Undecided(row[r], row'[r])
                          /\ row'[r].required = row[r].required /\ row'[r].receipt = row[r].receipt
  /\ \A r \in 1 .. last' : r > last => Blank(row'[r])
  /\ UNCHANGED <<binding, sender, remote>>

\* Sequencing the history decides nothing.
LEMMA SequencedFields ==
  ASSUME NEW x \in Row, NEW y, NEW n, Sequenced(x, y, n)
  PROVE  /\ Undecided(x, y) /\ y.required = x.required /\ y.receipt = x.receipt
         /\ Blank(x) => Blank(y)
BY DEF Sequenced, Undecided, Alike, Blank, IsStatus, StatusKinds, Row

\* What an event appends was never started.
LEMMA NewRowBlank ==
  ASSUME NEW kind \in Kinds, NEW i, NEW intent, NEW dep, IsStatus([kind |-> kind]) => dep
         = NoRow
  PROVE  Blank(NewRow(kind, i, intent, dep))
BY DEF Blank, NewRow, IsStatus

\* An insertion decides nothing about the rows before it.
LEMMA InsertGrows ==
  ASSUME TypeOK, NEW x \in Row, Blank(x), Insert(x)
  PROVE  Grown
<1>1. /\ last' = last + 1 /\ last' \in Nat /\ last \in Nat
      /\ Sequenced(x, row'[last + 1], last')
      /\ \A r \in 1 .. last : Sequenced(row[r], row'[r], last')
  BY InsertWrites, Typed, OutboxAssumption DEF OutboxAssumption
<1>2. Blank(row'[last + 1])
  BY <1>1, SequencedFields
<1>3. \A r \in 1 .. last : /\ Undecided(row[r], row'[r])
                           /\ row'[r].required = row[r].required
                           /\ row'[r].receipt = row[r].receipt
  BY <1>1, Typed, SequencedFields
<1> QED
  BY <1>1, <1>2, <1>3 DEF Grown, Insert

\* Capturing an event decides nothing about the rows before it.
LEMMA CaptureGrows ==
  ASSUME TypeOK, NEW i \in Issues,
         \/ CaptureEvent(i)
         \/ \E intent \in Intents : ReconcileStatus(i, intent) \/ Finish(i, intent)
  PROVE  Grown
<1>1. CASE CaptureEvent(i)
  <2> DEFINE x == NewRow("history", i, InProgress, NoRow)
  <2>1. x \in Row /\ Blank(x)
    BY NewRowTyped, NewRowBlank, OutboxAssumption DEF OutboxAssumption, Kinds, StatusKinds
  <2>2. Insert(x)
    BY <1>1 DEF CaptureEvent
  <2> HIDE DEF x
  <2>3. QED
    BY <2>1, <2>2, InsertGrows
<1>2. ASSUME NEW intent \in Intents, ReconcileStatus(i, intent)
      PROVE  Grown
  <2> DEFINE x == NewRow("status", i, intent, NoRow)
  <2>1. x \in Row /\ Blank(x)
    BY NewRowTyped, NewRowBlank DEF Kinds, StatusKinds
  <2>2. Insert(x)
    BY <1>2 DEF ReconcileStatus
  <2> HIDE DEF x
  <2>3. QED
    BY <2>1, <2>2, InsertGrows
<1>3. ASSUME NEW intent \in Intents, Finish(i, intent)
      PROVE  Grown
  <2>1. /\ last' = last + 2 /\ last' \in Nat /\ last \in Nat
        /\ row'[last + 1] = NewRow("closeout", i, intent, NoRow)
        /\ row'[last + 2] = NewRow("receipt", i, intent, last + 1)
        /\ \A r \in 1 .. last : Sequenced(row[r], row'[r], last')
    BY <1>3, FinishWrites, Typed, OutboxAssumption DEF OutboxAssumption
  <2>2. Blank(row'[last + 1]) /\ Blank(row'[last + 2])
    BY <2>1 DEF Blank, NewRow, IsStatus, StatusKinds
  <2>3. \A r \in 1 .. last : /\ Undecided(row[r], row'[r])
                             /\ row'[r].required = row[r].required
                             /\ row'[r].receipt = row[r].receipt
    BY <2>1, Typed, SequencedFields
  <2>4. UNCHANGED <<binding, sender, remote>>
    BY <1>3 DEF Finish
  <2>5. QED
    BY <2>1, <2>2, <2>3, <2>4 DEF Grown
<1> QED
  BY <1>1, <1>2, <1>3

\* Re-tracking an issue holds its rows and decides nothing about them.
LEMMA HeldFields ==
  ASSUME TypeOK, NEW i \in Issues, ReplaceNativeBinding(i)
  PROVE  \A r \in 1 .. last :
           /\ Undecided(row[r], row'[r])
           /\ row'[r].required = row[r].required /\ row'[r].receipt = row[r].receipt
<1> SUFFICES ASSUME NEW r \in 1 .. last
             PROVE  /\ Undecided(row[r], row'[r])
                    /\ row'[r].required = row[r].required /\ row'[r].receipt = row[r].receipt
  OBVIOUS
<1>1. row[r] \in Row
  BY Typed
<1>2. row'[r] = row[r] \/ row'[r] = [row[r] EXCEPT !.held = TRUE]
  BY HeldWrites
<1>3. ASSUME NEW x \in Row, NEW y \in {x, [x EXCEPT !.held = TRUE]}
      PROVE  Undecided(x, y) /\ y.required = x.required /\ y.receipt = x.receipt
  BY DEF Undecided, Alike, Row
<1> QED
  BY <1>1, <1>2, <1>3

\* What the operator's command leaves of the row it resolves.
Resolved(x, y) ==
  /\ y.kind = x.kind /\ y.issue = x.issue /\ y.task = x.task /\ y.dep = x.dep
  /\ y.started = x.started /\ y.applied = x.applied /\ y.receipt = x.receipt
  /\ y.held = x.held /\ y.reconciled /\ y.required /\ y.state = "failed"

\* The operator's command changes the outcome of one row.
LEMMA ResolveFields ==
  ASSUME TypeOK, NEW r \in 1 .. last, ReconcileTerminal(r)
  PROVE  /\ Resolved(row[r], row'[r])
         /\ \A q \in 1 .. last : q # r => row'[q] = row[q]
<1> DEFINE y == [row[r] EXCEPT !.reconciled = TRUE, !.required = TRUE, !.state = "failed"]
<1>1. row[r] \in Row
  BY Typed
<1>2. Resolved(row[r], y)
  BY <1>1 DEF Resolved, Row
<1>3. row'[r] = y /\ \A q \in 1 .. last : q # r => row'[q] = row[q]
  BY ResolveWrites
<1> QED
  BY <1>2, <1>3

-----------------------------------------------------------------------------
(* What such steps preserve.                                                 *)

\* A step that keeps state, applied and required of each row keeps RowInv.
LEMMA RowInvKept ==
  ASSUME TypeOK, TypeOK', RowInv, last' = last,
         \A r \in 1 .. last : /\ Alike(row[r], row'[r])
                              /\ row'[r].state = row[r].state
                              /\ row'[r].applied = row[r].applied
                              /\ row'[r].required = row[r].required
  PROVE  RowInv'
<1> SUFFICES ASSUME NEW r \in 1 .. last
             PROVE  /\ IsStatus(row'[r]) => row'[r].dep = NoRow
                    /\ row'[r].reconciled => row'[r].state # "pending" /\ row'[r].required
                    /\ row'[r].applied # "unset" =>
                         row'[r].state = "sent" \/ (row'[r].state = "failed" /\ row'[r].required)
  BY DEF RowInv, TypeOK
<1> QED
  BY Typed DEF Alike, RowInv, IsStatus, StatusKinds

\* A step that sends nothing and takes back only quiet markers keeps EffectInv.
LEMMA EffectKept ==
  ASSUME TypeOK, TypeOK', EffectInv, last' = last, net' = net, landed' = landed,
         \A r \in 1 .. last : /\ row'[r].kind = row[r].kind
                              /\ row'[r].receipt => row[r].receipt \/ landed[r] > 0
                              /\ ~row'[r].started => ~row[r].started \/ Quiet(r)
  PROVE  EffectInv'
<1> SUFFICES ASSUME NEW r \in 1 .. last
             PROVE  /\ ~row'[r].started => Quiet(r)'
                    /\ row'[r].receipt => landed'[r] > 0
                    /\ IsStatus(row'[r]) => landed'[r] <= 1 /\ (r \in net' => landed'[r] = 0)
  BY DEF EffectInv, TypeOK
<1> QED
  BY Typed DEF EffectInv, IsStatus, StatusKinds, Quiet

\* A step that starts and applies nothing keeps SentMeansLanded.
LEMMA LandedKept ==
  ASSUME TypeOK, TypeOK', SentMeansLanded, last' = last, landed' = landed,
         \A r \in 1 .. last : /\ row'[r].applied = row[r].applied
                              /\ row'[r].started => row[r].started
  PROVE  SentMeansLanded'
<1> SUFFICES ASSUME NEW r \in 1 .. last
             PROVE  row'[r].applied = "yes" /\ row'[r].started => landed'[r] > 0
  BY DEF SentMeansLanded, TypeOK
<1> QED
  BY Typed DEF SentMeansLanded

\* The snapshot stays current when only the row being delivered changes.
LEMMA SnapshotKept ==
  ASSUME TypeOK, TypeOK', SnapshotCurrent, last' = last, cur' = cur, batch' = batch,
         pc' # "check",
         \A r \in 1 .. last : /\ Alike(row[r], row'[r])
                              /\ row[r].state # "sent" => row'[r].state # "sent"
                              /\ row'[r].applied = row[r].applied
                              /\ row[r].receipt => row'[r].receipt
                              /\ r # cur => row'[r].started = row[r].started
  PROVE  SnapshotCurrent'
<1> SUFFICES ASSUME NEW r \in DOMAIN batch
             PROVE  /\ batch[r].kind = row'[r].kind
                    /\ batch[r].issue = row'[r].issue
                    /\ batch[r].task = row'[r].task
                    /\ IsStatus(batch[r]) => batch[r].dep = NoRow
                    /\ ~batch[r].reconciled
                    /\ batch[r].applied = "unset" /\ row'[r].applied = "unset"
                    /\ row'[r].state # "sent"
                    /\ batch[r].receipt => row'[r].receipt
                    /\ r # cur => batch[r].started = row'[r].started
  BY DEF SnapshotCurrent, IsStatus, StatusKinds
<1> QED
  BY Typed DEF SnapshotCurrent, Alike

\* The sender picks a row of its batch (the for loop of _flush).
LEMMA Picked ==
  ASSUME TypeOK, SenderInv, Pick
  PROVE  cur = NoRow /\ cur' \in DOMAIN batch /\ cur' \in 1 .. last
<1>1. DOMAIN batch \in SUBSET Nat /\ DOMAIN batch # {}
  BY Typed DEF Pick
<1>2. Min(DOMAIN batch) \in DOMAIN batch
  BY <1>1, MinIn
<1> QED
  BY <1>2, Typed DEF Pick, SenderInv

-----------------------------------------------------------------------------
(* The type invariant.                                                       *)

\* Every step keeps the types and the sender's local state.
LEMMA TypeStep ==
  ASSUME TypeOK, SenderInv, [Next]_vars
  PROVE  TypeOK' /\ SenderInv'
<1> USE DEF TypeOK, SenderInv, PC
<1>1. CASE StartPass
  BY <1>1, Typed DEF StartPass, Heads, table, remote
<1>2. CASE Pick
  <2>1. Min(DOMAIN batch) \in DOMAIN batch /\ Min(DOMAIN batch) # NoRow
    <3>1. DOMAIN batch \in SUBSET Nat /\ DOMAIN batch # {} /\ 0 \notin DOMAIN batch
      BY <1>2, Typed DEF Pick
    <3>2. QED
      BY <3>1, MinIn DEF NoRow
  <2>2. QED
    BY <1>2, <2>1 DEF Pick, table, remote
<1>3. CASE EndPass
  <2>1. row' \in [1 .. last -> Row]
    BY <1>3, ReviveWrites DEF EndPass
  <2>2. QED
    BY <1>3, <2>1 DEF EndPass, Stop, NoBatch, remote
<1>4. CASE NotAuthorized
  <2>1. row' \in [1 .. last -> Row]
    BY <1>4, NotedWrites DEF OnlyCur
  <2>2. QED
    BY <1>4, <2>1, CurTyped DEF NotAuthorized, Leave, remote
<1>5. CASE Deferred
  BY <1>5 DEF Deferred, Leave, table, remote
<1>6. CASE SettleFromReceipt
  BY <1>6 DEF SettleFromReceipt, Goto, table, remote
<1>7. CASE HoldUncertain
  <2>1. row' \in [1 .. last -> Row]
    BY <1>7, HoldWrites DEF OnlyCur, HoldUncertain
  <2>2. QED
    BY <1>7, <2>1 DEF HoldUncertain, HoldTerminal, remote
<1>8. CASE DropUnapplied
  BY <1>8 DEF DropUnapplied, Goto, table, remote
<1>9. CASE NothingToWrite
  BY <1>9 DEF NothingToWrite, Goto, table, remote
<1>10. CASE ReadBack
  BY <1>10 DEF ReadBack, Goto, table, remote
<1>11. CASE Encode
  BY <1>11 DEF Encode, Goto, table, remote
<1>12. CASE BeforeRequest
  BY <1>12 DEF BeforeRequest, Goto, table, remote
<1>13. CASE AdmitMutation
  <2>1. row' \in [1 .. last -> Row]
    BY <1>13, AdmitWrites DEF OnlyCur
  <2>2. QED
    BY <1>13, <2>1 DEF AdmitMutation, remote
<1>14. CASE Withdraw
  <2>1. row' \in [1 .. last -> Row]
    BY <1>14, CurTyped, TakenBack DEF Withdraw
  <2>2. QED
    BY <1>14, <2>1 DEF Withdraw, Leave, remote
<1>15. CASE Send
  BY <1>15, Typed, CurTyped DEF Send, table, remote
<1>16. CASE NoAnswer
  BY <1>16 DEF NoAnswer, table, remote
<1>17. CASE Unauthorized
  <2>1. row' \in [1 .. last -> Row]
    BY <1>17, CurTyped, TakenBack DEF Unauthorized, TakeBack
  <2>2. QED
    BY <1>17, <2>1 DEF Unauthorized, remote
<1>18. CASE RateLimited
  <2>1. row' \in [1 .. last -> Row]
    BY <1>18, CurTyped, TakenBack DEF RateLimited, TakeBack
  <2>2. QED
    BY <1>18, <2>1 DEF RateLimited, Stop, NoBatch, remote
<1>19. CASE \E giveUp \in BOOLEAN : Retry(giveUp)
  <2>1. row' \in [1 .. last -> Row]
    BY <1>19, RetryWrites DEF OnlyCur
  <2>2. QED
    BY <1>19, <2>1 DEF Retry, Leave, remote
<1>20. CASE MarkFailed
  <2>1. row' \in [1 .. last -> Row]
    BY <1>20, FailedWrites DEF OnlyCur
  <2>2. QED
    BY <1>20, <2>1, CurTyped DEF MarkFailed, Leave, remote, Row
<1>21. CASE RecordReceipt
  <2>1. row' \in [1 .. last -> Row]
    BY <1>21, ReceiptWrites DEF OnlyCur
  <2>2. QED
    BY <1>21, <2>1 DEF RecordReceipt, remote
<1>22. CASE ReceiptMismatch
  <2>1. row' \in [1 .. last -> Row]
    BY <1>22, HoldWrites DEF OnlyCur, ReceiptMismatch
  <2>2. QED
    BY <1>22, <2>1 DEF ReceiptMismatch, HoldTerminal, remote
<1>23. CASE CommentReadback
  BY <1>23 DEF CommentReadback, table, remote
<1>24. CASE MarkSent
  <2>1. row' \in [1 .. last -> Row]
    BY <1>24, SentWrites DEF OnlyCur
  <2>2. QED
    BY <1>24, <2>1 DEF MarkSent, Leave, remote
<1>25. CASE Crash
  BY <1>25 DEF Crash, Stop, NoBatch, table, remote
<1>26. CASE Reject
  BY <1>26 DEF Reject, table
<1>27. CASE \E r \in net : Land(r)
  <2>1. PICK r \in net : Land(r)
    BY <1>27
  <2>2. r \in RowId /\ row[r].issue \in Issues
    BY Typed DEF Row
  <2>3. landed' \in [RowId -> Nat]
    BY <2>1, <2>2 DEF Land
  <2>4. shown' \in [Issues -> RowId \cup {NoRow}]
    BY <2>1, <2>2 DEF Land
  <2>5. QED
    BY <2>1, <2>3, <2>4 DEF Land, table
<1>28. CASE \E r \in net : Lose(r)
  BY <1>28 DEF Lose, table, sender
<1>29. ASSUME NEW i \in Issues, NEW intent \in Intents, ReconcileStatus(i, intent)
      PROVE  TypeOK' /\ SenderInv'
  <2>1. PICK x \in Row : Insert(x)
    BY <1>29, NewRowTyped DEF ReconcileStatus, Kinds, StatusKinds
  <2>2. QED
    BY <2>1, InsertWrites, Typed DEF Insert, sender, remote
<1>30. ASSUME NEW i \in Issues, CaptureEvent(i)
      PROVE  TypeOK' /\ SenderInv'
  <2>1. PICK x \in Row : Insert(x)
    BY <1>30, OutboxAssumption, NewRowTyped DEF CaptureEvent, Kinds, StatusKinds,
       OutboxAssumption
  <2>2. QED
    BY <2>1, InsertWrites, Typed DEF Insert, sender, remote
<1>31. ASSUME NEW i \in Issues, NEW intent \in Intents, Finish(i, intent)
      PROVE  TypeOK' /\ SenderInv'
  <2>1. last' \in 0 .. MaxRows /\ row' \in [1 .. last' -> Row] /\ last' = last + 2
    BY <1>31, FinishWrites
  <2>2. UNCHANGED <<binding, sender, remote>>
    BY <1>31 DEF Finish
  <2>3. QED
    BY <2>1, <2>2, Typed DEF sender, remote
<1>32. ASSUME NEW i \in Issues, ReplaceNativeBinding(i)
      PROVE  TypeOK' /\ SenderInv'
  <2>1. row' \in [1 .. last -> Row]
    BY <1>32, HeldWrites
  <2>2. binding' \in [Issues -> Tasks]
    BY <1>32, OutboxAssumption DEF ReplaceNativeBinding, Tasks, OutboxAssumption
  <2>3. QED
    BY <1>32, <2>1, <2>2 DEF ReplaceNativeBinding, sender, remote
<1>33. ASSUME NEW r \in DOMAIN row, ReconcileTerminal(r)
      PROVE  TypeOK' /\ SenderInv'
  <2>1. row' \in [1 .. last -> Row]
    BY <1>33, Typed, ResolveWrites
  <2>2. QED
    BY <1>33, <2>1 DEF ReconcileTerminal, sender, remote
<1>34. CASE UNCHANGED vars
  BY <1>34 DEF vars
<1> QED
  BY <1>1, <1>2, <1>3, <1>4, <1>5, <1>6, <1>7, <1>8, <1>9, <1>10, <1>11, <1>12, <1>13,
     <1>14, <1>15, <1>16, <1>17, <1>18, <1>19, <1>20, <1>21, <1>22, <1>23, <1>24, <1>25,
     <1>26, <1>27, <1>28, <1>29, <1>30, <1>31, <1>32, <1>33, <1>34 DEF Next, Sender,
     Capture, Operator, Linear

-----------------------------------------------------------------------------
(* No write is sent twice.                                                   *)

\* Every step preserves what the rows, the snapshot, the markers and the answers
\* say of each other, whatever the operator does.
LEMMA SafeStep ==
  ASSUME TypeOK, SenderInv, RowInv, SnapshotCurrent, EffectInv, MarkerInv, RecordInv,
         SentMeansLanded, TypeOK', SenderInv', [Next]_vars
  PROVE  RowInv' /\ SnapshotCurrent' /\ EffectInv' /\ MarkerInv' /\ RecordInv'
         /\ SentMeansLanded'
<1> USE DEF TypeOK, SenderInv, RowInv, SnapshotCurrent, EffectInv, MarkerInv, RecordInv,
         SentMeansLanded, Quiet, IsStatus, StatusKinds
<1>1. CASE StartPass
  <2>1. RowInv'
    BY <1>1, Typed DEF StartPass, Heads, Eligible, table, remote
  <2>2. SnapshotCurrent'
    BY <1>1, Typed DEF StartPass, Heads, Eligible, table, remote
  <2>3. EffectInv'
    BY <1>1, Typed DEF StartPass, Heads, Eligible, table, remote
  <2>4. MarkerInv'
    BY <1>1, Typed DEF StartPass, Heads, Eligible, table, remote
  <2>5. RecordInv'
    BY <1>1, Typed DEF StartPass, Heads, Eligible, table, remote
  <2>6. SentMeansLanded'
    BY <1>1, Typed DEF StartPass, Heads, Eligible, table, remote
  <2> QED
    BY <2>1, <2>2, <2>3, <2>4, <2>5, <2>6
<1>2. CASE Pick
  <2>1. cur = NoRow /\ cur' \in DOMAIN batch /\ cur' \in 1 .. last
    BY <1>2, Picked
  <2>2. RowInv'
    BY <1>2, <2>1, Typed DEF Pick, table, remote, NoRow
  <2>3. SnapshotCurrent'
    BY <1>2, <2>1, Typed DEF Pick, table, remote, NoRow
  <2>4. EffectInv'
    BY <1>2, <2>1, Typed DEF Pick, table, remote, NoRow
  <2>5. MarkerInv'
    BY <1>2, <2>1, Typed DEF Pick, table, remote, NoRow
  <2>6. RecordInv'
    BY <1>2, <2>1, Typed DEF Pick, table, remote, NoRow
  <2>7. SentMeansLanded'
    BY <1>2, <2>1, Typed DEF Pick, table, remote, NoRow
  <2> QED
    BY <2>2, <2>3, <2>4, <2>5, <2>6, <2>7
<1>3. CASE EndPass
  <2>1. Revived
    BY <1>3, ReviveFields DEF EndPass
  <2>2. RowInv'
    BY <1>3, <2>1, Typed DEF Revived, Revivable, Alike, EndPass, Stop, NoBatch, remote
  <2>3. SnapshotCurrent'
    BY <1>3, <2>1, Typed DEF Revived, Revivable, Alike, EndPass, Stop, NoBatch, remote
  <2>4. EffectInv'
    BY <1>3, <2>1, EffectKept DEF Revived, Alike, EndPass, remote
  <2>5. MarkerInv'
    BY <1>3, <2>1, Typed DEF Revived, Revivable, Alike, EndPass, Stop, NoBatch, remote
  <2>6. RecordInv'
    BY <1>3, <2>1, Typed DEF Revived, Revivable, Alike, EndPass, Stop, NoBatch, remote
  <2>7. SentMeansLanded'
    BY <1>3, <2>1, Typed DEF Revived, Revivable, Alike, EndPass, Stop, NoBatch, remote
  <2> QED
    BY <2>2, <2>3, <2>4, <2>5, <2>6, <2>7
<1>4. CASE NotAuthorized
  <2>1. RowInv'
    BY <1>4, Typed, CurTyped, NotedWrites DEF OnlyCur, Rewritten, NotAuthorized, Leave,
       remote, Row
  <2>2. SnapshotCurrent'
    BY <1>4, Typed, CurTyped, NotedWrites DEF OnlyCur, Rewritten, NotAuthorized, Leave,
       remote, Row
  <2>3. EffectInv'
    BY SMTT(20), <1>4, Typed, CurTyped, NotedWrites DEF OnlyCur, Rewritten, NotAuthorized, Leave,
       remote, Row
  <2>4. MarkerInv'
    BY <1>4, Typed, CurTyped, NotedWrites DEF OnlyCur, Rewritten, NotAuthorized, Leave,
       remote, Row
  <2>5. RecordInv'
    BY <1>4, Typed, CurTyped, NotedWrites DEF OnlyCur, Rewritten, NotAuthorized, Leave,
       remote, Row
  <2>6. SentMeansLanded'
    BY <1>4, Typed, CurTyped, NotedWrites DEF OnlyCur, Rewritten, NotAuthorized, Leave,
       remote, Row
  <2> QED
    BY <2>1, <2>2, <2>3, <2>4, <2>5, <2>6
<1>5. CASE Deferred
  <2>1. RowInv'
    BY <1>5, Typed, CurTyped DEF Deferred, Leave, table, remote
  <2>2. SnapshotCurrent'
    BY <1>5, Typed, CurTyped DEF Deferred, Leave, table, remote
  <2>3. EffectInv'
    BY <1>5, Typed, CurTyped DEF Deferred, Leave, table, remote
  <2>4. MarkerInv'
    BY <1>5, Typed, CurTyped DEF Deferred, Leave, table, remote
  <2>5. RecordInv'
    BY <1>5, Typed, CurTyped DEF Deferred, Leave, table, remote
  <2>6. SentMeansLanded'
    BY <1>5, Typed, CurTyped DEF Deferred, Leave, table, remote
  <2> QED
    BY <2>1, <2>2, <2>3, <2>4, <2>5, <2>6
<1>6. CASE SettleFromReceipt
  <2>1. RowInv'
    BY <1>6, Typed, CurTyped DEF SettleFromReceipt, Goto, table, remote
  <2>2. SnapshotCurrent'
    BY <1>6, Typed, CurTyped DEF SettleFromReceipt, Goto, table, remote
  <2>3. EffectInv'
    BY <1>6, Typed, CurTyped DEF SettleFromReceipt, Goto, table, remote
  <2>4. MarkerInv'
    BY <1>6, Typed, CurTyped DEF SettleFromReceipt, Goto, table, remote
  <2>5. RecordInv'
    BY <1>6, Typed, CurTyped DEF SettleFromReceipt, Goto, table, remote
  <2>6. SentMeansLanded'
    BY <1>6, Typed, CurTyped DEF SettleFromReceipt, Goto, table, remote
  <2> QED
    BY <2>1, <2>2, <2>3, <2>4, <2>5, <2>6
<1>7. CASE HoldUncertain
  <2>1. HoldTerminal /\ pc = "check" /\ cur \in DOMAIN batch
    BY <1>7, CurTyped DEF HoldUncertain
  <2>2. RowInv'
    BY <1>7, <2>1, Typed, HoldFields DEF Undecided, Alike, HoldTerminal, remote
  <2>3. SnapshotCurrent'
    BY <1>7, <2>1, Typed, HoldFields DEF Undecided, Alike, HoldTerminal, remote
  <2>4. EffectInv'
    BY <1>7, <2>1, Typed, HoldFields DEF Undecided, Alike, HoldTerminal, remote
  <2>5. MarkerInv'
    BY <1>7, <2>1, Typed, HoldFields DEF Undecided, Alike, HoldTerminal, remote
  <2>6. RecordInv'
    BY <1>7, <2>1, Typed, HoldFields DEF Undecided, Alike, HoldTerminal, remote
  <2>7. SentMeansLanded'
    BY <1>7, <2>1, Typed, HoldFields DEF Undecided, Alike, HoldTerminal, remote
  <2> QED
    BY <2>2, <2>3, <2>4, <2>5, <2>6, <2>7
<1>8. CASE DropUnapplied
  <2>1. RowInv'
    BY <1>8, Typed, CurTyped DEF DropUnapplied, Goto, table, remote
  <2>2. SnapshotCurrent'
    BY <1>8, Typed, CurTyped DEF DropUnapplied, Goto, table, remote
  <2>3. EffectInv'
    BY <1>8, Typed, CurTyped DEF DropUnapplied, Goto, table, remote
  <2>4. MarkerInv'
    BY <1>8, Typed, CurTyped DEF DropUnapplied, Goto, table, remote
  <2>5. RecordInv'
    BY <1>8, Typed, CurTyped DEF DropUnapplied, Goto, table, remote
  <2>6. SentMeansLanded'
    BY <1>8, Typed, CurTyped DEF DropUnapplied, Goto, table, remote
  <2> QED
    BY <2>1, <2>2, <2>3, <2>4, <2>5, <2>6
<1>9. CASE NothingToWrite
  <2>1. RowInv'
    BY <1>9, Typed, CurTyped DEF NothingToWrite, Unsent, Goto, table, remote
  <2>2. SnapshotCurrent'
    BY <1>9, Typed, CurTyped DEF NothingToWrite, Unsent, Goto, table, remote
  <2>3. EffectInv'
    BY <1>9, Typed, CurTyped DEF NothingToWrite, Unsent, Goto, table, remote
  <2>4. MarkerInv'
    BY <1>9, Typed, CurTyped DEF NothingToWrite, Unsent, Goto, table, remote
  <2>5. RecordInv'
    BY <1>9, Typed, CurTyped DEF NothingToWrite, Unsent, Goto, table, remote
  <2>6. SentMeansLanded'
    BY <1>9, Typed, CurTyped DEF NothingToWrite, Unsent, Goto, table, remote
  <2> QED
    BY <2>1, <2>2, <2>3, <2>4, <2>5, <2>6
<1>10. CASE ReadBack
  <2>1. RowInv'
    BY <1>10, Typed, CurTyped DEF ReadBack, Goto, table, remote
  <2>2. SnapshotCurrent'
    BY <1>10, Typed, CurTyped DEF ReadBack, Goto, table, remote
  <2>3. EffectInv'
    BY <1>10, Typed, CurTyped DEF ReadBack, Goto, table, remote
  <2>4. MarkerInv'
    BY <1>10, Typed, CurTyped DEF ReadBack, Goto, table, remote
  <2>5. RecordInv'
    BY <1>10, Typed, CurTyped DEF ReadBack, Goto, table, remote
  <2>6. SentMeansLanded'
    BY <1>10, Typed, CurTyped DEF ReadBack, Goto, table, remote
  <2> QED
    BY <2>1, <2>2, <2>3, <2>4, <2>5, <2>6
<1>11. CASE Encode
  <2>1. RowInv'
    BY <1>11, Typed, CurTyped DEF Encode, Unsent, Goto, table, remote
  <2>2. SnapshotCurrent'
    BY <1>11, Typed, CurTyped DEF Encode, Unsent, Goto, table, remote
  <2>3. EffectInv'
    BY <1>11, Typed, CurTyped DEF Encode, Unsent, Goto, table, remote
  <2>4. MarkerInv'
    BY <1>11, Typed, CurTyped DEF Encode, Unsent, Goto, table, remote
  <2>5. RecordInv'
    BY <1>11, Typed, CurTyped DEF Encode, Unsent, Goto, table, remote
  <2>6. SentMeansLanded'
    BY <1>11, Typed, CurTyped DEF Encode, Unsent, Goto, table, remote
  <2> QED
    BY <2>1, <2>2, <2>3, <2>4, <2>5, <2>6
<1>12. CASE BeforeRequest
  <2>1. RowInv'
    BY <1>12, Typed, CurTyped DEF BeforeRequest, Goto, table, remote
  <2>2. SnapshotCurrent'
    BY <1>12, Typed, CurTyped DEF BeforeRequest, Goto, table, remote
  <2>3. EffectInv'
    BY <1>12, Typed, CurTyped DEF BeforeRequest, Goto, table, remote
  <2>4. MarkerInv'
    BY <1>12, Typed, CurTyped DEF BeforeRequest, Goto, table, remote
  <2>5. RecordInv'
    BY <1>12, Typed, CurTyped DEF BeforeRequest, Goto, table, remote
  <2>6. SentMeansLanded'
    BY <1>12, Typed, CurTyped DEF BeforeRequest, Goto, table, remote
  <2> QED
    BY <2>1, <2>2, <2>3, <2>4, <2>5, <2>6
<1>13. CASE AdmitMutation
  <2>1. Marked /\ cur \in DOMAIN batch
    BY <1>13, CurTyped, AdmitFields DEF AdmitMutation
  <2>2. RowInv'
    BY <1>13, <2>1, Typed DEF Marked, Alike, AdmitMutation, remote
  <2>3. SnapshotCurrent'
    <3>1. /\ last' = last /\ cur' = cur /\ batch' = batch /\ pc' # "check"
      BY <1>13 DEF AdmitMutation
    <3> HIDE DEF TypeOK, SenderInv, RowInv, SnapshotCurrent, EffectInv, MarkerInv,
             RecordInv, SentMeansLanded
    <3>2. QED
      BY <2>1, <3>1, SnapshotKept DEF Marked
  <2>4. EffectInv'
    BY <1>13, <2>1, Typed DEF Marked, Alike, AdmitMutation, remote
  <2>5. MarkerInv'
    BY <1>13, <2>1, Typed DEF Marked, Alike, AdmitMutation, remote
  <2>6. RecordInv'
    BY <1>13, <2>1, Typed DEF Marked, Alike, AdmitMutation, remote
  <2>7. SentMeansLanded'
    BY <1>13, <2>1, Typed DEF Marked, Alike, AdmitMutation, remote
  <2> QED
    BY <2>2, <2>3, <2>4, <2>5, <2>6, <2>7
<1>14. CASE Withdraw
  <2>1. TookBack /\ cur \in DOMAIN batch
    BY <1>14, CurTyped, TakenBackFields DEF Withdraw
  <2>2. RowInv'
    BY <1>14, <2>1, RowInvKept DEF TookBack, Withdraw, Leave, remote
  <2>3. SnapshotCurrent'
    <3>1. /\ \A r \in DOMAIN batch' : r \in DOMAIN batch /\ r # cur /\ batch'[r] = batch[r]
          /\ pc' = "pass"
      BY <1>14 DEF Withdraw, Leave
    <3>2. SUFFICES ASSUME NEW r \in DOMAIN batch, r # cur, batch'[r] = batch[r]
                   PROVE  SnapshotCurrent!(r)'
      BY <3>1 DEF SnapshotCurrent
    <3>3. /\ r \in 1 .. last /\ Alike(row[r], row'[r])
          /\ row'[r].state = row[r].state /\ row'[r].applied = row[r].applied
          /\ row'[r].receipt = row[r].receipt /\ row'[r].started = row[r].started
      <4> HIDE DEF SenderInv, RowInv, SnapshotCurrent, EffectInv, MarkerInv, RecordInv,
               SentMeansLanded
      <4> QED
        BY <2>1, <3>2, Typed DEF TookBack
    <3>4. QED
      BY <3>2, <3>3 DEF Alike
  <2>4. EffectInv'
    BY <1>14, <2>1, EffectKept DEF TookBack, Alike, Withdraw, Leave, remote
  <2>5. MarkerInv'
    BY <1>14, <2>1, Typed DEF TookBack, Alike, Withdraw, Leave, remote
  <2>6. RecordInv'
    BY <1>14, <2>1, Typed DEF TookBack, Alike, Withdraw, Leave, remote
  <2>7. SentMeansLanded'
    BY <1>14, <2>1, LandedKept DEF TookBack, Withdraw, Leave, remote
  <2> QED
    BY <2>2, <2>3, <2>4, <2>5, <2>6, <2>7
<1>15. CASE Send
  <2>1. RowInv'
    BY <1>15, Typed, CurTyped DEF Send, table, remote
  <2>2. SnapshotCurrent'
    BY <1>15, Typed, CurTyped DEF Send, table, remote
  <2>3. EffectInv'
    BY <1>15, Typed, CurTyped DEF Send, table, remote
  <2>4. MarkerInv'
    BY <1>15, Typed, CurTyped DEF Send, table, remote
  <2>5. RecordInv'
    BY <1>15, Typed, CurTyped DEF Send, table, remote
  <2>6. SentMeansLanded'
    BY <1>15, Typed, CurTyped DEF Send, table, remote
  <2> QED
    BY <2>1, <2>2, <2>3, <2>4, <2>5, <2>6
<1>16. CASE NoAnswer
  <2>1. RowInv'
    BY <1>16, Typed, CurTyped DEF NoAnswer, table, remote
  <2>2. SnapshotCurrent'
    BY <1>16, Typed, CurTyped DEF NoAnswer, table, remote
  <2>3. EffectInv'
    BY <1>16, Typed, CurTyped DEF NoAnswer, table, remote
  <2>4. MarkerInv'
    BY <1>16, Typed, CurTyped DEF NoAnswer, table, remote
  <2>5. RecordInv'
    BY <1>16, Typed, CurTyped DEF NoAnswer, table, remote
  <2>6. SentMeansLanded'
    BY <1>16, Typed, CurTyped DEF NoAnswer, table, remote
  <2> QED
    BY <2>1, <2>2, <2>3, <2>4, <2>5, <2>6
<1>17. CASE Unauthorized
  <2>1. TookBack /\ cur \in DOMAIN batch
    BY <1>17, CurTyped, TakenBackFields DEF Unauthorized, TakeBack
  <2>2. RowInv'
    BY <1>17, <2>1, RowInvKept DEF TookBack, Unauthorized, remote
  <2>3. SnapshotCurrent'
    BY <1>17, <2>1, SnapshotKept DEF TookBack, Unauthorized
  <2>4. EffectInv'
    BY <1>17, <2>1, EffectKept DEF TookBack, Alike, Unauthorized, remote
  <2>5. MarkerInv'
    BY <1>17, <2>1, Typed DEF TookBack, Alike, Unauthorized, remote
  <2>6. RecordInv'
    BY <1>17, <2>1, Typed DEF TookBack, Alike, Unauthorized, remote
  <2>7. SentMeansLanded'
    BY <1>17, <2>1, LandedKept DEF TookBack, Unauthorized, remote
  <2> QED
    BY <2>2, <2>3, <2>4, <2>5, <2>6, <2>7
<1>18. CASE RateLimited
  <2>1. TookBack /\ cur \in DOMAIN batch
    BY <1>18, CurTyped, TakenBackFields DEF RateLimited, TakeBack
  <2>2. RowInv'
    BY <1>18, <2>1, RowInvKept DEF TookBack, RateLimited, Stop, remote
  <2>3. SnapshotCurrent'
    BY <1>18, <2>1, Typed DEF TookBack, Alike, RateLimited, Stop, NoBatch, remote
  <2>4. EffectInv'
    BY <1>18, <2>1, EffectKept DEF TookBack, Alike, RateLimited, Stop, remote
  <2>5. MarkerInv'
    BY <1>18, <2>1, Typed DEF TookBack, Alike, RateLimited, Stop, NoBatch, remote
  <2>6. RecordInv'
    BY <1>18, <2>1, Typed DEF TookBack, Alike, RateLimited, Stop, NoBatch, remote
  <2>7. SentMeansLanded'
    BY <1>18, <2>1, LandedKept DEF TookBack, RateLimited, Stop, remote
  <2> QED
    BY <2>2, <2>3, <2>4, <2>5, <2>6, <2>7
<1>19. CASE \E giveUp \in BOOLEAN : Retry(giveUp)
  <2>1. RowInv'
    BY <1>19, Typed, CurTyped, GiveUpFields DEF GivenUp, Alike, Retry, Leave, remote
  <2>2. SnapshotCurrent'
    BY <1>19, Typed, CurTyped, GiveUpFields DEF GivenUp, Alike, Retry, Leave, remote
  <2>3. EffectInv'
    BY <1>19, Typed, CurTyped, GiveUpFields DEF GivenUp, Alike, Retry, Leave, remote
  <2>4. MarkerInv'
    BY <1>19, Typed, CurTyped, GiveUpFields DEF GivenUp, Alike, Retry, Leave, remote
  <2>5. RecordInv'
    BY <1>19, Typed, CurTyped, GiveUpFields DEF GivenUp, Alike, Retry, Leave, remote
  <2>6. SentMeansLanded'
    BY <1>19, Typed, CurTyped, GiveUpFields DEF GivenUp, Alike, Retry, Leave, remote
  <2> QED
    BY <2>1, <2>2, <2>3, <2>4, <2>5, <2>6
<1>20. CASE MarkFailed
  <2>1. RowInv'
    BY <1>20, Typed, CurTyped, GiveUpFields DEF GivenUp, Alike, MarkFailed, Leave, remote
  <2>2. SnapshotCurrent'
    BY <1>20, Typed, CurTyped, GiveUpFields DEF GivenUp, Alike, MarkFailed, Leave, remote
  <2>3. EffectInv'
    BY <1>20, Typed, CurTyped, GiveUpFields DEF GivenUp, Alike, MarkFailed, Leave, remote
  <2>4. MarkerInv'
    BY <1>20, Typed, CurTyped, GiveUpFields DEF GivenUp, Alike, MarkFailed, Leave, remote
  <2>5. RecordInv'
    BY <1>20, Typed, CurTyped, GiveUpFields DEF GivenUp, Alike, MarkFailed, Leave, remote
  <2>6. SentMeansLanded'
    BY <1>20, Typed, CurTyped, GiveUpFields DEF GivenUp, Alike, MarkFailed, Leave, remote
  <2> QED
    BY <2>1, <2>2, <2>3, <2>4, <2>5, <2>6
<1>21. CASE RecordReceipt
  <2>1. RowInv'
    BY <1>21, Typed, CurTyped, ReceiptFields DEF Undecided, Alike, RecordReceipt, remote
  <2>2. SnapshotCurrent'
    BY <1>21, Typed, CurTyped, ReceiptFields DEF Undecided, Alike, RecordReceipt, remote
  <2>3. EffectInv'
    BY <1>21, Typed, CurTyped, ReceiptFields DEF Undecided, Alike, RecordReceipt, remote
  <2>4. MarkerInv'
    BY <1>21, Typed, CurTyped, ReceiptFields DEF Undecided, Alike, RecordReceipt, remote
  <2>5. RecordInv'
    BY <1>21, Typed, CurTyped, ReceiptFields DEF Undecided, Alike, RecordReceipt, remote
  <2>6. SentMeansLanded'
    BY <1>21, Typed, CurTyped, ReceiptFields DEF Undecided, Alike, RecordReceipt, remote
  <2> QED
    BY <2>1, <2>2, <2>3, <2>4, <2>5, <2>6
<1>22. CASE ReceiptMismatch
  <2>1. HoldTerminal /\ pc = "answered" /\ cur \in DOMAIN batch
    BY <1>22, CurTyped DEF ReceiptMismatch
  <2>2. RowInv'
    BY <1>22, <2>1, Typed, HoldFields DEF Undecided, Alike, HoldTerminal, remote
  <2>3. SnapshotCurrent'
    BY <1>22, <2>1, Typed, HoldFields DEF Undecided, Alike, HoldTerminal, remote
  <2>4. EffectInv'
    BY <1>22, <2>1, Typed, HoldFields DEF Undecided, Alike, HoldTerminal, remote
  <2>5. MarkerInv'
    BY <1>22, <2>1, Typed, HoldFields DEF Undecided, Alike, HoldTerminal, remote
  <2>6. RecordInv'
    BY <1>22, <2>1, Typed, HoldFields DEF Undecided, Alike, HoldTerminal, remote
  <2>7. SentMeansLanded'
    BY <1>22, <2>1, Typed, HoldFields DEF Undecided, Alike, HoldTerminal, remote
  <2> QED
    BY <2>2, <2>3, <2>4, <2>5, <2>6, <2>7
<1>23. CASE CommentReadback
  <2>1. RowInv'
    BY <1>23, Typed, CurTyped DEF CommentReadback, table, remote
  <2>2. SnapshotCurrent'
    BY <1>23, Typed, CurTyped DEF CommentReadback, table, remote
  <2>3. EffectInv'
    BY <1>23, Typed, CurTyped DEF CommentReadback, table, remote
  <2>4. MarkerInv'
    BY <1>23, Typed, CurTyped DEF CommentReadback, table, remote
  <2>5. RecordInv'
    BY <1>23, Typed, CurTyped DEF CommentReadback, table, remote
  <2>6. SentMeansLanded'
    BY <1>23, Typed, CurTyped DEF CommentReadback, table, remote
  <2> QED
    BY <2>1, <2>2, <2>3, <2>4, <2>5, <2>6
<1>24. CASE MarkSent
  <2>1. cur \in DOMAIN batch /\ Decided(row[cur], row'[cur])
       /\ \A r \in 1 .. last : r # cur => row'[r] = row[r]
    BY <1>24, CurTyped, SentFields DEF MarkSent
  <2>2. RowInv'
    <3>1. SUFFICES ASSUME NEW r \in 1 .. last
                   PROVE  RowInv!(r)'
      BY <1>24 DEF MarkSent
    <3>2. r # cur => row'[r] = row[r]
      BY <2>1
    <3>3. QED
      BY <2>1, <3>2, Typed DEF Decided, Alike
  <2>3. SnapshotCurrent'
    BY <1>24, <2>1, Typed DEF Decided, Alike, MarkSent, Leave, remote
  <2>4. EffectInv'
    BY <1>24, <2>1, EffectKept DEF Decided, Alike, MarkSent, remote
  <2>5. MarkerInv'
    BY <1>24, <2>1, Typed DEF Decided, Alike, MarkSent, Leave, remote
  <2>6. RecordInv'
    BY <1>24, <2>1, Typed DEF Decided, Alike, MarkSent, Leave, remote
  <2>7. SentMeansLanded'
    BY <1>24, <2>1, Typed DEF Decided, Alike, MarkSent, Leave, remote
  <2> QED
    BY <2>2, <2>3, <2>4, <2>5, <2>6, <2>7
<1>25. CASE Crash
  <2>1. RowInv'
    BY <1>25, Typed DEF Crash, Stop, NoBatch, table, remote
  <2>2. SnapshotCurrent'
    BY <1>25, Typed DEF Crash, Stop, NoBatch, table, remote
  <2>3. EffectInv'
    BY <1>25, Typed DEF Crash, Stop, NoBatch, table, remote
  <2>4. MarkerInv'
    BY <1>25, Typed DEF Crash, Stop, NoBatch, table, remote
  <2>5. RecordInv'
    BY <1>25, Typed DEF Crash, Stop, NoBatch, table, remote
  <2>6. SentMeansLanded'
    BY <1>25, Typed DEF Crash, Stop, NoBatch, table, remote
  <2> QED
    BY <2>1, <2>2, <2>3, <2>4, <2>5, <2>6
<1>26. CASE Reject
  <2>1. RowInv'
    BY <1>26, Typed, CurTyped DEF Reject, table
  <2>2. SnapshotCurrent'
    BY <1>26, Typed, CurTyped DEF Reject, table
  <2>3. EffectInv'
    BY <1>26, Typed, CurTyped DEF Reject, table
  <2>4. MarkerInv'
    BY <1>26, Typed, CurTyped DEF Reject, table
  <2>5. RecordInv'
    BY <1>26, Typed, CurTyped DEF Reject, table
  <2>6. SentMeansLanded'
    BY <1>26, Typed, CurTyped DEF Reject, table
  <2> QED
    BY <2>1, <2>2, <2>3, <2>4, <2>5, <2>6
<1>27. CASE \E r \in net : Land(r)
  <2>1. RowInv'
    BY <1>27, Typed DEF Land, table
  <2>2. SnapshotCurrent'
    BY <1>27, Typed DEF Land, table
  <2>3. EffectInv'
    BY <1>27, Typed DEF Land, table
  <2>4. MarkerInv'
    BY <1>27, Typed DEF Land, table
  <2>5. RecordInv'
    BY <1>27, Typed DEF Land, table
  <2>6. SentMeansLanded'
    BY <1>27, Typed DEF Land, table
  <2> QED
    BY <2>1, <2>2, <2>3, <2>4, <2>5, <2>6
<1>28. CASE \E r \in net : Lose(r)
  <2>1. RowInv'
    BY <1>28, Typed DEF Lose, table, sender
  <2>2. SnapshotCurrent'
    BY <1>28, Typed DEF Lose, table, sender
  <2>3. EffectInv'
    BY <1>28, Typed DEF Lose, table, sender
  <2>4. MarkerInv'
    BY <1>28, Typed DEF Lose, table, sender
  <2>5. RecordInv'
    BY <1>28, Typed DEF Lose, table, sender
  <2>6. SentMeansLanded'
    BY <1>28, Typed DEF Lose, table, sender
  <2> QED
    BY <2>1, <2>2, <2>3, <2>4, <2>5, <2>6
<1>29. ASSUME NEW i \in Issues,
             \/ CaptureEvent(i)
             \/ \E intent \in Intents : ReconcileStatus(i, intent) \/ Finish(i, intent)
      PROVE  RowInv' /\ SnapshotCurrent' /\ EffectInv' /\ MarkerInv' /\ RecordInv'
         /\ SentMeansLanded'
  <2>1. Grown
    BY <1>29, CaptureGrows
  <2>2. UNCHANGED <<sender, remote>>
    BY <2>1 DEF Grown
  <2>3. RowInv'
    <3>1. SUFFICES ASSUME NEW r \in 1 .. last'
                   PROVE  RowInv!(r)'
      BY Typed
    <3>2. CASE r \in 1 .. last
      <4>1. Undecided(row[r], row'[r]) /\ row'[r].required = row[r].required
        BY <2>1, <3>2 DEF Grown
      <4>2. QED
        BY <4>1, <3>2, Typed DEF Undecided, Alike
    <3>3. CASE r \notin 1 .. last
      <4>1. Blank(row'[r])
        BY <2>1, <3>3 DEF Grown
      <4>2. QED
        BY <4>1 DEF Blank
    <3>4. QED
      BY <3>2, <3>3
  <2>4. SnapshotCurrent'
    <3>1. SUFFICES ASSUME NEW r \in DOMAIN batch
                   PROVE  SnapshotCurrent!(r)'
      BY <2>2 DEF SnapshotCurrent, sender
    <3>2. r \in 1 .. last
      BY Typed
    <3>3. Undecided(row[r], row'[r]) /\ row'[r].receipt = row[r].receipt
      <4> HIDE DEF SenderInv, RowInv, SnapshotCurrent, EffectInv, MarkerInv, RecordInv,
               SentMeansLanded
      <4> QED
        BY <2>1, <3>2 DEF Grown
    <3>4. QED
      BY <3>2, <3>3, <2>2 DEF Undecided, Alike, sender
  <2>5. EffectInv'
    <3>1. last' \in Nat /\ last <= last' /\ net' = net /\ landed' = landed
      BY <2>1 DEF Grown, remote
    <3>2. \A r \in RowId : r > last' => landed'[r] = 0
      BY <3>1, Typed, OutboxAssumption DEF RowId, OutboxAssumption
    <3>3. SUFFICES ASSUME NEW r \in 1 .. last'
                   PROVE  EffectInv!2!(r)'
      BY <3>2
    <3>4. CASE r \in 1 .. last
      <4>1. Undecided(row[r], row'[r]) /\ row'[r].receipt = row[r].receipt
        BY <2>1, <3>4 DEF Grown
      <4>2. QED
        BY <4>1, <3>1, <3>4, Typed DEF Undecided, Alike
    <3>5. CASE r \notin 1 .. last
      <4>1. r > last /\ r \in RowId
        BY <3>5, Typed, OutboxAssumption DEF RowId, OutboxAssumption
      <4>2. Blank(row'[r])
        BY <2>1, <4>1 DEF Grown
      <4>3. QED
        BY <4>1, <4>2, <3>1 DEF Blank
    <3>6. QED
      BY <3>4, <3>5
  <2>6. MarkerInv'
    BY <2>1, Typed, CurTyped DEF Grown, Undecided, Alike, sender, remote
  <2>7. RecordInv'
    BY <2>1, Typed, CurTyped DEF Grown, Undecided, Alike, sender, remote
  <2>8. SentMeansLanded'
    <3>1. SUFFICES ASSUME NEW r \in 1 .. last'
                   PROVE  SentMeansLanded!(r)'
      BY Typed
    <3>2. CASE r \in 1 .. last
      <4>1. Undecided(row[r], row'[r])
        BY <2>1, <3>2 DEF Grown
      <4>2. QED
        BY <4>1, <2>2, <3>2, Typed DEF Undecided, remote
    <3>3. CASE r \notin 1 .. last
      <4>1. Blank(row'[r])
        BY <2>1, <3>3 DEF Grown
      <4>2. QED
        BY <4>1 DEF Blank
    <3>4. QED
      BY <3>2, <3>3
  <2> QED
    BY <2>3, <2>4, <2>5, <2>6, <2>7, <2>8
<1>30. ASSUME NEW i \in Issues, ReplaceNativeBinding(i)
      PROVE  RowInv' /\ SnapshotCurrent' /\ EffectInv' /\ MarkerInv' /\ RecordInv'
         /\ SentMeansLanded'
  <2>1. \A r \in 1 .. last : /\ Undecided(row[r], row'[r])
                             /\ row'[r].required = row[r].required
                             /\ row'[r].receipt = row[r].receipt
    BY <1>30, HeldFields
  <2>2. last' = last /\ UNCHANGED <<sender, remote>>
    BY <1>30 DEF ReplaceNativeBinding
  <2>3. RowInv'
    BY <2>1, <2>2, RowInvKept DEF Undecided
  <2>4. SnapshotCurrent'
    <3>1. SUFFICES ASSUME NEW r \in DOMAIN batch
                   PROVE  SnapshotCurrent!(r)'
      BY <2>2 DEF SnapshotCurrent, sender
    <3>2. r \in 1 .. last
      BY Typed
    <3>3. Undecided(row[r], row'[r]) /\ row'[r].receipt = row[r].receipt
      <4> HIDE DEF SenderInv, RowInv, SnapshotCurrent, EffectInv, MarkerInv, RecordInv,
               SentMeansLanded
      <4> QED
        BY <2>1, <3>2
    <3>4. QED
      BY <3>2, <3>3, <2>2 DEF Undecided, Alike, sender
  <2>5. EffectInv'
    BY <2>1, <2>2, EffectKept DEF Undecided, Alike, remote
  <2>6. MarkerInv'
    BY <2>1, <2>2, Typed, CurTyped DEF Undecided, Alike, sender, remote
  <2>7. RecordInv'
    BY <2>1, <2>2, Typed, CurTyped DEF Undecided, Alike, sender, remote
  <2>8. SentMeansLanded'
    BY <2>1, <2>2, LandedKept DEF Undecided, remote
  <2> QED
    BY <2>3, <2>4, <2>5, <2>6, <2>7, <2>8
<1>31. ASSUME NEW r \in DOMAIN row, ReconcileTerminal(r)
      PROVE  RowInv' /\ SnapshotCurrent' /\ EffectInv' /\ MarkerInv' /\ RecordInv'
         /\ SentMeansLanded'
  <2>1. /\ r \in 1 .. last /\ Resolved(row[r], row'[r])
        /\ \A q \in 1 .. last : q # r => row'[q] = row[q]
    BY <1>31, Typed, ResolveFields
  <2>2. last' = last /\ UNCHANGED <<sender, remote>> /\ IsStatus(row[r])
    BY <1>31 DEF ReconcileTerminal, NeedsResolution
  <2>3. RowInv'
    <3>1. SUFFICES ASSUME NEW q \in 1 .. last
                   PROVE  RowInv!(q)'
      BY <2>2
    <3>2. CASE q = r
      BY <2>1, <3>2, Typed DEF Resolved
    <3>3. CASE q # r
      BY <2>1, <3>3, Typed
    <3>4. QED
      BY <3>2, <3>3
  <2>4. SnapshotCurrent'
    <3>1. SUFFICES ASSUME NEW q \in DOMAIN batch
                   PROVE  SnapshotCurrent!(q)'
      BY <2>2 DEF sender
    <3>2. q \in 1 .. last
      BY Typed
    <3>3. CASE q = r
      BY <2>1, <2>2, <3>2, <3>3 DEF Resolved, sender
    <3>4. CASE q # r
      BY <2>1, <2>2, <3>2, <3>4 DEF sender
    <3>5. QED
      BY <3>3, <3>4
  <2>5. EffectInv'
    <3>1. \A q \in 1 .. last : /\ row'[q].kind = row[q].kind
                               /\ row'[q].receipt = row[q].receipt
                               /\ row'[q].started = row[q].started
      BY <2>1 DEF Resolved
    <3>2. QED
      BY <2>2, <3>1, EffectKept DEF remote
  <2>6. MarkerInv'
    BY <2>1, <2>2, Typed, CurTyped DEF Resolved, sender, remote
  <2>7. RecordInv'
    BY <2>1, <2>2, Typed, CurTyped DEF Resolved, sender, remote
  <2>8. SentMeansLanded'
    <3>1. SUFFICES ASSUME NEW q \in 1 .. last
                   PROVE  SentMeansLanded!(q)'
      BY <2>2
    <3>2. CASE q = r
      BY ZenonT(30), <2>1, <2>2, <3>2, Typed DEF Resolved, remote
    <3>3. CASE q # r
      BY <2>1, <2>2, <3>3, Typed DEF remote
    <3>4. QED
      BY <3>2, <3>3
  <2> QED
    BY <2>3, <2>4, <2>5, <2>6, <2>7, <2>8
<1>32. CASE UNCHANGED vars
  BY <1>32 DEF vars
<1> QED
  BY <1>1, <1>2, <1>3, <1>4, <1>5, <1>6, <1>7, <1>8, <1>9, <1>10, <1>11, <1>12, <1>13,
     <1>14, <1>15, <1>16, <1>17, <1>18, <1>19, <1>20, <1>21, <1>22, <1>23, <1>24, <1>25,
     <1>26, <1>27, <1>28, <1>29, <1>30, <1>31, <1>32
     DEF Next, Sender, Capture, Operator, Linear

-----------------------------------------------------------------------------
(* The order of an issue's statuses.                                         *)

\* A step that makes no status due or active, and requeues none.
Steady ==
  /\ last' = last /\ shown' = shown /\ landed' = landed
  /\ \A r \in 1 .. last :
       /\ row'[r].kind = row[r].kind /\ row'[r].issue = row[r].issue
       /\ Due(r)' => Due(r)
       /\ Active(r)' => /\ Active(r)
                        /\ row'[r].started /\ row'[r].state # "sent" /\ ~row'[r].reconciled
       /\ row'[r].state = "pending" /\ ~row'[r].held => row[r].state = "pending" /\ ~row[r].held

\* A steady step keeps the order of an issue's statuses.
LEMMA SteadyKeeps ==
  ASSUME TypeOK, TypeOK', ActiveInv, OlderSettled, ShownInv, Steady
  PROVE  ActiveInv' /\ OlderSettled' /\ ShownInv'
<1>1. DOMAIN row = 1 .. last /\ DOMAIN row' = 1 .. last
  BY DEF TypeOK, Steady
<1>2. ActiveInv'
  <2>1. SUFFICES ASSUME NEW r \in 1 .. last, Active(r)'
                 PROVE  /\ row'[r].started /\ row'[r].state # "sent" /\ ~row'[r].reconciled
                        /\ landed'[r] = 0 => shown'[row'[r].issue] < r
                        /\ \A s \in 1 .. last : Active(s)' /\ row'[s].issue = row'[r].issue => s = r
    BY <1>1 DEF ActiveInv
  <2>2. /\ Active(r)
        /\ \A s \in 1 .. last : Active(s)' /\ row'[s].issue = row'[r].issue =>
             Active(s) /\ row[s].issue = row[r].issue
    BY <2>1 DEF Steady
  <2>3. QED
    BY <1>1, <2>1, <2>2 DEF Steady, ActiveInv
<1>3. OlderSettled'
  <2>1. SUFFICES ASSUME NEW r \in 1 .. last, NEW s \in 1 .. last, Due(s)', r < s,
                        IsStatus(row'[r]), row'[r].issue = row'[s].issue,
                        row'[r].state = "pending", ~row'[r].held
                 PROVE  FALSE
    BY <1>1 DEF OlderSettled
  <2>2. /\ Due(s) /\ IsStatus(row[r]) /\ row[r].issue = row[s].issue
        /\ row[r].state = "pending" /\ ~row[r].held
    BY <2>1 DEF Steady, IsStatus
  <2>3. QED
    BY <1>1, <2>1, <2>2 DEF OlderSettled
<1>4. ShownInv'
  BY <1>1 DEF ShownInv, Steady, IsStatus
<1> QED
  BY <1>2, <1>3, <1>4

\* Taking a quiet marker back is steady.
LEMMA TookBackSteady ==
  ASSUME TypeOK, TypeOK', ActiveInv, TookBack, fresh => cur \notin net,
         last' = last, shown' = shown, landed' = landed, net' = net,
         DOMAIN batch' \subseteq DOMAIN batch, pc' \notin {"marked", "wire"}
  PROVE  Steady
<1> SUFFICES ASSUME NEW r \in 1 .. last
             PROVE  Steady!2!(r)
  BY DEF Steady
<1>1. /\ Alike(row[r], row'[r]) /\ row'[r].state = row[r].state
      /\ row'[r].started = row[r].started \/ (r = cur /\ fresh)
  BY DEF TookBack
<1>2. Active(r)' => r \in net /\ Active(r)
  BY <1>1 DEF Alike, Active, IsStatus
<1>3. Due(r)' => Due(r)
  BY <1>1 DEF Alike, Due, IsStatus
<1> QED
  BY <1>1, <1>2, <1>3, Typed DEF Alike, ActiveInv

\* Most steps of the sender, and a lost or refused request, are steady.
LEMMA SteadyStep ==
  ASSUME TypeOK, TypeOK', SenderInv, SenderInv', RowInv, SnapshotCurrent, EffectInv,
         MarkerInv, RecordInv,
         ActiveInv,
         \/ Pick \/ NotAuthorized \/ Deferred \/ SettleFromReceipt
         \/ HoldUncertain \/ DropUnapplied \/ NothingToWrite \/ ReadBack
         \/ Encode \/ BeforeRequest \/ Withdraw \/ Send
         \/ NoAnswer \/ Unauthorized \/ RateLimited \/ \E giveUp \in BOOLEAN : Retry(giveUp)
         \/ MarkFailed \/ RecordReceipt \/ ReceiptMismatch \/ CommentReadback
         \/ MarkSent \/ Crash \/ Reject \/ \E r \in net : Lose(r)
  PROVE  Steady
<1> USE DEF TypeOK, SenderInv, SnapshotCurrent, EffectInv, MarkerInv, RecordInv,
         ActiveInv, Active, Due, Quiet, IsStatus, StatusKinds, Steady
<1>1. CASE Pick
  <2>1. cur = NoRow /\ cur' \in DOMAIN batch
    BY <1>1, Picked
  <2>2. QED
    BY <1>1, <2>1, Typed DEF Pick, table, remote
<1>2. CASE NotAuthorized
  <2>1. /\ last' = last /\ shown' = shown /\ landed' = landed /\ net' = net /\ cur' = NoRow
        /\ DOMAIN batch' \subseteq DOMAIN batch /\ pc' = "pass" /\ cur \in DOMAIN batch
    BY <1>2, CurTyped DEF NotAuthorized, Leave, remote
  <2>2. /\ \A r \in 1 .. last : r # cur => row'[r] = row[r]
        /\ Noted(row[cur], row'[cur], batch[cur])
    BY <1>2, NotedFields
  <2>3. ~batch[cur].reconciled /\ batch[cur].kind = row[cur].kind
        /\ batch[cur].issue = row[cur].issue /\ batch[cur].started = row[cur].started
    BY <1>2, CurTyped DEF NotAuthorized
  <2>4. SUFFICES ASSUME NEW r \in 1 .. last
                 PROVE  Steady!2!(r)
    BY <2>1
  <2>5. CASE r = cur
    <3>1. Active(r)' => Active(r) /\ r \in net
      BY <2>1, <2>2, <2>3, <2>5 DEF Noted
    <3>2. Due(r)' => Due(r)
      BY <2>1, <2>2, <2>3, <2>5 DEF Noted
    <3>3. QED
      BY <2>2, <2>3, <2>5, <3>1, <3>2, Typed DEF Noted
  <2>6. CASE r # cur
    BY <2>1, <2>2, <2>6, Typed
  <2>7. QED
    BY <2>5, <2>6
<1>3. CASE Deferred
  BY <1>3, Typed, CurTyped DEF Deferred, Leave, table, remote
<1>4. CASE SettleFromReceipt
  BY <1>4, Typed, CurTyped DEF SettleFromReceipt, Goto, table, remote
<1>5. CASE HoldUncertain
  <2>1. HoldTerminal /\ pc = "check"
    BY <1>5 DEF HoldUncertain
  <2>2. QED
    BY <1>5, <2>1, Typed, HoldFields, CurTyped DEF Undecided, Alike, HoldTerminal, remote
<1>6. CASE DropUnapplied
  BY <1>6, Typed, CurTyped DEF DropUnapplied, Goto, table, remote
<1>7. CASE NothingToWrite
  BY <1>7, Typed, CurTyped DEF NothingToWrite, Goto, table, remote
<1>8. CASE ReadBack
  BY <1>8, Typed, CurTyped DEF ReadBack, Goto, table, remote
<1>9. CASE Encode
  BY <1>9, Typed, CurTyped DEF Encode, Goto, table, remote
<1>10. CASE BeforeRequest
  BY <1>10, Typed, CurTyped DEF BeforeRequest, Goto, table, remote
<1>11. CASE Withdraw
  <2>1. TookBack /\ cur \in DOMAIN batch
    BY <1>11, CurTyped, TakenBackFields DEF Withdraw
  <2>2. fresh => cur \notin net
    BY <1>11 DEF Withdraw
  <2>3. QED
    BY <1>11, <2>1, <2>2, TookBackSteady DEF Withdraw, Leave, remote
<1>12. CASE Send
  BY <1>12, Typed, CurTyped DEF Send, table
<1>13. CASE NoAnswer
  BY <1>13, Typed, CurTyped DEF NoAnswer, table, remote
<1>14. CASE Unauthorized
  <2>1. TookBack /\ cur \in DOMAIN batch
    BY <1>14, CurTyped, TakenBackFields DEF Unauthorized, TakeBack
  <2>2. fresh => cur \notin net
    BY <1>14 DEF Unauthorized
  <2>3. QED
    BY <1>14, <2>1, <2>2, TookBackSteady DEF Unauthorized, remote
<1>15. CASE RateLimited
  <2>1. TookBack /\ cur \in DOMAIN batch
    BY <1>15, CurTyped, TakenBackFields DEF RateLimited, TakeBack
  <2>2. fresh => cur \notin net
    BY <1>15 DEF RateLimited
  <2>3. QED
    BY <1>15, <2>1, <2>2, TookBackSteady DEF RateLimited, Stop, NoBatch, remote
<1>16. CASE \E giveUp \in BOOLEAN : Retry(giveUp)
  BY <1>16, Typed, CurTyped, GiveUpFields DEF GivenUp, Alike, Retry, Leave, remote
<1>17. CASE MarkFailed
  BY <1>17, Typed, CurTyped, GiveUpFields DEF GivenUp, Alike, MarkFailed, Leave, remote
<1>18. CASE RecordReceipt
  BY <1>18, Typed, CurTyped, ReceiptFields DEF Undecided, Alike, RecordReceipt, remote
<1>19. CASE ReceiptMismatch
  <2>1. HoldTerminal /\ pc = "answered"
    BY <1>19 DEF ReceiptMismatch
  <2>2. QED
    BY <1>19, <2>1, Typed, HoldFields, CurTyped DEF Undecided, Alike, HoldTerminal, remote
<1>20. CASE CommentReadback
  BY <1>20, Typed, CurTyped DEF CommentReadback, table, remote
<1>21. CASE MarkSent
  <2>1. cur \in DOMAIN batch /\ Decided(row[cur], row'[cur])
       /\ \A r \in 1 .. last : r # cur => row'[r] = row[r]
    BY <1>21, CurTyped, SentFields DEF MarkSent
  <2>2. QED
    BY <1>21, <2>1, Typed DEF Decided, Alike, MarkSent, Leave, remote
<1>22. CASE Crash
  BY <1>22, Typed DEF Crash, Stop, NoBatch, table, remote
<1>23. CASE Reject
  BY <1>23, Typed, CurTyped DEF Reject, table
<1>24. CASE \E r \in net : Lose(r)
  BY <1>24, Typed DEF Lose, table, sender
<1> QED
  BY <1>1, <1>2, <1>3, <1>4, <1>5, <1>6, <1>7, <1>8, <1>9, <1>10, <1>11, <1>12, <1>13,
     <1>14, <1>15, <1>16, <1>17, <1>18, <1>19, <1>20, <1>21, <1>22, <1>23, <1>24
\* A capture or an operator's resolution is steady too, or only queues rows.
LEMMA BindingSteady ==
  ASSUME TypeOK, TypeOK', ActiveInv, NEW i \in Issues, ReplaceNativeBinding(i)
  PROVE  Steady
<1>1. \A r \in 1 .. last : Undecided(row[r], row'[r])
  BY HeldFields
<1>2. /\ last' = last /\ shown' = shown /\ landed' = landed /\ net' = net
      /\ batch' = batch /\ cur' = cur /\ pc' = pc
  BY DEF ReplaceNativeBinding, sender, remote
<1> SUFFICES ASSUME NEW r \in 1 .. last
             PROVE  Steady!2!(r)
  BY <1>2 DEF Steady
<1>3. Undecided(row[r], row'[r])
  BY <1>1
<1>4. Active(r)' => Active(r)
  BY <1>2, <1>3 DEF Active, Undecided, Alike, IsStatus
<1>5. Due(r)' => Due(r)
  BY <1>2, <1>3 DEF Due, Undecided, Alike, IsStatus
<1> QED
  BY <1>3, <1>4, <1>5, Typed DEF Undecided, Alike, ActiveInv

\* The operator waits: what is resolved is not being delivered.
LEMMA ResolveSteady ==
  ASSUME TypeOK, TypeOK', ActiveInv, OperatorWaits, NEW q \in 1 .. last,
         ReconcileTerminal(q)
  PROVE  Steady
<1>1. /\ Resolved(row[q], row'[q])
      /\ \A r \in 1 .. last : r # q => row'[r] = row[r]
  BY ResolveFields
<1>2. /\ last' = last /\ shown' = shown /\ landed' = landed /\ net' = net
      /\ batch' = batch /\ cur' = cur /\ pc' = pc /\ ~Active(q)
  BY DEF ReconcileTerminal, sender, remote, Active
<1> SUFFICES ASSUME NEW r \in 1 .. last
             PROVE  Steady!2!(r)
  BY <1>2 DEF Steady
<1>3. row'[r].kind = row[r].kind /\ row'[r].issue = row[r].issue
  BY <1>1 DEF Resolved
<1>4. Active(r)' => Active(r)
  BY <1>2, <1>3 DEF Active, IsStatus
<1>5. Due(r)' => Due(r)
  BY <1>2, <1>3 DEF Due, IsStatus
<1>6. CASE r = q
  BY <1>1, <1>2, <1>3, <1>4, <1>5, <1>6 DEF Resolved
<1>7. CASE r # q
  BY <1>1, <1>4, <1>5, <1>7, Typed DEF ActiveInv
<1> QED
  BY <1>6, <1>7

\* A new row is not due: nothing happened of it yet.
LEMMA GrownKeeps ==
  ASSUME TypeOK, TypeOK', EffectInv, ActiveInv, OlderSettled, ShownInv, Grown
  PROVE  ActiveInv' /\ OlderSettled' /\ ShownInv'
<1>1. /\ shown' = shown /\ landed' = landed /\ net' = net /\ batch' = batch
      /\ cur' = cur /\ pc' = pc /\ last \in Nat /\ last' \in Nat /\ last <= last'
      /\ DOMAIN row = 1 .. last /\ DOMAIN row' = 1 .. last' /\ last' <= MaxRows
  BY Typed, OutboxAssumption DEF Grown, sender, remote, TypeOK, OutboxAssumption
<1>2. ASSUME NEW r \in 1 .. last
      PROVE  Undecided(row[r], row'[r]) /\ r \in 1 .. last'
  BY <1>1 DEF Grown
<1>3. ASSUME NEW r \in 1 .. last', Active(r)' \/ Due(r)'
      PROVE  /\ r \in 1 .. last
             /\ Active(r)' => Active(r)
             /\ Due(r)' => Due(r)
  <2>1. r \in 1 .. last
    <3>1. r \in net \/ (r = cur /\ cur # NoRow) \/ r \in DOMAIN batch \/ landed[r] > 0
      <4>1. r # NoRow
        BY <1>1 DEF NoRow
      <4>2. CASE Active(r)'
        BY <1>1, <4>1, <4>2 DEF Active
      <4>3. CASE Due(r)'
        BY <1>1, <4>3 DEF Due
      <4>4. QED
        BY <1>3, <4>2, <4>3
    <3>2. r > last => landed[r] = 0
      BY <1>1, OutboxAssumption DEF EffectInv, RowId, OutboxAssumption
    <3>3. QED
      BY <1>1, <3>1, <3>2 DEF TypeOK
  <2>2. QED
    BY <1>1, <2>1, <1>2 DEF Active, Due, Undecided, Alike, IsStatus
<1>4. ActiveInv'
  <2>1. SUFFICES ASSUME NEW r \in 1 .. last', Active(r)'
                 PROVE  /\ row'[r].started /\ row'[r].state # "sent" /\ ~row'[r].reconciled
                        /\ landed'[r] = 0 => shown'[row'[r].issue] < r
                        /\ \A s \in 1 .. last' :
                             Active(s)' /\ row'[s].issue = row'[r].issue => s = r
    BY <1>1 DEF ActiveInv
  <2>2. r \in 1 .. last /\ Active(r) /\ Undecided(row[r], row'[r])
    BY <2>1, <1>2, <1>3
  <2>3. ASSUME NEW s \in 1 .. last', Active(s)', row'[s].issue = row'[r].issue
        PROVE  s = r
    <3>1. s \in 1 .. last /\ Active(s) /\ Undecided(row[s], row'[s])
      BY <2>3, <1>2, <1>3
    <3>2. QED
      BY <2>2, <2>3, <3>1, <1>1 DEF ActiveInv, Undecided, Alike
  <2>4. QED
    BY <1>1, <2>2, <2>3 DEF ActiveInv, Undecided, Alike
<1>5. OlderSettled'
  <2>1. SUFFICES ASSUME NEW r \in 1 .. last', NEW s \in 1 .. last', Due(s)', r < s,
                        IsStatus(row'[r]), row'[r].issue = row'[s].issue
                 PROVE  row'[r].state # "pending" \/ row'[r].held
    BY <1>1 DEF OlderSettled
  <2>2. s \in 1 .. last /\ Due(s) /\ r \in 1 .. last
    BY <2>1, <1>1, <1>3
  <2>3. Undecided(row[r], row'[r]) /\ Undecided(row[s], row'[s])
    BY <2>2, <1>2
  <2>4. QED
    BY <1>1, <2>1, <2>2, <2>3 DEF OlderSettled, Undecided, Alike, IsStatus
<1>6. ShownInv'
  <2>1. SUFFICES ASSUME NEW i \in Issues, shown[i] # NoRow
                 PROVE  /\ shown[i] \in 1 .. last'
                        /\ IsStatus(row'[shown[i]]) /\ row'[shown[i]].issue = i
                        /\ landed[shown[i]] > 0
    BY <1>1 DEF ShownInv
  <2>2. /\ shown[i] \in 1 .. last /\ IsStatus(row[shown[i]])
        /\ row[shown[i]].issue = i /\ landed[shown[i]] > 0
    BY <1>1, <2>1 DEF ShownInv
  <2>3. QED
    BY <2>2, <1>2 DEF Undecided, Alike, IsStatus
<1> QED
  BY <1>4, <1>5, <1>6

\* due() returns the oldest pending row of an issue.
LEMMA StartKeeps ==
  ASSUME TypeOK, TypeOK', SenderInv, RowInv, ActiveInv, OlderSettled, ShownInv, StartPass
  PROVE  ActiveInv' /\ OlderSettled' /\ ShownInv'
<1>1. /\ row' = row /\ last' = last /\ shown' = shown /\ landed' = landed /\ net' = net
      /\ cur' = cur /\ cur = NoRow /\ DOMAIN row = 1 .. last
  BY Typed DEF StartPass, table, remote, SenderInv
<1>2. \A r \in 1 .. last : Active(r)' <=> Active(r)
  BY <1>1 DEF Active, NoRow
<1>3. ActiveInv'
  BY <1>1, <1>2 DEF ActiveInv
<1>4. OlderSettled'
  <2>1. SUFFICES ASSUME NEW r \in 1 .. last, NEW s \in 1 .. last, Due(s)', r < s,
                        IsStatus(row[r]), row[r].issue = row[s].issue,
                        row[r].state = "pending", ~row[r].held
                 PROVE  FALSE
    BY <1>1 DEF OlderSettled
  <2>2. Eligible(r)
    BY <2>1, <1>1 DEF Eligible, RowInv
  <2>3. s \notin Heads
    BY <2>1, <2>2, <1>1 DEF Heads
  <2>4. s \notin DOMAIN batch'
    BY <2>3 DEF StartPass
  <2>5. Due(s)
    BY <2>1, <2>4, <1>1 DEF Due
  <2>6. QED
    BY <2>1, <2>5, <1>1 DEF OlderSettled
<1>5. ShownInv'
  BY <1>1 DEF ShownInv
<1> QED
  BY <1>3, <1>4, <1>5

\* revive_failed leaves a status alone once a newer one was queued.
LEMMA EndKeeps ==
  ASSUME TypeOK, TypeOK', SenderInv, ActiveInv, OlderSettled, ShownInv, EndPass
  PROVE  ActiveInv' /\ OlderSettled' /\ ShownInv'
<1>1. /\ last' = last /\ shown' = shown /\ landed' = landed /\ net' = net
      /\ cur' = NoRow /\ cur = NoRow /\ DOMAIN batch' = {}
      /\ DOMAIN row = 1 .. last /\ DOMAIN row' = 1 .. last
  BY Typed DEF EndPass, Stop, NoBatch, remote, SenderInv, TypeOK
<1>2. Revived
  BY ReviveFields DEF EndPass
<1>3. \A r \in 1 .. last : /\ Alike(row[r], row'[r]) /\ row'[r].started = row[r].started
                           /\ Active(r)' => Active(r)
                           /\ Due(r)' => Due(r)
  BY <1>1, <1>2 DEF Revived, Alike, Active, Due, IsStatus, NoRow
<1>4. ActiveInv'
  <2>1. SUFFICES ASSUME NEW r \in 1 .. last, Active(r)'
                 PROVE  /\ row'[r].started /\ row'[r].state # "sent" /\ ~row'[r].reconciled
                        /\ landed'[r] = 0 => shown'[row'[r].issue] < r
                        /\ \A s \in 1 .. last :
                             Active(s)' /\ row'[s].issue = row'[r].issue => s = r
    BY <1>1 DEF ActiveInv
  <2>2. Active(r) /\ Alike(row[r], row'[r])
    BY <2>1, <1>3
  <2>3. row'[r].state # "sent"
    BY <1>1, <1>2, <2>2 DEF ActiveInv, Revived
  <2>4. ASSUME NEW s \in 1 .. last, Active(s)', row'[s].issue = row'[r].issue
        PROVE  s = r
    BY <1>1, <1>3, <2>2, <2>4 DEF ActiveInv, Alike
  <2>5. QED
    BY <1>1, <1>3, <2>2, <2>3, <2>4 DEF ActiveInv, Alike
<1>5. OlderSettled'
  <2>1. SUFFICES ASSUME NEW r \in 1 .. last, NEW s \in 1 .. last, Due(s)', r < s,
                        IsStatus(row'[r]), row'[r].issue = row'[s].issue,
                        row'[r].state = "pending", ~row'[r].held
                 PROVE  FALSE
    BY <1>1 DEF OlderSettled
  <2>2. Due(s) /\ IsStatus(row[r]) /\ row[r].issue = row[s].issue /\ ~row[r].held
    BY <2>1, <1>3 DEF Alike, IsStatus
  <2>3. row[r].state # "pending"
    BY <1>1, <2>1, <2>2 DEF OlderSettled
  <2>4. Revivable(r)
    BY <1>2, <2>1, <2>3 DEF Revived
  <2>5. s \in StatusRows(row[r].issue)
    BY <1>1, <2>2 DEF StatusRows, Due
  <2>6. s <= r
    BY <2>2, <2>4, <2>5 DEF Revivable
  <2>7. QED
    BY <2>1, <2>6, Typed
<1>6. ShownInv'
  BY <1>1, <1>3 DEF ShownInv, Alike, IsStatus
<1> QED
  BY <1>4, <1>5, <1>6

\* The fence: no other status of the issue is active when one is admitted.
LEMMA AdmitKeeps ==
  ASSUME TypeOK, TypeOK', SenderInv, RowInv, MarkerInv, ActiveInv, OlderSettled, ShownInv,
         AdmitMutation
  PROVE  ActiveInv' /\ OlderSettled' /\ ShownInv'
<1>1. /\ last' = last /\ shown' = shown /\ landed' = landed /\ net' = net
      /\ batch' = batch /\ cur' = cur /\ pc = "guard" /\ pc' = "marked"
      /\ cur \in 1 .. last /\ cur \in DOMAIN batch /\ DOMAIN row = 1 .. last
      /\ DOMAIN row' = 1 .. last /\ row[cur].state = "pending" /\ ~row[cur].held
      /\ EffectAdmitted(row[cur].issue, cur) /\ last \in Nat
  BY Typed, CurTyped DEF AdmitMutation, remote, TypeOK
<1>2. Marked
  BY AdmitFields
<1>3. \A r \in 1 .. last :
        /\ Alike(row[r], row'[r]) /\ row'[r].state = row[r].state /\ row'[r].held = row[r].held
        /\ row[r].started => row'[r].started
        /\ Due(r)' => Due(r)
        /\ Active(r)' /\ r # cur => Active(r)
  <2> SUFFICES ASSUME NEW r \in 1 .. last
               PROVE  <1>3!(r)
    OBVIOUS
  <2>1. row[r] \in Row
    BY Typed
  <2>2. r = cur => row'[r] = [row[r] EXCEPT !.started = TRUE]
    BY <1>1, AdmitWrites DEF OnlyCur
  <2>3. r # cur => row'[r] = row[r]
    BY <1>1, AdmitWrites DEF OnlyCur
  <2>4. /\ Alike(row[r], row'[r]) /\ row'[r].state = row[r].state /\ row'[r].held = row[r].held
        /\ row[r].started => row'[r].started
    BY <2>1, <2>2, <2>3 DEF Alike, Row
  <2>5. QED
    BY <1>1, <2>4 DEF Alike, Due, Active, IsStatus
<1>4. row'[cur].started
  BY <1>1, <1>2 DEF Marked
<1>5. ASSUME NEW r \in 1 .. last, r # cur, row[r].issue = row[cur].issue
      PROVE  ~Active(r)
  <2>1. ~Uncertain(row[r])
    BY <1>1, <1>5 DEF EffectAdmitted
  <2>2. Active(r) => /\ IsStatus(row[r]) /\ row[r].started
                     /\ row[r].state # "sent" /\ ~row[r].reconciled
    BY <1>1 DEF ActiveInv, Active
  <2>3. QED
    BY <2>1, <2>2, Typed DEF Uncertain, Row
<1>6. IsStatus(row[cur]) => shown[row[cur].issue] < cur
  <2> DEFINE i == row[cur].issue
             sh == shown[i]
  <2>1. SUFFICES ASSUME IsStatus(row[cur])
                 PROVE  sh < cur
    OBVIOUS
  <2>2. i \in Issues /\ landed[cur] = 0
    BY <1>1, <2>1, Typed DEF MarkerInv, Quiet, Row
  <2>3. CASE sh = NoRow
    BY <1>1, <2>3 DEF NoRow
  <2>4. CASE sh # NoRow
    <3>1. sh \in 1 .. last /\ IsStatus(row[sh]) /\ row[sh].issue = i /\ landed[sh] > 0
      BY <1>1, <2>2, <2>4 DEF ShownInv
    <3>2. sh # cur /\ Due(sh)
      BY <2>2, <3>1 DEF Due
    <3>3. ~(cur < sh)
      BY <1>1, <2>1, <3>1, <3>2 DEF OlderSettled
    <3>4. QED
      BY <1>1, <3>1, <3>2, <3>3
  <2>5. QED
    BY <2>3, <2>4
<1>7. ActiveInv'
  <2>1. SUFFICES ASSUME NEW r \in 1 .. last, Active(r)'
                 PROVE  /\ row'[r].started /\ row'[r].state # "sent" /\ ~row'[r].reconciled
                        /\ landed[r] = 0 => shown[row'[r].issue] < r
                        /\ \A s \in 1 .. last :
                             Active(s)' /\ row'[s].issue = row'[r].issue => s = r
    BY <1>1 DEF ActiveInv
  <2>2. Alike(row[r], row'[r]) /\ row'[r].state = row[r].state /\ IsStatus(row[r])
    BY <1>3, <2>1 DEF Active, Alike, IsStatus
  <2>3. ASSUME NEW s \in 1 .. last, Active(s)', row'[s].issue = row'[r].issue
        PROVE  s = r
    <3>1. row[s].issue = row[r].issue
      BY <1>3, <2>3 DEF Alike
    <3>2. CASE r = cur \/ s = cur
      BY <1>3, <1>5, <2>1, <2>3, <3>1, <3>2
    <3>3. CASE r # cur /\ s # cur
      BY <1>1, <1>3, <2>1, <2>3, <3>1, <3>3 DEF ActiveInv
    <3>4. QED
      BY <3>2, <3>3
  <2>4. CASE r = cur
    <3>1. ~row[cur].reconciled
      BY <1>1 DEF RowInv
    <3>2. QED
      BY <1>1, <1>4, <1>6, <2>2, <2>3, <2>4, <3>1 DEF Alike
  <2>5. CASE r # cur
    <3>1. Active(r)
      BY <1>3, <2>1, <2>5
    <3>2. /\ row[r].started /\ row[r].state # "sent" /\ ~row[r].reconciled
          /\ landed[r] = 0 => shown[row[r].issue] < r
      BY <1>1, <3>1 DEF ActiveInv
    <3>3. QED
      BY <1>3, <2>2, <2>3, <3>2 DEF Alike
  <2>6. QED
    BY <2>4, <2>5
<1>8. OlderSettled'
  <2>1. SUFFICES ASSUME NEW r \in 1 .. last, NEW s \in 1 .. last, Due(s)', r < s,
                        IsStatus(row'[r]), row'[r].issue = row'[s].issue
                 PROVE  row'[r].state # "pending" \/ row'[r].held
    BY <1>1 DEF OlderSettled
  <2>2. Due(s) /\ IsStatus(row[r]) /\ row[r].issue = row[s].issue
    BY <2>1, <1>3 DEF Alike, IsStatus
  <2>3. QED
    BY <1>1, <1>3, <2>1, <2>2 DEF OlderSettled
<1>9. ShownInv'
  BY <1>1, <1>3 DEF ShownInv, Alike, IsStatus
<1> QED
  BY <1>7, <1>8, <1>9

\* Linear shows the only active status of the issue when it lands.
LEMMA LandKeeps ==
  ASSUME TypeOK, TypeOK', EffectInv, ActiveInv, OlderSettled, ShownInv, NEW r \in net,
         Land(r)
  PROVE  ActiveInv' /\ OlderSettled' /\ ShownInv'
<1>1. /\ row' = row /\ last' = last /\ net' = net \ {r} /\ batch' = batch /\ cur' = cur
      /\ r \in 1 .. last /\ DOMAIN row = 1 .. last /\ r \in RowId /\ row[r].issue \in Issues
      /\ pc' = pc \/ pc' = "answered"
  BY Typed DEF Land, table, TypeOK, Row
<1>2. /\ \A q \in 1 .. last : landed'[q] = 0 => landed[q] = 0 /\ ~(q = r /\ IsStatus(row[r]))
      /\ \A q \in 1 .. last : landed'[q] > 0 => landed[q] > 0 \/ q = r
      /\ \A q \in 1 .. last : landed[q] > 0 => landed'[q] > 0
      /\ IsStatus(row[r]) => landed'[r] > 0
  <2>1. /\ \A q \in 1 .. last : landed[q] \in Nat
        /\ \A q \in 1 .. last : q # r => landed'[q] = landed[q]
        /\ landed'[r] = IF IsStatus(row[r]) THEN landed[r] + 1 ELSE 1
    BY <1>1, Typed DEF Land, TypeOK
  <2>2. QED
    BY <1>1, <2>1
<1>3. /\ IsStatus(row[r]) => shown'[row[r].issue] = r
      /\ \A i \in Issues : ~IsStatus(row[r]) \/ i # row[r].issue => shown'[i] = shown[i]
  BY <1>1 DEF Land, TypeOK
<1>4. \A q \in 1 .. last : /\ Active(q)' => Active(q)
                           /\ Due(q)' => Due(q)
  BY <1>1, <1>2 DEF Active, Due
<1>5. IsStatus(row[r]) => Active(r)
  BY DEF Active
<1>6. ActiveInv'
  <2>1. SUFFICES ASSUME NEW q \in 1 .. last, Active(q)', landed'[q] = 0
                 PROVE  shown'[row[q].issue] < q
    BY <1>1, <1>4 DEF ActiveInv
  <2>2. Active(q) /\ landed[q] = 0 /\ row[q].issue \in Issues
    BY <1>2, <1>4, <2>1, Typed DEF Row
  <2>3. shown[row[q].issue] < q /\ (IsStatus(row[r]) => row[q].issue # row[r].issue)
    BY <1>1, <1>2, <1>5, <2>1, <2>2 DEF ActiveInv
  <2>4. QED
    BY <1>3, <2>2, <2>3
<1>7. OlderSettled'
  BY <1>1, <1>4 DEF OlderSettled
<1>8. ShownInv'
  <2>1. SUFFICES ASSUME NEW i \in Issues, shown'[i] # NoRow
                 PROVE  /\ shown'[i] \in 1 .. last /\ IsStatus(row[shown'[i]])
                        /\ row[shown'[i]].issue = i /\ landed'[shown'[i]] > 0
    BY <1>1 DEF ShownInv
  <2>2. CASE IsStatus(row[r]) /\ i = row[r].issue
    BY <1>1, <1>2, <1>3, <2>2
  <2>3. CASE ~(IsStatus(row[r]) /\ i = row[r].issue)
    BY <1>1, <1>2, <1>3, <2>1, <2>3 DEF ShownInv
  <2>4. QED
    BY <2>2, <2>3
<1> QED
  BY <1>6, <1>7, <1>8

\* While the operator waits, every step keeps the order of an issue's statuses.
LEMMA OrderStep ==
  ASSUME TypeOK, TypeOK', SenderInv, SenderInv', RowInv, SnapshotCurrent, EffectInv,
         MarkerInv, RecordInv, ActiveInv, OlderSettled, ShownInv, OperatorWaits, [Next]_vars
  PROVE  ActiveInv' /\ OlderSettled' /\ ShownInv'
<1>1. CASE StartPass
  BY <1>1, StartKeeps
<1>2. CASE EndPass
  BY <1>2, EndKeeps
<1>3. CASE AdmitMutation
  BY <1>3, AdmitKeeps
<1>4. CASE \E r \in net : Land(r)
  BY <1>4, LandKeeps
<1>5. CASE \E i \in Issues :
             \/ CaptureEvent(i)
             \/ \E intent \in Intents : ReconcileStatus(i, intent) \/ Finish(i, intent)
  BY <1>5, CaptureGrows, GrownKeeps
<1>6. CASE \E i \in Issues : ReplaceNativeBinding(i)
  BY <1>6, BindingSteady, SteadyKeeps
<1>7. CASE Operator
  BY <1>7, Typed, ResolveSteady, SteadyKeeps DEF Operator
<1>8. CASE UNCHANGED vars
  <2>1. Steady
    BY <1>8, Typed DEF vars, Steady, ActiveInv, Active, Due, IsStatus
  <2>2. QED
    BY <2>1, SteadyKeeps
<1>9. CASE \/ Pick \/ NotAuthorized \/ Deferred \/ SettleFromReceipt
           \/ HoldUncertain \/ DropUnapplied \/ NothingToWrite \/ ReadBack
           \/ Encode \/ BeforeRequest \/ Withdraw \/ Send
           \/ NoAnswer \/ Unauthorized \/ RateLimited \/ \E giveUp \in BOOLEAN : Retry(giveUp)
           \/ MarkFailed \/ RecordReceipt \/ ReceiptMismatch \/ CommentReadback
           \/ MarkSent \/ Crash \/ Reject \/ \E r \in net : Lose(r)
  BY <1>9, SteadyStep, SteadyKeeps
<1> QED
  BY <1>1, <1>2, <1>3, <1>4, <1>5, <1>6, <1>7, <1>8, <1>9
     DEF Next, Sender, Capture, Operator, Linear

-----------------------------------------------------------------------------
(* The theorems.                                                             *)

\* The empty outbox satisfies everything that its steps preserve.
LEMMA InitInv ==
  ASSUME Init
  PROVE  TypeOK /\ Inv
<1>1. DOMAIN row = {} /\ row = [r \in {} |-> row[r]]
  BY DEF Init
<1>2. TypeOK
  <2>1. last = 0 /\ 1 .. last = {}
    BY DEF Init
  <2>2. row \in [1 .. last -> Row]
    BY <1>1, <2>1, Zenon
  <2>3. batch \in [DOMAIN batch -> Row] /\ DOMAIN batch = {} /\ cur = NoRow
    BY DEF Init, NoBatch
  <2>4. binding \in [Issues -> Tasks] /\ shown \in [Issues -> RowId \cup {NoRow}]
    BY OutboxAssumption DEF Init, Tasks, NoRow, OutboxAssumption
  <2>5. /\ last \in 0 .. MaxRows /\ attempt \in {1, 2} /\ net \in SUBSET (1 .. last)
        /\ landed \in [RowId -> Nat]
    BY OutboxAssumption DEF Init, OutboxAssumption
  <2>6. pc \in PC /\ fresh \in BOOLEAN /\ progress \in BOOLEAN
    BY Zenon DEF Init, PC
  <2>7. QED
    BY <2>2, <2>3, <2>4, <2>5, <2>6 DEF TypeOK
<1>3. SenderInv /\ RowInv /\ SnapshotCurrent /\ EffectInv /\ MarkerInv /\ RecordInv
      /\ SentMeansLanded
  BY <1>1, OutboxAssumption
     DEF Init, NoBatch, NoRow, SenderInv, RowInv, SnapshotCurrent, EffectInv, MarkerInv,
         RecordInv, SentMeansLanded, RowId
<1>4. ActiveInv /\ OlderSettled /\ ShownInv
  BY <1>1 DEF Init, ActiveInv, OlderSettled, ShownInv
<1> QED
  BY <1>2, <1>3, <1>4 DEF Inv

\* What every step of the outbox preserves.
LEMMA InvStep ==
  ASSUME TypeOK, Inv, [Next]_vars
  PROVE  TypeOK' /\ Inv'
<1>1. TypeOK' /\ SenderInv'
  BY TypeStep DEF Inv
<1>2. RowInv' /\ SnapshotCurrent' /\ EffectInv' /\ MarkerInv' /\ RecordInv' /\ SentMeansLanded'
  BY <1>1, SafeStep DEF Inv
<1>3. OperatorWaits => ActiveInv' /\ OlderSettled' /\ ShownInv'
  BY <1>1, OrderStep DEF Inv
<1> QED
  BY <1>1, <1>2, <1>3 DEF Inv

\* The inductive invariant holds of every behaviour of the outbox, for any
\* number of issues, rows, re-tracks and revivals.
THEOREM InvCorrect == Spec => []Inv
<1>1. Init => TypeOK /\ Inv
  BY InitInv
<1>2. TypeOK /\ Inv /\ [Next]_vars => TypeOK' /\ Inv'
  BY InvStep
<1> QED
  BY <1>1, <1>2, PTL DEF Spec

\* Every variable keeps its type: the sender's cursor stays inside its batch and
\* the batch inside the table (the outbox table and _flush's loop).
THEOREM TypeCorrect == Spec => []TypeOK
<1>1. Init => TypeOK /\ Inv
  BY InitInv
<1>2. TypeOK /\ Inv /\ [Next]_vars => TypeOK' /\ Inv'
  BY InvStep
<1> QED
  BY <1>1, <1>2, PTL DEF Spec

\* No status of an issue is applied by Linear twice, whatever is lost, retried,
\* revived, re-tracked or resolved, and wherever the process crashes.
THEOREM AppliedOnce == Spec => []AtMostOnce
<1>1. Inv => AtMostOnce
  BY DEF Inv, EffectInv, AtMostOnce
<1> QED
  BY <1>1, InvCorrect, PTL

\* A write that may be on its way, or was applied, never loses its marker.
THEOREM MarkerNeverLost == Spec => []MarkerTruth
<1>1. Inv => MarkerTruth
  <2>1. SUFFICES ASSUME Inv, NEW r \in DOMAIN row, r \in net \/ landed[r] > 0
                 PROVE  row[r].started
    BY DEF MarkerTruth
  <2>2. ~Quiet(r)
    BY <2>1 DEF Quiet
  <2>3. QED
    BY <2>1, <2>2 DEF Inv, EffectInv
<1> QED
  BY <1>1, InvCorrect, PTL

\* A started write recorded as applied was applied by Linear.
THEOREM DeliveredTruthfully == Spec => []SentMeansLanded
<1>1. Inv => SentMeansLanded
  BY DEF Inv
<1> QED
  BY <1>1, InvCorrect, PTL

\* What the sender decides on from its snapshot agrees with the table.
THEOREM SnapshotStaysCurrent == Spec => []SnapshotCurrent
<1>1. Inv => SnapshotCurrent
  BY DEF Inv
<1> QED
  BY <1>1, InvCorrect, PTL

\* While the operator looks at Linear only between sends, an issue has at most
\* one status under way (_effect_admitted).
THEOREM OneAtATime ==
  ASSUME OperatorWaits
  PROVE  Spec => []OneStatusInFlight
<1>1. TypeOK /\ Inv => OneStatusInFlight
  <2>1. SUFFICES ASSUME TypeOK, Inv, NEW i \in Issues
                 PROVE  Cardinality({r \in StatusRows(i) :
                          r \in net \/ (cur = r /\ pc \in {"marked", "wire"})}) <= 1
    BY DEF OneStatusInFlight
  <2> DEFINE S == {r \in StatusRows(i) : r \in net \/ (cur = r /\ pc \in {"marked", "wire"})}
  <2>2. \A r, s \in S : r = s
    <3>1. SUFFICES ASSUME NEW r \in S, NEW s \in S
                   PROVE  r = s
      OBVIOUS
    <3>2. /\ r \in DOMAIN row /\ Active(r) /\ row[r].issue = i
          /\ s \in DOMAIN row /\ Active(s) /\ row[s].issue = i
      BY DEF StatusRows, Active
    <3>3. QED
      BY <2>1, <3>2 DEF Inv, ActiveInv
  <2>3. S = {} \/ \E r \in S : S = {r}
    BY <2>2
  <2> HIDE DEF S
  <2>4. Cardinality(S) \in {0, 1}
    BY <2>3, FS_EmptySet, FS_Singleton
  <2>5. QED
    BY <2>4 DEF S
<1> QED
  BY <1>1, InvCorrect, TypeCorrect, PTL

\* The effects that IssueStatus sees.
Effects == [r \in RowId |-> IF r <= last /\ IsStatus(row[r]) THEN landed[r] ELSE 0]

\* A step that lands no status shows and applies nothing new.
LEMMA SameEffects ==
  ASSUME TypeOK, TypeOK', EffectInv, shown' = shown, last' \in Nat, last <= last',
         \A r \in 1 .. last : row'[r].kind = row[r].kind,
         \A r \in RowId : landed'[r] = landed[r] \/ (r \in 1 .. last /\ ~IsStatus(row[r]))
  PROVE  Effects' = Effects
<1> SUFFICES ASSUME NEW r \in RowId
             PROVE  (IF r <= last' /\ IsStatus(row'[r]) THEN landed'[r] ELSE 0)
                    = IF r <= last /\ IsStatus(row[r]) THEN landed[r] ELSE 0
  BY DEF Effects
<1>1. r \in Nat /\ r >= 1 /\ last \in Nat
  BY Typed, OutboxAssumption DEF RowId, OutboxAssumption
<1>2. CASE r <= last
  BY <1>1, <1>2 DEF IsStatus
<1>3. CASE r > last
  BY <1>1, <1>3 DEF EffectInv
<1> QED
  BY <1>1, <1>2, <1>3

\* A steady step shows and applies nothing new.
LEMMA SteadySame ==
  ASSUME TypeOK, TypeOK', EffectInv, Steady
  PROVE  Effects' = Effects /\ shown' = shown
BY SameEffects, Typed DEF Steady

\* The only step that Linear's state shows is Land of a status, and it applies a
\* newer one for the first time; every other step stutters.
LEMMA PromisedStep ==
  ASSUME OperatorWaits, TypeOK, TypeOK', Inv, Inv', [Next]_vars
  PROVE  \/ Effects' = Effects /\ shown' = shown
         \/ \E i \in Issues, w \in RowId :
              /\ Effects[w] = 0 /\ w > shown[i]
              /\ Effects' = [Effects EXCEPT ![w] = 1]
              /\ shown' = [shown EXCEPT ![i] = w]
<1>1. EffectInv /\ ActiveInv
  BY DEF Inv
<1>2. ASSUME NEW q \in net, Land(q)
      PROVE  \/ Effects' = Effects /\ shown' = shown
             \/ /\ row[q].issue \in Issues /\ q \in RowId
                /\ Effects[q] = 0 /\ q > shown[row[q].issue]
                /\ Effects' = [Effects EXCEPT ![q] = 1]
                /\ shown' = [shown EXCEPT ![row[q].issue] = q]
  <2>1. /\ row' = row /\ last' = last /\ q \in 1 .. last /\ q \in RowId /\ last \in Nat
        /\ row[q].issue \in Issues
    BY <1>2, Typed DEF Land, table, TypeOK, Row
  <2>2. CASE IsStatus(row[q])
    <3>1. landed[q] = 0 /\ shown[row[q].issue] < q
      BY <1>1, <2>1, <2>2 DEF EffectInv, ActiveInv, Active, TypeOK
    <3>2. landed' = [landed EXCEPT ![q] = 1] /\ shown' = [shown EXCEPT ![row[q].issue] = q]
      BY <1>2, <2>1, <2>2, <3>1 DEF Land, TypeOK
    <3>3. Effects[q] = 0 /\ Effects' = [Effects EXCEPT ![q] = 1]
      <4>1. landed \in [RowId -> Nat] /\ q \in Nat /\ q <= last
        BY <2>1 DEF TypeOK
      <4>2. \A r \in RowId : r # q => landed'[r] = landed[r]
        BY <3>2, <4>1
      <4>3. landed'[q] = 1
        BY <2>1, <3>2, <4>1
      <4>4. Effects[q] = 0
        BY <2>1, <2>2, <3>1, <4>1 DEF Effects
      <4>5. \A r \in RowId : Effects'[r] = IF r = q THEN 1 ELSE Effects[r]
        BY <2>1, <2>2, <4>1, <4>2, <4>3 DEF Effects
      <4>6. DOMAIN Effects' = RowId /\ DOMAIN Effects = RowId
            /\ Effects' = [r \in RowId |-> Effects'[r]]
        BY DEF Effects
      <4> HIDE DEF Effects
      <4>7. Effects' = [Effects EXCEPT ![q] = 1]
        BY <4>5, <4>6
      <4>8. QED
        BY <4>4, <4>7
    <3>4. q > shown[row[q].issue]
      <4>1. shown[row[q].issue] \in Nat /\ q \in Nat
        BY <2>1, OutboxAssumption DEF TypeOK, RowId, NoRow, OutboxAssumption
      <4>2. QED
        BY <3>1, <4>1
    <3>5. QED
      BY <2>1, <3>2, <3>3, <3>4
  <2>3. CASE ~IsStatus(row[q])
    <3>1. shown' = shown /\ \A r \in RowId : r # q => landed'[r] = landed[r]
      BY <1>2, <2>3 DEF Land, TypeOK
    <3>2. \A r \in RowId : landed'[r] = landed[r] \/ (r \in 1 .. last /\ ~IsStatus(row[r]))
      BY <2>1, <2>3, <3>1
    <3>3. Effects' = Effects
      BY <1>1, <2>1, <3>1, <3>2, SameEffects
    <3>4. QED
      BY <3>1, <3>3
  <2>4. QED
    BY <2>2, <2>3
<1>3. ASSUME ~\E q \in net : Land(q)
      PROVE  Effects' = Effects /\ shown' = shown
  <2>1. CASE \E i \in Issues :
               \/ CaptureEvent(i)
               \/ \E intent \in Intents : ReconcileStatus(i, intent) \/ Finish(i, intent)
    <3>1. Grown
      BY <2>1, CaptureGrows
    <3>2. QED
      BY <1>1, <3>1, SameEffects DEF Grown, Undecided, Alike, remote
  <2>2. CASE \E i \in Issues : ReplaceNativeBinding(i)
    BY <1>1, <2>2, BindingSteady, SteadySame
  <2>3. CASE Operator
    BY <1>1, <2>3, Typed, ResolveSteady, SteadySame DEF Operator
  <2>4. CASE EndPass
    <3>1. Revived
      BY <2>4, ReviveFields DEF EndPass
    <3>2. last' = last /\ landed' = landed /\ shown' = shown
      BY <2>4 DEF EndPass, remote
    <3>3. QED
      BY <1>1, <3>1, <3>2, Typed, SameEffects DEF Revived, Alike
  <2>5. CASE AdmitMutation
    <3>1. row[cur] \in Row /\ OnlyCur([row[cur] EXCEPT !.started = TRUE])
      BY <2>5, AdmitWrites, CurTyped DEF AdmitMutation, Inv
    <3>2. \A r \in 1 .. last : row'[r].kind = row[r].kind
      BY <3>1, Typed DEF OnlyCur, Row
    <3>3. last' = last /\ landed' = landed /\ shown' = shown
      BY <2>5 DEF AdmitMutation, remote
    <3>4. QED
      BY <1>1, <3>2, <3>3, Typed, SameEffects
  <2>6. CASE StartPass \/ UNCHANGED vars
    BY <2>6 DEF StartPass, table, remote, vars, Effects
  <2>7. CASE \/ Pick \/ NotAuthorized \/ Deferred \/ SettleFromReceipt
             \/ HoldUncertain \/ DropUnapplied \/ NothingToWrite \/ ReadBack
             \/ Encode \/ BeforeRequest \/ Withdraw \/ Send
             \/ NoAnswer \/ Unauthorized \/ RateLimited \/ \E giveUp \in BOOLEAN : Retry(giveUp)
             \/ MarkFailed \/ RecordReceipt \/ ReceiptMismatch \/ CommentReadback
             \/ MarkSent \/ Crash \/ Reject \/ \E r \in net : Lose(r)
    <3>1. Steady
      BY <2>7, SteadyStep DEF Inv
    <3>2. QED
      BY <1>1, <3>1, SteadySame
  <2>8. QED
    BY <1>3, <2>1, <2>2, <2>3, <2>4, <2>5, <2>6, <2>7
       DEF Next, Sender, Capture, Operator, Linear
<1> QED
  BY <1>2, <1>3

\* While the operator waits, the outbox implements IssueStatus: each status takes
\* effect at most once, and no issue goes back from a newer state to an older one.
THEOREM ImplementsIssueStatus ==
  ASSUME OperatorWaits
  PROVE  Spec => NeverStale
<1>1. Init => Promised!Init
  <2>1. SUFFICES ASSUME Init
                 PROVE  Promised!Init
    OBVIOUS
  <2>2. QED
    BY <2>1, OutboxAssumption DEF Init, Promised!Init, NoRow, RowId, OutboxAssumption
<1>2. ASSUME TypeOK, TypeOK', Inv, Inv', [Next]_vars
      PROVE  [Promised!Next]_<<shown, [r \in RowId |->
                IF r <= last /\ IsStatus(row[r]) THEN landed[r] ELSE 0]>>
  BY <1>2, PromisedStep DEF Promised!Next, Promised!Apply, Effects
<1>3. QED
  BY <1>1, <1>2, InvCorrect, TypeCorrect, PTL DEF Spec, NeverStale, Promised!Spec

-----------------------------------------------------------------------------
(* A completion comment follows its closeout.                                *)

\* A receipt is the comment of a closing status of its own issue.
Linked(t, r) ==
  /\ t[r].dep \in DOMAIN t
  /\ t[t[r].dep].kind = "closeout" /\ t[t[r].dep].issue = t[r].issue

\* The closeout that row r of table t waits for is recorded as applied.
ClosedOut(t, r) == t[t[r].dep].applied = "yes"

ReceiptsLinked == \A r \in DOMAIN row : row[r].kind = "receipt" => Linked(row, r)

\* The snapshot knows which closeout a receipt waits for.
SnapshotLinked ==
  \A r \in DOMAIN batch : batch[r].kind = "receipt" => batch[r].dep = row[r].dep

\* The sender goes on with a receipt only once its closeout is applied.
OnTheWay == {"guard", "marked", "wire", "unauthorized"}
WayClosedOut == pc \in OnTheWay /\ row[cur].kind = "receipt" => ClosedOut(row, cur)

CloseoutInv == ReceiptsLinked /\ SnapshotLinked /\ WayClosedOut /\ ReceiptAfterCloseout

\* A step that decides no row anew and links no receipt anew.
RowsKeep ==
  /\ last <= last'
  /\ \A r \in 1 .. last :
       /\ row'[r].kind = row[r].kind /\ row'[r].issue = row[r].issue
       /\ row[r].kind = "receipt" => row'[r].dep = row[r].dep
       /\ row[r].applied = "yes" => row'[r].applied = "yes"

\* Such a step keeps the receipts after their closeouts, when what it sends is closed out.
LEMMA CloseoutKeeps ==
  ASSUME TypeOK, TypeOK', SnapshotCurrent, CloseoutInv, RowsKeep,
         \A r \in 1 .. last' : r > last /\ row'[r].kind = "receipt" => Linked(row', r),
         \A r \in 1 .. last' : r \in net' \/ landed'[r] > 0 =>
           /\ r \in 1 .. last
           /\ row[r].kind = "receipt" => r \in net \/ landed[r] > 0 \/ ClosedOut(row, r),
         \A r \in DOMAIN batch' :
           /\ r \in 1 .. last
           /\ batch'[r] = row[r] \/ (r \in DOMAIN batch /\ batch'[r] = batch[r]),
         pc' \in OnTheWay =>
           /\ cur' = cur /\ cur \in 1 .. last
           /\ row[cur].kind = "receipt" => pc \in OnTheWay \/ ClosedOut(row, cur)
  PROVE  CloseoutInv'
<1>1. /\ DOMAIN row = 1 .. last /\ DOMAIN row' = 1 .. last' /\ 1 .. last \subseteq 1 .. last'
      /\ last \in Nat /\ last' \in Nat
  BY OutboxAssumption DEF TypeOK, RowsKeep, OutboxAssumption
<1>2. ASSUME NEW r \in 1 .. last, row[r].kind = "receipt"
      PROVE  /\ Linked(row', r)
             /\ ClosedOut(row, r) => ClosedOut(row', r)
  <2>1. /\ row[r].dep \in 1 .. last /\ row'[r].dep = row[r].dep
        /\ row[row[r].dep].kind = "closeout" /\ row[row[r].dep].issue = row[r].issue
    BY <1>1, <1>2 DEF CloseoutInv, ReceiptsLinked, Linked, RowsKeep
  <2> QED BY <1>1, <2>1 DEF RowsKeep, Linked, ClosedOut
<1>3. ReceiptsLinked'
  <2> SUFFICES ASSUME NEW r \in 1 .. last', row'[r].kind = "receipt" PROVE Linked(row', r)
    BY <1>1 DEF ReceiptsLinked
  <2>1. CASE r > last
    BY <2>1
  <2>2. CASE ~(r > last)
    <3>1. r \in 1 .. last
      BY <1>1, <2>2
    <3> QED BY <1>2, <3>1 DEF RowsKeep
  <2> QED BY <2>1, <2>2
<1>4. SnapshotLinked'
  <2> SUFFICES ASSUME NEW r \in DOMAIN batch', batch'[r].kind = "receipt"
               PROVE  batch'[r].dep = row'[r].dep
    BY DEF SnapshotLinked
  <2>1. r \in 1 .. last
    OBVIOUS
  <2>2. CASE batch'[r] = row[r]
    BY <2>1, <2>2 DEF RowsKeep
  <2>3. CASE r \in DOMAIN batch /\ batch'[r] = batch[r]
    BY <2>1, <2>3 DEF RowsKeep, SnapshotCurrent, CloseoutInv, SnapshotLinked
  <2> QED BY <2>2, <2>3
<1>5. WayClosedOut'
  <2> SUFFICES ASSUME pc' \in OnTheWay, row'[cur'].kind = "receipt" PROVE ClosedOut(row', cur')
    BY DEF WayClosedOut
  <2>1. cur' = cur /\ cur \in 1 .. last /\ row[cur].kind = "receipt"
    BY DEF RowsKeep
  <2> QED BY <1>2, <2>1 DEF CloseoutInv, WayClosedOut
<1>6. ReceiptAfterCloseout'
  <2> SUFFICES ASSUME NEW r \in 1 .. last', row'[r].kind = "receipt", r \in net' \/ landed'[r] > 0
               PROVE  ClosedOut(row', r)
    BY <1>1 DEF ReceiptAfterCloseout, ClosedOut
  <2>1. r \in 1 .. last /\ row[r].kind = "receipt"
    BY DEF RowsKeep
  <2>2. ClosedOut(row, r)
    BY <1>1, <2>1 DEF CloseoutInv, ReceiptAfterCloseout, ClosedOut
  <2> QED BY <1>2, <2>1, <2>2
<1> QED BY <1>3, <1>4, <1>5, <1>6 DEF CloseoutInv

\* A step of the sender or of Linear that adds no row and sends none.
LEMMA QuietKeeps ==
  ASSUME TypeOK, TypeOK', SnapshotCurrent, CloseoutInv, RowsKeep, last' = last,
         net' \subseteq net, landed' = landed,
         \A r \in DOMAIN batch' : r \in DOMAIN batch /\ batch'[r] = batch[r],
         pc' \in OnTheWay =>
           /\ cur' = cur /\ cur \in 1 .. last
           /\ row[cur].kind = "receipt" => pc \in OnTheWay \/ ClosedOut(row, cur)
  PROVE  CloseoutInv'
<1>1. last \in Nat /\ last' \in Nat
  BY OutboxAssumption DEF TypeOK, OutboxAssumption
<1>2. \A r \in 1 .. last' : ~(r > last)
  BY <1>1
<1>3. \A r \in 1 .. last' : r \in net' \/ landed'[r] > 0 =>
        /\ r \in 1 .. last
        /\ row[r].kind = "receipt" => r \in net \/ landed[r] > 0 \/ ClosedOut(row, r)
  OBVIOUS
<1>4. \A r \in DOMAIN batch' :
        /\ r \in 1 .. last
        /\ batch'[r] = row[r] \/ (r \in DOMAIN batch /\ batch'[r] = batch[r])
  BY Typed
<1> QED BY <1>2, <1>3, <1>4, CloseoutKeeps

\* Every step keeps the receipts after their closeouts.
LEMMA CloseoutStep ==
  ASSUME TypeOK, TypeOK', SenderInv, SenderInv', SnapshotCurrent, EffectInv, CloseoutInv,
         [Next]_vars
  PROVE  CloseoutInv'
<1>1. last \in Nat /\ last <= last /\ \A r \in 1 .. last : ~(r > last)
  BY Typed
\* Steps that write no row.
<1>2. ASSUME last' = last, row' = row PROVE RowsKeep
  BY <1>1, <1>2 DEF RowsKeep
<1>3. CASE UNCHANGED vars
  <2>1. CASE cur = NoRow
    BY <1>1, <1>2, <1>3, <2>1, QuietKeeps DEF vars, SenderInv, OnTheWay
  <2>2. CASE cur # NoRow
    BY <1>1, <1>2, <1>3, <2>2, QuietKeeps, CurTyped DEF vars, SenderInv, OnTheWay
  <2> QED BY <2>1, <2>2
<1>4. CASE StartPass
  <2>1. PICK due \in SUBSET Heads \ {{}} : batch' = [r \in due |-> row[r]]
    BY <1>4 DEF StartPass
  <2>2. \A r \in DOMAIN batch' : r \in 1 .. last /\ batch'[r] = row[r]
    BY <2>1, Typed DEF Heads
  <2>3. pc' = "pass" /\ last' = last /\ row' = row /\ net' = net /\ landed' = landed
    BY <1>4 DEF StartPass, table, remote
  <2>4. \A r \in 1 .. last' : r \in net' \/ landed'[r] > 0 =>
          /\ r \in 1 .. last
          /\ row[r].kind = "receipt" => r \in net \/ landed[r] > 0 \/ ClosedOut(row, r)
    BY <2>3
  <2> QED BY <1>1, <1>2, <2>2, <2>3, <2>4, CloseoutKeeps DEF OnTheWay
<1>5. CASE Pick
  BY <1>2, <1>5, QuietKeeps DEF Pick, table, remote, OnTheWay
<1>6. CASE EndPass
  <2>1. Revived /\ last' = last /\ net' = net /\ landed' = landed /\ DOMAIN batch' = {} /\ pc' = "idle"
    BY <1>6, ReviveFields DEF EndPass, Stop, NoBatch, remote
  <2>2. RowsKeep
    BY <1>1, <2>1 DEF RowsKeep, Revived, Alike
  <2> QED BY <2>1, <2>2, QuietKeeps DEF OnTheWay
<1>7. CASE NotAuthorized
  <2>1. /\ last' = last /\ landed' = landed /\ net' = net /\ pc' = "pass" /\ cur \in DOMAIN batch
        /\ \A r \in DOMAIN batch' : r \in DOMAIN batch /\ batch'[r] = batch[r]
    BY <1>7, CurTyped DEF NotAuthorized, Leave, remote
  <2>2. /\ \A r \in 1 .. last : r # cur => row'[r] = row[r]
        /\ Noted(row[cur], row'[cur], batch[cur])
    BY <1>7, NotedFields
  <2>3. /\ batch[cur].kind = row[cur].kind /\ batch[cur].issue = row[cur].issue
        /\ row[cur].applied # "yes"
        /\ row[cur].kind = "receipt" => batch[cur].dep = row[cur].dep
    BY <2>1 DEF SnapshotCurrent, CloseoutInv, SnapshotLinked
  <2>4. RowsKeep
    BY <1>1, <2>1, <2>2, <2>3 DEF RowsKeep, Noted
  <2> QED BY <2>1, <2>4, QuietKeeps DEF OnTheWay
<1>8. CASE Deferred
  <2>1. /\ last' = last /\ row' = row /\ landed' = landed /\ net' = net /\ pc' = "pass"
        /\ \A r \in DOMAIN batch' : r \in DOMAIN batch /\ batch'[r] = batch[r]
    BY <1>8 DEF Deferred, Leave, table, remote
  <2> QED BY <1>2, <2>1, QuietKeeps DEF OnTheWay
<1>9. CASE \/ SettleFromReceipt \/ DropUnapplied \/ NothingToWrite \/ ReadBack \/ BeforeRequest
           \/ NoAnswer \/ CommentReadback
  <2>1. /\ last' = last /\ row' = row /\ landed' = landed /\ net' = net /\ batch' = batch
        /\ pc' \notin OnTheWay
    BY <1>9 DEF SettleFromReceipt, DropUnapplied, NothingToWrite, ReadBack, BeforeRequest, NoAnswer,
                CommentReadback, Goto, table, remote, OnTheWay
  <2> QED BY <1>2, <2>1, QuietKeeps
<1>10. CASE HoldUncertain \/ ReceiptMismatch
  <2>1. pc \notin {"idle", "pass"} /\ HoldTerminal
    BY <1>10 DEF HoldUncertain, ReceiptMismatch
  <2>2. \A r \in 1 .. last : Undecided(row[r], row'[r])
    BY <2>1, HoldFields
  <2>3. /\ last' = last /\ landed' = landed /\ net' = net /\ batch' = batch /\ pc' = "refused"
    BY <2>1 DEF HoldTerminal, remote
  <2>4. RowsKeep
    BY <1>1, <2>2, <2>3 DEF RowsKeep, Undecided, Alike
  <2> QED BY <2>3, <2>4, QuietKeeps DEF OnTheWay
<1>11. CASE Encode
  <2>1. /\ pc = "check" /\ cur' = cur /\ last' = last /\ row' = row /\ landed' = landed /\ net' = net
        /\ batch' = batch
        /\ batch[cur].kind = "receipt" => TerminalStatusApplied(batch[cur].dep)
    BY <1>11 DEF Encode, Unsent, Goto, table, remote
  <2>2. cur \in DOMAIN batch /\ cur \in 1 .. last
    BY <2>1, CurTyped
  <2>3. row[cur].kind = "receipt" => ClosedOut(row, cur)
    BY <2>1, <2>2 DEF SnapshotCurrent, CloseoutInv, SnapshotLinked, TerminalStatusApplied, ClosedOut
  <2> QED BY <1>2, <2>1, <2>2, <2>3, QuietKeeps
<1>12. CASE AdmitMutation
  <2>1. Marked
    BY <1>12, AdmitFields
  <2>2. /\ pc = "guard" /\ last' = last /\ landed' = landed /\ net' = net /\ batch' = batch
        /\ cur' = cur
    BY <1>12 DEF AdmitMutation, remote
  <2>3. RowsKeep
    BY <1>1, <2>1, <2>2 DEF RowsKeep, Marked, Alike
  <2> QED BY <2>2, <2>3, QuietKeeps, CurTyped DEF OnTheWay
<1>13. CASE Withdraw \/ RateLimited
  <2>1. /\ pc \notin {"idle", "pass"} /\ (MutationNotAttempted \/ UNCHANGED row)
        /\ last' = last /\ landed' = landed /\ net' = net /\ pc' \in {"pass", "idle"}
        /\ \A r \in DOMAIN batch' : r \in DOMAIN batch /\ batch'[r] = batch[r]
    BY <1>13 DEF Withdraw, RateLimited, TakeBack, Leave, Stop, NoBatch, remote
  <2>2. TookBack
    BY <2>1, CurTyped, TakenBackFields
  <2>3. RowsKeep
    BY <1>1, <2>1, <2>2 DEF RowsKeep, TookBack, Alike
  <2> QED BY <2>1, <2>3, QuietKeeps DEF OnTheWay
<1>14. CASE Unauthorized
  <2>1. /\ pc = "unauthorized" /\ (MutationNotAttempted \/ UNCHANGED row) /\ cur' = cur
        /\ last' = last /\ landed' = landed /\ net' = net /\ batch' = batch
    BY <1>14 DEF Unauthorized, TakeBack, remote
  <2>2. TookBack /\ cur \in 1 .. last
    BY <2>1, CurTyped, TakenBackFields
  <2>3. RowsKeep
    BY <1>1, <2>1, <2>2 DEF RowsKeep, TookBack, Alike
  <2> QED BY <2>1, <2>2, <2>3, QuietKeeps DEF OnTheWay
<1>15. CASE Send
  <2>1. /\ pc = "marked" /\ last' = last /\ row' = row /\ landed' = landed /\ net' = net \cup {cur}
        /\ batch' = batch /\ cur' = cur /\ cur \in 1 .. last
    BY <1>15, CurTyped DEF Send, table
  <2>2. row[cur].kind = "receipt" => ClosedOut(row, cur)
    BY <2>1 DEF CloseoutInv, WayClosedOut, OnTheWay
  <2>3. \A r \in 1 .. last' : r \in net' \/ landed'[r] > 0 =>
          /\ r \in 1 .. last
          /\ row[r].kind = "receipt" => r \in net \/ landed[r] > 0 \/ ClosedOut(row, r)
    BY <2>1, <2>2
  <2>4. \A r \in DOMAIN batch' : r \in 1 .. last /\ r \in DOMAIN batch /\ batch'[r] = batch[r]
    BY <2>1, Typed
  <2> QED BY <1>1, <1>2, <2>1, <2>2, <2>3, <2>4, CloseoutKeeps
<1>16. CASE MarkFailed \/ \E giveUp \in BOOLEAN : Retry(giveUp)
  <2>1. /\ GivenUp(row[cur], row'[cur])
        /\ \A r \in 1 .. last : r # cur => row'[r] = row[r]
    BY <1>16, GiveUpFields
  <2>2. /\ last' = last /\ landed' = landed /\ net' = net /\ pc' = "pass"
        /\ \A r \in DOMAIN batch' : r \in DOMAIN batch /\ batch'[r] = batch[r]
    BY <1>16 DEF MarkFailed, Retry, Leave, remote
  <2>3. RowsKeep
    BY <1>1, <2>1, <2>2 DEF RowsKeep, GivenUp, Alike
  <2> QED BY <2>2, <2>3, QuietKeeps DEF OnTheWay
<1>17. CASE RecordReceipt
  <2>1. \A r \in 1 .. last : Undecided(row[r], row'[r])
    BY <1>17, ReceiptFields
  <2>2. /\ last' = last /\ landed' = landed /\ net' = net /\ batch' = batch /\ pc' = "applied"
    BY <1>17 DEF RecordReceipt, remote
  <2>3. RowsKeep
    BY <1>1, <2>1, <2>2 DEF RowsKeep, Undecided, Alike
  <2> QED BY <2>2, <2>3, QuietKeeps DEF OnTheWay
<1>18. CASE MarkSent
  <2>1. /\ cur \in DOMAIN batch /\ Decided(row[cur], row'[cur])
        /\ \A r \in 1 .. last : r # cur => row'[r] = row[r]
    BY <1>18, CurTyped, SentFields DEF MarkSent
  <2>2. /\ last' = last /\ landed' = landed /\ net' = net /\ pc' = "pass"
        /\ \A r \in DOMAIN batch' : r \in DOMAIN batch /\ batch'[r] = batch[r]
    BY <1>18 DEF MarkSent, Leave, remote
  <2>3. row[cur].applied = "unset"
    BY <2>1 DEF SnapshotCurrent
  <2>4. RowsKeep
    BY <1>1, <2>1, <2>2, <2>3 DEF RowsKeep, Decided, Alike
  <2> QED BY <2>2, <2>4, QuietKeeps DEF OnTheWay
<1>19. CASE Crash
  <2>1. /\ last' = last /\ row' = row /\ landed' = landed /\ net' = net /\ DOMAIN batch' = {}
        /\ pc' = "idle"
    BY <1>19 DEF Crash, Stop, NoBatch, table, remote
  <2> QED BY <1>2, <2>1, QuietKeeps DEF OnTheWay
<1>20. CASE Reject
  <2>1. /\ pc = "wire" /\ last' = last /\ row' = row /\ landed' = landed /\ net' \subseteq net
        /\ batch' = batch /\ cur' = cur /\ cur \in 1 .. last
    BY <1>20, CurTyped DEF Reject, table
  <2> QED BY <1>2, <2>1, QuietKeeps DEF OnTheWay
\* While the sender stays where it is, it stays closed out.
<1>21. ASSUME pc' = pc, cur' = cur
       PROVE  pc' \in OnTheWay =>
                /\ cur' = cur /\ cur \in 1 .. last
                /\ row[cur].kind = "receipt" => pc \in OnTheWay \/ ClosedOut(row, cur)
  BY <1>21, CurTyped DEF OnTheWay
<1>22. CASE \E r \in net : Lose(r)
  <2>1. /\ last' = last /\ row' = row /\ landed' = landed /\ net' \subseteq net
        /\ batch' = batch /\ cur' = cur /\ pc' = pc
    BY <1>22 DEF Lose, table, sender
  <2> QED BY <1>2, <1>21, <2>1, QuietKeeps
<1>23. CASE \E r \in net : Land(r)
  <2>1. PICK r \in net : Land(r)
    BY <1>23
  <2>2. /\ last' = last /\ row' = row /\ net' = net \ {r} /\ batch' = batch /\ cur' = cur
        /\ pc' = pc \/ pc' = "answered" \/ (pc = "wire" /\ pc' = "wire")
    BY <2>1 DEF Land, table
  <2>3. \A q \in RowId : q # r => landed'[q] = landed[q]
    BY <2>1 DEF Land, TypeOK
  <2>4. \A q \in 1 .. last' : q \in net' \/ landed'[q] > 0 =>
          /\ q \in 1 .. last
          /\ row[q].kind = "receipt" => q \in net \/ landed[q] > 0 \/ ClosedOut(row, q)
    BY <2>2, <2>3, Typed
  <2>5. \A q \in DOMAIN batch' : q \in 1 .. last /\ q \in DOMAIN batch /\ batch'[q] = batch[q]
    BY <2>2, Typed
  <2>6. pc' \in OnTheWay =>
          /\ cur' = cur /\ cur \in 1 .. last
          /\ row[cur].kind = "receipt" => pc \in OnTheWay \/ ClosedOut(row, cur)
    BY <2>2, CurTyped DEF OnTheWay
  <2> QED BY <1>1, <1>2, <2>2, <2>4, <2>5, <2>6, CloseoutKeeps
<1>24. ASSUME NEW i \in Issues, ReplaceNativeBinding(i) PROVE CloseoutInv'
  <2>1. \A r \in 1 .. last : Undecided(row[r], row'[r])
    BY <1>24, HeldFields
  <2>2. /\ last' = last /\ landed' = landed /\ net' = net /\ batch' = batch /\ cur' = cur /\ pc' = pc
    BY <1>24 DEF ReplaceNativeBinding, sender, remote
  <2>3. RowsKeep
    BY <1>1, <2>1, <2>2 DEF RowsKeep, Undecided, Alike
  <2> QED BY <1>21, <2>2, <2>3, QuietKeeps
<1>25. CASE Operator
  <2>1. PICK q \in 1 .. last : ReconcileTerminal(q)
    BY <1>25, Typed DEF Operator
  <2>2. Resolved(row[q], row'[q]) /\ \A r \in 1 .. last : r # q => row'[r] = row[r]
    BY <2>1, ResolveFields
  <2>3. /\ last' = last /\ landed' = landed /\ net' = net /\ batch' = batch /\ cur' = cur /\ pc' = pc
    BY <2>1 DEF ReconcileTerminal, sender, remote
  <2>4. RowsKeep
    BY <1>1, <2>2, <2>3 DEF RowsKeep, Resolved
  <2> QED BY <1>21, <2>3, <2>4, QuietKeeps
\* New rows: a closeout comes with the receipt that waits for it.
<1>26. ASSUME Grown, \A r \in 1 .. last' : r > last /\ row'[r].kind = "receipt" => Linked(row', r)
       PROVE  CloseoutInv'
  <2>1. /\ landed' = landed /\ net' = net /\ batch' = batch /\ cur' = cur /\ pc' = pc
    BY <1>26 DEF Grown, sender, remote
  <2>2. RowsKeep
    BY <1>1, <1>26 DEF RowsKeep, Grown, Undecided, Alike
  <2>3. last' \in Nat /\ last' <= MaxRows /\ MaxRows \in Nat
    BY OutboxAssumption DEF TypeOK, OutboxAssumption
  <2>4. \A r \in 1 .. last' : r \in net' \/ landed'[r] > 0 =>
          /\ r \in 1 .. last
          /\ row[r].kind = "receipt" => r \in net \/ landed[r] > 0 \/ ClosedOut(row, r)
    <3> SUFFICES ASSUME NEW r \in 1 .. last', r \in net' \/ landed'[r] > 0
                 PROVE  r \in 1 .. last /\ (r \in net \/ landed[r] > 0)
      OBVIOUS
    <3>1. CASE r \in net'
      BY <2>1, <3>1 DEF TypeOK
    <3>2. CASE landed'[r] > 0
      <4>1. r \in RowId
        BY <2>3 DEF RowId
      <4>2. ~(r > last)
        BY <2>1, <3>2, <4>1 DEF EffectInv
      <4> QED BY <1>1, <2>1, <3>2, <4>2
    <3> QED BY <3>1, <3>2
  <2>5. \A q \in DOMAIN batch' : q \in 1 .. last /\ q \in DOMAIN batch /\ batch'[q] = batch[q]
    BY <2>1, Typed
  <2> QED BY <1>21, <1>26, <2>1, <2>2, <2>4, <2>5, CloseoutKeeps
<1>27. ASSUME NEW i \in Issues,
              CaptureEvent(i) \/ \E intent \in Intents : ReconcileStatus(i, intent)
       PROVE  CloseoutInv'
  <2>1. Grown
    BY <1>27, CaptureGrows
  <2>2. PICK x \in Row : x.kind # "receipt" /\ Insert(x)
    <3>1. CASE CaptureEvent(i)
      <4> DEFINE x == NewRow("history", i, InProgress, NoRow)
      <4>1. x \in Row /\ x.kind = "history" /\ Insert(x)
        BY <3>1, NewRowTyped, OutboxAssumption
        DEF CaptureEvent, OutboxAssumption, Kinds, StatusKinds, NewRow
      <4> QED BY <4>1
    <3>2. ASSUME NEW intent \in Intents, ReconcileStatus(i, intent)
          PROVE  \E x \in Row : x.kind # "receipt" /\ Insert(x)
      <4> DEFINE x == NewRow("status", i, intent, NoRow)
      <4>1. x \in Row /\ x.kind = "status" /\ Insert(x)
        BY <3>2, NewRowTyped DEF ReconcileStatus, Kinds, StatusKinds, NewRow
      <4> QED BY <4>1
    <3> QED BY <1>27, <3>1, <3>2
  <2>3. last' = last + 1 /\ Sequenced(x, row'[last + 1], last')
    BY <2>2, InsertWrites
  <2>4. row'[last + 1].kind = x.kind
    BY <2>2, <2>3 DEF Sequenced, Row
  <2>5. \A r \in 1 .. last' : r > last => r = last + 1
    BY <1>1, <2>3
  <2> QED BY <1>26, <2>1, <2>2, <2>4, <2>5
<1>28. ASSUME NEW i \in Issues, NEW intent \in Intents, Finish(i, intent) PROVE CloseoutInv'
  <2>1. Grown
    BY <1>28, CaptureGrows
  <2>2. /\ last' = last + 2 /\ row' \in [1 .. last' -> Row]
        /\ row'[last + 1] = NewRow("closeout", i, intent, NoRow)
        /\ row'[last + 2] = NewRow("receipt", i, intent, last + 1)
    BY <1>28, FinishWrites
  <2>3. DOMAIN row' = 1 .. last' /\ last + 1 \in 1 .. last'
    BY <1>1, <2>2
  <2>4. \A r \in 1 .. last' : r > last => r = last + 1 \/ r = last + 2
    BY <1>1, <2>2
  <2>5. /\ row'[last + 1].kind = "closeout" /\ row'[last + 1].issue = i
        /\ row'[last + 2].issue = i /\ row'[last + 2].dep = last + 1
    BY <2>2 DEF NewRow
  <2>6. \A r \in 1 .. last' : r > last /\ row'[r].kind = "receipt" => Linked(row', r)
    BY <2>3, <2>4, <2>5 DEF Linked
  <2> QED BY <1>26, <2>1, <2>6
<1> QED
  BY <1>3, <1>4, <1>5, <1>6, <1>7, <1>8, <1>9, <1>10, <1>11, <1>12, <1>13, <1>14, <1>15, <1>16,
     <1>17, <1>18, <1>19, <1>20, <1>22, <1>23, <1>24, <1>25, <1>27, <1>28
  DEF Next, Sender, Capture, Operator, Linear

\* A completion comment reaches Linear only after its own closing status was recorded as
\* applied (_send, terminal_status_applied), and no later step takes that record back.
THEOREM ReceiptsFollowCloseouts == Spec => []ReceiptAfterCloseout
<1>1. Init => TypeOK /\ Inv /\ CloseoutInv
  <2> SUFFICES ASSUME Init PROVE CloseoutInv
    BY InitInv
  <2>1. DOMAIN row = {} /\ DOMAIN batch = {} /\ pc = "idle"
    BY DEF Init, NoBatch
  <2> QED BY <2>1 DEF CloseoutInv, ReceiptsLinked, SnapshotLinked, WayClosedOut, OnTheWay,
                      ReceiptAfterCloseout
<1>2. TypeOK /\ Inv /\ CloseoutInv /\ [Next]_vars => TypeOK' /\ Inv' /\ CloseoutInv'
  <2> SUFFICES ASSUME TypeOK, Inv, CloseoutInv, [Next]_vars PROVE TypeOK' /\ Inv' /\ CloseoutInv'
    OBVIOUS
  <2>1. TypeOK' /\ Inv'
    BY InvStep
  <2> QED BY <2>1, CloseoutStep DEF Inv
<1>3. CloseoutInv => ReceiptAfterCloseout
  BY DEF CloseoutInv
<1> QED
  BY <1>1, <1>2, <1>3, PTL DEF Spec

-----------------------------------------------------------------------------
(* A history comment follows the statuses queued before it.                  *)

\* The sender has taken up a row, or somebody has decided it.
Reached(s) == s \in DOMAIN batch \/ row[s].state # "pending" \/ row[s].required

\* The statuses of an issue are reached in the order in which they were queued, and a
\* re-track holds all those there are.
StatusOrder ==
  \A r, s \in DOMAIN row :
    IsStatus(row[r]) /\ IsStatus(row[s]) /\ r < s /\ row[r].issue = row[s].issue =>
      /\ row[s].held => row[r].held
      /\ Reached(s) => row[r].state # "pending" \/ row[r].held

\* What is not held reports the issue's current task.
CurrentTask == \A r \in DOMAIN row : ~row[r].held => row[r].task = binding[row[r].issue]

QueueInv == StatusOrder /\ CurrentTask

\* What a step may do to the rows there are, while no issue is re-tracked.
SamePlace(x, y) == y.kind = x.kind /\ y.issue = x.issue /\ y.task = x.task /\ y.held = x.held
RowMoves(r) ==
  /\ SamePlace(row[r], row'[r])
  /\ row'[r].state = "pending" => row[r].state = "pending" \/ Revivable(r)
  /\ Reached(r)' => Reached(r) \/ row[r].held \/ r \in Heads
RowsMove ==
  /\ last <= last' /\ binding' = binding
  /\ \A r \in 1 .. last : RowMoves(r)
  /\ \A r \in 1 .. last' : r > last =>
       ~Reached(r)' /\ ~row'[r].held /\ row'[r].task = binding[row'[r].issue]

\* Such a step keeps the statuses in order.
LEMMA RowsMoveKeeps ==
  ASSUME TypeOK, TypeOK', RowInv, QueueInv, RowsMove
  PROVE  QueueInv'
<1>1. /\ DOMAIN row = 1 .. last /\ DOMAIN row' = 1 .. last' /\ last \in Nat /\ last' \in Nat
  BY OutboxAssumption DEF TypeOK, OutboxAssumption
<1>2. CurrentTask'
  <2> SUFFICES ASSUME NEW r \in 1 .. last', ~row'[r].held
               PROVE  row'[r].task = binding'[row'[r].issue]
    BY <1>1 DEF CurrentTask
  <2>1. CASE r > last
    BY <2>1 DEF RowsMove
  <2>2. CASE ~(r > last)
    <3>1. r \in 1 .. last
      BY <1>1, <2>2
    <3> QED BY <1>1, <3>1 DEF RowsMove, RowMoves, SamePlace, QueueInv, CurrentTask
  <2> QED BY <2>1, <2>2
<1>3. StatusOrder'
  <2> SUFFICES ASSUME NEW r \in 1 .. last', NEW s \in 1 .. last',
                      IsStatus(row'[r]), IsStatus(row'[s]), r < s, row'[r].issue = row'[s].issue
               PROVE  /\ row'[s].held => row'[r].held
                      /\ Reached(s)' => row'[r].state # "pending" \/ row'[r].held
    BY <1>1 DEF StatusOrder
  <2>1. CASE s > last
    BY <2>1 DEF RowsMove
  <2>2. CASE ~(s > last)
    <3>1. r \in 1 .. last /\ s \in 1 .. last
      BY <1>1, <2>2
    <3>2. RowMoves(r) /\ RowMoves(s)
      BY <3>1 DEF RowsMove
    <3>3. IsStatus(row[r]) /\ IsStatus(row[s]) /\ row[r].issue = row[s].issue
      BY <3>2 DEF RowMoves, SamePlace, IsStatus
    <3>4. /\ row[s].held => row[r].held
          /\ Reached(s) => row[r].state # "pending" \/ row[r].held
      BY <1>1, <3>1, <3>3 DEF QueueInv, StatusOrder
    <3>5. ~Revivable(r)
      BY <1>1, <3>1, <3>3 DEF Revivable, StatusRows
    <3>6. s \in Heads => row[r].state # "pending" \/ row[r].held
      <4>1. row[r].dep = NoRow
        BY <1>1, <3>1, <3>3 DEF RowInv
      <4> QED BY <1>1, <3>1, <3>3, <4>1 DEF Heads, Eligible
    <3> QED BY <3>2, <3>4, <3>5, <3>6 DEF RowMoves, SamePlace
  <2> QED BY <2>1, <2>2
<1> QED BY <1>2, <1>3 DEF QueueInv

\* The sender writes the row in its hands, or none, and takes up no row.
LEMMA CurMoves ==
  ASSUME TypeOK, cur \in DOMAIN batch, NEW y, OnlyCur(y), SamePlace(row[cur], y),
         y.state = "pending" => row[cur].state = "pending",
         last' = last, binding' = binding, DOMAIN batch' \subseteq DOMAIN batch
  PROVE  RowsMove
<1>1. last \in Nat /\ \A r \in 1 .. last : ~(r > last)
  BY Typed
<1> SUFFICES ASSUME NEW r \in 1 .. last PROVE RowMoves(r)
  BY <1>1 DEF RowsMove
<1>2. CASE r = cur
  BY <1>2 DEF RowMoves, OnlyCur, Reached
<1>3. CASE r # cur
  BY <1>3 DEF RowMoves, OnlyCur, Reached, SamePlace
<1> QED BY <1>2, <1>3

\* A step that writes no row.
LEMMA NoneMoves ==
  ASSUME TypeOK, row' = row, last' = last, binding' = binding, DOMAIN batch' \subseteq DOMAIN batch
  PROVE  RowsMove
<1>1. last \in Nat /\ \A r \in 1 .. last : ~(r > last)
  BY Typed
<1> QED BY <1>1 DEF RowsMove, RowMoves, SamePlace, Reached

\* Taking a marker back.
LEMMA TakenBackMoves ==
  ASSUME TypeOK, cur \in DOMAIN batch, MutationNotAttempted \/ UNCHANGED row,
         last' = last, binding' = binding, DOMAIN batch' \subseteq DOMAIN batch
  PROVE  RowsMove
<1>1. last \in Nat /\ (\A r \in 1 .. last : ~(r > last)) /\ \A r \in 1 .. last : row[r] \in Row
  BY Typed
<1>2. CASE UNCHANGED row
  BY <1>2, NoneMoves
<1>3. CASE MutationNotAttempted
  <2> SUFFICES ASSUME NEW r \in 1 .. last PROVE RowMoves(r)
    BY <1>1 DEF RowsMove
  <2>1. PICK x \in {row[r], [row[r] EXCEPT !.started = FALSE]} : Sequenced(x, row'[r], last)
    BY <1>3, TakenBack
  <2>2. /\ SamePlace(row[r], x) /\ x.state = row[r].state /\ x.required = row[r].required
        /\ x \in Row
    BY <1>1, <2>1 DEF SamePlace, Row
  <2>3. /\ SamePlace(row[r], row'[r]) /\ row'[r].state = row[r].state
        /\ row'[r].required = row[r].required
    BY <2>1, <2>2 DEF SamePlace, Sequenced, Row
  <2> QED BY <2>3 DEF RowMoves, Reached
<1> QED BY <1>2, <1>3

\* A row as an event queues it.
Queued(x) == x.state = "pending" /\ ~x.required /\ ~x.held /\ x.task = binding[x.issue]

\* An event appends rows, and re-sequences the history before them.
LEMMA AppendMoves ==
  ASSUME TypeOK, last' \in Nat, last <= last', binding' = binding, batch' = batch,
         \A r \in 1 .. last : Sequenced(row[r], row'[r], last'),
         \A r \in 1 .. last' : r > last => Queued(row'[r])
  PROVE  RowsMove
<1>1. \A r \in 1 .. last' : r > last =>
        ~Reached(r)' /\ ~row'[r].held /\ row'[r].task = binding[row'[r].issue]
  <2> SUFFICES ASSUME NEW r \in 1 .. last', r > last
               PROVE  ~Reached(r)' /\ ~row'[r].held /\ row'[r].task = binding[row'[r].issue]
    OBVIOUS
  <2>1. r \notin DOMAIN batch'
    BY Typed
  <2> QED BY <2>1 DEF Queued, Reached
<1>2. ASSUME NEW r \in 1 .. last PROVE RowMoves(r)
  <2>1. row[r] \in Row /\ Sequenced(row[r], row'[r], last')
    BY Typed
  <2>2. /\ SamePlace(row[r], row'[r]) /\ row'[r].state = row[r].state
        /\ row'[r].required = row[r].required
    BY <2>1 DEF SamePlace, Sequenced, Row
  <2> QED BY <2>2 DEF RowMoves, Reached
<1> QED BY <1>1, <1>2 DEF RowsMove

\* reconcile_status and capture_event append one row.
LEMMA InsertMoves ==
  ASSUME TypeOK, NEW x \in Row, Queued(x), Insert(x)
  PROVE  RowsMove
<1>1. /\ last' = last + 1 /\ last' \in Nat /\ last \in Nat
      /\ Sequenced(x, row'[last + 1], last')
      /\ \A r \in 1 .. last : Sequenced(row[r], row'[r], last')
  BY InsertWrites, Typed, OutboxAssumption DEF OutboxAssumption
<1>2. binding' = binding /\ batch' = batch
  BY DEF Insert, sender
<1>3. Queued(row'[last + 1])
  BY <1>1 DEF Queued, Sequenced, Row
<1>4. \A r \in 1 .. last' : r > last => Queued(row'[r])
  BY <1>1, <1>3
<1> QED BY <1>1, <1>2, <1>4, AppendMoves

\* Whatever an event queues, it queues after the rows there are.
LEMMA CaptureMoves ==
  ASSUME TypeOK, NEW i \in Issues,
         \/ CaptureEvent(i)
         \/ \E intent \in Intents : ReconcileStatus(i, intent) \/ Finish(i, intent)
  PROVE  RowsMove
<1>1. CASE CaptureEvent(i)
  <2> DEFINE x == NewRow("history", i, InProgress, NoRow)
  <2>1. x \in Row
    BY NewRowTyped, OutboxAssumption DEF OutboxAssumption, Kinds, StatusKinds
  <2>2. Insert(x) /\ Queued(x)
    BY <1>1 DEF CaptureEvent, Queued, NewRow
  <2> HIDE DEF x
  <2> QED BY <2>1, <2>2, InsertMoves
<1>2. ASSUME NEW intent \in Intents, ReconcileStatus(i, intent)
      PROVE  RowsMove
  <2> DEFINE x == NewRow("status", i, intent, NoRow)
  <2>1. x \in Row
    BY NewRowTyped DEF Kinds, StatusKinds
  <2>2. Insert(x) /\ Queued(x)
    BY <1>2 DEF ReconcileStatus, Queued, NewRow
  <2> HIDE DEF x
  <2> QED BY <2>1, <2>2, InsertMoves
<1>3. ASSUME NEW intent \in Intents, Finish(i, intent)
      PROVE  RowsMove
  <2>1. /\ last' = last + 2 /\ last' \in Nat /\ last \in Nat
        /\ row'[last + 1] = NewRow("closeout", i, intent, NoRow)
        /\ row'[last + 2] = NewRow("receipt", i, intent, last + 1)
        /\ \A r \in 1 .. last : Sequenced(row[r], row'[r], last')
    BY <1>3, FinishWrites, Typed, OutboxAssumption DEF OutboxAssumption
  <2>2. Queued(row'[last + 1]) /\ Queued(row'[last + 2])
    BY <2>1 DEF Queued, NewRow
  <2>3. \A r \in 1 .. last' : r > last => Queued(row'[r])
    BY <2>1, <2>2
  <2>4. binding' = binding /\ batch' = batch
    BY <1>3 DEF Finish, sender
  <2> QED BY <2>1, <2>3, <2>4, AppendMoves
<1> QED BY <1>1, <1>2, <1>3

\* Re-tracking an issue holds every row of the issue.
LEMMA HoldAllKeeps ==
  ASSUME TypeOK, QueueInv, NEW i \in Issues, ReplaceNativeBinding(i)
  PROVE  QueueInv'
<1>1. /\ DOMAIN row = 1 .. last /\ DOMAIN row' = 1 .. last /\ batch' = batch
      /\ \A j \in Issues : j # i => binding'[j] = binding[j]
      /\ \A r \in 1 .. last : row'[r] = IF row[r].issue = i THEN [row[r] EXCEPT !.held = TRUE] ELSE row[r]
  BY Typed DEF ReplaceNativeBinding, sender, TypeOK
<1>2. ASSUME NEW r \in 1 .. last
      PROVE  /\ row'[r].kind = row[r].kind /\ row'[r].issue = row[r].issue
             /\ row'[r].task = row[r].task /\ row'[r].state = row[r].state
             /\ row'[r].required = row[r].required /\ row[r].issue \in Issues
             /\ row'[r].held = (row[r].held \/ row[r].issue = i)
  <2>1. row[r] \in Row
    BY Typed
  <2> QED BY <1>1, <2>1 DEF Row
<1>3. CurrentTask'
  <2> SUFFICES ASSUME NEW r \in 1 .. last, ~row'[r].held
               PROVE  row'[r].task = binding'[row'[r].issue]
    BY <1>1 DEF CurrentTask
  <2>1. ~row[r].held /\ row[r].issue # i /\ row[r].issue \in Issues
    BY <1>2
  <2>2. row[r].task = binding[row[r].issue]
    BY <1>1, <2>1 DEF QueueInv, CurrentTask
  <2> QED BY <1>1, <1>2, <2>1, <2>2
<1>4. StatusOrder'
  <2> SUFFICES ASSUME NEW r \in 1 .. last, NEW s \in 1 .. last,
                      IsStatus(row'[r]), IsStatus(row'[s]), r < s, row'[r].issue = row'[s].issue
               PROVE  /\ row'[s].held => row'[r].held
                      /\ Reached(s)' => row'[r].state # "pending" \/ row'[r].held
    BY <1>1 DEF StatusOrder
  <2>1. IsStatus(row[r]) /\ IsStatus(row[s]) /\ row[r].issue = row[s].issue
    BY <1>2 DEF IsStatus
  <2>2. Reached(s)' => Reached(s)
    BY <1>1, <1>2 DEF Reached
  <2>3. /\ row[s].held => row[r].held
        /\ Reached(s) => row[r].state # "pending" \/ row[r].held
    BY <1>1, <2>1 DEF QueueInv, StatusOrder
  <2> QED BY <1>2, <2>1, <2>2, <2>3
<1> QED BY <1>3, <1>4 DEF QueueInv

\* The operator resolves a row that is held, or was reached before.
LEMMA ResolveMoves ==
  ASSUME TypeOK, NEW q \in 1 .. last, ReconcileTerminal(q)
  PROVE  RowsMove
<1>1. /\ row[q] \in Row /\ last \in Nat /\ last' = last /\ binding' = binding /\ batch' = batch
      /\ \A r \in 1 .. last : ~(r > last)
  BY Typed DEF ReconcileTerminal, sender
<1>2. row[q].held \/ Reached(q)
  BY DEF ReconcileTerminal, NeedsResolution, Reached
<1> SUFFICES ASSUME NEW r \in 1 .. last PROVE RowMoves(r)
  BY <1>1 DEF RowsMove
<1>3. CASE r = q
  <2>1. Resolved(row[q], row'[q]) /\ row'[q].held = row[q].held
    BY ResolveFields DEF Resolved
  <2> QED BY <1>1, <1>2, <1>3, <2>1 DEF RowMoves, SamePlace, Resolved
<1>4. CASE r # q
  BY <1>1, <1>4, ResolveFields DEF RowMoves, SamePlace, Reached
<1> QED BY <1>3, <1>4

\* Every step keeps the statuses in order and what is not held on its current task.
LEMMA QueueStep ==
  ASSUME TypeOK, TypeOK', SenderInv, RowInv, SnapshotCurrent, QueueInv, [Next]_vars
  PROVE  QueueInv'
<1>1. last \in Nat /\ last <= last /\ \A r \in 1 .. last : ~(r > last) /\ row[r] \in Row
  BY Typed
<1>2. CASE UNCHANGED vars
  BY <1>2, NoneMoves, RowsMoveKeeps DEF vars
<1>3. CASE StartPass
  <2>1. PICK due \in SUBSET Heads \ {{}} : batch' = [r \in due |-> row[r]]
    BY <1>3 DEF StartPass
  <2>2. row' = row /\ last' = last /\ binding' = binding /\ \A r \in DOMAIN batch' : r \in Heads
    BY <1>3, <2>1 DEF StartPass, table
  <2>3. RowsMove
    BY <1>1, <2>2 DEF RowsMove, RowMoves, SamePlace, Reached
  <2> QED BY <2>3, RowsMoveKeeps
<1>4. CASE \/ Pick \/ Deferred \/ SettleFromReceipt \/ DropUnapplied \/ NothingToWrite \/ ReadBack
           \/ Encode \/ BeforeRequest \/ Send \/ NoAnswer \/ CommentReadback \/ Crash \/ Reject
           \/ \E r \in net : Lose(r) \/ Land(r)
  <2>1. /\ row' = row /\ last' = last /\ binding' = binding /\ DOMAIN batch' \subseteq DOMAIN batch
    BY <1>4 DEF Pick, Deferred, SettleFromReceipt, DropUnapplied, NothingToWrite, ReadBack,
       Encode, BeforeRequest, Send, NoAnswer, CommentReadback, Crash, Reject, Lose, Land, Leave,
       Stop, NoBatch, Goto, table, sender
  <2> QED BY <2>1, NoneMoves, RowsMoveKeeps
<1>5. CASE EndPass
  <2>1. /\ ReviveFailed \/ UNCHANGED row
        /\ last' = last /\ binding' = binding /\ DOMAIN batch' = {}
    BY <1>5 DEF EndPass, Stop, NoBatch
  <2>2. ASSUME NEW r \in 1 .. last PROVE RowMoves(r)
    <3>1. \/ row'[r] = row[r]
          \/ Revivable(r) /\ row'[r] = [row[r] EXCEPT !.state = "pending", !.revivals = @ + 1]
      BY <2>1, ReviveWrites
    <3>2. /\ SamePlace(row[r], row'[r]) /\ row'[r].required = row[r].required
          /\ row'[r].state = row[r].state \/ (Revivable(r) /\ row'[r].state = "pending")
      BY <1>1, <3>1 DEF SamePlace, Row
    <3> QED BY <2>1, <3>2 DEF RowMoves, Reached
  <2>3. RowsMove
    BY <1>1, <2>1, <2>2 DEF RowsMove
  <2> QED BY <2>3, RowsMoveKeeps
<1>6. CASE NotAuthorized
  <2>1. PICK y \in Row :
           /\ OnlyCur(y)
           /\ \/ row[cur].held /\ y = row[cur]
              \/ /\ ~row[cur].held
                 /\ \/ y = Rewritten(row[cur], batch[cur])
                    \/ y = [Rewritten(row[cur], batch[cur]) EXCEPT !.state = "failed", !.rejected = TRUE]
    BY <1>6, NotedWrites
  <2>2. /\ cur \in DOMAIN batch /\ row[cur] \in Row /\ batch[cur] \in Row /\ last' = last
        /\ binding' = binding /\ DOMAIN batch' \subseteq DOMAIN batch
    BY <1>6, CurTyped DEF NotAuthorized, Leave
  <2>3. /\ batch[cur].kind = row[cur].kind /\ batch[cur].issue = row[cur].issue
        /\ batch[cur].task = row[cur].task
    BY <2>2 DEF SnapshotCurrent
  <2>4. SamePlace(row[cur], y) /\ (y.state = "pending" => row[cur].state = "pending")
    BY ZenonT(30), <2>1, <2>2, <2>3 DEF SamePlace, Rewritten, Row
  <2> QED BY <2>1, <2>2, <2>4, CurMoves, RowsMoveKeeps
<1>7. CASE HoldUncertain \/ ReceiptMismatch
  <2> DEFINE y == [row[cur] EXCEPT !.required = TRUE, !.tried = TRUE]
  <2>1. pc \notin {"idle", "pass"} /\ HoldTerminal
    BY <1>7 DEF HoldUncertain, ReceiptMismatch
  <2>2. /\ cur \in DOMAIN batch /\ row[cur] \in Row /\ last' = last
        /\ binding' = binding /\ DOMAIN batch' \subseteq DOMAIN batch /\ OnlyCur(y)
    BY <2>1, CurTyped, HoldWrites DEF HoldTerminal
  <2>3. SamePlace(row[cur], y) /\ y.state = row[cur].state
    BY <2>2 DEF SamePlace, Row
  <2> HIDE DEF y
  <2> QED BY <2>2, <2>3, CurMoves, RowsMoveKeeps
<1>8. CASE AdmitMutation
  <2> DEFINE y == [row[cur] EXCEPT !.started = TRUE]
  <2>1. /\ cur \in DOMAIN batch /\ row[cur] \in Row /\ last' = last
        /\ binding' = binding /\ DOMAIN batch' \subseteq DOMAIN batch /\ OnlyCur(y)
    BY <1>8, CurTyped, AdmitWrites DEF AdmitMutation
  <2>2. SamePlace(row[cur], y) /\ y.state = row[cur].state
    BY <2>1 DEF SamePlace, Row
  <2> HIDE DEF y
  <2> QED BY <2>1, <2>2, CurMoves, RowsMoveKeeps
<1>9. CASE Withdraw \/ RateLimited \/ Unauthorized
  <2>1. /\ pc \notin {"idle", "pass"} /\ (MutationNotAttempted \/ UNCHANGED row)
        /\ last' = last /\ binding' = binding /\ DOMAIN batch' \subseteq DOMAIN batch
    BY <1>9 DEF Withdraw, RateLimited, Unauthorized, TakeBack, Leave, Stop, NoBatch
  <2> QED BY <2>1, CurTyped, TakenBackMoves, RowsMoveKeeps
<1>10. CASE MarkFailed \/ \E giveUp \in BOOLEAN : Retry(giveUp)
  <2>1. /\ cur \in DOMAIN batch /\ cur \in 1 .. last /\ row[cur] \in Row /\ last' = last
        /\ binding' = binding /\ DOMAIN batch' \subseteq DOMAIN batch
    BY <1>10, CurTyped DEF MarkFailed, Retry, Leave
  <2>2. PICK y \in {row[cur], [row[cur] EXCEPT !.state = "failed", !.rejected = TRUE],
                    [row[cur] EXCEPT !.tried = TRUE],
                    [row[cur] EXCEPT !.tried = TRUE, !.state = "failed"]} : OnlyCur(y)
    <3>1. ASSUME NEW giveUp \in BOOLEAN, Retry(giveUp)
          PROVE  \E y \in {row[cur], [row[cur] EXCEPT !.tried = TRUE],
                           [row[cur] EXCEPT !.tried = TRUE, !.state = "failed"]} : OnlyCur(y)
      <4>1. OnlyCur(IF row[cur].held THEN row[cur]
                    ELSE [row[cur] EXCEPT !.tried = TRUE,
                                          !.state = IF giveUp THEN "failed" ELSE @])
        BY <3>1, RetryWrites
      <4>2. [row[cur] EXCEPT !.tried = TRUE, !.state = row[cur].state]
              = [row[cur] EXCEPT !.tried = TRUE]
        BY <2>1 DEF Row
      <4> QED BY <4>1, <4>2
    <3> QED BY <1>10, <3>1, FailedWrites
  <2>3. SamePlace(row[cur], y) /\ (y.state = "pending" => row[cur].state = "pending")
    BY <2>1, <2>2 DEF SamePlace, Row
  <2> QED BY <2>1, <2>2, <2>3, CurMoves, RowsMoveKeeps
<1>11. CASE RecordReceipt
  <2>1. /\ cur \in DOMAIN batch /\ row[cur] \in Row /\ last' = last
        /\ binding' = binding /\ DOMAIN batch' \subseteq DOMAIN batch
    BY <1>11, CurTyped DEF RecordReceipt
  <2>2. PICK y \in {row[cur], [row[cur] EXCEPT !.receipt = TRUE]} : OnlyCur(y)
    BY <1>11, ReceiptWrites
  <2>3. SamePlace(row[cur], y) /\ y.state = row[cur].state
    BY <2>1, <2>2 DEF SamePlace, Row
  <2> QED BY <2>1, <2>2, <2>3, CurMoves, RowsMoveKeeps
<1>12. CASE MarkSent
  <2>1. /\ cur \in DOMAIN batch /\ row[cur] \in Row /\ last' = last
        /\ binding' = binding /\ DOMAIN batch' \subseteq DOMAIN batch
    BY <1>12, CurTyped DEF MarkSent, Leave
  <2>2. PICK y \in {row[cur], [row[cur] EXCEPT !.state = "sent",
                                 !.applied = IF pc = "applied" THEN "yes" ELSE "no"]} : OnlyCur(y)
    BY <1>12, SentWrites
  <2>3. SamePlace(row[cur], y) /\ (y.state = "pending" => row[cur].state = "pending")
    BY <2>1, <2>2 DEF SamePlace, Row
  <2> QED BY <2>1, <2>2, <2>3, CurMoves, RowsMoveKeeps
<1>13. CASE Capture
  BY <1>13, CaptureMoves, RowsMoveKeeps, HoldAllKeeps DEF Capture
<1>14. CASE Operator
  <2>1. PICK q \in 1 .. last : ReconcileTerminal(q)
    BY <1>14, Typed DEF Operator
  <2> QED BY <2>1, ResolveMoves, RowsMoveKeeps
<1> QED
  BY <1>2, <1>3, <1>4, <1>5, <1>6, <1>7, <1>8, <1>9, <1>10, <1>11, <1>12, <1>13, <1>14
  DEF Next, Sender, Linear

\* Only the row in the sender's hands goes out on a first attempt, and then no status waits.
LEMMA OnlyCurSent ==
  ASSUME [Next]_vars, NEW r \in net' \ net
  PROVE  r = cur /\ (Untouched => ~StatusWaiting)
<1>1. CASE Send
  BY <1>1 DEF Send
<1>2. CASE UNCHANGED vars \/ Capture \/ Operator \/ Crash \/ Reject \/ \E q \in net : Land(q) \/ Lose(q)
  BY <1>2 DEF vars, remote, Capture, Operator, Crash, Reject, Land, Lose, CaptureEvent, ReconcileStatus,
              Finish, Insert, ReplaceNativeBinding, ReconcileTerminal
<1>3. CASE \/ StartPass \/ Pick \/ EndPass \/ NotAuthorized \/ Deferred \/ SettleFromReceipt
           \/ HoldUncertain \/ DropUnapplied \/ NothingToWrite \/ ReadBack \/ Encode \/ BeforeRequest
           \/ AdmitMutation \/ Withdraw \/ NoAnswer \/ Unauthorized \/ RateLimited \/ MarkFailed
           \/ (\E giveUp \in BOOLEAN : Retry(giveUp))
           \/ RecordReceipt \/ ReceiptMismatch \/ CommentReadback \/ MarkSent
  BY <1>3 DEF remote, Goto, StartPass, Pick, EndPass, NotAuthorized, Deferred, SettleFromReceipt,
              HoldUncertain, HoldTerminal, DropUnapplied, NothingToWrite, ReadBack, Encode, BeforeRequest,
              AdmitMutation, Withdraw, NoAnswer, Unauthorized, RateLimited, Retry, MarkFailed,
              RecordReceipt, ReceiptMismatch, CommentReadback, MarkSent
<1> QED BY <1>1, <1>2, <1>3 DEF Next, Sender, Linear

\* A history comment on its first attempt never overtakes a status of its task
\* that is waiting to be sent (the second look of _mutate_outbox's guard).
THEOREM HistoryWaits == Spec => HistoryFollowsStatus
<1>1. Init => TypeOK /\ Inv /\ QueueInv
  <2> SUFFICES ASSUME Init PROVE QueueInv
    BY InitInv
  <2>1. DOMAIN row = {}
    BY DEF Init
  <2> QED BY <2>1 DEF QueueInv, StatusOrder, CurrentTask
<1>2. TypeOK /\ Inv /\ QueueInv /\ [Next]_vars => TypeOK' /\ Inv' /\ QueueInv'
  <2> SUFFICES ASSUME TypeOK, Inv, QueueInv, [Next]_vars PROVE TypeOK' /\ Inv' /\ QueueInv'
    OBVIOUS
  <2>1. TypeOK' /\ Inv'
    BY InvStep
  <2> QED BY <2>1, QueueStep DEF Inv
<1>3. TypeOK /\ Inv /\ QueueInv /\ [Next]_vars =>
        [\A r \in net' \ net :
           row[r].kind = "history" /\ ~row[r].tried /\ fresh =>
             \A s \in StatusRows(row[r].issue) :
               row[s].task = row[r].task /\ ~row[s].held => row[s].state # "pending"]_vars
  <2> SUFFICES ASSUME TypeOK, Inv, QueueInv, [Next]_vars, NEW r \in net' \ net,
                      row[r].kind = "history", ~row[r].tried, fresh,
                      NEW s \in StatusRows(row[r].issue),
                      row[s].task = row[r].task, ~row[s].held, row[s].state = "pending"
               PROVE  FALSE
    OBVIOUS
  <2>1. r = cur /\ ~StatusWaiting
    BY OnlyCurSent DEF Untouched
  <2> DEFINE i == row[cur].issue
             l == Max(StatusRows(i))
  <2>2. DOMAIN row = 1 .. last /\ last \in Nat
    BY Typed
  <2>3. s \in StatusRows(i) /\ StatusRows(i) \in SUBSET (0 .. last) /\ StatusRows(i) # {}
    BY <2>1, <2>2 DEF StatusRows
  <2>4. l \in StatusRows(i) /\ \A t \in StatusRows(i) : t <= l
    BY <2>2, <2>3, MaxIn
  <2>5. row[l].held \/ row[l].state # "pending" \/ row[l].task # row[cur].task
    BY <2>1, <2>3 DEF StatusWaiting, LatestStatus
  <2> HIDE DEF l
  <2>6. /\ s \in 1 .. last /\ IsStatus(row[s]) /\ row[s].issue = i
        /\ l \in 1 .. last /\ IsStatus(row[l]) /\ row[l].issue = i /\ s <= l
    BY <2>2, <2>3, <2>4 DEF StatusRows
  <2>7. l # s
    BY <2>1, <2>5
  <2>8. s < l
    BY <2>6, <2>7
  <2>9. /\ row[l].held => row[s].held
        /\ Reached(l) => row[s].state # "pending" \/ row[s].held
    BY <2>2, <2>6, <2>8 DEF QueueInv, StatusOrder
  <2>10. row[l].task # row[s].task
    BY <2>1, <2>5, <2>9 DEF Reached
  <2> QED BY <2>2, <2>6, <2>9, <2>10 DEF QueueInv, CurrentTask
<1> QED
  BY <1>1, <1>2, <1>3, PTL DEF Spec, HistoryFollowsStatus

=============================================================================
