---------------------------- MODULE LinearProofs ----------------------------
(***************************************************************************)
(* What the components of the Linear plugin keep for every value of their  *)
(* constants.  Each part states the strengthening that its steps preserve  *)
(* and derives the property that the run of MCLinear checks:               *)
(*                                                                         *)
(*   Sweep         ReadRight    a pass that is about to write has read a   *)
(*                              history in which nobody decided            *)
(*   Reporting     ParkInv      a pass that is about to unblock has found  *)
(*                              a park of the open-PR guard                *)
(*   Evidence      EvidenceInv  what a proof has read was true meanwhile   *)
(*   LinearClient  ClientInv    who may know the token Linear accepts      *)
(*   ChatGuard     GuardInv     what the table says of each turn           *)
(*   Answers       AnswersInv   what two adapters know of one reply        *)
(*   WorkerStep    StepInv      a step that may land late holds the others *)
(***************************************************************************)
EXTENDS MCLinear, WorkerStep, FiniteSetTheorems, WellFoundedInduction, TLAPS

-----------------------------------------------------------------------------
(* Sweep: people's decisions are respected.                                *)

\* A nonempty set of positions has a last one.
LEMMA LastPosition ==
  ASSUME NEW n \in Nat, NEW S \in SUBSET (1..n), S # {}
  PROVE  \E i \in S : \A j \in S : j <= i
<1> DEFINE Behind == {k \in Nat : \E i \in S : k = n - i}
<1>1. PICK i \in S : TRUE
  OBVIOUS
<1>2. n - i \in Behind
  <2>1. i \in 1..n
    BY <1>1
  <2> QED BY <1>1, <2>1
<1>3. PICK k \in Behind : \A m \in Behind : ~ <<m, k>> \in OpToRel(<, Nat)
  BY <1>2, NatLessThanWellFounded, WFMin
<1>4. PICK last \in S : k = n - last
  OBVIOUS
<1>5. \A j \in S : j <= last
  <2> TAKE j \in S
  <2>1. j \in 1..n /\ last \in 1..n
    OBVIOUS
  <2>2. n - j \in Behind
    BY <2>1
  <2>3. ~(n - j < k)
    BY <1>3, <2>2, <2>1 DEF OpToRel
  <2> QED BY <2>3, <2>1, <1>4
<1> QED BY <1>5

LEMMA NewestIn ==
  ASSUME NEW h \in Seq(Entries), NEW S
  PROVE  \/ Newest(h, S) = 0 /\ \A i \in 1..Len(h) : h[i].what \notin S
         \/ /\ Newest(h, S) \in 1..Len(h) /\ h[Newest(h, S)].what \in S
            /\ \A j \in 1..Len(h) : h[j].what \in S => j =< Newest(h, S)
<1> DEFINE at == {i \in 1..Len(h) : h[i].what \in S}
<1>1. CASE at = {}
  BY <1>1 DEF Newest
<1>2. CASE at # {}
  <2>1. \E i \in at : \A j \in at : j =< i
    <3>1. at \in SUBSET (1..Len(h)) /\ Len(h) \in Nat
      OBVIOUS
    <3> HIDE DEF at
    <3> QED BY <1>2, <3>1, LastPosition
  <2>2. Newest(h, S) \in at /\ \A j \in at : j =< Newest(h, S)
    BY <1>2, <2>1 DEF Newest
  <2> QED BY <2>2
<1> QED BY <1>1, <1>2

\* What the scan finds speaks for the whole history: the app's own start is newer
\* than every choice of a person.
LEMMA ScanSuffices ==
  ASSUME card.history \in Seq(Entries), AppSetStarted(card.history)
  PROVE  ~PersonDecided(Len(card.history))
<1> DEFINE h == card.history
           n == Len(h)
           routes == {i \in Scanned(h) : h[i].what \in Routings}
           moved == {i \in routes : h[i].what \in StateMoves}
           mine == {i \in 1..n : h[i].by = "app" /\ h[i].what = "start"}
           theirs == {i \in 1..n : h[i].by = "person" /\ h[i].what \in Routings}
<1>1. n \in Nat /\ StateMoves \subseteq Routings /\ Scanned(h) \subseteq 1..n /\ "start" \in StateMoves
  BY DEF Routings, StateMoves, Scanned
<1>2. SubSeq(h, 1, n) = h
  BY <1>1
<1>3. PersonDecided(n) <=> (\/ \E i \in theirs : \A j \in mine : j < i
                            \/ mine = {} /\ card.creator = "person")
  BY <1>2 DEF PersonDecided
<1>4. CASE moved = {}
  <2>1. /\ ReadEnough(h) /\ card.creator = "app" /\ \A i \in routes : h[i].by = "app"
    BY <1>4 DEF AppSetStarted
  <2>2. Newest(h, StateMoves) = 0
    <3> SUFFICES ASSUME Newest(h, StateMoves) # 0 PROVE FALSE
      OBVIOUS
    <3>1. Newest(h, StateMoves) \in 1..n /\ h[Newest(h, StateMoves)].what \in StateMoves
      BY NewestIn
    <3>2. Newest(h, StateMoves) \in Scanned(h)
      BY <3>1, <1>1 DEF Scanned
    <3> QED BY <3>1, <3>2, <1>1, <1>4
  <2>3. 1..n \subseteq Scanned(h)
    BY <2>1, <2>2, <1>1, SweepAssumption DEF ReadEnough, Scanned
  <2>4. theirs = {}
    BY <2>1, <2>3
  <2> QED BY <1>3, <2>1, <2>4
<1>5. CASE moved # {}
  <2>1. PICK m \in moved : /\ \A k \in moved : k =< m
                           /\ h[m].by = "app" /\ h[m].what = "start"
                           /\ \A i \in {i \in routes : i > m} : h[i].by = "app"
    BY <1>5 DEF AppSetStarted
  <2>2. m \in mine /\ m \in 1..n
    BY <2>1, <1>1
  <2>3. ASSUME NEW i \in theirs, \A j \in mine : j < i PROVE FALSE
    <3>1. m < i /\ i \in 1..n
      BY <2>2, <2>3
    <3>2. i \in Scanned(h)
      <4>1. m \in Scanned(h)
        BY <2>1
      <4> QED BY <4>1, <3>1, <2>2, <1>1, NewestIn DEF Scanned
    <3> QED BY <3>1, <3>2, <2>1, <2>3
  <2> QED BY <1>3, <2>2, <2>3
<1> QED BY <1>4, <1>5

\* PersonDecided, of any state of the issue.
DecidedOn(c, n) ==
  LET h == SubSeq(c.history, 1, n)
      mine == {i \in 1..n : h[i].by = "app" /\ h[i].what = "start"}
      theirs == {i \in 1..n : h[i].by = "person" /\ h[i].what \in Routings}
  IN \/ \E i \in theirs : \A j \in mine : j < i
     \/ mine = {} /\ c.creator = "person"

Cards == [creator : People, history : Seq(Entries), delegated : BOOLEAN, quiet : BOOLEAN]

PassSteps == {"idle", "listed", "reads", "exists", "left", "history", "moves", "moved",
              "rechecks", "retires"}
Passes == [at : PassSteps, version : Nat, quiet : BOOLEAN, parks : BOOLEAN, seen : Seq(Entries)]

AboutToWrite(p) == p.at = "moves" \/ (p.at = "retires" /\ p.parks)

\* A pass that is about to write has read a history in which no person's choice
\* was newer than the app's own start.
ReadRight ==
  /\ card \in Cards
  /\ pass \in Passes
  /\ Len(pass.seen) =< Len(card.history)
  /\ AboutToWrite(pass) => ~DecidedOn(card, Len(pass.seen))

\* c is c0 with entries added, if any.
Extends(c, c0) ==
  /\ c.creator = c0.creator
  /\ Len(c.history) >= Len(c0.history)
  /\ \A n \in 0..Len(c0.history) : SubSeq(c.history, 1, n) = SubSeq(c0.history, 1, n)

\* A change of the issue appends to its history.
LEMMA ChangedGrows ==
  ASSUME card \in Cards,
         NEW by \in People, NEW what \in Routings \cup {"comment"}, Changed(by, what)
  PROVE  /\ card' \in Cards /\ Extends(card', card)
         /\ Len(card'.history) = Version + 1
         /\ card'.history[Version + 1] = [by |-> by, what |-> what]
<1> DEFINE e == [by |-> by, what |-> what]
<1>1. e \in Entries
  BY DEF Entries
<1>2. card' = [card EXCEPT !.history = Append(@, e), !.quiet = FALSE,
                           !.delegated = IF what = "delegate" THEN ~@ ELSE @]
  BY DEF Changed
<1>3. /\ card'.history = Append(card.history, e) /\ card.history \in Seq(Entries)
      /\ card'.creator = card.creator
  BY <1>2 DEF Cards
<1> HIDE DEF e
<1>4. Append(card.history, e) \in Seq(Entries)
  BY <1>1, <1>3
<1>5. /\ Len(card'.history) = Version + 1 /\ card'.history[Version + 1] = e
      /\ \A n \in 0..Version : SubSeq(card'.history, 1, n) = SubSeq(card.history, 1, n)
  BY <1>1, <1>3 DEF Version
<1>6. card' \in Cards
  BY <1>2, <1>4 DEF Cards
<1>7. Extends(card', card)
  BY <1>3, <1>5 DEF Extends, Version
<1> QED BY <1>5, <1>6, <1>7 DEF e

\* What was decided before an entry was added stays decided as it was.
LEMMA GrowthDecidesNothing ==
  ASSUME NEW c, NEW c0, Extends(c, c0), NEW n \in 0..Len(c0.history)
  PROVE  DecidedOn(c, n) <=> DecidedOn(c0, n)
BY DEF Extends, DecidedOn

\* The invariant holds after a step that only adds to the history and that does
\* not bring a pass to write.
LEMMA ReadRightStays ==
  ASSUME ReadRight, card' \in Cards, Extends(card', card),
         pass' \in Passes, pass'.seen = <<>> \/ pass'.seen = pass.seen,
         AboutToWrite(pass') => AboutToWrite(pass) /\ pass'.seen = pass.seen
  PROVE  ReadRight'
<1>1. Len(card'.history) \in Nat /\ Len(card.history) \in Nat /\ Len(pass.seen) \in Nat
  BY DEF ReadRight, Cards, Passes
<1>2. Len(card'.history) >= Len(card.history)
  BY DEF Extends
<1>3. Len(pass'.seen) =< Len(card'.history)
  <2>1. CASE pass'.seen = <<>>
    BY <2>1, <1>1
  <2>2. CASE pass'.seen = pass.seen
    <3>1. Len(pass.seen) =< Len(card.history)
      BY DEF ReadRight
    <3> QED BY <2>2, <3>1, <1>1, <1>2
  <2> QED BY <2>1, <2>2
<1>4. ASSUME AboutToWrite(pass') PROVE ~DecidedOn(card', Len(pass'.seen))
  <2>1. AboutToWrite(pass) /\ pass'.seen = pass.seen
    BY <1>4
  <2>2. ~DecidedOn(card, Len(pass.seen)) /\ Len(pass.seen) \in 0..Len(card.history)
    BY <2>1, <1>1 DEF ReadRight
  <2>3. DecidedOn(card', Len(pass.seen)) <=> DecidedOn(card, Len(pass.seen))
    BY <2>2, GrowthDecidesNothing
  <2> QED BY <2>1, <2>2, <2>3
<1> QED BY <1>3, <1>4 DEF ReadRight

\* A history is its own extension.
LEMMA SameHistory ==
  ASSUME card \in Cards
  PROVE  Extends(card, card)
BY DEF Extends, Cards

\* The fields of a pass.
LEMMA PassTyped ==
  ASSUME ReadRight, SweepNext
  PROVE  pass' \in Passes
<1>1. card.history \in Seq(Entries) /\ card.quiet \in BOOLEAN /\ card.delegated \in BOOLEAN
      /\ Version \in Nat /\ pass \in Passes
  BY DEF ReadRight, Cards, Version
<1>2. NoPass \in Passes
  <2>1. <<>> \in Seq(Entries)
    OBVIOUS
  <2> QED BY <2>1 DEF NoPass, Passes, PassSteps
<1>3. CASE pass' = NoPass \/ pass' = pass
  BY <1>3, <1>1, <1>2
<1>4. ASSUME NEW at \in PassSteps, pass' = [pass EXCEPT !.at = at] PROVE pass' \in Passes
  BY <1>4, <1>1 DEF Passes
<1>5. CASE Lists \/ Rechecks
  BY <1>5, <1>1, <1>2 DEF Lists, Rechecks, Passes, PassSteps
<1>6. CASE Discovers \/ Reads \/ MovesToTodo
  BY <1>6, <1>4 DEF Discovers, Reads, MovesToTodo, PassSteps
<1>7. CASE ReadsHistory
  BY <1>7, <1>1 DEF ReadsHistory, Passes, PassSteps
<1>8. CASE RetireReads
  <2>1. PICK b \in BOOLEAN : pass' = [pass EXCEPT !.at = "retires", !.seen = card.history, !.parks = b]
    <3>1. (card.delegated /\ AppSetStarted(card.history)) \in BOOLEAN
      BY Zenon
    <3> QED BY <1>8, <3>1 DEF RetireReads
  <2> QED BY <2>1, <1>1 DEF Passes, PassSteps
<1>9. CASE RetireMoves
  BY <1>9, <1>1 DEF RetireMoves, Passes
<1> QED
  BY <1>3, <1>5, <1>6, <1>7, <1>8, <1>9
  DEF SweepNext, SweepSteps, PersonChanges, HourPasses, TaskCreated, TaskDeleted, Bind, ReportsWork,
      PassesOver, LinkedMeanwhile, Stays, Records, RetiresRow, PassDies

\* Every step but the three reads of the history.
LEMMA ReadRightKept ==
  ASSUME ReadRight, SweepNext
  PROVE  ReadRight'
<1>1. card \in Cards /\ Extends(card, card) /\ pass' \in Passes
  BY SameHistory, PassTyped DEF ReadRight
<1>2. NoPass.seen = <<>> /\ ~AboutToWrite(NoPass)
  BY DEF NoPass, AboutToWrite
\* Steps that leave the issue, and the pass or what it is about to write.
<1>3. ASSUME card' = card, pass' = NoPass \/ pass' = pass PROVE ReadRight'
  BY <1>1, <1>2, <1>3, ReadRightStays
<1>4. ASSUME NEW by \in People, NEW what \in Routings \cup {"comment"}, Changed(by, what),
             pass' = NoPass \/ pass' = pass
      PROVE  ReadRight'
  <2>1. card' \in Cards /\ Extends(card', card)
    BY <1>1, <1>4, ChangedGrows
  <2> QED BY <1>1, <2>1, <1>2, <1>4, ReadRightStays
<1>5. "app" \in People /\ "person" \in People /\ "start" \in Routings /\ "todo" \in Routings
  BY DEF People, Routings, StateMoves
<1>6. CASE PersonChanges
  BY <1>6, <1>4, <1>5 DEF PersonChanges
<1>7. CASE HourPasses
  <2>1. card' = [card EXCEPT !.quiet = TRUE] /\ pass' = pass
    BY <1>7 DEF HourPasses
  <2>2. card' \in Cards /\ card'.history = card.history /\ card'.creator = card.creator
    BY <2>1, <1>1 DEF Cards
  <2>3. Extends(card', card)
    BY <2>2, <1>1 DEF Extends
  <2> QED BY <2>1, <1>1, <2>2, <2>3, ReadRightStays
<1>8. CASE TaskCreated \/ TaskDeleted \/ Bind
  BY <1>8, <1>3 DEF TaskCreated, TaskDeleted, Bind
<1>9. CASE ReportsWork
  BY <1>9, <1>4, <1>5 DEF ReportsWork
<1>10. CASE Lists \/ Rechecks
  <2>1. card' = card /\ pass'.seen = <<>> /\ ~AboutToWrite(pass')
    BY <1>10, <1>2 DEF Lists, Rechecks, NoPass, AboutToWrite
  <2> QED BY <2>1, <1>1, ReadRightStays
<1>11. CASE PassesOver \/ LinkedMeanwhile \/ Records \/ RetiresRow
  BY <1>11, <1>3 DEF PassesOver, LinkedMeanwhile, Stays, Records, RetiresRow
<1>12. CASE Discovers \/ Reads
  <2>1. ASSUME NEW at \in PassSteps, at \notin {"moves", "retires"}, pass' = [pass EXCEPT !.at = at]
        PROVE  pass'.seen = pass.seen /\ ~AboutToWrite(pass')
    BY <2>1 DEF ReadRight, Passes, AboutToWrite
  <2>2. CASE Discovers
    <3> DEFINE to == IF native = "none" THEN "reads" ELSE "exists"
    <3>1. to \in PassSteps \ {"moves", "retires"} /\ pass' = [pass EXCEPT !.at = to] /\ card' = card
      BY <2>2 DEF Discovers, PassSteps
    <3> HIDE DEF to
    <3> QED BY <3>1, <2>1, <1>1, ReadRightStays
  <2>3. CASE Reads
    <3> DEFINE to == IF card.delegated /\ StateOf(card.history) = "start" THEN "history" ELSE "left"
    <3>1. to \in PassSteps \ {"moves", "retires"} /\ pass' = [pass EXCEPT !.at = to] /\ card' = card
      BY <2>3 DEF Reads, PassSteps
    <3> HIDE DEF to
    <3> QED BY <3>1, <2>1, <1>1, ReadRightStays
  <2> QED BY <2>2, <2>3, <1>12
<1>13. ASSUME card' = card, pass'.seen = card.history,
              AboutToWrite(pass') => AppSetStarted(card.history)
       PROVE  ReadRight'
  <2>1. card.history \in Seq(Entries) /\ Len(card.history) \in Nat
    BY <1>1 DEF Cards
  <2>2. AboutToWrite(pass') => ~DecidedOn(card, Len(card.history))
    BY <1>13, <2>1, ScanSuffices DEF PersonDecided, DecidedOn
  <2> QED BY <2>1, <2>2, <1>1, <1>13 DEF ReadRight
<1>14. CASE ReadsHistory
  <2>1. card' = card /\ pass'.seen = card.history
        /\ pass'.at = (IF AppSetStarted(card.history) THEN "moves" ELSE "left")
    BY <1>14 DEF ReadsHistory
  <2> QED BY <2>1, <1>13 DEF AboutToWrite
<1>15. CASE RetireReads
  <2>1. card' = card /\ pass' = [pass EXCEPT !.at = "retires", !.seen = card.history,
                                    !.parks = card.delegated /\ AppSetStarted(card.history)]
    BY <1>15 DEF RetireReads
  <2>2. pass \in Passes
    BY DEF ReadRight
  <2>3. pass'.seen = card.history /\ pass'.at = "retires"
        /\ (pass'.parks <=> card.delegated /\ AppSetStarted(card.history))
    BY <2>1, <2>2, Zenon DEF Passes
  <2> QED BY <2>1, <2>3, <1>13 DEF AboutToWrite
<1>16. CASE MovesToTodo
  <2>1. card' \in Cards /\ Extends(card', card)
    BY <1>16, <1>1, <1>5, ChangedGrows DEF MovesToTodo
  <2>2. pass'.at = "moved" /\ pass'.seen = pass.seen
    BY <1>16 DEF MovesToTodo
  <2> QED BY <1>1, <2>1, <2>2, ReadRightStays DEF AboutToWrite
<1>17. CASE RetireMoves
  <2>1. card' \in Cards /\ Extends(card', card)
    BY <1>17, <1>1, <1>5, ChangedGrows DEF RetireMoves
  <2>2. pass'.seen = pass.seen /\ AboutToWrite(pass)
    BY <1>17 DEF RetireMoves, AboutToWrite
  <2> QED BY <1>1, <2>1, <2>2, ReadRightStays
<1>18. CASE PassDies
  BY <1>18, <1>3, <1>4, <1>5 DEF PassDies
<1> QED
  BY <1>6, <1>7, <1>8, <1>9, <1>10, <1>11, <1>12, <1>14, <1>15, <1>16, <1>17, <1>18
  DEF SweepNext, SweepSteps

\* What the pass writes, and that a decision stays.
LEMMA WriteRespectsPeople ==
  ASSUME ReadRight, SweepNext
  PROVE  /\ (/\ Len(card'.history) > Version
             /\ card'.history[Version + 1] = [by |-> "app", what |-> "todo"])
              => ~PersonDecided(Len(pass.seen))
         /\ \A v \in DOMAIN decided : decided'[v] = decided[v]
<1>1. card \in Cards
  BY DEF ReadRight
<1>2. "app" \in People /\ "person" \in People /\ "start" \in Routings /\ "todo" \in Routings
  BY DEF People, Routings, StateMoves
<1>3. \A v \in DOMAIN decided : decided'[v] = decided[v]
  <2>1. CASE decided' = decided
    BY <2>1
  <2>2. CASE Records
    BY <2>2 DEF Records
  <2> QED
    BY <2>1, <2>2
    DEF SweepNext, SweepSteps, PersonChanges, HourPasses, TaskCreated, TaskDeleted, Bind, ReportsWork,
        Lists, Rechecks, PassesOver, Discovers, Reads, ReadsHistory, LinkedMeanwhile, Stays, MovesToTodo,
        RetireReads, RetireMoves, RetiresRow, PassDies
<1>4. ASSUME Len(card'.history) > Version,
             card'.history[Version + 1] = [by |-> "app", what |-> "todo"]
      PROVE  AboutToWrite(pass)
  <2>1. ASSUME card'.history = card.history PROVE FALSE
    BY <2>1, <1>1, <1>4 DEF Cards, Version
  <2>2. ASSUME NEW by \in People, NEW what \in Routings \cup {"comment"}, Changed(by, what)
        PROVE  by = "app" /\ what = "todo"
    <3>1. card'.history[Version + 1] = [by |-> by, what |-> what]
      BY <1>1, <2>2, ChangedGrows
    <3>2. [by |-> by, what |-> what] = [by |-> "app", what |-> "todo"]
      BY <3>1, <1>4
    <3> QED BY <3>2
  <2>3. CASE PersonChanges
    BY <2>2, <2>3, <1>2 DEF PersonChanges
  <2>4. CASE HourPasses
    <3>1. card' = [card EXCEPT !.quiet = TRUE]
      BY <2>4 DEF HourPasses
    <3> QED BY <3>1, <2>1, <1>1 DEF Cards
  <2>5. CASE ReportsWork
    BY <2>2, <2>5, <1>2 DEF ReportsWork
  <2>6. CASE MovesToTodo \/ RetireMoves
    BY <2>6 DEF MovesToTodo, RetireMoves, AboutToWrite
  <2>7. CASE PassDies
    BY <2>1, <2>7 DEF PassDies, AboutToWrite
  <2>8. CASE card' = card
    BY <2>1, <2>8
  <2> QED
    BY <2>3, <2>4, <2>5, <2>6, <2>7, <2>8
    DEF SweepNext, SweepSteps, TaskCreated, TaskDeleted, Bind, Lists, Rechecks, PassesOver, Discovers,
        Reads, ReadsHistory, LinkedMeanwhile, Stays, Records, RetireReads, RetiresRow
<1>5. AboutToWrite(pass) => ~PersonDecided(Len(pass.seen))
  BY DEF ReadRight, PersonDecided, DecidedOn
<1> QED BY <1>3, <1>4, <1>5

\* The hourly sweep and the recheck send an issue to Todo only over choices of a
\* person that are older than the app's own start, as the pass read them, and
\* decide a version once (_app_set_started_state, bridge.py), for any history,
\* window of the bounded scan and number of failed reads, lost answers and deaths.
THEOREM SweepRespects == SweepSpec => SweepRespectsPeople
<1>1. SweepInit => ReadRight
  <2> SUFFICES ASSUME SweepInit PROVE ReadRight
    OBVIOUS
  <2>1. PICK creator \in People, row \in {"none", "chat", "task"} : SweepIdle(creator, row)
    BY DEF SweepInit
  <2>2. <<>> \in Seq(Entries) /\ Len(<<>>) = 0
    OBVIOUS
  <2>3. card = [creator |-> creator, history |-> <<>>, delegated |-> TRUE, quiet |-> FALSE]
        /\ pass = NoPass
    BY <2>1 DEF SweepIdle
  <2>4. card \in Cards /\ Len(card.history) = 0
    BY <2>2, <2>3 DEF Cards
  <2>5. pass \in Passes /\ ~AboutToWrite(pass) /\ Len(pass.seen) = 0
    BY <2>2, <2>3 DEF NoPass, Passes, PassSteps, AboutToWrite
  <2> QED BY <2>4, <2>5 DEF ReadRight
<1>2. ReadRight /\ [SweepNext]_sweepVars => ReadRight'
  <2>1. ReadRight /\ UNCHANGED sweepVars => ReadRight'
    BY DEF ReadRight, sweepVars
  <2> QED BY <2>1, ReadRightKept
<1>3. ReadRight /\ [SweepNext]_sweepVars =>
        [/\ (/\ Len(card'.history) > Version
             /\ card'.history[Version + 1] = [by |-> "app", what |-> "todo"])
              => ~PersonDecided(Len(pass.seen))
         /\ \A v \in DOMAIN decided : decided'[v] = decided[v]]_sweepVars
  BY WriteRespectsPeople
<1> QED BY <1>1, <1>2, <1>3, PTL DEF SweepSpec, SweepRespectsPeople

-----------------------------------------------------------------------------
(* Reporting: blocks that people made stand.                               *)

\* The kinds of a task's events.
BoardEvents == {"claimed", "completed", "asked", "answered", "reopened", "archived", "parked",
                "released", "resumed"}
Boards == [status : Statuses, log : Seq(BoardEvents)]

\* A pass that decided to unblock found a park of the open-PR guard, closed since.
DecidedRight ==
  pump.pc \in {"decide", "unblock"} =>
    /\ pull = "closed"
    /\ pump.event \in 1..Len(board.log) /\ board.log[pump.event] = "parked"

ParkInv ==
  /\ board \in Boards
  /\ pump = [pc |-> pump.pc, seen |-> pump.seen, batch |-> pump.batch, event |-> pump.event,
             heard |-> pump.heard]
  /\ DecidedRight
  /\ OnlyParksResumed

\* A standing park is a park.
LEMMA StandingIsParked ==
  ASSUME NEW log \in Seq(BoardEvents), StandingPark(log) # 0
  PROVE  StandingPark(log) \in 1..Len(log) /\ log[StandingPark(log)] = "parked"
<1> DEFINE kinds == {"asked", "parked", "answered", "resumed", "released"}
           places == {i \in 1..Len(log) : log[i] \in kinds}
           last == LastOf(kinds, log)
<1>1. last # 0 /\ log[last] = "parked" /\ StandingPark(log) = last
  BY DEF StandingPark
<1>2. places # {}
  BY <1>1 DEF LastOf
<1>3. \E i \in places : \A j \in places : j <= i
  <2>1. places \in SUBSET (1..Len(log)) /\ Len(log) \in Nat
    OBVIOUS
  <2> HIDE DEF places
  <2> QED BY <1>2, <2>1, LastPosition
<1>4. last \in places
  BY <1>2, <1>3 DEF LastOf
<1> QED BY <1>1, <1>4

\* An event of the board that is not the bridge's unblock.
LEMMA HappensKeeps ==
  ASSUME ParkInv, NEW from, NEW kind \in BoardEvents \ {"resumed"}, NEW to \in Statuses,
         Happens(from, kind, to), pull' = pull
  PROVE  ParkInv'
<1>1. board.log \in Seq(BoardEvents) /\ Len(board.log) \in Nat
  BY DEF ParkInv, Boards
<1>2. /\ board' = [status |-> to, log |-> Append(board.log, kind)]
      /\ pump' = pump
  BY DEF Happens
<1>3. board' \in Boards
  BY <1>1, <1>2 DEF Boards
<1>4. /\ board'.log = Append(board.log, kind) /\ Len(board'.log) = Len(board.log) + 1
      /\ board'.log[Len(board.log) + 1] = kind
      /\ \A i \in 1..Len(board.log) : board'.log[i] = board.log[i]
  BY <1>1, <1>2
<1>5. DecidedRight'
  BY <1>1, <1>2, <1>4 DEF ParkInv, DecidedRight
<1>6. OnlyParksResumed'
  BY <1>1, <1>4 DEF ParkInv, OnlyParksResumed
<1> QED BY <1>2, <1>3, <1>5, <1>6 DEF ParkInv

LEMMA ParkKept ==
  ASSUME ParkInv, [ReportingNext]_repVars
  PROVE  ParkInv'
<1> DEFINE Shaped(p) == p = [pc |-> p.pc, seen |-> p.seen, batch |-> p.batch, event |-> p.event,
                             heard |-> p.heard]
<1>1. /\ board.log \in Seq(BoardEvents) /\ Len(board.log) \in Nat /\ board \in Boards
      /\ Shaped(pump)
  BY DEF ParkInv, Boards
\* A step of the pass that does not come to decide.
<1>2. ASSUME UNCHANGED board, pull' = pull \/ pull' = "closed", Shaped(pump)',
             \/ pump' = pump
             \/ pump'.pc \notin {"decide", "unblock"}
             \/ pump'.event = pump.event /\ pump.pc = "decide"
      PROVE  ParkInv'
  BY <1>2 DEF ParkInv, DecidedRight, OnlyParksResumed
<1>3. ASSUME NEW pc, pc \notin {"decide", "unblock"}, NEW seen, NEW batch, NEW event, NEW heard,
             pump' = [pc |-> pc, seen |-> seen, batch |-> batch, event |-> event, heard |-> heard],
             UNCHANGED board, UNCHANGED pull
      PROVE  ParkInv'
  BY <1>2, <1>3
<1>4. CASE UNCHANGED repVars
  BY <1>1, <1>2, <1>4 DEF repVars
<1>5. CASE Board
  <2>1. CASE Claim \/ Complete \/ Ask \/ Answer \/ TaskReopened \/ Archive \/ Park \/ Release
    BY <2>1, HappensKeeps DEF Claim, Complete, Ask, Answer, TaskReopened, Archive, Park, Release,
       BoardEvents, Statuses
  <2>2. CASE PullSettled
    BY <2>2, <1>1, <1>2 DEF PullSettled
  <2> QED BY <1>5, <2>1, <2>2 DEF Board
<1>6. CASE HoldRunsOut \/ Send \/ \E i \in 1..Len(store.rows) : WeekPasses(i)
  <2>1. UNCHANGED <<board, pull, pump>>
    BY <1>6 DEF HoldRunsOut, Send, SendStatus, SendDone, WeekPasses
  <2> QED BY <2>1, <1>1, <1>2
<1>7. CASE Restart
  BY <1>7, <1>3 DEF Restart, Idle
<1>8. CASE Begin \/ ReadHistory
  <2>1. /\ \E seen, batch : \E pc \in {"history", "recheck", "event"} :
              pump' = [pc |-> pc, seen |-> seen, batch |-> batch, event |-> pump.event, heard |-> pump.heard]
        /\ UNCHANGED <<board, pull>>
    <3>1. CASE Begin
      <4>1. pump' = [pump EXCEPT !.pc = "history", !.seen = board.status] /\ UNCHANGED <<board, pull>>
        BY <3>1 DEF Begin
      <4> QED BY <4>1, <1>1
    <3>2. CASE ReadHistory
      <4> DEFINE pc == IF store.cursor = Len(board.log) THEN "recheck" ELSE "event"
      <4>1. pump' = [pump EXCEPT !.batch = Len(board.log), !.pc = pc] /\ UNCHANGED <<board, pull>>
        BY <3>2 DEF ReadHistory
      <4>2. pc \in {"history", "recheck", "event"}
        OBVIOUS
      <4> HIDE DEF pc
      <4>3. pump' = [pc |-> pc, seen |-> pump.seen, batch |-> Len(board.log), event |-> pump.event,
                     heard |-> pump.heard]
        BY <4>1, <1>1
      <4> QED BY <4>1, <4>2, <4>3
    <3> QED BY <1>8, <3>1, <3>2
  <2> QED BY <2>1, <1>3
<1>9. ASSUME NEW n, pump' = Onward(n), UNCHANGED <<board, pull>> PROVE ParkInv'
  <2> DEFINE pc == IF n = pump.batch THEN "recheck" ELSE "event"
  <2>1. pump' = [pump EXCEPT !.pc = pc, !.event = 0, !.heard = "silent"]
    BY <1>9 DEF Onward
  <2>2. pc \notin {"decide", "unblock"}
    OBVIOUS
  <2> HIDE DEF pc
  <2>3. pump' = [pc |-> pc, seen |-> pump.seen, batch |-> pump.batch, event |-> 0, heard |-> "silent"]
    BY <2>1, <1>1
  <2> QED BY <2>2, <2>3, <1>3, <1>9
<1>10. CASE TellEvent \/ FinishStale
  BY <1>9, <1>10 DEF TellEvent, FinishStale
<1>11. CASE FinishWrites
  <2>1. CASE pump' = Idle
    BY <2>1, <1>3, <1>11 DEF FinishWrites, Idle
  <2>2. CASE pump' = Onward(pump.event)
    BY <2>2, <1>9, <1>11 DEF FinishWrites
  <2> QED BY <1>11, <2>1, <2>2 DEF FinishWrites
<1>12. ASSUME NEW pc, pc \notin {"decide", "unblock"}, NEW event, NEW heard,
              pump' = [pump EXCEPT !.pc = pc, !.event = event, !.heard = heard],
              UNCHANGED <<board, pull>>
       PROVE  ParkInv'
  <2>1. pump' = [pc |-> pc, seen |-> pump.seen, batch |-> pump.batch, event |-> event, heard |-> heard]
    BY <1>12, <1>1
  <2> QED BY <2>1, <1>3, <1>12
<1>13. CASE FinishAsks
  <2>1. UNCHANGED <<board, pull>>
    BY <1>13 DEF FinishAsks
  <2>2. PICK heard \in PullAnswers :
          pump' = [pump EXCEPT !.pc = "write", !.event = NextEvent, !.heard = heard]
    BY <1>13 DEF FinishAsks
  <2> HIDE DEF NextEvent
  <2> QED BY <2>1, <2>2, <1>12
<1>14. ASSUME NEW pc, pc \notin {"decide", "unblock"}, pump' = [pump EXCEPT !.pc = pc],
              UNCHANGED <<board, pull>>
       PROVE  ParkInv'
  <2>1. pump' = [pc |-> pc, seen |-> pump.seen, batch |-> pump.batch, event |-> pump.event,
                 heard |-> pump.heard]
    BY <1>14, <1>1
  <2> QED BY <2>1, <1>3, <1>14
<1>15. CASE Recheck
  <2>1. UNCHANGED <<board, pull>>
    BY <1>15 DEF Recheck
  <2>2. \/ pump' = [pump EXCEPT !.pc = "park"]
        \/ \E heard \in PullAnswers :
             pump' = [pump EXCEPT !.pc = "rewrite", !.event = AcceptanceWait, !.heard = heard]
    BY <1>15, Zenon DEF Recheck, Reask, Expire, AskAgain
  <2> QED BY <2>1, <2>2, <1>12, <1>14
<1>16. CASE RecheckWrites
  BY <1>12, <1>16 DEF RecheckWrites
<1>17. CASE ReconcileStatus
  BY <1>3, <1>17 DEF ReconcileStatus, Idle
<1>18. CASE ParkAsks
  <2>1. CASE Resumable
    <3>1. /\ pump' = [pump EXCEPT !.pc = "decide", !.event = StandingPark(board.log)]
          /\ UNCHANGED <<board, pull>> /\ pull = "closed" /\ StandingPark(board.log) # 0
      BY <1>18, <2>1 DEF ParkAsks, Resumable
    <3>2. pump' = [pc |-> "decide", seen |-> pump.seen, batch |-> pump.batch,
                   event |-> StandingPark(board.log), heard |-> pump.heard]
      BY <3>1, <1>1
    <3>3. StandingPark(board.log) \in 1..Len(board.log) /\ board.log[StandingPark(board.log)] = "parked"
      BY <3>1, <1>1, StandingIsParked
    <3>4. DecidedRight'
      BY <3>1, <3>2, <3>3 DEF DecidedRight
    <3> QED BY <3>1, <3>2, <3>4 DEF ParkInv, OnlyParksResumed
  <2>2. CASE ~Resumable
    BY <1>14, <1>18, <2>2 DEF ParkAsks
  <2> QED BY <2>1, <2>2
<1>19. CASE ParkDecides
  <2>1. CASE StillParked(pump.event)
    <3>1. /\ pump' = [pump EXCEPT !.pc = "unblock"] /\ pump.pc = "decide"
          /\ UNCHANGED <<board, pull>>
      BY <1>19, <2>1 DEF ParkDecides
    <3>2. pump' = [pc |-> "unblock", seen |-> pump.seen, batch |-> pump.batch, event |-> pump.event,
                   heard |-> pump.heard]
      BY <3>1, <1>1
    <3> QED BY <3>1, <3>2, <1>2
  <2>2. CASE ~StillParked(pump.event)
    <3>1. pump' = [pump EXCEPT !.pc = "status", !.event = 0] /\ UNCHANGED <<board, pull>>
      BY <1>19, <2>2 DEF ParkDecides
    <3>2. pump' = [pc |-> "status", seen |-> pump.seen, batch |-> pump.batch, event |-> 0,
                   heard |-> pump.heard]
      BY <3>1, <1>1
    <3> QED BY <3>1, <3>2, <1>3
  <2> QED BY <2>1, <2>2
<1>20. CASE ParkUnblocks
  <2>1. /\ pump' = [pump EXCEPT !.pc = "status", !.event = 0] /\ UNCHANGED pull
        /\ pump.pc = "unblock"
    BY <1>20 DEF ParkUnblocks
  <2>2. pump' = [pc |-> "status", seen |-> pump.seen, batch |-> pump.batch, event |-> 0,
                 heard |-> pump.heard]
    BY <2>1, <1>1
  <2>3. CASE UNCHANGED board
    BY <2>1, <2>2, <2>3, <1>3
  <2>4. CASE /\ Accepts(pump.event)
             /\ board' = [status |-> "ready", log |-> Append(board.log, "resumed")]
    <3>1. pull = "closed" /\ pump.event \in 1..Len(board.log) /\ board.log[pump.event] = "parked"
      BY <2>1 DEF ParkInv, DecidedRight
    <3>2. pump.event = Len(board.log)
      BY <2>4 DEF Accepts
    <3>3. board' \in Boards
      BY <1>1, <2>4 DEF Boards, Statuses, BoardEvents
    <3>4. /\ board'.log = Append(board.log, "resumed") /\ Len(board'.log) = Len(board.log) + 1
          /\ \A i \in 1..Len(board.log) : board'.log[i] = board.log[i]
      BY <1>1, <2>4
    <3>5. OnlyParksResumed'
      BY <3>1, <3>2, <3>4, <2>1, <1>1 DEF ParkInv, OnlyParksResumed
    <3> QED BY <2>2, <3>3, <3>5 DEF ParkInv, DecidedRight
  <2> QED BY <1>20, <2>3, <2>4 DEF ParkUnblocks
<1> QED
  BY <1>4, <1>5, <1>6, <1>7, <1>8, <1>10, <1>11, <1>13, <1>15, <1>16, <1>17, <1>18, <1>19, <1>20
  DEF ReportingNext, Pass, Closing

\* The bridge unblocks nothing but a reported park of the open-PR guard whose pull
\* request has closed (_resume_pr_park, bridge.py): for any plot of the task, any
\* number of events, restarts and refused rows.
THEOREM PeoplesBlocksStand == ReportingSpec => []OnlyParksResumed
<1>1. ReportingInit => ParkInv
  <2> SUFFICES ASSUME ReportingInit PROVE ParkInv
    OBVIOUS
  <2>1. board = [status |-> "ready", log |-> <<>>] /\ pump = Idle
    BY DEF ReportingInit, ReportingIdle
  <2>2. <<>> \in Seq(BoardEvents) /\ Len(<<>>) = 0
    OBVIOUS
  <2>3. board \in Boards /\ Len(board.log) = 0
    BY <2>1, <2>2 DEF Boards, Statuses
  <2> QED BY <2>1, <2>3 DEF ParkInv, Idle, DecidedRight, OnlyParksResumed
<1>2. ParkInv /\ [ReportingNext]_repVars => ParkInv'
  BY ParkKept
<1>3. ParkInv => OnlyParksResumed
  BY DEF ParkInv
<1> QED BY <1>1, <1>2, <1>3, PTL DEF ReportingSpec

-----------------------------------------------------------------------------
(* Evidence: a verdict is proven.                                          *)

Attempts == [head : Heads, attempt : Nat, over : BOOLEAN, jobs : [Checks -> JobStates],
             earlier : [Checks -> JobStates]]
Marks == SUBSET (Runs \X Checks)
Meanwhile == [failing : Marks, failed : Marks, passed : Marks, lasting : Marks,
              current : BOOLEAN, closed : BOOLEAN, open : BOOLEAN]
Proofs == [pc : {"idle", "pull", "core", "runs", "jobs", "told"}, head : Heads, open : BOOLEAN,
           changes : Nat, listed : [Runs -> Nat], over : SUBSET Runs, read : SUBSET Runs,
           found : [Runs -> [Checks -> JobStates]],
           verdict : {"none", "accepted", "refused", "waiting", "unread"}]

EvidenceTyped ==
  /\ origin \in [Runs -> {"own", "added", "foreign"}]
  /\ pr \in [state : {"open", "merged", "closed"}, head : Heads]
  /\ runs \in [Runs -> Attempts]
  /\ proof \in Proofs
  /\ during \in Meanwhile
  /\ \A r \in Runs : runs[r].attempt = 0 => \A c \in Checks : runs[r].jobs[c] = "absent"

\* What GitHub shows now agrees with what has held since the proof began.
Observed ==
  proof.pc # "idle" =>
    /\ during.failing \subseteq Failing(runs, proof.head)
    /\ Failing(runs, proof.head) \subseteq during.failed
    /\ Passing(runs, proof.head) \subseteq during.passed
    /\ during.lasting \subseteq Passing(runs, proof.head)
    /\ during.current => Stands(pr, proof.head)
    /\ during.closed => pr.state = "closed"
    /\ during.open => pr.state # "closed"

\* Before the runs are listed nothing is known of them.
NothingYet == (proof.pc \notin {"jobs", "told"}) => proof.listed = [r \in Runs |-> 0] /\ proof.read = {}

\* Listed runs are runs of its head; what the attempt before showed was to be seen
\* when it was the listed one.
ListedRight ==
  \A r \in Runs : proof.listed[r] # 0 =>
    /\ runs[r].head = proof.head /\ proof.listed[r] <= runs[r].attempt
    /\ runs[r].attempt = proof.listed[r] + 1 => \A c \in Checks :
          /\ runs[r].earlier[c] = "failure" => <<r, c>> \in during.failed
          /\ runs[r].earlier[c] = "success" => <<r, c>> \in during.passed

\* What the proof found was there to be read; and a job that has failed, or passed, all
\* along is still of the listed attempt and was read so.
FoundRight ==
  /\ \A r \in proof.read : proof.listed[r] # 0
  /\ \A r \in proof.read, c \in Checks :
       /\ proof.found[r][c] = "success" => <<r, c>> \in during.passed
       /\ proof.found[r][c] = "failure" => <<r, c>> \in during.failed
  /\ proof.pc = "jobs" =>
       \A r \in Runs, c \in Checks :
         /\ <<r, c>> \in during.failing =>
              /\ proof.listed[r] = runs[r].attempt
              /\ r \in proof.read => proof.found[r][c] = "failure"
         /\ <<r, c>> \in during.lasting =>
              /\ proof.listed[r] = runs[r].attempt
              /\ r \in proof.read => proof.found[r][c] = "success"

EvidenceInv ==
  /\ EvidenceTyped /\ Observed /\ NothingYet /\ ListedRight /\ FoundRight
  /\ proof.pc # "told" => proof.verdict = "none"
  /\ AcceptedIsProven /\ FailureIsSaid /\ RefusalIsDeserved

LEMMA EvidenceInvInit ==
  ASSUME EvidenceInit
  PROVE  EvidenceInv
<1>1. NoProof.head \in Heads
  BY EvidenceAssumption DEF NoProof
<1>2. Absent \in [Checks -> JobStates]
  BY DEF Absent, JobStates
<1>3. proof = NoProof
  BY DEF EvidenceInit
<1>4. proof \in Proofs /\ proof.pc = "idle" /\ proof.verdict = "none" /\ proof.read = {}
      /\ proof.listed = [r \in Runs |-> 0]
  <2> HIDE DEF Absent
  <2>1. NoProof.head = CHOOSE h \in Heads : TRUE
    BY DEF NoProof
  <2> QED BY <1>1, <1>2, <1>3, <2>1 DEF Proofs, NoProof
<1>5. pr \in [state : {"open", "merged", "closed"}, head : Heads]
  BY <1>1 DEF EvidenceInit
<1>6. runs \in [Runs -> Attempts]
  BY <1>1 DEF EvidenceInit, Attempts, JobStates
<1>7. EvidenceTyped
  <2>1. during \in Meanwhile
    BY DEF EvidenceInit, NothingMeanwhile, Meanwhile, Marks
  <2>2. ASSUME NEW r \in Runs, runs[r].attempt = 0, NEW c \in Checks
        PROVE  runs[r].jobs[c] = "absent"
    <3>1. Plausible(runs[r])
      BY DEF EvidenceInit
    <3> QED BY <2>2, <3>1 DEF Plausible, Absent
  <2> QED BY <1>4, <1>5, <1>6, <2>1, <2>2, EvidenceAssumption DEF EvidenceTyped, EvidenceInit
<1>8. Observed /\ NothingYet /\ ListedRight /\ FoundRight
  BY <1>4 DEF Observed, NothingYet, ListedRight, FoundRight
<1>9. AcceptedIsProven /\ FailureIsSaid /\ RefusalIsDeserved
  BY <1>4 DEF AcceptedIsProven, FailureIsSaid, RefusalIsDeserved
<1> QED BY <1>4, <1>7, <1>8, <1>9 DEF EvidenceInv

\* What one change does to a run: its attempt goes on, is followed by another, or is its first.
GoesOn(before, after) ==
  after.head = before.head /\ after.attempt = before.attempt /\ after.earlier = before.earlier
RunsAgain(before, after) ==
  /\ after.head = before.head /\ after.attempt = before.attempt + 1 /\ after.earlier = before.jobs
  /\ before.attempt # 0 /\ \A c \in Checks : after.jobs[c] \notin {"success", "failure"}
IsFirst(before, after) ==
  /\ before.attempt = 0 /\ after.attempt = 1
  /\ \A c \in Checks : after.jobs[c] \notin {"success", "failure"}

\* A change on GitHub is remembered in what has held, and the proof keeps what it
\* has read.
LEMMA ChangesKeep ==
  ASSUME EvidenceInv, NEW p \in [state : {"open", "merged", "closed"}, head : Heads],
         NEW all \in [Runs -> Attempts], Changes(p, all),
         \A r \in Runs : \/ GoesOn(runs[r], all[r]) \/ RunsAgain(runs[r], all[r])
                         \/ IsFirst(runs[r], all[r]),
         \A r \in Runs : all[r].attempt = 0 => \A c \in Checks : all[r].jobs[c] = "absent"
  PROVE  EvidenceInv'
<1>1. /\ proof.pc \notin {"idle", "told"} /\ pr' = p /\ runs' = all /\ origin' = origin
      /\ proof' = [proof EXCEPT !.changes = @ + 1]
      /\ during' = [failing |-> during.failing \cap Failing(all, proof.head),
                    failed |-> during.failed \cup Failing(all, proof.head),
                    passed |-> during.passed \cup Passing(all, proof.head),
                    lasting |-> during.lasting \cap Passing(all, proof.head),
                    current |-> during.current /\ Stands(p, proof.head),
                    closed |-> during.closed /\ p.state = "closed",
                    open |-> during.open /\ p.state # "closed"]
  BY DEF Changes
<1>2. /\ proof \in Proofs /\ origin \in [Runs -> {"own", "added", "foreign"}]
      /\ during \in Meanwhile /\ runs \in [Runs -> Attempts]
      /\ Observed /\ NothingYet /\ ListedRight /\ FoundRight
      /\ proof.pc # "told" => proof.verdict = "none"
  BY DEF EvidenceInv, EvidenceTyped
<1>3. /\ proof' \in Proofs /\ proof'.pc = proof.pc /\ proof'.head = proof.head
      /\ proof'.listed = proof.listed /\ proof'.read = proof.read /\ proof'.found = proof.found
      /\ proof'.verdict = proof.verdict
  <2>1. PICK n \in Nat : proof' = [proof EXCEPT !.changes = n]
    <3>1. proof.changes \in Nat
      BY <1>2 DEF Proofs
    <3> QED BY SMTT(20), <1>1, <3>1
  <2> QED BY <1>2, <2>1 DEF Proofs
<1>4. /\ during'.failing = during.failing \cap Failing(all, proof.head)
      /\ during'.failed = during.failed \cup Failing(all, proof.head)
      /\ during'.passed = during.passed \cup Passing(all, proof.head)
      /\ during'.lasting = during.lasting \cap Passing(all, proof.head)
      /\ during'.current <=> during.current /\ Stands(p, proof.head)
      /\ during'.closed <=> during.closed /\ p.state = "closed"
      /\ during'.open <=> during.open /\ p.state # "closed"
  BY <1>1
<1>5. EvidenceTyped'
  <2>1. Passing(all, proof.head) \in Marks /\ Failing(all, proof.head) \in Marks
    BY DEF Passing, Failing, Marks
  <2>2. during' \in Meanwhile
    <3>1. /\ (during.current /\ Stands(p, proof.head)) \in BOOLEAN
          /\ (during.closed /\ p.state = "closed") \in BOOLEAN
          /\ (during.open /\ p.state # "closed") \in BOOLEAN
      BY Zenon
    <3>2. /\ during.failing \cap Failing(all, proof.head) \in Marks
          /\ during.failed \cup Failing(all, proof.head) \in Marks
          /\ during.passed \cup Passing(all, proof.head) \in Marks
          /\ during.lasting \cap Passing(all, proof.head) \in Marks
      <4>1. /\ during.failing \in Marks /\ during.failed \in Marks
            /\ during.passed \in Marks /\ during.lasting \in Marks
        BY <1>2 DEF Meanwhile
      <4> QED BY <2>1, <4>1 DEF Marks
    <3> QED BY <1>1, <3>1, <3>2 DEF Meanwhile
  <2> QED BY <1>1, <1>2, <1>3, <2>2 DEF EvidenceTyped
<1>6. Observed'
  BY <1>1, <1>2, <1>3, <1>4 DEF Observed
<1>7. NothingYet'
  BY <1>2, <1>3 DEF NothingYet
<1>r. ASSUME NEW r \in Runs
      PROVE  /\ runs[r].attempt \in Nat /\ all[r].attempt \in Nat /\ proof.listed[r] \in Nat
             /\ GoesOn(runs[r], all[r]) \/ RunsAgain(runs[r], all[r]) \/ IsFirst(runs[r], all[r])
  BY <1>2 DEF Attempts, Proofs
<1>8. ListedRight'
  <2>1. ASSUME NEW r \in Runs, proof.listed[r] # 0
        PROVE  /\ all[r].head = proof.head /\ proof.listed[r] <= all[r].attempt
               /\ all[r].attempt = proof.listed[r] + 1 => \A c \in Checks :
                     /\ all[r].earlier[c] = "failure" => <<r, c>> \in during'.failed
                     /\ all[r].earlier[c] = "success" => <<r, c>> \in during'.passed
    <3>1. /\ runs[r].head = proof.head /\ proof.listed[r] <= runs[r].attempt
          /\ runs[r].attempt = proof.listed[r] + 1 => \A c \in Checks :
                /\ runs[r].earlier[c] = "failure" => <<r, c>> \in during.failed
                /\ runs[r].earlier[c] = "success" => <<r, c>> \in during.passed
      BY <1>2, <2>1 DEF ListedRight
    <3>2. CASE GoesOn(runs[r], all[r])
      BY <1>4, <3>1, <3>2 DEF GoesOn
    <3>3. CASE RunsAgain(runs[r], all[r])
      <4>1. ASSUME all[r].attempt = proof.listed[r] + 1, NEW c \in Checks
            PROVE  /\ all[r].earlier[c] = "failure" => <<r, c>> \in during.failed
                   /\ all[r].earlier[c] = "success" => <<r, c>> \in during.passed
        <5>1. /\ runs[r].jobs[c] = "failure" => <<r, c>> \in Failing(runs, proof.head)
              /\ runs[r].jobs[c] = "success" => <<r, c>> \in Passing(runs, proof.head)
          BY <3>1 DEF Failing, Passing
        <5> QED BY <1>1, <1>2, <3>3, <5>1 DEF RunsAgain, Observed
      <4> QED BY <1>r, <1>4, <3>1, <3>3, <4>1 DEF RunsAgain
    <3>4. CASE IsFirst(runs[r], all[r])
      BY <1>r, <2>1, <3>1, <3>4 DEF IsFirst
    <3> QED BY <1>r, <3>2, <3>3, <3>4
  <2> QED BY <1>1, <1>3, <2>1 DEF ListedRight
<1>9. FoundRight'
  <2>1. ASSUME NEW r \in Runs, NEW c \in Checks, all[r].jobs[c] \in {"success", "failure"}
        PROVE  all[r].attempt = runs[r].attempt
    BY <1>r, <2>1 DEF GoesOn, RunsAgain, IsFirst
  <2>2. \A r \in proof'.read : proof'.listed[r] # 0
    BY <1>2, <1>3 DEF FoundRight
  <2>3. \A r \in proof'.read, c \in Checks :
          /\ proof'.found[r][c] = "success" => <<r, c>> \in during'.passed
          /\ proof'.found[r][c] = "failure" => <<r, c>> \in during'.failed
    <3>1. during.passed \subseteq during'.passed /\ during.failed \subseteq during'.failed
      BY <1>4
    <3>2. \A r \in proof.read, c \in Checks :
            /\ proof.found[r][c] = "success" => <<r, c>> \in during.passed
            /\ proof.found[r][c] = "failure" => <<r, c>> \in during.failed
      BY <1>2 DEF FoundRight
    <3> QED BY <1>3, <3>1, <3>2
  <2>4. ASSUME proof'.pc = "jobs", NEW r \in Runs, NEW c \in Checks, <<r, c>> \in during'.failing
        PROVE  /\ proof'.listed[r] = runs'[r].attempt
               /\ r \in proof'.read => proof'.found[r][c] = "failure"
    <3>1. <<r, c>> \in during.failing /\ all[r].jobs[c] = "failure"
      BY <1>4, <2>4 DEF Failing
    <3>2. all[r].attempt = runs[r].attempt
      BY <2>1, <3>1
    <3>3. /\ proof.listed[r] = runs[r].attempt
          /\ r \in proof.read => proof.found[r][c] = "failure"
      BY <3>1, <1>2, <1>3, <2>4 DEF FoundRight
    <3> QED BY <1>1, <1>3, <3>2, <3>3
  <2>5. ASSUME proof'.pc = "jobs", NEW r \in Runs, NEW c \in Checks, <<r, c>> \in during'.lasting
        PROVE  /\ proof'.listed[r] = runs'[r].attempt
               /\ r \in proof'.read => proof'.found[r][c] = "success"
    <3>1. <<r, c>> \in during.lasting /\ all[r].jobs[c] = "success"
      BY <1>4, <2>5 DEF Passing
    <3>2. all[r].attempt = runs[r].attempt
      BY <2>1, <3>1
    <3>3. /\ proof.listed[r] = runs[r].attempt
          /\ r \in proof.read => proof.found[r][c] = "success"
      BY <3>1, <1>2, <1>3, <2>5 DEF FoundRight
    <3> QED BY <1>1, <1>3, <3>2, <3>3
  <2> QED BY <2>2, <2>3, <2>4, <2>5 DEF FoundRight
<1>10. proof'.verdict = "none"
  BY <1>1, <1>2, <1>3
<1> QED
  BY <1>5, <1>6, <1>7, <1>8, <1>9, <1>10
  DEF EvidenceInv, AcceptedIsProven, FailureIsSaid, RefusalIsDeserved

\* One run changes.
LEMMA RunKeeps ==
  ASSUME EvidenceInv, NEW r \in Runs, NEW run \in Attempts, Changes(pr, [runs EXCEPT ![r] = run]),
         GoesOn(runs[r], run) \/ RunsAgain(runs[r], run) \/ IsFirst(runs[r], run),
         run.attempt = 0 => \A c \in Checks : run.jobs[c] = "absent"
  PROVE  EvidenceInv'
<1> DEFINE all == [runs EXCEPT ![r] = run]
<1>1. /\ pr \in [state : {"open", "merged", "closed"}, head : Heads]
      /\ runs \in [Runs -> Attempts]
      /\ \A q \in Runs : runs[q].attempt = 0 => \A c \in Checks : runs[q].jobs[c] = "absent"
  BY DEF EvidenceInv, EvidenceTyped
<1>2. /\ all \in [Runs -> Attempts] /\ all[r] = run
      /\ \A q \in Runs \ {r} : all[q] = runs[q]
  <2> HIDE DEF Attempts
  <2> QED BY <1>1
<1>3. Changes(pr, all)
  OBVIOUS
<1> HIDE DEF all
<1>4. \A q \in Runs : GoesOn(runs[q], all[q]) \/ RunsAgain(runs[q], all[q]) \/ IsFirst(runs[q], all[q])
  BY <1>2 DEF GoesOn
<1>5. \A q \in Runs : all[q].attempt = 0 => \A c \in Checks : all[q].jobs[c] = "absent"
  BY <1>1, <1>2
<1> QED BY <1>1, <1>2, <1>3, <1>4, <1>5, ChangesKeep

LEMMA GitHubKeeps ==
  ASSUME EvidenceInv, GitHub
  PROVE  EvidenceInv'
<1>1. /\ pr \in [state : {"open", "merged", "closed"}, head : Heads]
      /\ runs \in [Runs -> Attempts]
      /\ \A r \in Runs : runs[r].attempt = 0 => \A c \in Checks : runs[r].jobs[c] = "absent"
  BY DEF EvidenceInv, EvidenceTyped
<1>2. ASSUME NEW p \in [state : {"open", "merged", "closed"}, head : Heads], Changes(p, runs)
      PROVE  EvidenceInv'
  <2>1. \A r \in Runs : GoesOn(runs[r], runs[r])
    BY DEF GoesOn
  <2> QED BY <1>1, <1>2, <2>1, ChangesKeep
<1>3. CASE Push
  <2>1. PICK h \in Heads : pr.state = "open" /\ Changes([pr EXCEPT !.head = h], runs)
    BY <1>3 DEF Push
  <2>2. [pr EXCEPT !.head = h] \in [state : {"open", "merged", "closed"}, head : Heads]
    BY <1>1
  <2> QED BY <2>1, <2>2, <1>2
<1>4. CASE Merge \/ Close \/ Reopen
  <2>1. PICK state \in {"open", "merged", "closed"} : Changes([pr EXCEPT !.state = state], runs)
    BY <1>4 DEF Merge, Close, Reopen
  <2>2. [pr EXCEPT !.state = state] \in [state : {"open", "merged", "closed"}, head : Heads]
    BY <1>1
  <2> QED BY <2>1, <2>2, <1>2
<1>5. ASSUME NEW r \in Runs, JobEnds(r) PROVE EvidenceInv'
  <2>1. PICK c \in Checks, s \in {"success", "failure"} :
          runs[r].jobs[c] = "running" /\ Changes(pr, [runs EXCEPT ![r].jobs[c] = s])
    BY <1>5 DEF JobEnds
  <2> DEFINE run == [runs[r] EXCEPT !.jobs[c] = s]
  <2>2. run \in Attempts /\ GoesOn(runs[r], run) /\ run.attempt = runs[r].attempt
    BY <1>1 DEF Attempts, JobStates, GoesOn
  <2>3. runs[r].attempt # 0
    BY <1>1, <2>1
  <2>4. [runs EXCEPT ![r].jobs[c] = s] = [runs EXCEPT ![r] = run]
    OBVIOUS
  <2>5. Changes(pr, [runs EXCEPT ![r] = run])
    BY Zenon, <2>1, <2>4
  <2> HIDE DEF run
  <2> QED BY <2>2, <2>3, <2>5, RunKeeps
<1>6. ASSUME NEW r \in Runs, RunEnds(r) PROVE EvidenceInv'
  <2> DEFINE run == [runs[r] EXCEPT !.over = TRUE]
  <2>1. run \in Attempts /\ GoesOn(runs[r], run) /\ run.attempt = runs[r].attempt /\ run.jobs = runs[r].jobs
    BY <1>1 DEF Attempts, GoesOn
  <2>2. [runs EXCEPT ![r].over = TRUE] = [runs EXCEPT ![r] = run]
    OBVIOUS
  <2>3. Changes(pr, [runs EXCEPT ![r] = run])
    BY Zenon, <1>6, <2>2 DEF RunEnds
  <2> HIDE DEF run
  <2> QED BY <1>1, <2>1, <2>3, RunKeeps
<1>7. ASSUME NEW r \in Runs, Rerun(r) PROVE EvidenceInv'
  <2> DEFINE again == [c \in Checks |-> IF runs[r].jobs[c] = "absent" THEN "absent" ELSE "running"]
             run == [runs[r] EXCEPT !.attempt = @ + 1, !.over = FALSE, !.earlier = runs[r].jobs,
                                    !.jobs = again]
  <2>1. again \in [Checks -> JobStates] /\ \A c \in Checks : again[c] \notin {"success", "failure"}
    <3>1. \A c \in Checks : again[c] = "absent" \/ again[c] = "running"
      OBVIOUS
    <3> QED BY <3>1 DEF JobStates
  <2>2. runs[r].attempt # 0 /\ Changes(pr, [runs EXCEPT ![r] = run])
    <3>1. [runs EXCEPT ![r].attempt = @ + 1, ![r].over = FALSE, ![r].earlier = runs[r].jobs,
                       ![r].jobs = [c \in Checks |-> IF @[c] = "absent" THEN "absent" ELSE "running"]]
            = [runs EXCEPT ![r] = run]
      BY <1>1
    <3> QED BY Zenon, <1>7, <3>1 DEF Rerun
  <2> HIDE DEF again
  <2>3. run \in Attempts /\ RunsAgain(runs[r], run) /\ run.attempt # 0
    <3>1. runs[r] \in Attempts
      BY <1>1
    <3>2. PICK n \in Nat \ {0} : n = runs[r].attempt + 1
      BY <3>1 DEF Attempts
    <3>3. run = [runs[r] EXCEPT !.attempt = n, !.over = FALSE, !.earlier = runs[r].jobs, !.jobs = again]
      BY <3>1, <3>2 DEF Attempts
    <3>4. run \in Attempts
      BY <2>1, <3>1, <3>3 DEF Attempts
    <3>5. /\ run.head = runs[r].head /\ run.attempt = n /\ run.earlier = runs[r].jobs
          /\ run.jobs = again
      BY <3>1, <3>3 DEF Attempts
    <3> HIDE DEF run
    <3> QED BY <2>1, <2>2, <3>2, <3>4, <3>5 DEF RunsAgain
  <2> HIDE DEF run
  <2> QED BY <2>2, <2>3, RunKeeps
<1>8. ASSUME NEW r \in Runs, Starts(r) PROVE EvidenceInv'
  <2>1. PICK some \in SUBSET Checks :
          Changes(pr, [runs EXCEPT ![r].attempt = 1, ![r].over = FALSE, ![r].head = pr.head,
                         ![r].jobs = [c \in Checks |-> IF c \in some THEN "running" ELSE "absent"]])
    BY <1>8 DEF Starts
  <2> DEFINE first == [c \in Checks |-> IF c \in some THEN "running" ELSE "absent"]
             run == [runs[r] EXCEPT !.attempt = 1, !.over = FALSE, !.head = pr.head, !.jobs = first]
  <2>2. first \in [Checks -> JobStates] /\ \A c \in Checks : first[c] \notin {"success", "failure"}
    BY DEF JobStates
  <2>3. Changes(pr, [runs EXCEPT ![r] = run])
    <3>1. [runs EXCEPT ![r].attempt = 1, ![r].over = FALSE, ![r].head = pr.head,
                       ![r].jobs = [c \in Checks |-> IF c \in some THEN "running" ELSE "absent"]]
            = [runs EXCEPT ![r] = run]
      BY <1>1
    <3> QED BY Zenon, <2>1, <3>1
  <2> HIDE DEF first
  <2>4. run \in Attempts /\ IsFirst(runs[r], run) /\ run.attempt # 0
    <3>1. runs[r] \in Attempts /\ runs[r].attempt = 0 /\ pr.head \in Heads
      BY <1>1, <1>8 DEF Starts
    <3>2. run \in Attempts /\ run.attempt = 1 /\ run.jobs = first
      BY <2>2, <3>1 DEF Attempts
    <3> HIDE DEF run
    <3> QED BY <2>2, <3>1, <3>2 DEF IsFirst
  <2> HIDE DEF run
  <2> QED BY <2>3, <2>4, RunKeeps
<1> QED BY <1>3, <1>4, <1>5, <1>6, <1>7, <1>8 DEF GitHub

\* The proof begins: what has held is what GitHub shows.
LEMMA ProveKeeps ==
  ASSUME EvidenceInv, Prove
  PROVE  EvidenceInv'
<1>1. PICK pc \in {"pull", "core"} : proof' = [proof EXCEPT !.pc = pc, !.head = pr.head]
  BY DEF Prove
<1>2. /\ proof.pc = "idle" /\ UNCHANGED <<origin, pr, runs>>
      /\ during' = [failing |-> Failing(runs, pr.head), failed |-> Failing(runs, pr.head),
                    passed |-> Passing(runs, pr.head), lasting |-> Passing(runs, pr.head),
                    current |-> Stands(pr, pr.head), closed |-> pr.state = "closed",
                    open |-> pr.state # "closed"]
  BY DEF Prove
<1>3. EvidenceTyped /\ proof.verdict = "none" /\ proof.read = {} /\ proof.listed = [r \in Runs |-> 0]
  BY <1>2 DEF EvidenceInv, NothingYet
<1>4. /\ proof' \in Proofs /\ proof'.pc = pc /\ proof'.head = pr.head /\ proof'.verdict = "none"
      /\ proof'.read = {} /\ proof'.listed = [r \in Runs |-> 0]
  BY <1>1, <1>3 DEF EvidenceTyped, Proofs
<1>5. EvidenceTyped'
  <2>1. /\ Stands(pr, pr.head) \in BOOLEAN /\ (pr.state = "closed") \in BOOLEAN
        /\ (pr.state # "closed") \in BOOLEAN
    BY Zenon DEF Stands
  <2>2. Failing(runs, pr.head) \in Marks /\ Passing(runs, pr.head) \in Marks
    BY DEF Failing, Passing, Marks
  <2>3. during' \in Meanwhile
    BY <1>2, <2>1, <2>2 DEF Meanwhile
  <2> QED BY <1>2, <1>3, <1>4, <2>3 DEF EvidenceTyped
<1>6. Observed'
  <2>1. /\ during'.failing = Failing(runs, pr.head) /\ during'.failed = Failing(runs, pr.head)
        /\ during'.passed = Passing(runs, pr.head) /\ during'.lasting = Passing(runs, pr.head)
        /\ during'.current <=> Stands(pr, pr.head)
        /\ during'.closed <=> pr.state = "closed"
        /\ during'.open <=> pr.state # "closed"
    BY <1>2
  <2> QED BY <1>2, <1>4, <2>1 DEF Observed
<1>7. NothingYet' /\ ListedRight' /\ FoundRight'
  BY <1>4 DEF NothingYet, ListedRight, FoundRight
<1> QED BY <1>4, <1>5, <1>6, <1>7 DEF EvidenceInv, AcceptedIsProven, FailureIsSaid, RefusalIsDeserved

\* The proof ends with a verdict.
LEMMA ToldKeeps ==
  ASSUME EvidenceInv, UNCHANGED <<origin, pr, runs, during>>, proof.pc # "idle",
         NEW verdict \in {"accepted", "refused", "waiting", "unread"}, proof' = Told(verdict),
         verdict = "accepted" =>
           /\ Stands(pr, proof.head) /\ ~during.closed /\ during.failing = {}
           /\ \A c \in Checks : \E r \in Runs : origin[r] = "own" /\ <<r, c>> \in during.passed,
         verdict = "waiting" =>
           /\ ~during.closed
           /\ during.current => \A rc \in during.failing : rc[1] \notin proof.read,
         verdict = "refused" =>
           \/ ~during.open \/ during.failed # {}
           \/ \E c \in Checks : \A r \in Runs : origin[r] = "own" => <<r, c>> \notin during.lasting
  PROVE  EvidenceInv'
<1>1. proof \in Proofs
  BY DEF EvidenceInv, EvidenceTyped
<1>2. /\ proof' \in Proofs /\ proof'.pc = "told" /\ proof'.head = proof.head
      /\ proof'.listed = proof.listed /\ proof'.read = proof.read /\ proof'.found = proof.found
      /\ proof'.verdict = verdict
  BY <1>1 DEF Proofs, Told
<1>3. EvidenceTyped'
  BY <1>2 DEF EvidenceInv, EvidenceTyped
<1>4. Observed' /\ NothingYet' /\ ListedRight' /\ FoundRight'
  <2>1. Observed'
    BY <1>2 DEF EvidenceInv, Observed
  <2>2. NothingYet'
    BY <1>2 DEF NothingYet
  <2>3. ListedRight'
    BY <1>2 DEF EvidenceInv, ListedRight
  <2>4. FoundRight'
    BY <1>2 DEF EvidenceInv, FoundRight
  <2> QED BY <2>1, <2>2, <2>3, <2>4
<1>5. AcceptedIsProven' /\ FailureIsSaid' /\ RefusalIsDeserved'
  BY <1>2 DEF AcceptedIsProven, FailureIsSaid, RefusalIsDeserved, Stands
<1> QED BY <1>2, <1>3, <1>4, <1>5 DEF EvidenceInv

\* The reads before the verdict.
LEMMA ReadsKeep ==
  ASSUME EvidenceInv, ReadClosed \/ ReadPull \/ ListRuns \/ ReadFails \/ (\E r \in Runs : ReadJobs(r))
  PROVE  EvidenceInv'
<1>1. /\ proof \in Proofs /\ runs \in [Runs -> Attempts]
      /\ EvidenceTyped /\ Observed /\ NothingYet /\ ListedRight /\ FoundRight
      /\ proof.pc # "told" => proof.verdict = "none"
  BY DEF EvidenceInv, EvidenceTyped
<1>2. ASSUME proof.pc \in {"core", "pull"}, proof' = Told("waiting"),
             UNCHANGED <<origin, pr, runs, during>>, pr.state # "closed"
      PROVE  EvidenceInv'
  <2>1. proof.read = {} /\ ~during.closed
    BY <1>1, <1>2 DEF NothingYet, Observed
  <2> QED BY <1>2, <2>1, ToldKeeps
<1>3. ASSUME proof.pc # "idle", proof' = Told("refused"), UNCHANGED <<origin, pr, runs, during>>,
             pr.state = "closed"
      PROVE  EvidenceInv'
  <2>1. ~during.open
    BY <1>1, <1>3 DEF Observed
  <2> QED BY <1>3, <2>1, ToldKeeps
<1>4. CASE ReadClosed
  <2>1. proof.pc = "core" /\ UNCHANGED <<origin, pr, runs, during>>
        /\ proof' = Told(IF pr.state = "closed" THEN "refused" ELSE "waiting")
    BY <1>4 DEF ReadClosed
  <2>2. CASE pr.state = "closed"
    BY <2>1, <2>2, <1>3
  <2>3. CASE pr.state # "closed"
    BY <2>1, <2>3, <1>2
  <2> QED BY <2>2, <2>3
<1>5. CASE ReadFails
  BY <1>5, ToldKeeps DEF ReadFails
<1>6. CASE ReadPull
  <2>1. /\ proof.pc = "pull" /\ UNCHANGED <<origin, pr, runs, during>>
        /\ proof' = IF Refusal # "none" THEN Told(Refusal)
                    ELSE [proof EXCEPT !.pc = "runs", !.open = pr.state = "open"]
    BY <1>6 DEF ReadPull
  <2>2. CASE Refusal = "refused"
    <3>1. pr.state = "closed"
      BY <2>2 DEF Refusal
    <3> QED BY <2>1, <2>2, <3>1, <1>3
  <2>3. CASE Refusal = "waiting"
    <3>1. pr.state # "closed"
      BY <2>3 DEF Refusal
    <3> QED BY <2>1, <2>3, <3>1, <1>2
  <2>4. CASE Refusal = "none"
    <3>1. PICK open \in BOOLEAN : proof' = [proof EXCEPT !.pc = "runs", !.open = open]
      <4>1. (pr.state = "open") \in BOOLEAN
        BY Zenon
      <4> QED BY <2>1, <2>4, <4>1
    <3>2. /\ proof' \in Proofs /\ proof'.pc = "runs" /\ proof'.head = proof.head
          /\ proof'.listed = proof.listed /\ proof'.read = proof.read /\ proof'.found = proof.found
          /\ proof'.verdict = proof.verdict
      BY <1>1, <3>1 DEF Proofs
    <3>3. EvidenceTyped'
      BY <1>1, <2>1, <3>2 DEF EvidenceTyped
    <3>4. Observed'
      BY <1>1, <2>1, <3>2 DEF Observed
    <3>5. NothingYet' /\ ListedRight' /\ FoundRight'
      BY <1>1, <2>1, <3>2 DEF NothingYet, ListedRight, FoundRight
    <3>6. proof'.verdict = "none"
      BY <1>1, <2>1, <3>2
    <3> QED BY <3>3, <3>4, <3>5, <3>6 DEF EvidenceInv, AcceptedIsProven, FailureIsSaid, RefusalIsDeserved
  <2> QED BY <2>2, <2>3, <2>4 DEF Refusal
<1>7. CASE ListRuns
  <2> DEFINE now == [r \in Runs |-> IF OnHead(r) THEN runs[r].attempt ELSE 0]
             ended == {r \in Runs : OnHead(r) /\ runs[r].over}
  <2>1. /\ proof.pc = "runs" /\ UNCHANGED <<origin, pr, runs, during>>
        /\ proof' = [proof EXCEPT !.pc = "jobs", !.listed = now, !.over = ended]
    BY <1>7 DEF ListRuns
  <2>2. now \in [Runs -> Nat] /\ ended \in SUBSET Runs
    <3>1. \A r \in Runs : runs[r].attempt \in Nat
      BY <1>1 DEF Attempts
    <3> QED BY <3>1
  <2>3. \A r \in Runs : /\ now[r] # 0 => runs[r].head = proof.head /\ now[r] = runs[r].attempt
                        /\ runs[r].head = proof.head => now[r] = runs[r].attempt
    BY DEF OnHead
  <2> HIDE DEF now, ended
  <2>4. /\ proof' \in Proofs /\ proof'.pc = "jobs" /\ proof'.head = proof.head
        /\ proof'.listed = now /\ proof'.read = proof.read /\ proof'.found = proof.found
        /\ proof'.verdict = proof.verdict
    BY <1>1, <2>1, <2>2 DEF Proofs
  <2>5. proof.read = {}
    BY <1>1, <2>1 DEF NothingYet
  <2>6. EvidenceTyped'
    BY <1>1, <2>1, <2>4 DEF EvidenceTyped
  <2>7. Observed'
    BY <1>1, <2>1, <2>4 DEF Observed
  <2>8. \A r \in Runs, c \in Checks : <<r, c>> \in during.failing \cup during.lasting =>
          runs[r].head = proof.head
    BY <1>1, <2>1 DEF Observed, Failing, Passing
  <2>9. FoundRight'
    BY <2>1, <2>3, <2>4, <2>5, <2>8 DEF FoundRight
  <2>10. ListedRight'
    <3>1. \A r \in Runs : runs[r].attempt \in Nat
      BY <1>1 DEF Attempts
    <3> QED BY <2>1, <2>3, <2>4, <3>1 DEF ListedRight
  <2>11. NothingYet' /\ proof'.verdict = "none"
    BY <1>1, <2>1, <2>4 DEF NothingYet
  <2> QED BY <2>6, <2>7, <2>9, <2>10, <2>11 DEF EvidenceInv, AcceptedIsProven, FailureIsSaid, RefusalIsDeserved
<1>8. ASSUME NEW r \in Runs, ReadJobs(r) PROVE EvidenceInv'
  <2>0. PICK before \in BOOLEAN : proof' = [proof EXCEPT !.read = @ \cup {r}, !.found[r] = Read(r, before)]
    BY Zenon, <1>8 DEF ReadJobs
  <2> DEFINE jobs == Read(r, before)
  <2>1. /\ proof.pc = "jobs" /\ proof.listed[r] # 0 /\ UNCHANGED <<origin, pr, runs, during>>
        /\ proof' = [proof EXCEPT !.read = @ \cup {r}, !.found[r] = jobs]
    BY <1>8, <2>0 DEF ReadJobs, Listed
  <2>2. /\ jobs \in [Checks -> JobStates]
        /\ runs[r].attempt = proof.listed[r] => jobs = runs[r].jobs
        /\ \/ jobs = runs[r].jobs \/ jobs = Absent
           \/ runs[r].attempt = proof.listed[r] + 1 /\ jobs = runs[r].earlier
    <3>1. Absent \in [Checks -> JobStates]
      BY DEF Absent, JobStates
    <3> HIDE DEF Absent
    <3>2. runs[r].jobs \in [Checks -> JobStates] /\ runs[r].earlier \in [Checks -> JobStates]
      BY <1>1 DEF Attempts
    <3>3. jobs = IF runs[r].attempt = proof.listed[r] THEN runs[r].jobs
                 ELSE IF before /\ runs[r].attempt = proof.listed[r] + 1 THEN runs[r].earlier ELSE Absent
      BY Zenon DEF Read
    <3> HIDE DEF jobs
    <3>4. /\ runs[r].attempt = proof.listed[r] => jobs = runs[r].jobs
          /\ \/ jobs = runs[r].jobs \/ jobs = Absent
             \/ runs[r].attempt = proof.listed[r] + 1 /\ jobs = runs[r].earlier
      BY Zenon, <3>3
    <3> QED BY <3>1, <3>2, <3>4
  <2> HIDE DEF jobs
  <2>3. /\ proof' \in Proofs /\ proof'.pc = "jobs" /\ proof'.head = proof.head
        /\ proof'.listed = proof.listed /\ proof'.read = proof.read \cup {r}
        /\ proof'.found = [proof.found EXCEPT ![r] = jobs]
        /\ proof'.verdict = proof.verdict
    BY <1>1, <2>1, <2>2 DEF Proofs
  <2>4. /\ proof'.found[r] = jobs
        /\ \A q \in Runs \ {r} : proof'.found[q] = proof.found[q]
    BY <1>1, <2>3 DEF Proofs
  <2>5. EvidenceTyped'
    BY <1>1, <2>1, <2>3 DEF EvidenceTyped
  <2>6. Observed'
    BY <1>1, <2>1, <2>3 DEF Observed
  <2>7. NothingYet' /\ proof'.verdict = "none"
    BY <1>1, <2>1, <2>3 DEF NothingYet
  <2>8. ListedRight'
    BY <1>1, <2>1, <2>3 DEF ListedRight
  <2>9. \A c \in Checks : /\ jobs[c] = "success" => <<r, c>> \in during.passed
                          /\ jobs[c] = "failure" => <<r, c>> \in during.failed
    <3> TAKE c \in Checks
    <3>1. CASE jobs = runs[r].jobs
      <4>1. runs[r].head = proof.head
        BY <1>1, <2>1 DEF ListedRight
      <4> QED BY <1>1, <2>1, <3>1, <4>1 DEF Observed, Passing, Failing
    <3>2. CASE jobs = Absent
      BY <3>2 DEF Absent
    <3>3. CASE runs[r].attempt = proof.listed[r] + 1 /\ jobs = runs[r].earlier
      BY <1>1, <2>1, <3>3 DEF ListedRight
    <3> QED BY <2>2, <3>1, <3>2, <3>3
  <2>10. \A c \in Checks : /\ <<r, c>> \in during.failing => jobs[c] = "failure"
                           /\ <<r, c>> \in during.lasting => jobs[c] = "success"
    BY <1>1, <2>1, <2>2 DEF Observed, Failing, Passing, FoundRight
  <2>11. FoundRight'
    <3>1. proof.read \subseteq Runs
      BY <1>1 DEF Proofs
    <3>0. during' = during /\ runs' = runs /\ proof'.listed = proof.listed
          /\ proof'.read = proof.read \cup {r}
      BY <2>1, <2>3
    <3>2. ASSUME NEW q \in proof'.read, NEW c \in Checks
          PROVE  /\ proof'.found[q][c] = "success" => <<q, c>> \in during.passed
                 /\ proof'.found[q][c] = "failure" => <<q, c>> \in during.failed
      <4>1. CASE q = r
        BY <2>4, <2>9, <4>1
      <4>2. CASE q # r
        <5>1. q \in proof.read /\ q \in Runs \ {r}
          BY <3>0, <3>1, <3>2, <4>2
        <5>2. proof'.found[q] = proof.found[q]
          BY <2>4, <5>1
        <5> QED BY <1>1, <5>1, <5>2 DEF FoundRight
      <4> QED BY <4>1, <4>2
    <3>3. ASSUME NEW q \in Runs, NEW c \in Checks
          PROVE  /\ <<q, c>> \in during.failing =>
                      /\ proof.listed[q] = runs[q].attempt
                      /\ q \in proof'.read => proof'.found[q][c] = "failure"
                 /\ <<q, c>> \in during.lasting =>
                      /\ proof.listed[q] = runs[q].attempt
                      /\ q \in proof'.read => proof'.found[q][c] = "success"
      <4>1. CASE q = r
        BY <1>1, <2>1, <2>4, <2>10, <4>1 DEF FoundRight
      <4>2. CASE q # r
        <5>1. q \in proof'.read => q \in proof.read
          BY <3>0, <4>2
        <5>2. proof'.found[q] = proof.found[q]
          BY <2>4, <4>2
        <5> QED BY <1>1, <2>1, <5>1, <5>2 DEF FoundRight
      <4> QED BY <4>1, <4>2
    <3>4. \A q \in proof'.read : proof'.listed[q] # 0
      BY <1>1, <2>1, <2>3 DEF FoundRight
    <3> QED BY <3>0, <3>2, <3>3, <3>4 DEF FoundRight
  <2> QED BY <2>5, <2>6, <2>7, <2>8, <2>11 DEF EvidenceInv, AcceptedIsProven, FailureIsSaid, RefusalIsDeserved
<1> QED BY <1>4, <1>5, <1>6, <1>7, <1>8

\* What was read is what the verdict is about.
LEMMA OutcomesSayAll ==
  ASSUME EvidenceInv, proof.pc = "jobs", proof.read = Listed, NEW c \in Checks
  PROVE  /\ Outcomes(c) = {"success"} =>
              \E r \in Runs : origin[r] = "own" /\ <<r, c>> \in during.passed
         /\ \A r \in Runs : <<r, c>> \in during.failing => "failure" \in Outcomes(c)
         /\ "failure" \in Outcomes(c) => during.failed # {}
         /\ Counted(c) = {} => \A r \in Runs : origin[r] = "own" => <<r, c>> \notin during.lasting
         /\ Outcomes(c) # {"success"} /\ {"running", "failure"} \cap Outcomes(c) = {} => Counted(c) = {}
<1>1. /\ proof \in Proofs /\ runs \in [Runs -> Attempts] /\ Observed /\ FoundRight
      /\ \A r \in Runs : runs[r].attempt = 0 => runs[r].jobs[c] = "absent"
  BY DEF EvidenceInv, EvidenceTyped
<1>2. Listed \subseteq Runs /\ Jobs(c) \subseteq Listed /\ Counted(c) \subseteq Jobs(c)
      /\ Refusing(c) \subseteq Jobs(c)
  BY DEF Listed, Jobs, Counted, Refusing
<1> DEFINE some == Counted(c) \cup Refusing(c)
<1>3. /\ some = {} => Outcomes(c) \subseteq {"running", "missing"}
      /\ some # {} => Outcomes(c) = {proof.found[r][c] : r \in some}
      /\ Outcomes(c) # {}
  BY DEF Outcomes
<1> HIDE DEF some
<1>4. ASSUME Outcomes(c) = {"success"}
      PROVE  \E r \in Runs : origin[r] = "own" /\ <<r, c>> \in during.passed
  <2>1. PICK r \in some : proof.found[r][c] = "success"
    BY <1>3, <1>4
  <2>2. r \in Counted(c)
    BY <2>1 DEF some, Refusing
  <2>3. r \in proof.read /\ r \in Runs /\ origin[r] = "own"
    BY <2>2, <1>2 DEF Counted
  <2> QED BY <1>1, <2>1, <2>3 DEF FoundRight
<1>5. ASSUME NEW r \in Runs, <<r, c>> \in during.failing \cup during.lasting
      PROVE  /\ r \in Listed
             /\ <<r, c>> \in during.failing => proof.found[r][c] = "failure"
             /\ <<r, c>> \in during.lasting => proof.found[r][c] = "success"
  <2>1. runs[r].jobs[c] \in {"failure", "success"}
    BY <1>1, <1>5 DEF Observed, Failing, Passing
  <2>2. proof.listed[r] = runs[r].attempt /\ runs[r].attempt # 0
    BY <1>1, <1>5, <2>1 DEF FoundRight
  <2>3. r \in Listed
    BY <2>2 DEF Listed
  <2> QED BY <1>1, <1>5, <2>3 DEF FoundRight
<1>6. ASSUME NEW r \in Runs, <<r, c>> \in during.failing
      PROVE  "failure" \in Outcomes(c)
  <2>1. r \in Listed /\ proof.found[r][c] = "failure"
    BY <1>5, <1>6
  <2>2. r \in some
    BY <2>1 DEF some, Jobs, Refusing
  <2> QED BY <1>3, <2>1, <2>2
<1>7. ASSUME "failure" \in Outcomes(c)
      PROVE  during.failed # {}
  <2>1. PICK r \in some : proof.found[r][c] = "failure"
    BY <1>3, <1>7
  <2>2. r \in proof.read
    BY <1>2 DEF some
  <2> QED BY <1>1, <2>1, <2>2 DEF FoundRight
<1>8. ASSUME Counted(c) = {}, NEW r \in Runs, origin[r] = "own"
      PROVE  <<r, c>> \notin during.lasting
  <2>1. r \in Listed /\ proof.found[r][c] = "success" => r \in Counted(c)
    BY <1>8 DEF Counted, Jobs
  <2> QED BY <1>5, <1>8, <2>1
<1>9. ASSUME Outcomes(c) # {"success"}, "running" \notin Outcomes(c), "failure" \notin Outcomes(c)
      PROVE  Counted(c) = {}
  <2>1. \A r \in some : proof.found[r][c] \in {"running", "success", "failure"}
    <3> TAKE r \in some
    <3>1. r \in Jobs(c) /\ r \in Runs
      BY <1>2 DEF some
    <3>2. proof.found[r][c] \in JobStates
      BY <1>1, <3>1 DEF Proofs
    <3> QED BY <3>1, <3>2 DEF Jobs, JobStates
  <2>2. some = {}
    <3>1. ASSUME some # {} PROVE FALSE
      <4>1. \A r \in some : proof.found[r][c] = "success"
        BY <1>3, <1>9, <2>1, <3>1
      <4> QED BY <1>3, <1>9, <3>1, <4>1
    <3> QED BY <3>1
  <2> QED BY <2>2 DEF some
<1> QED BY <1>4, <1>6, <1>7, <1>8, <1>9

\* A set of checks has a first one.
LEMMA FirstCheck ==
  ASSUME NEW S \in SUBSET Checks, S # {}
  PROVE  (CHOOSE c \in S : \A k \in S : c <= k) \in S
<1>1. S \subseteq Nat
  BY EvidenceAssumption
<1>2. PICK c \in S : \A k \in S : ~ <<k, c>> \in OpToRel(<, Nat)
  BY <1>1, NatLessThanWellFounded, WFMin
<1>3. \A k \in S : c <= k
  <2> TAKE k \in S
  <2>1. k \in Nat /\ c \in Nat
    BY <1>1
  <2>2. ~(k < c)
    BY <1>2, <2>1 DEF OpToRel
  <2> QED BY <2>1, <2>2
<1> QED BY <1>3

\* What the last read of the pull request adds, and what the checks say.
LEMMA ConcludeKeeps ==
  ASSUME EvidenceInv, Conclude
  PROVE  EvidenceInv'
<1>1. /\ proof.pc = "jobs" /\ proof.read = Listed /\ UNCHANGED <<origin, pr, runs, during>>
      /\ proof' = Told(Concluded)
  BY DEF Conclude
<1>2. ASSUME NEW c \in Checks
      PROVE  /\ Outcomes(c) = {"success"} =>
                  \E r \in Runs : origin[r] = "own" /\ <<r, c>> \in during.passed
             /\ \A r \in Runs : <<r, c>> \in during.failing => "failure" \in Outcomes(c)
             /\ "failure" \in Outcomes(c) => during.failed # {}
             /\ Counted(c) = {} => \A r \in Runs : origin[r] = "own" => <<r, c>> \notin during.lasting
             /\ Outcomes(c) # {"success"} /\ {"running", "failure"} \cap Outcomes(c) = {} => Counted(c) = {}
  BY <1>1, <1>2, OutcomesSayAll
<1>3. /\ during.failing \subseteq Runs \X Checks
      /\ during.current => Stands(pr, proof.head)
      /\ during.closed => pr.state = "closed"
      /\ during.open => pr.state # "closed"
  BY <1>1 DEF EvidenceInv, EvidenceTyped, Observed, Meanwhile, Marks
<1>4. (\A c \in Checks : "failure" \notin Outcomes(c)) => during.failing = {}
  BY <1>2, <1>3
<1>5. CASE UntrustedAlone
  <2>1. PICK c \in Checks : UntrustedOnly(c)
    BY <1>5 DEF UntrustedAlone
  <2>2. Counted(c) = {}
    BY <2>1 DEF UntrustedOnly
  <2>3. proof' = Told("refused")
    BY <1>1, <1>5 DEF Concluded
  <2> QED BY <1>1, <1>2, <2>2, <2>3, ToldKeeps
<1>6. CASE ~UntrustedAlone /\ Refusal = "none"
  <2>1. Stands(pr, proof.head) /\ ~during.closed
    BY <1>3, <1>6 DEF Refusal, Stands
  <2>2. proof' = Told(Verdict)
    BY <1>1, <1>6 DEF Concluded
  <2>3. CASE \A c \in Checks : Outcomes(c) = {"success"}
    <3>1. proof' = Told("accepted")
      BY <2>2, <2>3 DEF Verdict
    <3>2. during.failing = {}
      BY <1>4, <2>3
    <3> QED BY <1>1, <1>2, <2>1, <2>3, <3>1, <3>2, ToldKeeps
  <2>4. CASE (~\A c \in Checks : Outcomes(c) = {"success"}) /\ Undecided
    <3>1. proof' = Told("waiting")
      BY <2>2, <2>4 DEF Verdict
    <3>2. \A c \in Checks : Outcomes(c) # {"success"} => "failure" \notin Outcomes(c)
      BY <2>4 DEF Undecided
    <3>3. during.failing = {}
      BY <1>4, <3>2
    <3> QED BY <1>1, <2>1, <3>1, <3>3, ToldKeeps
  <2>5. CASE (~\A c \in Checks : Outcomes(c) = {"success"}) /\ ~Undecided
    <3> DEFINE short == {c \in Checks : Outcomes(c) # {"success"}}
               first == CHOOSE c \in short : \A k \in short : c <= k
    <3>1. proof' = Told("refused")
      BY <2>2, <2>5 DEF Verdict
    <3>2. first \in short
      BY <2>5, FirstCheck
    <3>3. (\E c \in short : "failure" \in Outcomes(c)) \/ "running" \notin Outcomes(first)
      BY <2>5 DEF Undecided
    <3> HIDE DEF first
    <3>4. CASE \E c \in short : "failure" \in Outcomes(c)
      BY <1>1, <1>2, <3>1, <3>4, ToldKeeps
    <3>5. CASE "running" \notin Outcomes(first) /\ "failure" \notin Outcomes(first)
      <4>1. Counted(first) = {}
        BY <1>2, <3>2, <3>5
      <4> QED BY <1>1, <1>2, <3>1, <3>2, <4>1, ToldKeeps
    <3> QED BY <3>2, <3>3, <3>4, <3>5
  <2> QED BY <2>3, <2>4, <2>5
<1>7. CASE ~UntrustedAlone /\ Refusal # "none"
  <2>1. proof' = Told(IF \E c \in Checks : "failure" \in Outcomes(c) THEN "refused" ELSE Refusal)
    BY <1>1, <1>7 DEF Concluded
  <2>2. CASE \E c \in Checks : "failure" \in Outcomes(c)
    <3>1. during.failed # {}
      BY <1>2, <2>2
    <3>2. proof' = Told("refused")
      BY <2>1, <2>2
    <3> QED BY <1>1, <3>1, <3>2, ToldKeeps
  <2>3. CASE ~(\E c \in Checks : "failure" \in Outcomes(c)) /\ pr.state = "closed"
    <3>1. proof' = Told("refused")
      BY <2>1, <2>3 DEF Refusal
    <3> QED BY <1>1, <1>3, <2>3, <3>1, ToldKeeps
  <2>4. CASE ~(\E c \in Checks : "failure" \in Outcomes(c)) /\ pr.state # "closed"
    <3>1. proof' = Told("waiting")
      BY <1>7, <2>1, <2>4 DEF Refusal
    <3>2. during.failing = {} /\ ~during.closed
      BY <1>3, <1>4, <2>4
    <3> QED BY <1>1, <3>1, <3>2, ToldKeeps
  <2> QED BY <2>2, <2>3, <2>4
<1> QED BY <1>5, <1>6, <1>7

\* The verdict rests on evidence, and a lack of evidence is told from a lack of
\* answers (acceptance.py:18, :23): what is accepted was proved on the head that is
\* still there, what is waited for has no failure that was read, and what is refused
\* deserves it - for any runs, checks and changes on GitHub while the proof reads them.
THEOREM VerdictIsProven == EvidenceSpec => []EvidenceSound
<1>1. EvidenceInit => EvidenceInv
  BY EvidenceInvInit
<1>2. EvidenceInv /\ [EvidenceNext]_evidenceVars => EvidenceInv'
  <2> SUFFICES ASSUME EvidenceInv, [EvidenceNext]_evidenceVars PROVE EvidenceInv'
    OBVIOUS
  <2>1. CASE UNCHANGED evidenceVars
    <3>1. EvidenceTyped' /\ Observed' /\ NothingYet'
      BY <2>1 DEF evidenceVars, EvidenceInv, EvidenceTyped, Observed, NothingYet, Failing, Passing, Stands
    <3>2. ListedRight' /\ FoundRight'
      BY <2>1 DEF evidenceVars, EvidenceInv, ListedRight, FoundRight
    <3>3. AcceptedIsProven' /\ FailureIsSaid' /\ RefusalIsDeserved'
      BY <2>1 DEF evidenceVars, EvidenceInv, AcceptedIsProven, FailureIsSaid, RefusalIsDeserved, Stands
    <3> QED BY <2>1, <3>1, <3>2, <3>3 DEF evidenceVars, EvidenceInv
  <2>2. CASE GitHub
    BY <2>2, GitHubKeeps
  <2>3. CASE Prove
    BY <2>3, ProveKeeps
  <2>4. CASE ReadClosed \/ ReadPull \/ ListRuns \/ ReadFails \/ (\E r \in Runs : ReadJobs(r))
    BY <2>4, ReadsKeep
  <2>5. CASE Conclude
    BY <2>5, ConcludeKeeps
  <2> QED BY <2>1, <2>2, <2>3, <2>4, <2>5 DEF EvidenceNext
<1>3. EvidenceInv => EvidenceSound
  BY DEF EvidenceInv, EvidenceTyped, EvidenceSound, EvidenceTypeOK, Proofs, Attempts
<1> QED BY <1>1, <1>2, <1>3, PTL DEF EvidenceSpec

-----------------------------------------------------------------------------
(* LinearClient: the shared token and cooldown.                            *)

Tokens == [access : 0..MaxTokens, expired : BOOLEAN, rotated : 0..MaxTokens]
Clients == [pc : {"idle", "call", "store", "stored", "credential", "keep", "send", "invalidate"},
            cache : Tokens, issued : 0..MaxTokens, attempt : {1, 2}, later : BOOLEAN,
            until : 0..MaxTime]

ClientTyped ==
  /\ linear \in [refresh : 1..MaxTokens, lost : 0..MaxTokens, torn : 0..MaxTokens]
  /\ connect \in 1..MaxTokens
  /\ tokenCache \in Tokens
  /\ fileLock \in AllClients \cup {Unheld}
  /\ client \in [AllClients -> Clients]
  /\ pause \in [file : 0..MaxTime, longest : 0..MaxTime]
  /\ clock \in 0..MaxTime
  /\ troubles \in [clients : SUBSET AllClients, rejections : Nat, outages : Nat, deaths : Nat]

\* No client shortens what another was told.
PauseInv == PauseKept /\ \A c \in AllClients : client[c].until <= pause.file

\* The holder of the file lock.
Holds(c) == client[c].pc \in {"store", "stored", "credential", "keep"}
LockInv ==
  \A c \in AllClients : /\ Holds(c) <=> fileLock = c
                        /\ client[c].pc # "keep" => client[c].issued = 0

\* A rejected client has written an older cache back, and nothing was rotated since.
Torn == linear.torn = linear.refresh

\* The token that Linear accepts is known to somebody, or never reached the cache.
Kept == \/ linear.lost = linear.refresh
        \/ \E c \in AllClients : client[c].pc = "keep"
Reachable ==
  /\ linear.lost <= linear.refresh /\ linear.torn <= linear.refresh
  /\ \A c \in AllClients : client[c].pc = "keep" => client[c].issued = linear.refresh
  /\ Kept \/ Torn \/ linear.refresh \in {connect, tokenCache.rotated}
  /\ tokenCache.rotated # 0 => Kept \/ Torn \/ tokenCache.rotated = linear.refresh

\* What the holder copied of the cache is still there.
Copied ==
  Torn \/ \A c \in AllClients :
    client[c].pc \in {"store", "stored", "credential"} =>
        /\ client[c].cache.rotated = tokenCache.rotated
        /\ client[c].pc = "stored" => connect = client[c].cache.rotated

ClientInv == ClientTyped /\ PauseInv /\ LockInv /\ Reachable /\ Copied

\* Every step of a client, one action at a time: what the record becomes, its type,
\* and then each part of the invariant.
LEMMA ClientSteps ==
  ASSUME ClientInv, ClientNext
  PROVE  ClientInv'
<1>1. /\ client \in [AllClients -> Clients] /\ tokenCache \in Tokens /\ connect \in 1..MaxTokens
      /\ linear \in [refresh : 1..MaxTokens, lost : 0..MaxTokens, torn : 0..MaxTokens]
      /\ troubles \in [clients : SUBSET AllClients, rejections : Nat, outages : Nat, deaths : Nat]
      /\ pause \in [file : 0..MaxTime, longest : 0..MaxTime] /\ clock \in 0..MaxTime
      /\ fileLock \in AllClients \cup {Unheld} /\ MaxTokens \in Nat \ {0} /\ MaxTime \in Nat
      /\ Unheld \notin AllClients /\ NoTokens \in Tokens
  BY ClientAssumption DEF ClientInv, ClientTyped, Unheld, NoTokens, Tokens
<1>2. \A c \in AllClients : client[c].pc = "keep" => client[c].issued = linear.refresh
  BY DEF ClientInv, Reachable
<1>11. ASSUME NEW c \in AllClients, StoreSkips(c) PROVE ClientInv'
  <2>1. /\ client[c].pc = "store"
        /\ UNCHANGED <<linear, connect, tokenCache, fileLock, pause, clock, troubles>>
    BY <1>11 DEF StoreSkips, To
  <2>2. client' = [client EXCEPT ![c].pc = "credential"]
    BY <1>11 DEF StoreSkips, To
  <2>3. client[c] \in Clients
    BY DEF ClientInv, ClientTyped
  <2>4. /\ client'[c] = [client[c] EXCEPT !.pc = "credential"]
        /\ client' = [d \in AllClients |-> client'[d]]
        /\ \A d \in AllClients \ {c} : client'[d] = client[d]
    BY <2>2, <1>1
  <2>5. /\ client'[c].pc = "credential"
        /\ client'[c].cache = client[c].cache
        /\ client'[c].issued = client[c].issued
        /\ client'[c].attempt = client[c].attempt
        /\ client'[c].later = client[c].later
        /\ client'[c].until = client[c].until
        /\ \A d \in AllClients \ {c} : client'[d] = client[d]
    BY <2>3, <2>4 DEF Clients
  <2>6. client'[c] \in Clients
    BY <2>1, <2>3, <2>4, <1>1 DEF Clients
  <2>7. ClientTyped'
    <3> HIDE DEF Clients
    <3>1. client' \in [AllClients -> Clients]
      BY <2>3, <2>4, <2>6, <1>1
    <3> QED BY <2>1, <3>1, <1>1 DEF ClientTyped
  <2> HIDE DEF Clients
  <2>o. \A d \in AllClients \ {c} : ~Holds(d)
    BY <2>1, <1>1 DEF ClientInv, LockInv, Holds, Unheld
  <2>8. PauseInv'
    BY <2>o, <2>1, <2>5, <1>1 DEF ClientInv, PauseInv, PauseKept, Unheld
  <2>9. LockInv'
    BY <2>o, <2>1, <2>5, <1>1 DEF ClientInv, LockInv, Holds, Unheld
  <2>10. Reachable'
    BY <2>o, <2>1, <2>5, <1>1 DEF ClientInv, Reachable, Kept, Torn, LockInv, Copied, Holds, Refresh, Unheld
  <2>11. Copied'
    BY <2>o, <2>1, <2>5, <1>1 DEF ClientInv, Copied, Torn, LockInv, Holds, Unheld
  <2> QED BY <2>7, <2>8, <2>9, <2>10, <2>11 DEF ClientInv
<1>12. ASSUME NEW c \in AllClients, StoreWrites(c) PROVE ClientInv'
  <2>1. /\ client[c].pc = "store"
        /\ client[c].cache.rotated # 0
        /\ connect' = client[c].cache.rotated
        /\ UNCHANGED <<linear, tokenCache, fileLock, pause, clock, troubles>>
    BY <1>12 DEF StoreWrites, To, StoreDue
  <2>2. client' = [client EXCEPT ![c].pc = "stored"]
    BY <1>12 DEF StoreWrites, To, StoreDue
  <2>3. client[c] \in Clients
    BY DEF ClientInv, ClientTyped
  <2>4. /\ client'[c] = [client[c] EXCEPT !.pc = "stored"]
        /\ client' = [d \in AllClients |-> client'[d]]
        /\ \A d \in AllClients \ {c} : client'[d] = client[d]
    BY <2>2, <1>1
  <2>5. /\ client'[c].pc = "stored"
        /\ client'[c].cache = client[c].cache
        /\ client'[c].issued = client[c].issued
        /\ client'[c].attempt = client[c].attempt
        /\ client'[c].later = client[c].later
        /\ client'[c].until = client[c].until
        /\ \A d \in AllClients \ {c} : client'[d] = client[d]
    BY <2>3, <2>4 DEF Clients
  <2>t. /\ client[c].cache \in Tokens /\ client[c].issued \in 0..MaxTokens
    BY <2>3 DEF Clients
  <2>u. /\ connect' \in 1..MaxTokens
    BY <2>t, <2>1, <1>1 DEF Tokens
  <2>6. client'[c] \in Clients
    BY <2>1, <2>3, <2>4, <2>u, <1>1 DEF Clients
  <2>7. ClientTyped'
    <3> HIDE DEF Clients
    <3>1. client' \in [AllClients -> Clients]
      BY <2>3, <2>4, <2>6, <1>1
    <3> QED BY <2>1, <3>1, <1>1, <2>u DEF ClientTyped
  <2> HIDE DEF Clients
  <2>o. \A d \in AllClients \ {c} : ~Holds(d)
    BY <2>1, <1>1 DEF ClientInv, LockInv, Holds, Unheld
  <2>8. PauseInv'
    BY <2>o, <2>1, <2>5, <1>1 DEF ClientInv, PauseInv, PauseKept, Unheld
  <2>9. LockInv'
    BY <2>o, <2>1, <2>5, <1>1 DEF ClientInv, LockInv, Holds, Unheld
  <2>10. Reachable'
    BY <2>o, <2>1, <2>5, <1>1 DEF ClientInv, Reachable, Kept, Torn, LockInv, Copied, Holds, Refresh, Unheld
  <2>11. Copied'
    BY <2>o, <2>1, <2>5, <1>1 DEF ClientInv, Copied, Torn, LockInv, Holds, Unheld
  <2> QED BY <2>7, <2>8, <2>9, <2>10, <2>11 DEF ClientInv
<1>13. ASSUME NEW c \in AllClients, Stored(c) PROVE ClientInv'
  <2>1. /\ client[c].pc = "stored"
        /\ tokenCache' = [client[c].cache EXCEPT !.rotated = 0]
        /\ UNCHANGED <<linear, connect, fileLock, pause, clock, troubles>>
    BY <1>13 DEF Stored
  <2>2. client' = [client EXCEPT ![c].pc = "credential", ![c].cache = [client[c].cache EXCEPT !.rotated = 0]]
    BY <1>13 DEF Stored
  <2>3. client[c] \in Clients
    BY DEF ClientInv, ClientTyped
  <2>4. /\ client'[c] = [client[c] EXCEPT !.pc = "credential", !.cache = [client[c].cache EXCEPT !.rotated = 0]]
        /\ client' = [d \in AllClients |-> client'[d]]
        /\ \A d \in AllClients \ {c} : client'[d] = client[d]
    BY <2>2, <1>1
  <2>5. /\ client'[c].pc = "credential"
        /\ client'[c].cache = [client[c].cache EXCEPT !.rotated = 0]
        /\ client'[c].issued = client[c].issued
        /\ client'[c].attempt = client[c].attempt
        /\ client'[c].later = client[c].later
        /\ client'[c].until = client[c].until
        /\ \A d \in AllClients \ {c} : client'[d] = client[d]
    BY <2>3, <2>4 DEF Clients
  <2>t. /\ client[c].cache \in Tokens /\ client[c].issued \in 0..MaxTokens
    BY <2>3 DEF Clients
  <2>u. /\ [client[c].cache EXCEPT !.rotated = 0] \in Tokens
        /\ tokenCache' \in Tokens
    BY <2>t, <2>1, <1>1 DEF Tokens
  <2>6. client'[c] \in Clients
    BY <2>1, <2>3, <2>4, <2>u, <1>1 DEF Clients
  <2>7. ClientTyped'
    <3> HIDE DEF Clients
    <3>1. client' \in [AllClients -> Clients]
      BY <2>3, <2>4, <2>6, <1>1
    <3> QED BY <2>1, <3>1, <1>1, <2>u DEF ClientTyped
  <2> HIDE DEF Clients
  <2>o. \A d \in AllClients \ {c} : ~Holds(d)
    BY <2>1, <1>1 DEF ClientInv, LockInv, Holds, Unheld
  <2>8. PauseInv'
    BY <2>o, <2>1, <2>5, <1>1 DEF ClientInv, PauseInv, PauseKept, Unheld
  <2>9. LockInv'
    BY <2>o, <2>1, <2>5, <1>1 DEF ClientInv, LockInv, Holds, Unheld
  <2>10. Reachable'
    BY <2>o, <2>1, <2>5, <1>1 DEF ClientInv, Reachable, Kept, Torn, LockInv, Copied, Holds, Refresh, Unheld
  <2>11. Copied'
    <3>1. client'[c].cache.rotated = 0 /\ tokenCache'.rotated = 0 /\ client'[c].pc = "credential"
      BY <2>1, <2>3, <2>5 DEF Clients, Tokens
    <3>2. \A d \in AllClients \ {c} : client'[d].pc \notin {"store", "stored", "credential"}
      BY <2>o, <2>5 DEF Holds
    <3> QED BY <3>1, <3>2 DEF Copied
  <2> QED BY <2>7, <2>8, <2>9, <2>10, <2>11 DEF ClientInv
<1>14. ASSUME NEW c \in AllClients, StoreFails(c) PROVE ClientInv'
  <2>1. /\ client[c].pc \in {"store", "stored"}
        /\ troubles.outages > 0
        /\ troubles' = [troubles EXCEPT !.outages = @ - 1]
        /\ UNCHANGED <<linear, connect, tokenCache, fileLock, pause, clock>>
    BY <1>14 DEF StoreFails, PutsOff, Trouble
  <2>2. client' = [client EXCEPT ![c].pc = "credential", ![c].later = TRUE]
    BY <1>14 DEF StoreFails, PutsOff, Trouble
  <2>3. client[c] \in Clients
    BY DEF ClientInv, ClientTyped
  <2>4. /\ client'[c] = [client[c] EXCEPT !.pc = "credential", !.later = TRUE]
        /\ client' = [d \in AllClients |-> client'[d]]
        /\ \A d \in AllClients \ {c} : client'[d] = client[d]
    BY <2>2, <1>1
  <2>5. /\ client'[c].pc = "credential"
        /\ client'[c].cache = client[c].cache
        /\ client'[c].issued = client[c].issued
        /\ client'[c].attempt = client[c].attempt
        /\ client'[c].later = TRUE
        /\ client'[c].until = client[c].until
        /\ \A d \in AllClients \ {c} : client'[d] = client[d]
    BY <2>3, <2>4 DEF Clients
  <2>t. /\ client[c].cache \in Tokens /\ client[c].issued \in 0..MaxTokens
    BY <2>3 DEF Clients
  <2>u. /\ troubles' \in [clients : SUBSET AllClients, rejections : Nat, outages : Nat, deaths : Nat]
    BY <2>t, <2>1, <1>1 DEF Tokens
  <2>6. client'[c] \in Clients
    BY <2>1, <2>3, <2>4, <2>u, <1>1 DEF Clients
  <2>7. ClientTyped'
    <3> HIDE DEF Clients
    <3>1. client' \in [AllClients -> Clients]
      BY <2>3, <2>4, <2>6, <1>1
    <3> QED BY <2>1, <3>1, <1>1, <2>u DEF ClientTyped
  <2> HIDE DEF Clients
  <2>o. \A d \in AllClients \ {c} : ~Holds(d)
    BY <2>1, <1>1 DEF ClientInv, LockInv, Holds, Unheld
  <2>8. PauseInv'
    BY <2>o, <2>1, <2>5, <1>1 DEF ClientInv, PauseInv, PauseKept, Unheld
  <2>9. LockInv'
    BY <2>o, <2>1, <2>5, <1>1 DEF ClientInv, LockInv, Holds, Unheld
  <2>10. Reachable'
    BY <2>o, <2>1, <2>5, <1>1 DEF ClientInv, Reachable, Kept, Torn, LockInv, Copied, Holds, Refresh, Unheld
  <2>11. Copied'
    BY <2>o, <2>1, <2>5, <1>1 DEF ClientInv, Copied, Torn, LockInv, Holds, Unheld
  <2> QED BY <2>7, <2>8, <2>9, <2>10, <2>11 DEF ClientInv
<1>15. ASSUME NEW c \in AllClients, StoreAgain(c) PROVE ClientInv'
  <2>1. /\ UNCHANGED <<linear, connect, tokenCache, fileLock, pause, clock, troubles>>
    BY <1>15 DEF StoreAgain
  <2>2. client' = [client EXCEPT ![c].later = FALSE]
    BY <1>15 DEF StoreAgain
  <2>3. client[c] \in Clients
    BY DEF ClientInv, ClientTyped
  <2>4. /\ client'[c] = [client[c] EXCEPT !.later = FALSE]
        /\ client' = [d \in AllClients |-> client'[d]]
        /\ \A d \in AllClients \ {c} : client'[d] = client[d]
    BY <2>2, <1>1
  <2>5. /\ client'[c].pc = client[c].pc
        /\ client'[c].cache = client[c].cache
        /\ client'[c].issued = client[c].issued
        /\ client'[c].attempt = client[c].attempt
        /\ client'[c].later = FALSE
        /\ client'[c].until = client[c].until
        /\ \A d \in AllClients \ {c} : client'[d] = client[d]
    BY <2>3, <2>4 DEF Clients
  <2>6. client'[c] \in Clients
    BY <2>1, <2>3, <2>4, <1>1 DEF Clients
  <2>7. ClientTyped'
    <3> HIDE DEF Clients
    <3>1. client' \in [AllClients -> Clients]
      BY <2>3, <2>4, <2>6, <1>1
    <3> QED BY <2>1, <3>1, <1>1 DEF ClientTyped
  <2> HIDE DEF Clients
  <2>8. PauseInv'
    BY <2>1, <2>5, <1>1 DEF ClientInv, PauseInv, PauseKept, Unheld
  <2>9. LockInv'
    BY <2>1, <2>5, <1>1 DEF ClientInv, LockInv, Holds, Unheld
  <2>10. Reachable'
    BY <2>1, <2>5, <1>1 DEF ClientInv, Reachable, Kept, Torn, LockInv, Copied, Holds, Refresh, Unheld
  <2>11. Copied'
    BY <2>1, <2>5, <1>1 DEF ClientInv, Copied, Torn, LockInv, Holds, Unheld
  <2> QED BY <2>7, <2>8, <2>9, <2>10, <2>11 DEF ClientInv
<1>16. ASSUME NEW c \in AllClients, UsesCached(c) PROVE ClientInv'
  <2>1. /\ client[c].pc = "credential"
        /\ fileLock' = Unheld
        /\ UNCHANGED <<linear, connect, tokenCache, pause, clock, troubles>>
    BY <1>16 DEF UsesCached
  <2>2. client' = [client EXCEPT ![c].pc = "send", ![c].cache = NoTokens]
    BY <1>16 DEF UsesCached
  <2>3. client[c] \in Clients
    BY DEF ClientInv, ClientTyped
  <2>4. /\ client'[c] = [client[c] EXCEPT !.pc = "send", !.cache = NoTokens]
        /\ client' = [d \in AllClients |-> client'[d]]
        /\ \A d \in AllClients \ {c} : client'[d] = client[d]
    BY <2>2, <1>1
  <2>5. /\ client'[c].pc = "send"
        /\ client'[c].cache = NoTokens
        /\ client'[c].issued = client[c].issued
        /\ client'[c].attempt = client[c].attempt
        /\ client'[c].later = client[c].later
        /\ client'[c].until = client[c].until
        /\ \A d \in AllClients \ {c} : client'[d] = client[d]
    BY <2>3, <2>4 DEF Clients
  <2>t. /\ client[c].cache \in Tokens /\ client[c].issued \in 0..MaxTokens
    BY <2>3 DEF Clients
  <2>u. /\ NoTokens \in Tokens
        /\ fileLock' \in AllClients \cup {Unheld}
    BY <2>t, <2>1, <1>1 DEF Tokens
  <2>6. client'[c] \in Clients
    BY <2>1, <2>3, <2>4, <2>u, <1>1 DEF Clients
  <2>7. ClientTyped'
    <3> HIDE DEF Clients
    <3>1. client' \in [AllClients -> Clients]
      BY <2>3, <2>4, <2>6, <1>1
    <3> QED BY <2>1, <3>1, <1>1, <2>u DEF ClientTyped
  <2> HIDE DEF Clients
  <2>o. \A d \in AllClients \ {c} : ~Holds(d)
    BY <2>1, <1>1 DEF ClientInv, LockInv, Holds, Unheld
  <2>8. PauseInv'
    BY <2>o, <2>1, <2>5, <1>1 DEF ClientInv, PauseInv, PauseKept, Unheld
  <2>9. LockInv'
    BY <2>o, <2>1, <2>5, <1>1 DEF ClientInv, LockInv, Holds, Unheld
  <2>10. Reachable'
    BY <2>o, <2>1, <2>5, <1>1 DEF ClientInv, Reachable, Kept, Torn, LockInv, Copied, Holds, Refresh, Unheld
  <2>11. Copied'
    BY <2>o, <2>1, <2>5, <1>1 DEF ClientInv, Copied, Torn, LockInv, Holds, Unheld
  <2> QED BY <2>7, <2>8, <2>9, <2>10, <2>11 DEF ClientInv
<1>17. ASSUME NEW c \in AllClients, Refreshes(c) PROVE ClientInv'
  <2>1. /\ client[c].pc = "credential"
        /\ Refresh(c) = linear.refresh
        /\ linear.refresh < MaxTokens
        /\ linear' = [linear EXCEPT !.refresh = @ + 1]
        /\ UNCHANGED <<connect, tokenCache, fileLock, pause, clock, troubles>>
    BY <1>17 DEF Refreshes
  <2>2. client' = [client EXCEPT ![c].pc = "keep", ![c].issued = linear.refresh + 1]
    BY <1>17 DEF Refreshes
  <2>3. client[c] \in Clients
    BY DEF ClientInv, ClientTyped
  <2>4. /\ client'[c] = [client[c] EXCEPT !.pc = "keep", !.issued = linear.refresh + 1]
        /\ client' = [d \in AllClients |-> client'[d]]
        /\ \A d \in AllClients \ {c} : client'[d] = client[d]
    BY <2>2, <1>1
  <2>5. /\ client'[c].pc = "keep"
        /\ client'[c].cache = client[c].cache
        /\ client'[c].issued = linear.refresh + 1
        /\ client'[c].attempt = client[c].attempt
        /\ client'[c].later = client[c].later
        /\ client'[c].until = client[c].until
        /\ \A d \in AllClients \ {c} : client'[d] = client[d]
    BY <2>3, <2>4 DEF Clients
  <2>t. /\ client[c].cache \in Tokens /\ client[c].issued \in 0..MaxTokens
    BY <2>3 DEF Clients
  <2>u. /\ linear.refresh + 1 \in 0..MaxTokens
        /\ linear' \in [refresh : 1..MaxTokens, lost : 0..MaxTokens, torn : 0..MaxTokens]
    BY <2>t, <2>1, <1>1 DEF Tokens
  <2>6. client'[c] \in Clients
    BY <2>1, <2>3, <2>4, <2>u, <1>1 DEF Clients
  <2>7. ClientTyped'
    <3> HIDE DEF Clients
    <3>1. client' \in [AllClients -> Clients]
      BY <2>3, <2>4, <2>6, <1>1
    <3> QED BY <2>1, <3>1, <1>1, <2>u DEF ClientTyped
  <2> HIDE DEF Clients
  <2>o. \A d \in AllClients \ {c} : ~Holds(d)
    BY <2>1, <1>1 DEF ClientInv, LockInv, Holds, Unheld
  <2>8. PauseInv'
    BY <2>o, <2>1, <2>5, <1>1 DEF ClientInv, PauseInv, PauseKept, Unheld
  <2>9. LockInv'
    BY <2>o, <2>1, <2>5, <1>1 DEF ClientInv, LockInv, Holds, Unheld
  <2>10. Reachable'
    BY <2>o, <2>1, <2>5, <1>1 DEF ClientInv, Reachable, Kept, Torn, LockInv, Copied, Holds, Refresh, Unheld
  <2>11. Copied'
    BY <2>o, <2>1, <2>5, <1>1 DEF ClientInv, Copied, Torn, LockInv, Holds, Unheld
  <2> QED BY <2>7, <2>8, <2>9, <2>10, <2>11 DEF ClientInv
<1>18. ASSUME NEW c \in AllClients, RefreshUnheard(c) PROVE ClientInv'
  <2>1. /\ client[c].pc = "credential"
        /\ linear.refresh < MaxTokens
        /\ linear' = [linear EXCEPT !.refresh = linear.refresh + 1, !.lost = linear.refresh + 1]
        /\ fileLock' = IF fileLock = c THEN Unheld ELSE fileLock
        /\ UNCHANGED <<connect, tokenCache, pause, clock, troubles>>
    BY <1>18 DEF RefreshUnheard, Unlocked
  <2>2. client' = [client EXCEPT ![c] = CallOver(c)]
    BY <1>18 DEF RefreshUnheard, Rests
  <2>3. client[c] \in Clients
    BY DEF ClientInv, ClientTyped
  <2>4. /\ client'[c] = [client[c] EXCEPT !.pc = "idle", !.cache = NoTokens, !.attempt = 1, !.issued = 0]
        /\ client' = [d \in AllClients |-> client'[d]]
        /\ \A d \in AllClients \ {c} : client'[d] = client[d]
    BY <2>2, <1>1 DEF CallOver
  <2>5. /\ client'[c].pc = "idle"
        /\ client'[c].cache = NoTokens
        /\ client'[c].issued = 0
        /\ client'[c].attempt = 1
        /\ client'[c].later = client[c].later
        /\ client'[c].until = client[c].until
        /\ \A d \in AllClients \ {c} : client'[d] = client[d]
    BY <2>3, <2>4 DEF Clients
  <2>t. /\ client[c].cache \in Tokens /\ client[c].issued \in 0..MaxTokens
    BY <2>3 DEF Clients
  <2>v. linear' \in [refresh : 1..MaxTokens, lost : 0..MaxTokens, torn : 0..MaxTokens]
    <3>1. linear.refresh + 1 \in 1..MaxTokens /\ linear.refresh + 1 \in 0..MaxTokens
      BY <2>1, <1>1
    <3> QED BY <3>1, <2>1, <1>1
  <2>u. /\ NoTokens \in Tokens
        /\ 0 \in 0..MaxTokens
        /\ fileLock' \in AllClients \cup {Unheld}
        /\ linear' \in [refresh : 1..MaxTokens, lost : 0..MaxTokens, torn : 0..MaxTokens]
    BY <2>t, <2>1, <1>1, <2>v DEF Tokens
  <2>6. client'[c] \in Clients
    BY <2>1, <2>3, <2>4, <2>u, <1>1 DEF Clients
  <2>7. ClientTyped'
    <3> HIDE DEF Clients
    <3>1. client' \in [AllClients -> Clients]
      BY <2>3, <2>4, <2>6, <1>1
    <3> QED BY <2>1, <3>1, <1>1, <2>u DEF ClientTyped
  <2> HIDE DEF Clients
  <2>o. \A d \in AllClients \ {c} : ~Holds(d)
    BY <2>1, <1>1 DEF ClientInv, LockInv, Holds, Unheld
  <2>8. PauseInv'
    BY <2>o, <2>1, <2>5, <1>1 DEF ClientInv, PauseInv, PauseKept, Unheld
  <2>9. LockInv'
    BY <2>o, <2>1, <2>5, <1>1 DEF ClientInv, LockInv, Holds, Unheld
  <2>10. Reachable'
    BY <2>o, <2>1, <2>5, <1>1 DEF ClientInv, Reachable, Kept, Torn, LockInv, Copied, Holds, Refresh, Unheld
  <2>11. Copied'
    BY <2>o, <2>1, <2>5, <1>1 DEF ClientInv, Copied, Torn, LockInv, Holds, Unheld
  <2> QED BY <2>7, <2>8, <2>9, <2>10, <2>11 DEF ClientInv
<1>19. ASSUME NEW c \in AllClients, RefreshFails(c) PROVE ClientInv'
  <2>1. /\ client[c].pc = "credential"
        /\ fileLock' = IF fileLock = c THEN Unheld ELSE fileLock
        /\ UNCHANGED <<linear, connect, tokenCache, pause, clock, troubles>>
    BY <1>19 DEF RefreshFails, Unlocked
  <2>2. client' = [client EXCEPT ![c] = CallOver(c)]
    BY <1>19 DEF RefreshFails, Rests
  <2>3. client[c] \in Clients
    BY DEF ClientInv, ClientTyped
  <2>4. /\ client'[c] = [client[c] EXCEPT !.pc = "idle", !.cache = NoTokens, !.attempt = 1, !.issued = 0]
        /\ client' = [d \in AllClients |-> client'[d]]
        /\ \A d \in AllClients \ {c} : client'[d] = client[d]
    BY <2>2, <1>1 DEF CallOver
  <2>5. /\ client'[c].pc = "idle"
        /\ client'[c].cache = NoTokens
        /\ client'[c].issued = 0
        /\ client'[c].attempt = 1
        /\ client'[c].later = client[c].later
        /\ client'[c].until = client[c].until
        /\ \A d \in AllClients \ {c} : client'[d] = client[d]
    BY <2>3, <2>4 DEF Clients
  <2>t. /\ client[c].cache \in Tokens /\ client[c].issued \in 0..MaxTokens
    BY <2>3 DEF Clients
  <2>u. /\ NoTokens \in Tokens
        /\ 0 \in 0..MaxTokens
        /\ fileLock' \in AllClients \cup {Unheld}
    BY <2>t, <2>1, <1>1 DEF Tokens
  <2>6. client'[c] \in Clients
    BY <2>1, <2>3, <2>4, <2>u, <1>1 DEF Clients
  <2>7. ClientTyped'
    <3> HIDE DEF Clients
    <3>1. client' \in [AllClients -> Clients]
      BY <2>3, <2>4, <2>6, <1>1
    <3> QED BY <2>1, <3>1, <1>1, <2>u DEF ClientTyped
  <2> HIDE DEF Clients
  <2>o. \A d \in AllClients \ {c} : ~Holds(d)
    BY <2>1, <1>1 DEF ClientInv, LockInv, Holds, Unheld
  <2>8. PauseInv'
    BY <2>o, <2>1, <2>5, <1>1 DEF ClientInv, PauseInv, PauseKept, Unheld
  <2>9. LockInv'
    BY <2>o, <2>1, <2>5, <1>1 DEF ClientInv, LockInv, Holds, Unheld
  <2>10. Reachable'
    BY <2>o, <2>1, <2>5, <1>1 DEF ClientInv, Reachable, Kept, Torn, LockInv, Copied, Holds, Refresh, Unheld
  <2>11. Copied'
    BY <2>o, <2>1, <2>5, <1>1 DEF ClientInv, Copied, Torn, LockInv, Holds, Unheld
  <2> QED BY <2>7, <2>8, <2>9, <2>10, <2>11 DEF ClientInv
<1>20. ASSUME NEW c \in AllClients, KeepsTokens(c) PROVE ClientInv'
  <2>1. /\ client[c].pc = "keep"
        /\ tokenCache' = [access |-> client[c].issued, expired |-> FALSE, rotated |-> client[c].issued]
        /\ UNCHANGED <<linear, connect, fileLock, pause, clock, troubles>>
    BY <1>20 DEF KeepsTokens
  <2>2. client' = [client EXCEPT ![c].pc = "store", ![c].cache = [access |-> client[c].issued, expired |-> FALSE, rotated |-> client[c].issued], ![c].issued = 0, ![c].later = FALSE]
    BY <1>20 DEF KeepsTokens
  <2>3. client[c] \in Clients
    BY DEF ClientInv, ClientTyped
  <2>4. /\ client'[c] = [client[c] EXCEPT !.pc = "store", !.cache = [access |-> client[c].issued, expired |-> FALSE, rotated |-> client[c].issued], !.issued = 0, !.later = FALSE]
        /\ client' = [d \in AllClients |-> client'[d]]
        /\ \A d \in AllClients \ {c} : client'[d] = client[d]
    BY <2>2, <1>1
  <2>5. /\ client'[c].pc = "store"
        /\ client'[c].cache = [access |-> client[c].issued, expired |-> FALSE, rotated |-> client[c].issued]
        /\ client'[c].issued = 0
        /\ client'[c].attempt = client[c].attempt
        /\ client'[c].later = FALSE
        /\ client'[c].until = client[c].until
        /\ \A d \in AllClients \ {c} : client'[d] = client[d]
    BY <2>3, <2>4 DEF Clients
  <2>t. /\ client[c].cache \in Tokens /\ client[c].issued \in 0..MaxTokens
    BY <2>3 DEF Clients
  <2>u. /\ [access |-> client[c].issued, expired |-> FALSE, rotated |-> client[c].issued] \in Tokens
        /\ 0 \in 0..MaxTokens
        /\ tokenCache' \in Tokens
    BY <2>t, <2>1, <1>1, <1>2 DEF Tokens
  <2>6. client'[c] \in Clients
    BY <2>1, <2>3, <2>4, <2>u, <1>1 DEF Clients
  <2>7. ClientTyped'
    <3> HIDE DEF Clients
    <3>1. client' \in [AllClients -> Clients]
      BY <2>3, <2>4, <2>6, <1>1
    <3> QED BY <2>1, <3>1, <1>1, <2>u DEF ClientTyped
  <2> HIDE DEF Clients
  <2>o. \A d \in AllClients \ {c} : ~Holds(d)
    BY <2>1, <1>1 DEF ClientInv, LockInv, Holds, Unheld
  <2>8. PauseInv'
    BY <2>o, <2>1, <2>5, <1>1 DEF ClientInv, PauseInv, PauseKept, Unheld
  <2>9. LockInv'
    BY <2>o, <2>1, <2>5, <1>1 DEF ClientInv, LockInv, Holds, Unheld
  <2>10. Reachable'
    BY <2>o, <2>1, <2>5, <1>1 DEF ClientInv, Reachable, Kept, Torn, LockInv, Copied, Holds, Refresh, Unheld
  <2>11. Copied'
    BY <2>o, <2>1, <2>5, <1>1 DEF ClientInv, Copied, Torn, LockInv, Holds, Unheld
  <2> QED BY <2>7, <2>8, <2>9, <2>10, <2>11 DEF ClientInv
<1>21. ASSUME NEW c \in AllClients, Locks(c) PROVE ClientInv'
  <2>1. /\ client[c].pc = "call"
        /\ fileLock = Unheld
        /\ fileLock' = c
        /\ UNCHANGED <<linear, connect, tokenCache, pause, clock, troubles>>
    BY <1>21 DEF Locks
  <2>2. client' = [client EXCEPT ![c].pc = "store", ![c].cache = tokenCache]
    BY <1>21 DEF Locks
  <2>3. client[c] \in Clients
    BY DEF ClientInv, ClientTyped
  <2>4. /\ client'[c] = [client[c] EXCEPT !.pc = "store", !.cache = tokenCache]
        /\ client' = [d \in AllClients |-> client'[d]]
        /\ \A d \in AllClients \ {c} : client'[d] = client[d]
    BY <2>2, <1>1
  <2>5. /\ client'[c].pc = "store"
        /\ client'[c].cache = tokenCache
        /\ client'[c].issued = client[c].issued
        /\ client'[c].attempt = client[c].attempt
        /\ client'[c].later = client[c].later
        /\ client'[c].until = client[c].until
        /\ \A d \in AllClients \ {c} : client'[d] = client[d]
    BY <2>3, <2>4 DEF Clients
  <2>t. /\ client[c].cache \in Tokens /\ client[c].issued \in 0..MaxTokens
    BY <2>3 DEF Clients
  <2>u. /\ tokenCache \in Tokens
        /\ fileLock' \in AllClients \cup {Unheld}
    BY <2>t, <2>1, <1>1 DEF Tokens
  <2>6. client'[c] \in Clients
    BY <2>1, <2>3, <2>4, <2>u, <1>1 DEF Clients
  <2>7. ClientTyped'
    <3> HIDE DEF Clients
    <3>1. client' \in [AllClients -> Clients]
      BY <2>3, <2>4, <2>6, <1>1
    <3> QED BY <2>1, <3>1, <1>1, <2>u DEF ClientTyped
  <2> HIDE DEF Clients
  <2>o. \A d \in AllClients \ {c} : ~Holds(d)
    BY <2>1, <1>1 DEF ClientInv, LockInv, Holds, Unheld
  <2>8. PauseInv'
    BY <2>o, <2>1, <2>5, <1>1 DEF ClientInv, PauseInv, PauseKept, Unheld
  <2>9. LockInv'
    BY <2>o, <2>1, <2>5, <1>1 DEF ClientInv, LockInv, Holds, Unheld
  <2>10. Reachable'
    BY <2>o, <2>1, <2>5, <1>1 DEF ClientInv, Reachable, Kept, Torn, LockInv, Copied, Holds, Refresh, Unheld
  <2>11. Copied'
    BY <2>o, <2>1, <2>5, <1>1 DEF ClientInv, Copied, Torn, LockInv, Holds, Unheld
  <2> QED BY <2>7, <2>8, <2>9, <2>10, <2>11 DEF ClientInv
<1>22. ASSUME NEW c \in AllClients, HeldBack(c) PROVE ClientInv'
  <2>1. /\ client[c].pc = "call"
        /\ UNCHANGED <<linear, connect, tokenCache, fileLock, pause, clock, troubles>>
    BY <1>22 DEF HeldBack
  <2>2. client' = [client EXCEPT ![c] = CallOver(c)]
    BY <1>22 DEF HeldBack, Rests
  <2>3. client[c] \in Clients
    BY DEF ClientInv, ClientTyped
  <2>4. /\ client'[c] = [client[c] EXCEPT !.pc = "idle", !.cache = NoTokens, !.attempt = 1, !.issued = 0]
        /\ client' = [d \in AllClients |-> client'[d]]
        /\ \A d \in AllClients \ {c} : client'[d] = client[d]
    BY <2>2, <1>1 DEF CallOver
  <2>5. /\ client'[c].pc = "idle"
        /\ client'[c].cache = NoTokens
        /\ client'[c].issued = 0
        /\ client'[c].attempt = 1
        /\ client'[c].later = client[c].later
        /\ client'[c].until = client[c].until
        /\ \A d \in AllClients \ {c} : client'[d] = client[d]
    BY <2>3, <2>4 DEF Clients
  <2>t. /\ client[c].cache \in Tokens /\ client[c].issued \in 0..MaxTokens
    BY <2>3 DEF Clients
  <2>u. /\ NoTokens \in Tokens
        /\ 0 \in 0..MaxTokens
    BY <2>t, <2>1, <1>1 DEF Tokens
  <2>6. client'[c] \in Clients
    BY <2>1, <2>3, <2>4, <2>u, <1>1 DEF Clients
  <2>7. ClientTyped'
    <3> HIDE DEF Clients
    <3>1. client' \in [AllClients -> Clients]
      BY <2>3, <2>4, <2>6, <1>1
    <3> QED BY <2>1, <3>1, <1>1, <2>u DEF ClientTyped
  <2> HIDE DEF Clients
  <2>8. PauseInv'
    BY <2>1, <2>5, <1>1 DEF ClientInv, PauseInv, PauseKept, Unheld
  <2>9. LockInv'
    BY <2>1, <2>5, <1>1 DEF ClientInv, LockInv, Holds, Unheld
  <2>10. Reachable'
    BY <2>1, <2>5, <1>1 DEF ClientInv, Reachable, Kept, Torn, LockInv, Copied, Holds, Refresh, Unheld
  <2>11. Copied'
    BY <2>1, <2>5, <1>1 DEF ClientInv, Copied, Torn, LockInv, Holds, Unheld
  <2> QED BY <2>7, <2>8, <2>9, <2>10, <2>11 DEF ClientInv
<1>23. ASSUME NEW c \in AllClients, Invalidates(c) PROVE ClientInv'
  <2>1. /\ client[c].pc = "invalidate"
        /\ tokenCache' = [client[c].cache EXCEPT !.expired = TRUE]
        /\ linear' = IF client[c].cache.rotated = tokenCache.rotated THEN linear
                     ELSE [linear EXCEPT !.torn = linear.refresh]
        /\ client' = [client EXCEPT ![c].pc = "call", ![c].cache = NoTokens]
        /\ UNCHANGED <<connect, fileLock, pause, clock, troubles>>
    BY <1>23 DEF Invalidates
  <2>2. client[c] \in Clients /\ client[c].cache \in Tokens
    BY <1>1 DEF Clients
  <2>3. /\ tokenCache' \in Tokens /\ tokenCache'.rotated = client[c].cache.rotated
    BY <2>1, <2>2 DEF Tokens
  <2>4. /\ linear' \in [refresh : 1..MaxTokens, lost : 0..MaxTokens, torn : 0..MaxTokens]
        /\ linear'.refresh = linear.refresh /\ linear'.lost = linear.lost
        /\ linear'.torn \in {linear.torn, linear.refresh}
        /\ \/ tokenCache'.rotated = tokenCache.rotated /\ linear'.torn = linear.torn
           \/ Torn'
    BY <2>1, <2>3, <1>1 DEF Torn
  <2>5. /\ client'[c] = [client[c] EXCEPT !.pc = "call", !.cache = NoTokens]
        /\ client' = [d \in AllClients |-> client'[d]]
        /\ \A d \in AllClients \ {c} : client'[d] = client[d]
    BY <2>1, <1>1
  <2>6. /\ client'[c] \in Clients /\ client'[c].pc = "call"
        /\ client'[c].issued = client[c].issued /\ client'[c].until = client[c].until
    BY <2>2, <2>5, <1>1 DEF Clients
  <2>7. ClientTyped'
    <3> HIDE DEF Clients
    <3>1. client' \in [AllClients -> Clients]
      BY <2>5, <2>6, <1>1
    <3> QED BY <2>1, <2>3, <2>4, <3>1, <1>1 DEF ClientTyped
  <2> HIDE DEF Clients
  <2>8. PauseInv'
    BY <2>1, <2>5, <2>6 DEF ClientInv, PauseInv, PauseKept
  <2>9. LockInv'
    BY <2>1, <2>5, <2>6 DEF ClientInv, LockInv, Holds
  <2>10. Reachable'
    BY <2>1, <2>4, <2>5, <2>6, <1>1 DEF ClientInv, Reachable, Kept, Torn
  <2>11. Copied'
    BY <2>1, <2>4, <2>5, <2>6 DEF ClientInv, Copied, Torn
  <2> QED BY <2>7, <2>8, <2>9, <2>10, <2>11 DEF ClientInv
<1>30. CASE AccessExpires
  <2>1. /\ tokenCache' = [tokenCache EXCEPT !.expired = TRUE]
        /\ UNCHANGED <<linear, connect, fileLock, client, pause, clock, troubles>>
    BY <1>30 DEF AccessExpires
  <2>2. tokenCache' \in Tokens /\ tokenCache'.rotated = tokenCache.rotated
    BY <2>1, <1>1 DEF Tokens
  <2>3. ClientTyped'
    BY <2>1, <2>2 DEF ClientInv, ClientTyped
  <2>4. PauseInv' /\ LockInv'
    BY <2>1 DEF ClientInv, PauseInv, PauseKept, LockInv, Holds
  <2>5. Reachable' /\ Copied'
    BY <2>1, <2>2 DEF ClientInv, Reachable, Kept, Torn, Copied
  <2> QED BY <2>3, <2>4, <2>5 DEF ClientInv
<1>31. CASE TimePasses
  <2>1. /\ clock < MaxTime /\ clock' = clock + 1
        /\ UNCHANGED <<linear, connect, tokenCache, fileLock, client, pause, troubles>>
    BY <1>31 DEF TimePasses
  <2>2. clock' \in 0..MaxTime
    BY <2>1, <1>1
  <2>3. ClientTyped'
    BY <2>1, <2>2 DEF ClientInv, ClientTyped
  <2>4. PauseInv' /\ LockInv'
    BY <2>1 DEF ClientInv, PauseInv, PauseKept, LockInv, Holds
  <2>5. Reachable' /\ Copied'
    BY <2>1 DEF ClientInv, Reachable, Kept, Torn, Copied
  <2> QED BY <2>3, <2>4, <2>5 DEF ClientInv
\* A step without the lock, which only moves the client and may lengthen the cooldown.
<1>32. ASSUME NEW c \in AllClients, NEW next \in Clients, client' = [client EXCEPT ![c] = next],
              ~Holds(c), next.pc \in {"idle", "call", "invalidate"}, next.issued = 0,
              pause' \in [file : 0..MaxTime, longest : 0..MaxTime], pause'.file = pause'.longest,
              pause.file <= pause'.file, next.until <= pause'.file,
              troubles' \in [clients : SUBSET AllClients, rejections : Nat, outages : Nat, deaths : Nat],
              UNCHANGED <<linear, connect, tokenCache, fileLock, clock>>
       PROVE  ClientInv'
  <2>1. /\ client'[c] = next /\ client' \in [AllClients -> Clients]
        /\ \A d \in AllClients \ {c} : client'[d] = client[d]
    <3> HIDE DEF Clients
    <3> QED BY <1>32, <1>1
  <2>2. ClientTyped'
    BY <1>32, <2>1, <1>1 DEF ClientTyped
  <2>3. PauseInv'
    <3>1. \A d \in AllClients : client[d] \in Clients /\ client[d].until <= pause.file
      BY <1>1 DEF ClientInv, PauseInv
    <3>2. \A d \in AllClients \ {c} : client'[d].until <= pause'.file
      BY <3>1, <1>32, <2>1, <1>1 DEF Clients
    <3> QED BY <1>32, <2>1, <3>2 DEF PauseInv, PauseKept
  <2> HIDE DEF Clients
  <2>4. LockInv'
    <3>1. ~Holds(c)' /\ client'[c].issued = 0 /\ fileLock # c
      BY <1>32, <2>1 DEF ClientInv, LockInv, Holds
    <3>2. \A d \in AllClients \ {c} : (Holds(d)' <=> Holds(d)) /\ client'[d] = client[d]
      BY <2>1 DEF Holds
    <3> QED BY <1>32, <3>1, <3>2 DEF ClientInv, LockInv
  <2>5. Reachable'
    BY <1>32, <2>1 DEF ClientInv, Reachable, Kept, Torn, Holds
  <2>6. Copied'
    BY <1>32, <2>1 DEF ClientInv, Copied, Torn
  <2> QED BY <2>2, <2>3, <2>4, <2>5, <2>6 DEF ClientInv
\* What a client is told of the cooldown.
<1>33. ASSUME NEW c \in AllClients, NEW until \in 0..MaxTime, Pauses(c, until)
       PROVE  /\ Longest(c, until) \in 0..MaxTime
              /\ pause' \in [file : 0..MaxTime, longest : 0..MaxTime] /\ pause'.file = pause'.longest
              /\ pause.file <= pause'.file /\ Longest(c, until) = pause'.file
  <2>1. /\ client[c].until \in 0..MaxTime /\ client[c].until <= pause.file
        /\ pause.file = pause.longest /\ pause.file \in 0..MaxTime
    BY <1>1 DEF ClientInv, PauseInv, PauseKept, Clients
  <2>2. /\ Longest(c, until) \in 0..MaxTime /\ Longest(c, until) >= pause.file
        /\ Longest(c, until) = Max2(pause.longest, until)
    BY <2>1, <1>1 DEF Longest, Max2
  <2> HIDE DEF Clients
  <2> QED BY <1>33, <2>1, <2>2 DEF Pauses
<1>34. ASSUME NEW c \in AllClients, NEW next \in Clients, Hears(c, next), ~Holds(c),
              next.pc \in {"idle", "invalidate"}, next.issued = 0, next.until = client[c].until,
              troubles' \in [clients : SUBSET AllClients, rejections : Nat, outages : Nat, deaths : Nat],
              UNCHANGED <<linear, connect, tokenCache, fileLock, clock>>
       PROVE  ClientInv'
  <2>1. CASE client' = [client EXCEPT ![c] = next] /\ UNCHANGED pause
    <3>1. pause'.file = pause'.longest /\ pause.file <= pause'.file /\ next.until <= pause'.file
      BY <2>1, <1>1, <1>34 DEF ClientInv, PauseInv, PauseKept
    <3> HIDE DEF Clients
    <3> QED BY <2>1, <3>1, <1>1, <1>32, <1>34
  <2>2. CASE ~(client' = [client EXCEPT ![c] = next] /\ UNCHANGED pause)
    <3>1. PICK until \in {0} \cup (clock + 1)..MaxTime :
             /\ Pauses(c, until)
             /\ client' = [client EXCEPT ![c] = [next EXCEPT !.until = Longest(c, until)]]
      BY <2>2, <1>34 DEF Hears
    <3>2. until \in 0..MaxTime
      BY <3>1, <1>1
    <3>3. /\ Longest(c, until) \in 0..MaxTime
          /\ pause' \in [file : 0..MaxTime, longest : 0..MaxTime] /\ pause'.file = pause'.longest
          /\ pause.file <= pause'.file /\ Longest(c, until) = pause'.file
      BY <3>1, <3>2, <1>33
    <3> DEFINE told == [next EXCEPT !.until = Longest(c, until)]
    <3>4. told \in Clients /\ told.pc = next.pc /\ told.issued = next.issued /\ told.until = pause'.file
      BY <3>3, <1>34 DEF Clients
    <3>5. told.until <= pause'.file
      BY <3>3, <3>4
    <3>6. client' = [client EXCEPT ![c] = told]
      BY <3>1
    <3> HIDE DEF Clients, told
    <3> QED BY <3>3, <3>4, <3>5, <3>6, <1>32, <1>34
  <2> QED BY <2>1, <2>2
<1>35. ASSUME NEW c \in AllClients, Requests(c) PROVE ClientInv'
  <2> DEFINE next == [client[c] EXCEPT !.until = Longest(c, 0),
                                       !.pc = IF clock < Longest(c, 0) THEN "idle" ELSE "call"]
  <2>1. /\ client[c].pc = "idle" /\ Pauses(c, 0)
        /\ client' = [client EXCEPT ![c].until = Longest(c, 0),
                                    ![c].pc = IF clock < Longest(c, 0) THEN "idle" ELSE "call"]
        /\ UNCHANGED <<linear, connect, tokenCache, fileLock, clock, troubles>>
    BY <1>35 DEF Requests
  <2>2. client[c] \in Clients /\ 0 \in 0..MaxTime /\ client[c].issued = 0
    BY <2>1, <1>1 DEF ClientInv, LockInv
  <2>3. /\ Longest(c, 0) \in 0..MaxTime
        /\ pause' \in [file : 0..MaxTime, longest : 0..MaxTime] /\ pause'.file = pause'.longest
        /\ pause.file <= pause'.file /\ Longest(c, 0) <= pause'.file
    BY <2>1, <2>2, <1>33
  <2>4. /\ next \in Clients /\ next.pc \in {"idle", "call"} /\ next.issued = 0
        /\ next.until = Longest(c, 0)
    BY <2>2, <2>3 DEF Clients
  <2>5. client' = [client EXCEPT ![c] = next]
    BY <2>1, <1>1
  <2>6. ~Holds(c)
    BY <2>1 DEF Holds
  <2> HIDE DEF Clients, next
  <2> QED BY <2>1, <2>3, <2>4, <2>5, <2>6, <1>1, <1>32
<1>36. ASSUME NEW c \in AllClients, Answered(c) PROVE ClientInv'
  <2>1. /\ client[c].pc = "send" /\ Hears(c, CallOver(c))
        /\ UNCHANGED <<linear, connect, tokenCache, fileLock, clock, troubles>>
    BY <1>36 DEF Answered
  <2>2. client[c] \in Clients
    BY <1>1
  <2>3. /\ CallOver(c) \in Clients /\ CallOver(c).pc = "idle" /\ CallOver(c).issued = 0
        /\ CallOver(c).until = client[c].until
    <3>1. 0 \in 0..MaxTokens
      BY <1>1
    <3> QED BY <2>2, <3>1, <1>1 DEF CallOver, Clients
  <2>4. ~Holds(c)
    BY <2>1 DEF Holds
  <2> HIDE DEF Clients
  <2> QED BY <2>1, <2>3, <2>4, <1>1, <1>34
<1>37. ASSUME NEW c \in AllClients, Rejected(c) PROVE ClientInv'
  <2> DEFINE next == IF client[c].attempt = 2 THEN CallOver(c)
                     ELSE [client[c] EXCEPT !.pc = "invalidate", !.cache = tokenCache, !.attempt = 2]
  <2>1. /\ client[c].pc = "send" /\ Hears(c, next)
        /\ troubles.rejections > 0 /\ troubles' = [troubles EXCEPT !.rejections = @ - 1]
        /\ UNCHANGED <<linear, connect, tokenCache, fileLock, clock>>
    BY <1>37 DEF Rejected, Trouble
  <2>2. client[c] \in Clients /\ client[c].issued = 0
    BY <2>1, <1>1 DEF ClientInv, LockInv
  <2>3. /\ next \in Clients /\ next.pc \in {"idle", "invalidate"} /\ next.issued = 0
        /\ next.until = client[c].until
    BY <2>2, <1>1 DEF CallOver, Clients
  <2>4. troubles' \in [clients : SUBSET AllClients, rejections : Nat, outages : Nat, deaths : Nat]
    <3>1. PICK n \in Nat : troubles' = [troubles EXCEPT !.rejections = n]
      BY <2>1, <1>1
    <3> QED BY <3>1, <1>1
  <2>5. ~Holds(c)
    BY <2>1 DEF Holds
  <2> HIDE DEF Clients, next
  <2> QED BY <2>1, <2>3, <2>4, <2>5, <1>34
\* What was issued to the client and not kept is lost with it.
<1>38. ASSUME NEW c \in AllClients, NEW next \in Clients, client' = [client EXCEPT ![c] = next],
              next.pc = "idle", next.issued = 0, next.until <= pause.file,
              linear' = [linear EXCEPT !.lost = Max2(linear.lost, client[c].issued)],
              fileLock' = IF fileLock = c THEN Unheld ELSE fileLock,
              troubles' \in [clients : SUBSET AllClients, rejections : Nat, outages : Nat, deaths : Nat],
              UNCHANGED <<connect, tokenCache, pause, clock>>
       PROVE  ClientInv'
  <2>3. /\ client'[c] = next /\ client' \in [AllClients -> Clients]
        /\ \A d \in AllClients \ {c} : client'[d] = client[d]
    <3> HIDE DEF Clients
    <3> QED BY <1>38, <1>1
  <2>5. client[c].issued \in 0..MaxTokens /\ client[c].issued <= linear.refresh
        /\ (client[c].pc # "keep" => client[c].issued = 0)
        /\ (client[c].pc = "keep" => client[c].issued = linear.refresh)
    BY <1>1 DEF ClientInv, LockInv, Reachable, Clients
  <2>6. /\ linear' \in [refresh : 1..MaxTokens, lost : 0..MaxTokens, torn : 0..MaxTokens]
        /\ linear'.refresh = linear.refresh /\ linear'.torn = linear.torn
        /\ linear'.lost = Max2(linear.lost, client[c].issued)
    <3>1. Max2(linear.lost, client[c].issued) \in 0..MaxTokens
      BY <2>5, <1>1 DEF Max2
    <3> HIDE DEF Max2
    <3> QED BY <1>38, <3>1, <1>1
  <2>7. /\ linear'.lost <= linear.refresh
        /\ client[c].pc = "keep" \/ linear.lost = linear.refresh => linear'.lost = linear.refresh
    BY <2>5, <2>6, <1>1 DEF Max2, ClientInv, Reachable
  <2>8. fileLock' \in AllClients \cup {Unheld}
    BY <1>38, <1>1
  <2>9. ClientTyped'
    BY <1>38, <2>3, <2>6, <2>8, <1>1 DEF ClientTyped
  <2> HIDE DEF Clients
  <2>10. PauseInv'
    BY <1>38, <2>3 DEF ClientInv, PauseInv, PauseKept
  <2>11. LockInv'
    BY <1>38, <2>3, <1>1 DEF ClientInv, LockInv, Holds
  <2>12. (Kept => Kept') /\ (Torn => Torn')
    BY <1>38, <2>3, <2>6, <2>7 DEF Kept, Torn
  <2>13. Reachable'
    BY <1>38, <2>3, <2>6, <2>7, <2>12 DEF ClientInv, Reachable
  <2>14. Copied'
    BY <1>38, <2>3, <2>12 DEF ClientInv, Copied
  <2> QED BY <2>9, <2>10, <2>11, <2>13, <2>14 DEF ClientInv
<1>39. ASSUME NEW c \in AllClients, WriteFails(c) PROVE ClientInv'
  <2>1. /\ client' = [client EXCEPT ![c] = CallOver(c)]
        /\ linear' = [linear EXCEPT !.lost = Max2(linear.lost, client[c].issued)]
        /\ fileLock' = IF fileLock = c THEN Unheld ELSE fileLock
        /\ UNCHANGED <<connect, tokenCache, pause, clock, troubles>>
    BY <1>39 DEF WriteFails, Rests, Unlocked
  <2>2. client[c] \in Clients /\ client[c].until <= pause.file
    BY <1>1 DEF ClientInv, PauseInv
  <2>3. /\ CallOver(c) \in Clients /\ CallOver(c).pc = "idle" /\ CallOver(c).issued = 0
        /\ CallOver(c).until <= pause.file
    <3>1. 0 \in 0..MaxTokens
      BY <1>1
    <3> QED BY <2>2, <3>1, <1>1 DEF CallOver, Clients
  <2> HIDE DEF Clients
  <2> QED BY <2>1, <2>3, <1>1, <1>38
<1>40. ASSUME NEW c \in AllClients, Dies(c) PROVE ClientInv'
  <2>1. /\ troubles.deaths > 0 /\ troubles' = [troubles EXCEPT !.deaths = @ - 1]
        /\ linear' = [linear EXCEPT !.lost = Max2(linear.lost, client[c].issued)]
        /\ fileLock' = IF fileLock = c THEN Unheld ELSE fileLock
        /\ client' = [client EXCEPT ![c] = AtRest]
        /\ UNCHANGED <<connect, tokenCache, pause, clock>>
    BY <1>40 DEF Dies, Unlocked, Trouble
  <2>2. AtRest \in Clients /\ AtRest.pc = "idle" /\ AtRest.issued = 0 /\ AtRest.until <= pause.file
    BY <1>1 DEF AtRest, NoTokens, Clients, Tokens
  <2>3. troubles' \in [clients : SUBSET AllClients, rejections : Nat, outages : Nat, deaths : Nat]
    <3>1. PICK n \in Nat : troubles' = [troubles EXCEPT !.deaths = n]
      BY <2>1, <1>1
    <3> QED BY <3>1, <1>1
  <2> HIDE DEF Clients, AtRest
  <2> QED BY <2>1, <2>2, <2>3, <1>38
<1> QED
  BY <1>11, <1>12, <1>13, <1>14, <1>15, <1>16, <1>17, <1>18, <1>19, <1>20, <1>21, <1>22, <1>23,
     <1>30, <1>31, <1>35, <1>36, <1>37, <1>39, <1>40
  DEF ClientNext

LEMMA ClientInvInit ==
  ASSUME ClientInit
  PROVE  ClientInv
<1>1. PICK d \in Deployments : ClientIdle(d)
  BY DEF ClientInit
<1>2. d \in [clients : SUBSET AllClients, rejections : Nat, outages : Nat, deaths : Nat]
      /\ MaxTokens \in Nat \ {0} /\ MaxTime \in Nat /\ Unheld \notin AllClients
  BY ClientAssumption DEF Unheld
<1>3. /\ linear = [refresh |-> 1, lost |-> 0, torn |-> 0] /\ connect = 1 /\ tokenCache = NoTokens
      /\ fileLock = Unheld /\ client = [c \in AllClients |-> AtRest]
      /\ pause = [file |-> 0, longest |-> 0] /\ clock = 0 /\ troubles = d
  BY <1>1 DEF ClientIdle
<1>4. AtRest \in Clients /\ AtRest.pc = "idle" /\ AtRest.issued = 0 /\ AtRest.until = 0
      /\ NoTokens \in Tokens /\ NoTokens.rotated = 0
  BY <1>2 DEF AtRest, NoTokens, Clients, Tokens
<1>5. \A c \in AllClients : client[c].pc = "idle" /\ client[c].issued = 0 /\ client[c].until = 0
  BY <1>3, <1>4
<1>6. ClientTyped
  <2> HIDE DEF AtRest, NoTokens, Clients, Tokens
  <2> QED BY <1>2, <1>3, <1>4 DEF ClientTyped
<1>7. PauseInv /\ LockInv /\ Copied
  BY <1>2, <1>3, <1>5 DEF PauseInv, PauseKept, LockInv, Holds, Copied
<1>8. Reachable
  BY <1>3, <1>4, <1>5 DEF Reachable, Kept
<1> QED BY <1>6, <1>7, <1>8 DEF ClientInv

LEMMA ClientInvSound ==
  ASSUME ClientInv
  PROVE  ClientsSound
<1>1. ClientTypeOK
  BY DEF ClientInv, ClientTyped, ClientTypeOK, Clients, Tokens
<1>2. TokenKept
  BY DEF ClientInv, Reachable, Kept, Torn, TokenKept, TokenHeld, ToBeKept
<1> QED BY <1>1, <1>2 DEF ClientInv, PauseInv, ClientsSound

LEMMA ClientStutters ==
  ASSUME ClientInv, UNCHANGED clientVars
  PROVE  ClientInv'
BY DEF ClientInv, clientVars, ClientTyped, PauseInv, PauseKept, LockInv, Holds, Reachable, Kept, Torn, Copied

\* The clients of one profile do not lose the token that Linear accepts, unless its answer
\* never reached the cache or a rejected client undid another's change of it, and no
\* cooldown is shortened (oauth.py:3, api.py:445): for any number of clients, tokens,
\* rejections, outages, failed writes, lost answers and deaths.
THEOREM ClientsAgree == ClientSpec => []ClientsSound
<1>1. ClientInit => ClientInv
  BY ClientInvInit
<1>2. ClientInv /\ [ClientNext]_clientVars => ClientInv'
  BY ClientSteps, ClientStutters
<1>3. ClientInv => ClientsSound
  BY ClientInvSound
<1> QED BY <1>1, <1>2, <1>3, PTL DEF ClientSpec

-----------------------------------------------------------------------------
(* ChatGuard: the allowance of a turn.                                     *)

TurnRecords ==
  [phase : {"none", "arming", "open", "over"}, ran : 0..MaxToolCalls, used : 0..GraceCalls,
   old : BOOLEAN, reachable : BOOLEAN, newest : BOOLEAN, started : BOOLEAN, dropped : BOOLEAN,
   blocked : BOOLEAN]

GuardTyped ==
  /\ turns \in [ChatTurns -> TurnRecords]
  /\ armed \in [ChatTurns -> Nat] /\ armings \in Nat
  /\ latest \in [Sessions -> ChatTurns \cup {None}]
  /\ asking \subseteq ChatTurns

\* The table is small and orders its turns.
TableInv ==
  /\ IsFiniteSet(Table) /\ Cardinality(Table) <= MaxTurns
  /\ \A t \in Table : armed[t] <= armings
  /\ \A t, u \in Table : armed[t] = armed[u] => t = u

\* A session's entry is one of its own armed turns.
LatestInv == \A s \in Sessions : latest[s] # None => latest[s] \in Table /\ SessionOf[latest[s]] = s

\* What a turn has done, whether it is in the table and whether it asked for tracked work.
TurnSound(rec, listed, tracked) ==
  /\ rec.phase \in {"none", "arming"} =>
        ~listed /\ rec.ran = 0 /\ rec.reachable /\ ~rec.started /\ ~rec.blocked
  /\ rec.phase = "none" => ~rec.newest
  /\ rec.phase = "arming" => tracked
  /\ rec.phase = "over" => ~listed
  /\ listed => tracked /\ rec.reachable /\ rec.ran <= rec.used
  /\ rec.blocked => tracked /\ rec.reachable
  /\ tracked /\ rec.newest /\ rec.reachable /\ ~rec.started /\ ~rec.dropped =>
        /\ rec.ran <= GraceCalls
        /\ rec.phase = "open" => listed
TurnInv == \A t \in ChatTurns : TurnSound(turns[t], t \in Table, t \in asking)

GuardInv == GuardTyped /\ TableInv /\ LatestInv /\ TurnInv

\* Few members have fewer than k members numbered higher: what _prune leaves.
LEMMA NewestFew ==
  ASSUME NEW S, IsFiniteSet(S), NEW f, NEW k \in Nat,
         \A t \in S : f[t] \in Nat, \A t, u \in S : f[t] = f[u] => t = u
  PROVE  LET few == {t \in S : Cardinality({u \in S : f[u] > f[t]}) < k}
         IN  IsFiniteSet(few) /\ Cardinality(few) <= k
<1> DEFINE few == {t \in S : Cardinality({u \in S : f[u] > f[t]}) < k}
           numbers == {f[t] : t \in few}
<1> SUFFICES IsFiniteSet(few) /\ Cardinality(few) <= k
  OBVIOUS
<1>1. IsFiniteSet(few)
  <2>1. few \in SUBSET S
    OBVIOUS
  <2> HIDE DEF few
  <2> QED BY <2>1, FS_Subset
<1>2. CASE few = {}
  <2>1. Cardinality({}) = 0
    BY FS_EmptySet
  <2>2. 0 <= k
    OBVIOUS
  <2> HIDE DEF few
  <2> QED BY <1>1, <1>2, <2>1, <2>2
<1>3. CASE few # {}
  <2>1. PICK t \in few : TRUE
    BY <1>3
  <2>2. PICK n \in numbers : \A m \in numbers : ~ <<m, n>> \in OpToRel(<, Nat)
    <3>1. f[t] \in numbers /\ numbers \subseteq Nat
      BY <2>1
    <3> HIDE DEF numbers
    <3> QED BY <3>1, NatLessThanWellFounded, WFMin
  <2>3. PICK first \in few : f[first] = n
    OBVIOUS
  <2> DEFINE later == {u \in S : f[u] > f[first]}
  <2>4. few \ {first} \subseteq later
    <3> SUFFICES ASSUME NEW u \in few, u # first PROVE f[u] > f[first]
      OBVIOUS
    <3>1. f[u] \in Nat /\ f[first] \in Nat /\ f[u] # f[first]
      OBVIOUS
    <3>2. ~(f[u] < f[first])
      BY <2>2, <2>3, <3>1 DEF OpToRel
    <3> QED BY <3>1, <3>2
  <2>5. IsFiniteSet(later) /\ Cardinality(later) < k
    <3>1. later \in SUBSET S /\ Cardinality(later) < k
      OBVIOUS
    <3> HIDE DEF later
    <3> QED BY <3>1, FS_Subset
  <2> HIDE DEF few, later
  <2>6. Cardinality(few \ {first}) <= Cardinality(later)
    <3>1. few \ {first} \in SUBSET later
      BY <2>4
    <3> QED BY <2>5, <3>1, FS_Subset
  <2>7. Cardinality(few \ {first}) = Cardinality(few) - 1
    BY <1>1, <2>3, FS_RemoveElement
  <2>8. Cardinality(few) \in Nat /\ Cardinality(later) \in Nat
    BY <1>1, <2>5, FS_CardinalityType
  <2> QED BY <1>1, <2>5, <2>6, <2>7, <2>8
<1> QED BY <1>2, <1>3

\* What the table is once turns are taken out of it.
LEMMA TakenOut ==
  ASSUME GuardTyped, TableInv, NEW gone, armed' = Without(gone), armings' = armings
  PROVE  /\ armed' \in [ChatTurns -> Nat] /\ Table' = Table \ gone /\ TableInv'
<1>1. armed \in [ChatTurns -> Nat] /\ armed' = [t \in ChatTurns |-> IF t \in gone THEN 0 ELSE armed[t]]
  BY DEF GuardTyped, Without
<1>2. armed' \in [ChatTurns -> Nat] /\ \A t \in Table \ gone : armed'[t] = armed[t]
  BY <1>1 DEF Table
<1>3. Table' = Table \ gone
  BY <1>1 DEF Table
<1>4. /\ IsFiniteSet(Table \ gone) /\ Cardinality(Table \ gone) <= Cardinality(Table)
      /\ Cardinality(Table \ gone) \in Nat /\ Cardinality(Table) \in Nat
  <2>1. IsFiniteSet(Table)
    BY DEF TableInv
  <2>2. Table \ gone \in SUBSET Table
    OBVIOUS
  <2>3. IsFiniteSet(Table \ gone) /\ Cardinality(Table \ gone) <= Cardinality(Table)
    BY <2>1, <2>2, FS_Subset
  <2> QED BY <2>1, <2>3, FS_CardinalityType
<1>5. Cardinality(Table) <= MaxTurns /\ MaxTurns \in Nat
  BY GuardAssumption DEF TableInv
<1>6. Cardinality(Table \ gone) <= MaxTurns
  BY <1>4, <1>5
<1>7. TableInv'
  <2>1. /\ IsFiniteSet(Table') /\ Cardinality(Table') <= MaxTurns
    BY <1>3, <1>4, <1>6
  <2>2. /\ \A t \in Table \ gone : armed'[t] <= armings
        /\ \A t, u \in Table \ gone : armed'[t] = armed'[u] => t = u
    BY <1>2 DEF TableInv
  <2> QED BY <1>3, <2>1, <2>2 DEF TableInv
<1> QED BY <1>2, <1>3, <1>7

\* What the table is once a turn is armed.
LEMMA PutIn ==
  ASSUME GuardTyped, TableInv, NEW t \in ChatTurns, t \notin Table,
         armed' = [u \in ChatTurns |-> IF u = t THEN armings + 1
                                       ELSE IF u \in Table \ Pruned THEN 0 ELSE armed[u]],
         armings' = armings + 1
  PROVE  /\ armed' \in [ChatTurns -> Nat] /\ Table' = Pruned \cup {t} /\ TableInv'
<1>1. /\ armed \in [ChatTurns -> Nat] /\ armings \in Nat
  BY DEF GuardTyped
<1>2. Pruned \subseteq Young /\ Young \subseteq Table
  BY DEF Pruned, Young
<1>3. /\ armed' \in [ChatTurns -> Nat] /\ armed'[t] = armings + 1
      /\ \A u \in Pruned : armed'[u] = armed[u] /\ u # t /\ u \in ChatTurns
  <2>1. armed' \in [ChatTurns -> Nat] /\ armed'[t] = armings + 1
    BY <1>1
  <2>2. \A u \in Pruned : u \in ChatTurns /\ u # t /\ u \notin Table \ Pruned
    BY <1>2 DEF Table
  <2> HIDE DEF Pruned
  <2>3. \A u \in Pruned : armed'[u] = armed[u]
    BY <1>1, <2>2
  <2> QED BY <2>1, <2>2, <2>3
<1>4. Table' = Pruned \cup {t}
  <2>1. Table' = {u \in ChatTurns : armed'[u] # 0}
    BY DEF Table
  <2>2. \A u \in ChatTurns \ {t} : armed'[u] # 0 <=> u \in Pruned
    BY <1>1, <1>2 DEF Table
  <2>3. armed'[t] # 0
    BY <1>1, <1>3
  <2> HIDE DEF Pruned, Table
  <2> QED BY <2>1, <2>2, <2>3, <1>3
<1>5. /\ IsFiniteSet(Pruned) /\ Cardinality(Pruned) <= MaxTurns - 1 /\ Cardinality(Pruned) \in Nat
  <2>1. IsFiniteSet(Table) /\ Young \in SUBSET Table
    BY <1>2 DEF TableInv
  <2>2. IsFiniteSet(Young)
    BY <2>1, FS_Subset
  <2>3. /\ \A u \in Young : armed[u] \in Nat
        /\ \A u, v \in Young : armed[u] = armed[v] => u = v
    BY <1>1, <1>2 DEF TableInv, Table
  <2>4. MaxTurns - 1 \in Nat
    BY GuardAssumption
  <2>5. IsFiniteSet(Pruned) /\ Cardinality(Pruned) <= MaxTurns - 1
    <3> HIDE DEF Young
    <3> QED BY <2>2, <2>3, <2>4, NewestFew DEF Pruned
  <2> QED BY <2>5, FS_CardinalityType
<1>6. IsFiniteSet(Table') /\ Cardinality(Table') <= MaxTurns
  <2>1. t \notin Pruned /\ MaxTurns \in Nat
    BY <1>2, GuardAssumption
  <2>2. IsFiniteSet(Pruned \cup {t}) /\ Cardinality(Pruned \cup {t}) = Cardinality(Pruned) + 1
    BY <1>5, <2>1, FS_AddElement
  <2> QED BY <1>4, <1>5, <2>1, <2>2
<1>7. /\ \A u \in Pruned \cup {t} : armed'[u] <= armings + 1
      /\ \A u, v \in Pruned \cup {t} : armed'[u] = armed'[v] => u = v
  <2>1. \A u \in Pruned : armed'[u] <= armings /\ armed'[u] \in Nat
    BY <1>1, <1>2, <1>3 DEF TableInv
  <2>2. \A u, v \in Pruned : armed'[u] = armed'[v] => u = v
    BY <1>2, <1>3 DEF TableInv
  <2> HIDE DEF Pruned
  <2>3. \A u \in Pruned \cup {t} : armed'[u] <= armings + 1
    <3> SUFFICES ASSUME NEW u \in Pruned \cup {t} PROVE armed'[u] <= armings + 1
      OBVIOUS
    <3>1. CASE u \in Pruned
      <4>1. PICK n \in Nat : n = armed'[u] /\ n <= armings
        BY <2>1, <3>1
      <4>2. PICK m \in Nat : m = armings
        BY <1>1
      <4>3. n <= m + 1
        BY <4>1, <4>2
      <4> QED BY <4>1, <4>2, <4>3, Zenon
    <3>2. CASE u = t
      BY <1>1, <1>3, <3>2
    <3> QED BY <3>1, <3>2
  <2>4. \A u \in Pruned : armed'[u] # armed'[t]
    BY <1>1, <1>3, <2>1
  <2> QED BY <2>2, <2>3, <2>4
<1> QED BY <1>3, <1>4, <1>6, <1>7 DEF TableInv

\* What one turn's record becomes; the others' keep theirs.
LEMMA OneTurn ==
  ASSUME GuardTyped, NEW t \in ChatTurns, NEW record \in TurnRecords,
         turns' = [turns EXCEPT ![t] = record]
  PROVE  /\ turns' \in [ChatTurns -> TurnRecords] /\ turns'[t] = record
         /\ \A u \in ChatTurns \ {t} : turns'[u] = turns[u]
BY DEF GuardTyped

\* Every step of a turn's hooks, for hooks that name their turn.
LEMMA GuardSteps ==
  ASSUME Named, GuardInv, [GuardNext]_guardVars
  PROVE  GuardInv'
<1> USE DEF GuardInv
<1>1. /\ turns \in [ChatTurns -> TurnRecords] /\ latest \in [Sessions -> ChatTurns \cup {None}]
      /\ None \notin ChatTurns /\ Table \subseteq ChatTurns /\ GraceCalls \in Nat /\ MaxToolCalls \in Nat
      /\ asking \subseteq ChatTurns
  BY GuardAssumption DEF GuardTyped, None, Table
<1>2. \A t \in ChatTurns : SessionOf[t] \in Sessions
  BY DEF Sessions
<1>3. ASSUME NEW t \in ChatTurns, Begins(t) PROVE GuardInv'
  <2> DEFINE phase == IF t \in asking THEN "arming" ELSE "open"
             prior == latest[SessionOf[t]]
  <2>1. /\ turns[t].phase = "none" /\ armed' = Without({prior}) /\ armings' = armings /\ asking' = asking
        /\ latest' = [latest EXCEPT ![SessionOf[t]] = None]
        /\ turns' = [u \in ChatTurns |->
                       IF u = t THEN [turns[u] EXCEPT !.phase = phase, !.newest = TRUE]
                       ELSE [turns[u] EXCEPT !.newest = @ /\ SessionOf[u] # SessionOf[t]]]
    BY <1>3 DEF Begins, Supersedes
  <2>2. armed' \in [ChatTurns -> Nat] /\ Table' = Table \ {prior} /\ TableInv'
    BY <2>1, TakenOut
  <2>3. /\ turns'[t] = [turns[t] EXCEPT !.phase = phase, !.newest = TRUE]
        /\ \A u \in ChatTurns \ {t} :
             turns'[u] = [turns[u] EXCEPT !.newest = turns[u].newest /\ SessionOf[u] # SessionOf[t]]
        /\ turns' = [u \in ChatTurns |-> turns'[u]]
    BY <2>1
  <2>4. phase \in {"arming", "open"} /\ (phase = "arming" <=> t \in asking)
    OBVIOUS
  <2> HIDE DEF phase
  <2>5. \A u \in ChatTurns : turns'[u] \in TurnRecords
    <3>1. turns'[t] \in TurnRecords
      BY <1>1, <2>3, <2>4 DEF TurnRecords
    <3>2. ASSUME NEW u \in ChatTurns, u # t PROVE turns'[u] \in TurnRecords
      <4>1. PICK b \in BOOLEAN : turns'[u] = [turns[u] EXCEPT !.newest = b]
        <5>1. (turns[u].newest /\ SessionOf[u] # SessionOf[t]) \in BOOLEAN
          BY Zenon
        <5> QED BY <2>3, <3>2, <5>1, Zenon
      <4> QED BY <1>1, <4>1 DEF TurnRecords
    <3> QED BY <3>1, <3>2
  <2>6. LatestInv'
    <3>1. \A s \in Sessions \ {SessionOf[t]} : latest'[s] = latest[s]
      BY <1>1, <2>1
    <3>2. latest'[SessionOf[t]] = None
      BY <1>1, <1>2, <2>1
    <3>3. \A s \in Sessions \ {SessionOf[t]} : latest[s] # None =>
             /\ latest[s] \in Table /\ SessionOf[latest[s]] = s
             /\ latest[s] # prior
      BY <1>1, <1>2 DEF LatestInv
    <3> QED BY <2>2, <3>1, <3>2, <3>3 DEF LatestInv
  <2>7. TurnInv'
    <3>1. TurnSound(turns'[t], t \in Table', t \in asking)
      <4>1. TurnSound(turns[t], t \in Table, t \in asking)
        BY DEF TurnInv
      <4>2. /\ turns'[t].phase = phase /\ turns'[t].ran = turns[t].ran /\ turns'[t].used = turns[t].used
            /\ turns'[t].reachable = turns[t].reachable /\ turns'[t].started = turns[t].started
            /\ turns'[t].blocked = turns[t].blocked
        BY <1>1, <2>3 DEF TurnRecords
      <4>3. t \notin Table'
        BY <2>1, <2>2, <4>1 DEF TurnSound
      <4>4. /\ turns[t].ran = 0 /\ turns[t].reachable /\ ~turns[t].started /\ ~turns[t].blocked
            /\ 0 <= GraceCalls
        <5>1. 0 <= GraceCalls
          BY <1>1
        <5> QED BY <2>1, <4>1, <5>1 DEF TurnSound
      <4> QED BY <2>4, <4>2, <4>3, <4>4 DEF TurnSound
    <3>2. ASSUME NEW u \in ChatTurns, u # t PROVE TurnSound(turns'[u], u \in Table', u \in asking)
      <4>1. TurnSound(turns[u], u \in Table, u \in asking)
        BY DEF TurnInv
      <4>2. /\ turns'[u].phase = turns[u].phase /\ turns'[u].ran = turns[u].ran
            /\ turns'[u].used = turns[u].used /\ turns'[u].reachable = turns[u].reachable
            /\ turns'[u].started = turns[u].started /\ turns'[u].blocked = turns[u].blocked
            /\ turns'[u].dropped = turns[u].dropped
            /\ turns'[u].newest => turns[u].newest /\ SessionOf[u] # SessionOf[t]
        <5> DEFINE b == turns[u].newest /\ SessionOf[u] # SessionOf[t]
        <5>1. turns[u] \in TurnRecords /\ turns'[u] = [turns[u] EXCEPT !.newest = b]
          BY <1>1, <2>3, <3>2
        <5> HIDE DEF b
        <5>2. turns'[u].newest = b
          BY <5>1 DEF TurnRecords
        <5>3. turns'[u].newest => turns[u].newest /\ SessionOf[u] # SessionOf[t]
          BY <5>2, Zenon DEF b
        <5> QED BY <5>1, <5>3 DEF TurnRecords
      <4>3. u = prior => SessionOf[u] = SessionOf[t]
        BY <1>1, <1>2 DEF LatestInv
      <4> QED BY <2>2, <4>1, <4>2, <4>3 DEF TurnSound
    <3> QED BY <2>1, <3>1, <3>2 DEF TurnInv
  <2>8. GuardTyped'
    BY <1>1, <1>2, <2>1, <2>2, <2>3, <2>5 DEF GuardTyped, TableInv
  <2> QED BY <2>2, <2>6, <2>7, <2>8
<1>4. ASSUME NEW t \in ChatTurns, Arms(t) PROVE GuardInv'
  <2> DEFINE gone == Table \ Pruned
  <2>1. /\ turns[t].phase = "arming" /\ armings' = armings + 1 /\ asking' = asking
        /\ armed' = [Without(gone) EXCEPT ![t] = armings + 1]
        /\ latest' = [Unlisted(latest, gone) EXCEPT ![SessionOf[t]] = t]
        /\ turns' = [u \in ChatTurns |->
                       IF u = t THEN [turns[u] EXCEPT !.phase = "open"]
                       ELSE [turns[u] EXCEPT !.dropped = @ \/ u \in gone]]
    BY <1>4 DEF Arms
  <2>2. TurnSound(turns[t], t \in Table, t \in asking)
    BY DEF TurnInv
  <2>3. t \notin Table /\ t \in asking
    BY <2>1, <2>2 DEF TurnSound
  <2>4. armed' \in [ChatTurns -> Nat] /\ Table' = Pruned \cup {t} /\ TableInv'
    <3>1. armed' = [u \in ChatTurns |-> IF u = t THEN armings + 1
                                        ELSE IF u \in Table \ Pruned THEN 0 ELSE armed[u]]
      BY <2>1 DEF Without
    <3> QED BY <2>1, <2>3, <3>1, PutIn
  <2>5. Pruned \subseteq Table
    BY DEF Pruned, Young
  <2>6. /\ turns'[t] = [turns[t] EXCEPT !.phase = "open"]
        /\ \A u \in ChatTurns \ {t} : turns'[u] = [turns[u] EXCEPT !.dropped = turns[u].dropped \/ u \in gone]
        /\ turns' = [u \in ChatTurns |-> turns'[u]]
    BY <2>1
  <2>7. ASSUME NEW u \in ChatTurns, u # t
        PROVE  /\ turns'[u] \in TurnRecords
               /\ turns'[u].phase = turns[u].phase /\ turns'[u].ran = turns[u].ran
               /\ turns'[u].used = turns[u].used /\ turns'[u].reachable = turns[u].reachable
               /\ turns'[u].started = turns[u].started /\ turns'[u].blocked = turns[u].blocked
               /\ turns'[u].newest = turns[u].newest
               /\ turns'[u].dropped <=> (turns[u].dropped \/ u \in gone)
    <3> DEFINE b == turns[u].dropped \/ u \in gone
    <3>1. turns[u] \in TurnRecords /\ turns'[u] = [turns[u] EXCEPT !.dropped = b]
      BY <1>1, <2>6, <2>7
    <3>2. b \in BOOLEAN
      BY Zenon
    <3> HIDE DEF b
    <3>3. turns'[u] \in TurnRecords /\ turns'[u].dropped = b
      BY <3>1, <3>2 DEF TurnRecords
    <3>4. turns'[u].dropped <=> (turns[u].dropped \/ u \in gone)
      BY <3>3, Zenon DEF b
    <3> QED BY <3>1, <3>3, <3>4 DEF TurnRecords
  <2> HIDE DEF gone
  <2>8. turns'[t] \in TurnRecords /\ turns'[t].phase = "open" /\ turns'[t].ran = turns[t].ran
        /\ turns'[t].used = turns[t].used /\ turns'[t].reachable = turns[t].reachable
        /\ turns'[t].started = turns[t].started /\ turns'[t].blocked = turns[t].blocked
    BY <1>1, <2>6 DEF TurnRecords
  <2>9. GuardTyped'
    <3>1. turns' \in [ChatTurns -> TurnRecords]
      BY <2>6, <2>7, <2>8
    <3>2. latest' \in [Sessions -> ChatTurns \cup {None}]
      BY <1>1, <2>1 DEF Unlisted
    <3> QED BY <1>1, <2>1, <2>4, <3>1, <3>2 DEF GuardTyped
  <2>10. LatestInv'
    <3>1. latest'[SessionOf[t]] = t
      BY <1>2, <2>1 DEF Unlisted
    <3>2. \A s \in Sessions \ {SessionOf[t]} : latest'[s] = IF latest[s] \in gone THEN None ELSE latest[s]
      BY <1>2, <2>1 DEF Unlisted
    <3>3. \A s \in Sessions \ {SessionOf[t]} : latest'[s] # None =>
             latest'[s] = latest[s] /\ latest[s] \in Pruned /\ SessionOf[latest[s]] = s
      BY <3>2 DEF LatestInv, gone
    <3> QED BY <2>4, <3>1, <3>3 DEF LatestInv
  <2>11. TurnInv'
    <3>1. TurnSound(turns'[t], t \in Table', t \in asking)
      <4>1. turns[t].ran = 0 /\ turns[t].reachable /\ ~turns[t].started /\ ~turns[t].blocked
        BY <2>1, <2>2 DEF TurnSound
      <4>2. 0 <= GraceCalls /\ 0 <= turns[t].used
        BY <1>1 DEF TurnRecords
      <4> QED BY <2>3, <2>4, <2>8, <4>1, <4>2 DEF TurnSound
    <3>2. ASSUME NEW u \in ChatTurns, u # t PROVE TurnSound(turns'[u], u \in Table', u \in asking)
      <4>1. TurnSound(turns[u], u \in Table, u \in asking)
        BY DEF TurnInv
      <4>2. (u \in Table' => u \in Table) /\ (u \in Table => u \in Table' \/ turns'[u].dropped)
        BY <2>4, <2>5, <2>7, <3>2 DEF gone
      <4> QED BY <2>7, <3>2, <4>1, <4>2 DEF TurnSound
    <3> QED BY <2>1, <3>1, <3>2 DEF TurnInv
  <2> QED BY <2>4, <2>9, <2>10, <2>11
\* A turn whose record alone changes.
<1>5. ASSUME NEW t \in ChatTurns, NEW record \in TurnRecords,
             turns' = [turns EXCEPT ![t] = record],
             UNCHANGED <<armed, armings, latest, asking>>,
             TurnSound(record, t \in Table, t \in asking)
      PROVE  GuardInv'
  <2>1. /\ turns' \in [ChatTurns -> TurnRecords] /\ turns'[t] = record
        /\ \A u \in ChatTurns \ {t} : turns'[u] = turns[u]
    BY <1>5, OneTurn
  <2>2. Table' = Table
    BY <1>5 DEF Table
  <2>3. GuardTyped' /\ TableInv' /\ LatestInv'
    BY <1>5, <2>1, <2>2 DEF GuardTyped, TableInv, LatestInv
  <2>4. TurnInv'
    BY <1>5, <2>1, <2>2 DEF TurnInv
  <2> QED BY <2>3, <2>4
\* A turn whose record changes as it is forgotten, if it was in the table.
<1>6. ASSUME NEW t \in ChatTurns, NEW record \in TurnRecords, NEW gone,
             turns' = [turns EXCEPT ![t] = record], Forget(gone), asking' = asking,
             gone = Found(t), TurnSound(record, FALSE, t \in asking)
      PROVE  GuardInv'
  <2>1. /\ turns' \in [ChatTurns -> TurnRecords] /\ turns'[t] = record
        /\ \A u \in ChatTurns \ {t} : turns'[u] = turns[u]
    BY <1>6, OneTurn
  <2>2. armed' \in [ChatTurns -> Nat] /\ Table' = Table \ {gone} /\ TableInv'
    BY <1>6, TakenOut DEF Forget
  <2>3. latest' = [s \in Sessions |-> IF latest[s] \in {gone} THEN None ELSE latest[s]]
    BY <1>6 DEF Forget, Unlisted
  <2>4. Table \ {gone} = Table \ {t}
    BY <1>1, <1>6 DEF Found, Armed
  <2>5. GuardTyped'
    BY <1>1, <1>6, <2>1, <2>2, <2>3 DEF GuardTyped, Forget
  <2>6. LatestInv'
    BY <2>2, <2>3 DEF LatestInv
  <2>7. TurnInv'
    <3>1. TurnSound(turns'[t], t \in Table', t \in asking)
      <4>1. t \notin Table'
        BY <2>2, <2>4
      <4> QED BY <1>6, <2>1, <4>1 DEF TurnSound
    <3>2. ASSUME NEW u \in ChatTurns, u # t PROVE TurnSound(turns'[u], u \in Table', u \in asking)
      <4>1. TurnSound(turns[u], u \in Table, u \in asking) /\ turns'[u] = turns[u]
        BY <2>1, <3>2 DEF TurnInv
      <4>2. u \in Table' <=> u \in Table
        BY <2>2, <2>4, <3>2
      <4> QED BY <4>1, <4>2 DEF TurnSound
    <3> QED BY <1>6, <3>1, <3>2 DEF TurnInv
  <2> QED BY <2>2, <2>5, <2>6, <2>7
<1>7. ASSUME NEW t \in ChatTurns, Unreachable(t) PROVE GuardInv'
  <2> DEFINE record == [turns[t] EXCEPT !.phase = "open", !.reachable = FALSE]
  <2>1. /\ turns[t].phase = "arming" /\ turns' = [turns EXCEPT ![t] = record]
        /\ UNCHANGED <<armed, armings, latest, asking>>
    BY <1>1, <1>7 DEF Unreachable
  <2>2. /\ record \in TurnRecords /\ record.phase = "open" /\ ~record.reachable
        /\ record.blocked = turns[t].blocked
    BY ZenonT(30), <1>1 DEF TurnRecords
  <2>3. TurnSound(turns[t], t \in Table, t \in asking)
    BY DEF TurnInv
  <2> HIDE DEF record
  <2>4. TurnSound(record, t \in Table, t \in asking)
    BY <2>1, <2>2, <2>3 DEF TurnSound
  <2> QED BY <1>5, <2>1, <2>2, <2>4
<1>8. ASSUME NEW t \in ChatTurns, Calls(t) PROVE GuardInv'
  <2>1. /\ turns[t].phase = "open" /\ turns[t].ran < MaxToolCalls
        /\ UNCHANGED <<armed, armings, latest, asking>>
    BY <1>8 DEF Calls
  <2>2. TurnSound(turns[t], t \in Table, t \in asking) /\ turns[t] \in TurnRecords
    BY <1>1 DEF TurnInv
  <2>3. turns[t].ran + 1 \in 0..MaxToolCalls
    BY <1>1, <2>1, <2>2 DEF TurnRecords
  <2>4. CASE t \notin Table
    <3> DEFINE record == IF t \in asking THEN [turns[t] EXCEPT !.ran = turns[t].ran + 1] ELSE turns[t]
    <3>1. turns' = [turns EXCEPT ![t] = record]
      BY <1>1, <1>8, <2>4 DEF Calls, Found, Armed, Ran
    <3>2. /\ record \in TurnRecords /\ record.phase = "open" /\ record.newest = turns[t].newest
          /\ record.reachable = turns[t].reachable /\ record.started = turns[t].started
          /\ record.dropped = turns[t].dropped /\ record.blocked = turns[t].blocked
      BY <2>1, <2>2, <2>3 DEF TurnRecords
    <3> HIDE DEF record
    <3>3. TurnSound(record, t \in Table, t \in asking)
      BY <2>1, <2>2, <2>4, <3>2 DEF TurnSound
    <3> QED BY <1>5, <2>1, <3>1, <3>2, <3>3
  <2>5. CASE t \in Table
    <3>1. t \in asking /\ turns[t].reachable /\ Found(t) = t /\ t # None
      BY <1>1, <2>2, <2>5 DEF TurnSound, Found, Armed
    <3>2. CASE Within(t)
      <4> DEFINE record == [turns[t] EXCEPT !.ran = turns[t].ran + 1, !.used = turns[t].used + 1]
      <4>1. turns' = [turns EXCEPT ![t] = record]
        <5>1. turns' = [Ran(t) EXCEPT ![t].used = @ + 1]
          BY <1>8, <3>1, <3>2 DEF Calls
        <5>2. Ran(t) = [turns EXCEPT ![t].ran = @ + 1]
          BY <3>1 DEF Ran
        <5> QED BY <1>1, <2>2, <5>1, <5>2 DEF TurnRecords
      <4>2. turns[t].used + 1 \in 0..GraceCalls /\ turns[t].ran + 1 <= turns[t].used + 1
        BY <1>1, <2>2, <2>5, <3>2 DEF Within, TurnRecords, TurnSound
      <4>3. /\ record \in TurnRecords /\ record.phase = "open" /\ record.newest = turns[t].newest
            /\ record.reachable = turns[t].reachable /\ record.started = turns[t].started
            /\ record.dropped = turns[t].dropped /\ record.blocked = turns[t].blocked
            /\ record.ran = turns[t].ran + 1 /\ record.used = turns[t].used + 1
        BY <2>1, <2>2, <2>3, <4>2 DEF TurnRecords
      <4>4. record.ran <= record.used /\ record.ran <= GraceCalls
        BY <1>1, <2>2, <4>2, <4>3 DEF TurnRecords
      <4> HIDE DEF record
      <4>5. TurnSound(record, t \in Table, t \in asking)
        BY <2>2, <2>5, <3>1, <4>3, <4>4 DEF TurnSound
      <4> QED BY <1>5, <2>1, <4>1, <4>3, <4>5
    <3>3. CASE ~Within(t)
      <4> DEFINE record == [turns[t] EXCEPT !.blocked = TRUE]
      <4>1. turns' = [turns EXCEPT ![t] = record]
        BY <1>1, <1>8, <3>1, <3>3 DEF Calls
      <4>2. /\ record \in TurnRecords /\ record.phase = "open" /\ record.newest = turns[t].newest
            /\ record.reachable = turns[t].reachable /\ record.started = turns[t].started
            /\ record.dropped = turns[t].dropped /\ record.ran = turns[t].ran
            /\ record.used = turns[t].used
        BY <2>1, <2>2 DEF TurnRecords
      <4> HIDE DEF record
      <4>3. TurnSound(record, t \in Table, t \in asking)
        BY <2>1, <2>2, <3>1, <4>2 DEF TurnSound
      <4> QED BY <1>5, <2>1, <4>1, <4>2, <4>3
    <3> QED BY <3>2, <3>3
  <2> QED BY <2>4, <2>5
<1>9. ASSUME NEW t \in ChatTurns, StartsWork(t) PROVE GuardInv'
  <2> DEFINE record == [turns[t] EXCEPT !.started = TRUE]
  <2>1. /\ turns[t].phase = "open" /\ turns' = [turns EXCEPT ![t] = record]
        /\ Forget(Found(t)) /\ asking' = asking
    BY <1>1, <1>9 DEF StartsWork
  <2>2. /\ record \in TurnRecords /\ record.phase = "open" /\ record.started
        /\ record.reachable = turns[t].reachable /\ record.blocked = turns[t].blocked
    BY <1>1, <2>1 DEF TurnRecords
  <2>3. TurnSound(turns[t], t \in Table, t \in asking)
    BY DEF TurnInv
  <2> HIDE DEF record
  <2>4. TurnSound(record, FALSE, t \in asking)
    BY <2>2, <2>3 DEF TurnSound
  <2> QED BY <1>6, <2>1, <2>2, <2>4
<1>10. ASSUME NEW t \in ChatTurns, EndsTurn(t) PROVE GuardInv'
  <2> DEFINE record == [turns[t] EXCEPT !.phase = "over"]
  <2>1. /\ turns[t].phase = "open" /\ turns' = [turns EXCEPT ![t] = record]
        /\ Forget(Found(t)) /\ asking' = asking
    BY <1>1, <1>10 DEF EndsTurn
  <2>2. /\ record \in TurnRecords /\ record.phase = "over" /\ record.newest = turns[t].newest
        /\ record.reachable = turns[t].reachable /\ record.started = turns[t].started
        /\ record.dropped = turns[t].dropped /\ record.ran = turns[t].ran
        /\ record.blocked = turns[t].blocked
    BY <1>1 DEF TurnRecords
  <2>3. TurnSound(turns[t], t \in Table, t \in asking)
    BY DEF TurnInv
  <2> HIDE DEF record
  <2>4. TurnSound(record, FALSE, t \in asking)
    BY <2>2, <2>3 DEF TurnSound
  <2> QED BY <1>6, <2>1, <2>2, <2>4
<1>11. ASSUME NEW t \in ChatTurns, GraceRunsOut(t) PROVE GuardInv'
  <2> DEFINE record == [turns[t] EXCEPT !.used = GraceCalls]
  <2>1. /\ turns' = [turns EXCEPT ![t] = record]
        /\ UNCHANGED <<armed, armings, latest, asking>>
    BY <1>1, <1>11 DEF GraceRunsOut
  <2>2. TurnSound(turns[t], t \in Table, t \in asking) /\ turns[t] \in TurnRecords
    BY <1>1 DEF TurnInv
  <2>3. /\ record \in TurnRecords /\ record.phase = turns[t].phase /\ record.newest = turns[t].newest
        /\ record.reachable = turns[t].reachable /\ record.started = turns[t].started
        /\ record.dropped = turns[t].dropped /\ record.ran = turns[t].ran
        /\ record.blocked = turns[t].blocked /\ record.used = GraceCalls
        /\ turns[t].ran <= turns[t].used => turns[t].ran <= GraceCalls
    BY <1>1, <2>2 DEF TurnRecords
  <2> HIDE DEF record
  <2>4. TurnSound(record, t \in Table, t \in asking)
    BY <2>2, <2>3 DEF TurnSound
  <2> QED BY <1>5, <2>1, <2>3, <2>4
<1>12. ASSUME NEW t \in ChatTurns, TurnAges(t) PROVE GuardInv'
  <2> DEFINE record == [turns[t] EXCEPT !.old = TRUE]
  <2>1. /\ turns' = [turns EXCEPT ![t] = record]
        /\ UNCHANGED <<armed, armings, latest, asking>>
    BY <1>1, <1>12 DEF TurnAges
  <2>2. TurnSound(turns[t], t \in Table, t \in asking) /\ turns[t] \in TurnRecords
    BY <1>1 DEF TurnInv
  <2>3. /\ record \in TurnRecords /\ record.phase = turns[t].phase /\ record.newest = turns[t].newest
        /\ record.reachable = turns[t].reachable /\ record.started = turns[t].started
        /\ record.dropped = turns[t].dropped /\ record.ran = turns[t].ran
        /\ record.blocked = turns[t].blocked /\ record.used = turns[t].used
    BY <2>2 DEF TurnRecords
  <2> HIDE DEF record
  <2>4. TurnSound(record, t \in Table, t \in asking)
    BY <2>2, <2>3 DEF TurnSound
  <2> QED BY <1>5, <2>1, <2>3, <2>4
<1>13. CASE UNCHANGED guardVars
  <2>1. Table' = Table
    BY <1>13 DEF guardVars, Table
  <2> QED BY <1>13, <2>1 DEF guardVars, GuardTyped, TableInv, LatestInv, TurnInv
<1> QED
  BY <1>3, <1>4, <1>7, <1>8, <1>9, <1>10, <1>11, <1>12, <1>13 DEF GuardNext

LEMMA GuardStarts == ASSUME GuardInit PROVE GuardInv
<1>1. PICK requests \in Asked : GuardIdle(requests)
  BY DEF GuardInit
<1>2. /\ turns = [t \in ChatTurns |-> NotBegun] /\ armed = [t \in ChatTurns |-> 0] /\ armings = 0
      /\ latest = [s \in Sessions |-> None] /\ asking \subseteq ChatTurns
  BY <1>1, GuardAssumption DEF GuardIdle
<1>3. NotBegun \in TurnRecords /\ GraceCalls \in Nat /\ MaxToolCalls \in Nat /\ MaxTurns \in Nat
  BY GuardAssumption DEF NotBegun, TurnRecords
<1>4. Table = {}
  BY <1>2 DEF Table
<1>5. GuardTyped
  BY <1>2, <1>3 DEF GuardTyped
<1>6. TableInv
  BY <1>3, <1>4, FS_EmptySet DEF TableInv
<1>7. LatestInv
  BY <1>2 DEF LatestInv
<1>8. TurnInv
  <2>1. 0 <= GraceCalls
    BY <1>3
  <2> QED BY <1>2, <1>4, <2>1 DEF TurnInv, TurnSound, NotBegun
<1> QED BY <1>5, <1>6, <1>7, <1>8 DEF GuardInv

LEMMA GuardHolds == GuardInv => GuardSound
<1> SUFFICES ASSUME GuardInv PROVE GuardSound
  OBVIOUS
<1> USE DEF GuardInv
<1>1. GuardTypeOK
  BY DEF GuardTyped, GuardTypeOK, TurnRecords
<1>2. AllowanceHolds
  BY DEF AllowanceHolds, GuardTyped, TurnInv, TurnSound
<1>3. BlockedWereAsked
  BY DEF BlockedWereAsked, TurnInv, TurnSound, LatestInv, Armed
<1>4. TableBounded
  BY DEF TableBounded, TableInv
<1> QED BY <1>1, <1>2, <1>3, <1>4 DEF GuardSound

\* A turn that was asked for tracked work keeps to its allowance, only such a turn is
\* blocked, and the table is bounded (guard.py:3): for any turns and sessions whose
\* hooks name their turn.
THEOREM GuardIsSound == Named => (GuardSpec => []GuardSound)
<1> SUFFICES ASSUME Named PROVE GuardSpec => []GuardSound
  OBVIOUS
<1>1. GuardInv /\ [GuardNext]_guardVars => GuardInv'
  BY GuardSteps
<1> QED BY <1>1, GuardStarts, GuardHolds, PTL DEF GuardSpec

-----------------------------------------------------------------------------
(* Answers: a reply decides one question.                                  *)

RoutingSteps == {"none", "receipt", "verify", "decide", "answer", "ordinary"}
ReplyRoutings == [at : RoutingSteps, published : SUBSET Questions,
             answered : [Questions -> Replies \cup {NoReply}], chosen : SUBSET Questions]
Caches == [answers : SUBSET Replies, ordinary : SUBSET Replies]
Deciders == [by : Replies \cup {NoReply, CoreItself}, value : BOOLEAN]

AnswersTyped ==
  /\ asks \in [Questions -> {"clarify", "approval"}] /\ says \in [Replies -> Texts]
  /\ said \in Seq(Questions \cup Replies)
  /\ shown \in [Questions -> {"no", "attempted", "yes"}] /\ waiting \subseteq Questions
  /\ decision \in [Questions -> Deciders]
  /\ answered \in [Questions -> Replies \cup {NoReply}]
  /\ routing \in [Adapters -> [Replies -> ReplyRoutings]]
  /\ cache \in [Adapters -> Caches]
  /\ routed \in [Replies -> {"none", "reserved", "ordinary"}]
  /\ inputs \subseteq Replies /\ receipts \subseteq inputs
  /\ mishaps \in Nat

\* The adapters remember what the Store says of a reply, and so does Core.
CachesAgree ==
  /\ \A a \in Adapters, r \in Replies :
       /\ r \in cache[a].answers => routed[r] = "reserved"
       /\ r \in cache[a].ordinary => routed[r] = "ordinary"
  /\ \A r \in inputs : routed[r] = "ordinary"

\* A reply that decided a question was reserved for it, or withdrew it as ordinary
\* input, and decided no other.
DecidesOne ==
  /\ \A q \in Questions : decision[q].by \in Replies =>
       routed[decision[q].by] = IF decision[q].value THEN "reserved" ELSE "ordinary"
  /\ \A p, q \in Questions : decision[p].by \in Replies /\ decision[p].by = decision[q].by => p = q

\* A question is decided once, and it is on screen once Linear has recorded it.
DecidedOnce ==
  \A q \in Questions :
    /\ q \in waiting => decision[q].by = NoReply
    /\ answered[q] # NoReply => decision[q].by = answered[q]
    /\ Recorded(q) <=> shown[q] = "yes"

\* What a person who answers q by r had seen, and what had been answered by then.
Seen(q, r) ==
  /\ Precedes(q, r)
  /\ says[r].kind # "pick" => \A p \in Questions \ {q} :
       Precedes(p, r) /\ ~Precedes(p, q) =>
         \E b \in Replies : decision[p].by = b /\ Precedes(p, b) /\ Precedes(b, r)
SeenFirst == \A q \in Questions : decision[q].by \in Replies => Seen(q, decision[q].by)

\* What a routing has read: the questions the reply could be about, answers that
\* stand and, once verified, questions that the person had seen.
ReadWell(w, r) ==
  /\ w.at \in {"receipt", "verify", "decide"} =>
       /\ Recorded(r)
       /\ \A p \in Questions : Precedes(p, r) => p \in w.published
       /\ \A p \in Questions : w.answered[p] # NoReply => decision[p].by = w.answered[p]
  /\ w.at = "decide" => \A q \in w.chosen : Seen(q, r)
RoutingsRead == \A a \in Adapters, r \in Replies : ReadWell(routing[a][r], r)

AnswersInv ==
  AnswersTyped /\ CachesAgree /\ DecidesOne /\ DecidedOnce /\ SeenFirst /\ RoutingsRead

\* Decisions are final, and the order of what is recorded is too.
StandsSettled ==
  /\ says' = says
  /\ \A q \in Questions : decision[q].by # NoReply => decision'[q] = decision[q]
  /\ \A x \in Questions \cup Replies : Recorded(x) => Recorded(x)'
  /\ \A x, y \in Questions \cup Replies : Recorded(y) => (Precedes(x, y)' <=> Precedes(x, y))

LEMMA PrecedesRecorded ==
  ASSUME NEW x, NEW y, Precedes(x, y)
  PROVE  Recorded(x) /\ Recorded(y)
BY DEF Precedes, Recorded

LEMMA SameStands ==
  ASSUME AnswersTyped, said' = said, says' = says,
         \A q \in Questions : decision[q].by # NoReply => decision'[q] = decision[q]
  PROVE  StandsSettled
BY DEF StandsSettled, Recorded, Precedes

\* Something more is recorded.
LEMMA RecordedMore ==
  ASSUME AnswersTyped, NEW z \in Questions \cup Replies, ~Recorded(z),
         said' = Append(said, z), says' = says, decision' = decision
  PROVE  /\ StandsSettled /\ said' \in Seq(Questions \cup Replies)
         /\ \A x \in Questions \cup Replies : Recorded(x)' <=> Recorded(x) \/ x = z
<1>1. /\ said \in Seq(Questions \cup Replies) /\ Len(said) \in Nat
      /\ Len(said') = Len(said) + 1 /\ said'[Len(said) + 1] = z
      /\ \A i \in 1..Len(said) : said'[i] = said[i] /\ said[i] # z
      /\ said' \in Seq(Questions \cup Replies)
  BY DEF AnswersTyped, Recorded
<1>2. ASSUME NEW x \in Questions \cup Replies PROVE Recorded(x)' <=> Recorded(x) \/ x = z
  BY <1>1 DEF Recorded
<1>3. ASSUME NEW x \in Questions \cup Replies, NEW y \in Questions \cup Replies, Recorded(y)
      PROVE  Precedes(x, y)' <=> Precedes(x, y)
  <2>1. y # z
    BY <1>3
  <2>2. ASSUME Precedes(x, y) PROVE Precedes(x, y)'
    BY <1>1, <2>2 DEF Precedes
  <2>3. ASSUME Precedes(x, y)' PROVE Precedes(x, y)
    <3>1. PICK i \in 1..Len(said'), j \in 1..Len(said') : i < j /\ said'[i] = x /\ said'[j] = y
      BY <2>3 DEF Precedes
    <3>2. j \in 1..Len(said) /\ i \in 1..Len(said)
      BY <1>1, <2>1, <3>1
    <3> QED BY <1>1, <3>1, <3>2 DEF Precedes
  <2> QED BY <2>2, <2>3
<1> QED BY <1>1, <1>2, <1>3 DEF StandsSettled

LEMMA SeenStays ==
  ASSUME StandsSettled, NEW q \in Questions, NEW r \in Replies, Seen(q, r), NoReply \notin Replies
  PROVE  Seen(q, r)'
<1>1. Recorded(r) /\ Recorded(q) /\ Precedes(q, r)'
  BY PrecedesRecorded DEF Seen, StandsSettled
<1>2. ASSUME says[r].kind # "pick", NEW p \in Questions \ {q}, Precedes(p, r)', ~Precedes(p, q)'
      PROVE  \E b \in Replies : decision'[p].by = b /\ Precedes(p, b)' /\ Precedes(b, r)'
  <2>1. Precedes(p, r) /\ ~Precedes(p, q)
    BY <1>1, <1>2 DEF StandsSettled
  <2>2. PICK b \in Replies : decision[p].by = b /\ Precedes(p, b) /\ Precedes(b, r)
    BY <1>2, <2>1 DEF Seen
  <2>3. Recorded(b)
    BY <2>2, PrecedesRecorded
  <2> QED BY <1>1, <2>2, <2>3 DEF StandsSettled
<1> QED BY <1>1, <1>2 DEF Seen, StandsSettled

\* What was read stays right.
LEMMA ReadsStay ==
  ASSUME StandsSettled, NoReply \notin Replies, NEW r \in Replies, NEW w \in ReplyRoutings, ReadWell(w, r)
  PROVE  ReadWell(w, r)'
<1>1. w.chosen \subseteq Questions
  BY DEF ReplyRoutings
<1>2. w.at = "decide" => \A q \in w.chosen : Seen(q, r)'
  BY <1>1, SeenStays DEF ReadWell
<1>3. ASSUME w.at \in {"receipt", "verify", "decide"}
      PROVE  /\ Recorded(r)' /\ \A p \in Questions : Precedes(p, r)' => p \in w.published
             /\ \A p \in Questions : w.answered[p] # NoReply => decision'[p].by = w.answered[p]
  BY <1>3 DEF ReadWell, StandsSettled
<1> QED BY <1>2, <1>3 DEF ReadWell

\* One routing moves on, or none does.
LEMMA RoutingMoves ==
  ASSUME AnswersInv, StandsSettled, NEW a \in Adapters, NEW r \in Replies, NEW w \in ReplyRoutings,
         RoutesTo(a, r, w), ReadWell(w, r)'
  PROVE  routing' \in [Adapters -> [Replies -> ReplyRoutings]] /\ RoutingsRead'
<1>1. routing \in [Adapters -> [Replies -> ReplyRoutings]] /\ NoReply \notin Replies
  BY AnswersAssumption DEF AnswersInv, AnswersTyped
<1> HIDE DEF ReplyRoutings
<1>2. routing' \in [Adapters -> [Replies -> ReplyRoutings]]
  BY <1>1 DEF RoutesTo
<1>3. ASSUME NEW b \in Adapters, NEW s \in Replies PROVE ReadWell(routing[b][s], s)'
  <2>1. CASE b = a /\ s = r
    <3>1. routing'[b][s] = w
      BY <1>1, <2>1 DEF RoutesTo
    <3> QED BY <2>1, <3>1 DEF ReadWell
  <2>2. CASE ~(b = a /\ s = r)
    <3>1. PICK v \in ReplyRoutings : v = routing[b][s]
      BY <1>1
    <3>2. routing'[b][s] = v
      BY <1>1, <2>2, <3>1 DEF RoutesTo
    <3>3. ReadWell(v, s)
      BY <3>1 DEF AnswersInv, RoutingsRead
    <3>4. ReadWell(v, s)'
      BY <1>1, <3>3, ReadsStay
    <3> QED BY <3>2, <3>4 DEF ReadWell
  <2> QED BY <2>1, <2>2
<1> QED BY <1>2, <1>3 DEF RoutingsRead

\* No routing moves.
LEMMA RoutingsStay ==
  ASSUME AnswersInv, StandsSettled, routing' = routing
  PROVE  RoutingsRead'
<1>1. routing \in [Adapters -> [Replies -> ReplyRoutings]] /\ NoReply \notin Replies
  BY AnswersAssumption DEF AnswersInv, AnswersTyped
<1> HIDE DEF ReplyRoutings
<1>2. ASSUME NEW b \in Adapters, NEW s \in Replies PROVE ReadWell(routing[b][s], s)'
  <2>1. PICK v \in ReplyRoutings : v = routing[b][s]
    BY <1>1
  <2>2. ReadWell(v, s)
    BY <2>1 DEF AnswersInv, RoutingsRead
  <2>3. ReadWell(v, s)'
    BY <1>1, <2>2, ReadsStay
  <2> QED BY <2>1, <2>3 DEF ReadWell
<1> QED BY <1>2 DEF RoutingsRead

\* What has been decided was seen, and stays so.
LEMMA SeenFirstStays ==
  ASSUME AnswersInv, StandsSettled,
         \A q \in Questions : decision'[q] = decision[q] \/ decision'[q].by \notin Replies
  PROVE  SeenFirst'
<1>1. ASSUME NEW q \in Questions, decision'[q].by \in Replies PROVE Seen(q, decision[q].by)'
  <2>1. PICK r \in Replies : r = decision[q].by /\ decision'[q].by = r
    BY <1>1
  <2>2. Seen(q, r)
    BY <2>1 DEF AnswersInv, SeenFirst
  <2>3. Seen(q, r)'
    BY <2>2, SeenStays, AnswersAssumption
  <2> QED BY <2>1, <2>3 DEF Seen
<1> QED BY <1>1 DEF SeenFirst

\* A routing ends: an answer stays out of Core's input, ordinary input goes there,
\* and the Store and the adapter say the same.
Disposition(how) == IF how = "answer" THEN "reserved" ELSE "ordinary"
RoutedAs(r, what) ==
  /\ routed[r] \in {"none", what}
  /\ routed' = [routed EXCEPT ![r] = what]

LEMMA RoutingEnds ==
  ASSUME AnswersInv, StandsSettled, NEW a \in Adapters, NEW r \in Replies, NEW how \in {"answer", "ordinary"},
         Settles(a, r, how), cache' = cache \/ Remembers(a, r, how), RoutedAs(r, Disposition(how)),
         receipts' = receipts
  PROVE  /\ routing' \in [Adapters -> [Replies -> ReplyRoutings]] /\ RoutingsRead'
         /\ cache' \in [Adapters -> Caches] /\ inputs' \subseteq Replies /\ receipts' \subseteq inputs'
         /\ routed' \in [Replies -> {"none", "reserved", "ordinary"}]
         /\ CachesAgree'
         /\ \A s \in Replies : routed[s] # "none" => routed'[s] = routed[s]
<1>1. /\ routed \in [Replies -> {"none", "reserved", "ordinary"}]
      /\ cache \in [Adapters -> Caches] /\ inputs \subseteq Replies /\ receipts \subseteq inputs
  BY DEF AnswersInv, AnswersTyped
<1> DEFINE w == [Unread EXCEPT !.at = how]
<1>2. w \in ReplyRoutings /\ w.at = how
  BY DEF Unread, ReplyRoutings, RoutingSteps
<1>3. RoutesTo(a, r, w)
  BY DEF Settles, Ends
<1> HIDE DEF w
<1>4. ReadWell(w, r)'
  BY <1>2 DEF ReadWell
<1>5. routing' \in [Adapters -> [Replies -> ReplyRoutings]] /\ RoutingsRead'
  BY <1>2, <1>3, <1>4, RoutingMoves
<1>6. /\ routed' \in [Replies -> {"none", "reserved", "ordinary"}]
      /\ routed'[r] = Disposition(how)
      /\ \A s \in Replies : routed[s] # "none" => routed'[s] = routed[s]
  BY <1>1 DEF RoutedAs, Disposition
<1>7. inputs' = (IF how = "ordinary" THEN inputs \cup {r} ELSE inputs)
  BY DEF Settles, Hands
<1>8. /\ cache' \in [Adapters -> Caches]
      /\ \A b \in Adapters, s \in Replies :
           /\ s \in cache'[b].answers => s \in cache[b].answers \/ (s = r /\ how = "answer")
           /\ s \in cache'[b].ordinary => s \in cache[b].ordinary \/ (s = r /\ how = "ordinary")
  <2>1. CASE cache' = cache
    BY <1>1, <2>1
  <2>2. CASE Remembers(a, r, how) /\ how = "answer"
    <3> DEFINE kept == [cache[a] EXCEPT !.answers = cache[a].answers \cup {r}]
    <3>1. cache' = [cache EXCEPT ![a] = kept]
      BY <1>1, <2>2 DEF Remembers
    <3>2. kept \in Caches /\ kept.answers = cache[a].answers \cup {r} /\ kept.ordinary = cache[a].ordinary
      BY <1>1 DEF Caches
    <3> HIDE DEF kept, Caches
    <3> QED BY <1>1, <2>2, <3>1, <3>2
  <2>3. CASE Remembers(a, r, how) /\ how = "ordinary"
    <3> DEFINE kept == [cache[a] EXCEPT !.ordinary = cache[a].ordinary \cup {r}]
    <3>1. cache' = [cache EXCEPT ![a] = kept]
      BY <1>1, <2>3 DEF Remembers
    <3>2. kept \in Caches /\ kept.ordinary = cache[a].ordinary \cup {r} /\ kept.answers = cache[a].answers
      BY <1>1 DEF Caches
    <3> HIDE DEF kept, Caches
    <3> QED BY <1>1, <2>3, <3>1, <3>2
  <2> QED BY <2>1, <2>2, <2>3
<1>9. CachesAgree'
  <2>1. \A b \in Adapters, s \in Replies :
          /\ s \in cache'[b].answers => routed'[s] = "reserved"
          /\ s \in cache'[b].ordinary => routed'[s] = "ordinary"
    <3>1. \A b \in Adapters, s \in Replies :
            /\ s \in cache[b].answers => routed'[s] = "reserved"
            /\ s \in cache[b].ordinary => routed'[s] = "ordinary"
      BY <1>6 DEF AnswersInv, CachesAgree
    <3> QED BY <1>6, <1>8, <3>1 DEF Disposition
  <2>2. \A s \in inputs' : routed'[s] = "ordinary"
    BY <1>1, <1>6, <1>7 DEF AnswersInv, CachesAgree, Disposition
  <2> QED BY <2>1, <2>2 DEF CachesAgree
<1> QED BY <1>1, <1>5, <1>6, <1>7, <1>8, <1>9

\* What CachesAgree and DecidesOne say stays while nothing they speak of changes.
LEMMA AnswersSteps ==
  ASSUME AnswersInv, [AnswersNext]_answersVars
  PROVE  AnswersInv'
<1>1. /\ asks \in [Questions -> {"clarify", "approval"}] /\ says \in [Replies -> Texts]
      /\ said \in Seq(Questions \cup Replies)
      /\ shown \in [Questions -> {"no", "attempted", "yes"}] /\ waiting \subseteq Questions
      /\ decision \in [Questions -> Deciders]
      /\ answered \in [Questions -> Replies \cup {NoReply}]
      /\ routing \in [Adapters -> [Replies -> ReplyRoutings]]
      /\ cache \in [Adapters -> Caches]
      /\ routed \in [Replies -> {"none", "reserved", "ordinary"}]
      /\ inputs \subseteq Replies /\ receipts \subseteq inputs /\ mishaps \in Nat
  BY DEF AnswersInv, AnswersTyped
<1>2. NoReply \notin Replies /\ CoreItself \notin Replies /\ Questions \cap Replies = {}
      /\ CoreItself # NoReply
  BY AnswersAssumption DEF NoReply, CoreItself
<1>3. AnswersTyped
  BY DEF AnswersInv
\* What is in the text of the mishaps.
<1>4. ASSUME Mishap PROVE mishaps' \in Nat
  BY <1>1, <1>4 DEF Mishap
<1>5. CASE UNCHANGED answersVars
  <2>1. StandsSettled
    BY <1>3, <1>5, SameStands DEF answersVars
  <2>2. RoutingsRead' /\ SeenFirst'
    BY <1>5, <2>1, RoutingsStay, SeenFirstStays DEF answersVars
  <2> QED BY <1>5, <2>2 DEF answersVars, AnswersInv, AnswersTyped, CachesAgree, DecidesOne, DecidedOnce, Recorded
<1>6. ASSUME NEW q \in Questions, CoreAsks(q) PROVE AnswersInv'
  <2>1. /\ decision[q].by = NoReply /\ shown[q] = "no"
        /\ shown' = [shown EXCEPT ![q] = "attempted"] /\ waiting' = waiting \cup {q}
        /\ UNCHANGED <<asks, says, said, decision, answered, routing, cache, routed, inputs, receipts, mishaps>>
    BY <1>6 DEF CoreAsks
  <2>2. StandsSettled
    BY <1>3, <2>1, SameStands
  <2>3. RoutingsRead' /\ SeenFirst'
    BY <2>1, <2>2, RoutingsStay, SeenFirstStays
  <2>4. AnswersTyped'
    BY <1>1, <2>1 DEF AnswersTyped
  <2>5. CachesAgree' /\ DecidesOne'
    BY <2>1 DEF AnswersInv, CachesAgree, DecidesOne
  <2>6. DecidedOnce'
    <3>1. \A p \in Questions : shown'[p] = "yes" <=> shown[p] = "yes"
      BY <1>1, <2>1
    <3> QED BY <2>1, <3>1 DEF AnswersInv, DecidedOnce, Recorded
  <2> QED BY <2>3, <2>4, <2>5, <2>6 DEF AnswersInv
<1>7. ASSUME NEW q \in Questions, Lands(q) PROVE AnswersInv'
  <2>1. /\ shown[q] = "attempted" /\ shown' = [shown EXCEPT ![q] = "yes"] /\ said' = Append(said, q)
        /\ UNCHANGED <<asks, says, waiting, decision, answered, routing, cache, routed, inputs, receipts, mishaps>>
    BY <1>7 DEF Lands
  <2>2. ~Recorded(q)
    BY <2>1 DEF AnswersInv, DecidedOnce
  <2>3. /\ StandsSettled /\ said' \in Seq(Questions \cup Replies)
        /\ \A x \in Questions \cup Replies : Recorded(x)' <=> Recorded(x) \/ x = q
    BY <1>3, <2>1, <2>2, RecordedMore
  <2>4. RoutingsRead' /\ SeenFirst'
    BY <2>1, <2>3, RoutingsStay, SeenFirstStays
  <2>5. AnswersTyped'
    BY <1>1, <2>1, <2>3 DEF AnswersTyped
  <2>6. CachesAgree' /\ DecidesOne'
    BY <2>1 DEF AnswersInv, CachesAgree, DecidesOne
  <2>7. DecidedOnce'
    <3>1. \A p \in Questions : shown'[p] = "yes" <=> shown[p] = "yes" \/ p = q
      BY <1>1, <2>1
    <3> QED BY <2>1, <2>3, <3>1 DEF AnswersInv, DecidedOnce
  <2> QED BY <2>4, <2>5, <2>6, <2>7 DEF AnswersInv
<1>8. ASSUME NEW r \in Replies, Replied(r) PROVE AnswersInv'
  <2>1. /\ ~Recorded(r) /\ said' = Append(said, r)
        /\ UNCHANGED <<asks, says, shown, waiting, decision, answered, routing, cache, routed, inputs, receipts, mishaps>>
    BY <1>8 DEF Replied
  <2>2. /\ StandsSettled /\ said' \in Seq(Questions \cup Replies)
        /\ \A x \in Questions \cup Replies : Recorded(x)' <=> Recorded(x) \/ x = r
    BY <1>3, <2>1, RecordedMore
  <2>3. RoutingsRead' /\ SeenFirst'
    BY <2>1, <2>2, RoutingsStay, SeenFirstStays
  <2>4. AnswersTyped'
    BY <1>1, <2>1, <2>2 DEF AnswersTyped
  <2>5. CachesAgree' /\ DecidesOne'
    BY <2>1 DEF AnswersInv, CachesAgree, DecidesOne
  <2>6. DecidedOnce'
    <3>1. \A p \in Questions : Recorded(p)' <=> Recorded(p)
      BY <1>2, <2>2
    <3> QED BY <2>1, <3>1 DEF AnswersInv, DecidedOnce
  <2> QED BY <2>3, <2>4, <2>5, <2>6 DEF AnswersInv
<1>9. ASSUME NEW q \in Questions, CoreRetires(q) PROVE AnswersInv'
  <2> DEFINE retired == [by |-> CoreItself, value |-> FALSE]
  <2>1. /\ q \in waiting /\ waiting' = waiting \ {q} /\ decision' = [decision EXCEPT ![q] = retired]
        /\ UNCHANGED <<asks, says, said, shown, answered, routing, cache, routed, inputs, receipts, mishaps>>
    BY <1>9 DEF CoreRetires, Resolved
  <2>2. retired \in Deciders /\ retired.by = CoreItself
    BY DEF Deciders
  <2> HIDE DEF retired, Deciders
  <2>3. /\ decision' \in [Questions -> Deciders] /\ decision'[q] = retired
        /\ \A p \in Questions \ {q} : decision'[p] = decision[p]
    BY <1>1, <2>1, <2>2
  <2>4. decision[q].by = NoReply
    BY <2>1 DEF AnswersInv, DecidedOnce
  <2>5. StandsSettled
    BY <1>3, <2>1, <2>3, <2>4, SameStands
  <2>6. RoutingsRead' /\ SeenFirst'
    BY <1>2, <2>1, <2>2, <2>3, <2>5, RoutingsStay, SeenFirstStays
  <2>7. AnswersTyped'
    BY <1>1, <2>1, <2>3 DEF AnswersTyped
  <2>8. CachesAgree' /\ DecidesOne'
    BY <1>2, <2>1, <2>2, <2>3 DEF AnswersInv, CachesAgree, DecidesOne
  <2>9. DecidedOnce'
    <3>1. answered[q] = NoReply
      BY <2>1, <2>4 DEF AnswersInv, DecidedOnce
    <3> QED BY <2>1, <2>3, <3>1 DEF AnswersInv, DecidedOnce, Recorded
  <2> QED BY <2>6, <2>7, <2>8, <2>9 DEF AnswersInv
<1>10. ASSUME NEW r \in Replies, CommitsReply(r) PROVE AnswersInv'
  <2>1. /\ r \in inputs /\ receipts' = receipts \cup {r}
        /\ UNCHANGED <<asks, says, said, shown, waiting, decision, answered, routing, cache, routed, inputs, mishaps>>
    BY <1>10 DEF CommitsReply
  <2>2. StandsSettled
    BY <1>3, <2>1, SameStands
  <2>3. RoutingsRead' /\ SeenFirst'
    BY <2>1, <2>2, RoutingsStay, SeenFirstStays
  <2>4. AnswersTyped'
    BY <1>1, <2>1 DEF AnswersTyped
  <2> QED BY <2>1, <2>3, <2>4 DEF AnswersInv, CachesAgree, DecidesOne, DecidedOnce, Recorded
\* A routing that goes on, or that a failed read gives up.
<1>11. ASSUME NEW a \in Adapters, NEW r \in Replies, NEW w \in ReplyRoutings, RoutesTo(a, r, w), ReadWell(w, r),
              mishaps' \in Nat,
              UNCHANGED <<asks, says, said, shown, waiting, decision, answered, cache, routed, inputs, receipts>>
       PROVE  AnswersInv'
  <2>1. StandsSettled
    BY <1>3, <1>11, SameStands
  <2>2. ReadWell(w, r)'
    BY <1>2, <1>11, <2>1, ReadsStay
  <2>3. routing' \in [Adapters -> [Replies -> ReplyRoutings]] /\ RoutingsRead'
    BY <1>11, <2>1, <2>2, RoutingMoves
  <2>4. SeenFirst'
    BY <1>11, <2>1, SeenFirstStays
  <2>5. AnswersTyped'
    BY <1>1, <1>11, <2>3 DEF AnswersTyped
  <2> QED BY <1>11, <2>3, <2>4, <2>5 DEF AnswersInv, CachesAgree, DecidesOne, DecidedOnce, Recorded
\* A routing that ends and decides nothing.
<1>12. ASSUME NEW a \in Adapters, NEW r \in Replies, NEW how \in {"answer", "ordinary"},
              Settles(a, r, how), cache' = cache \/ Remembers(a, r, how), RoutedAs(r, Disposition(how)),
              UNCHANGED <<asks, says, said, shown, waiting, decision, answered, receipts, mishaps>>
       PROVE  AnswersInv'
  <2>1. StandsSettled
    BY <1>3, <1>12, SameStands
  <2>2. /\ routing' \in [Adapters -> [Replies -> ReplyRoutings]] /\ RoutingsRead'
        /\ cache' \in [Adapters -> Caches] /\ inputs' \subseteq Replies /\ receipts' \subseteq inputs'
        /\ routed' \in [Replies -> {"none", "reserved", "ordinary"}]
        /\ CachesAgree'
        /\ \A s \in Replies : routed[s] # "none" => routed'[s] = routed[s]
    BY <1>12, <2>1, RoutingEnds
  <2>3. SeenFirst'
    BY <1>12, <2>1, SeenFirstStays
  <2>4. AnswersTyped'
    BY <1>1, <1>12, <2>2 DEF AnswersTyped
  <2>5. DecidesOne'
    <3>1. \A q \in Questions : decision[q].by \in Replies => routed[decision[q].by] # "none"
      BY DEF AnswersInv, DecidesOne
    <3> QED BY <1>12, <2>2, <3>1 DEF AnswersInv, DecidesOne
  <2> QED BY <1>12, <2>2, <2>3, <2>4, <2>5 DEF AnswersInv, DecidedOnce, Recorded
\* What is remembered of a reply tells how its routing ends.
<1>13. ASSUME NEW r \in Replies, routed[r] # "none"
       PROVE  /\ Routing(routed[r]) \in {"answer", "ordinary"}
              /\ Disposition(Routing(routed[r])) = routed[r]
  BY <1>1, <1>13 DEF Routing, Disposition
<1>14. ASSUME NEW r \in Replies, routed[r] # "none", routed' = routed PROVE RoutedAs(r, routed[r])
  BY <1>1, <1>14 DEF RoutedAs
<1>15. ASSUME NEW a \in Adapters, NEW r \in Replies, StartsRouting(a, r) PROVE AnswersInv'
  <2>1. /\ Recorded(r)
        /\ UNCHANGED <<asks, says, said, shown, waiting, decision, answered, cache, receipts, mishaps>>
    BY <1>15 DEF StartsRouting
  <2>2. CASE r \in cache[a].answers /\ Settles(a, r, "answer") /\ UNCHANGED routed
    <3>1. routed[r] = "reserved" /\ RoutedAs(r, Disposition("answer"))
      BY <1>14, <2>2 DEF AnswersInv, CachesAgree, Disposition
    <3> QED BY <1>12, <2>1, <2>2, <3>1
  <2>3. CASE r \in cache[a].ordinary /\ Settles(a, r, "ordinary") /\ UNCHANGED routed
    <3>1. routed[r] = "ordinary" /\ RoutedAs(r, Disposition("ordinary"))
      BY <1>14, <2>3 DEF AnswersInv, CachesAgree, Disposition
    <3> QED BY <1>12, <2>1, <2>3, <3>1
  <2>4. CASE routed[r] # "none" /\ Settles(a, r, Routing(routed[r])) /\ UNCHANGED routed
    <3>1. RoutedAs(r, Disposition(Routing(routed[r]))) /\ Routing(routed[r]) \in {"answer", "ordinary"}
      BY <1>13, <1>14, <2>4
    <3> QED BY <1>12, <2>1, <2>4, <3>1
  <2>5. CASE /\ routed[r] = "none" /\ routed' = [routed EXCEPT ![r] = "ordinary"]
             /\ Settles(a, r, "ordinary")
    <3>1. RoutedAs(r, Disposition("ordinary"))
      BY <2>5 DEF RoutedAs, Disposition
    <3> QED BY <1>12, <2>1, <2>5, <3>1
  <2>6. CASE /\ RoutesTo(a, r, [at |-> "receipt", published |-> conversation_questions,
                                answered |-> answered, chosen |-> {}])
             /\ UNCHANGED <<routed, inputs>>
    <3> DEFINE w == [at |-> "receipt", published |-> conversation_questions,
                     answered |-> answered, chosen |-> {}]
    <3>1. /\ w \in ReplyRoutings /\ w.at = "receipt" /\ w.answered = answered
          /\ w.published = conversation_questions
      BY <1>1 DEF ReplyRoutings, RoutingSteps, conversation_questions
    <3>2. RoutesTo(a, r, w)
      BY <2>6
    <3> HIDE DEF w
    <3>3. \A p \in Questions : Precedes(p, r) => p \in w.published
      BY <3>1, PrecedesRecorded DEF AnswersInv, DecidedOnce, conversation_questions
    <3>4. ReadWell(w, r)
      BY <2>1, <3>1, <3>3 DEF ReadWell, AnswersInv, DecidedOnce
    <3> QED BY <1>1, <1>11, <2>1, <2>6, <3>1, <3>2, <3>4
  <2> QED BY <1>15, <2>2, <2>3, <2>4, <2>5, <2>6 DEF StartsRouting
<1>16. ASSUME NEW a \in Adapters, NEW r \in Replies, HasReceipt(a, r) PROVE AnswersInv'
  <2> DEFINE how == FirstRouting(r, "ordinary")
  <2>1. /\ routed' = [routed EXCEPT ![r] = how]
        /\ Remembers(a, r, Routing(how)) /\ Settles(a, r, Routing(how))
        /\ UNCHANGED <<asks, says, said, shown, waiting, decision, answered, receipts, mishaps>>
    BY <1>16 DEF HasReceipt
  <2>2. how \in {"reserved", "ordinary"} /\ routed[r] \in {"none", how}
    BY <1>1 DEF FirstRouting
  <2> HIDE DEF how
  <2>3. Routing(how) \in {"answer", "ordinary"} /\ RoutedAs(r, Disposition(Routing(how)))
    BY <2>1, <2>2 DEF Routing, Disposition, RoutedAs
  <2> QED BY <1>12, <2>1, <2>3
<1>17. ASSUME NEW a \in Adapters, NEW r \in Replies, NoReceipt(a, r) PROVE AnswersInv'
  <2> DEFINE v == routing[a][r]
             chosen == Chosen(r, v.published)
             w == [v EXCEPT !.at = "verify", !.chosen = chosen]
  <2>1. /\ v.at = "receipt" /\ RoutesTo(a, r, w)
        /\ UNCHANGED <<asks, says, said, shown, waiting, decision, answered, cache, routed, inputs, receipts, mishaps>>
    BY <1>17 DEF NoReceipt
  <2>2. v \in ReplyRoutings /\ ReadWell(v, r)
    BY <1>1 DEF AnswersInv, RoutingsRead
  <2>3. chosen \subseteq Questions
    BY <1>1 DEF Chosen
  <2> HIDE DEF v, chosen
  <2>4. /\ w \in ReplyRoutings /\ w.at = "verify" /\ w.published = v.published /\ w.answered = v.answered
    BY <2>2, <2>3 DEF ReplyRoutings, RoutingSteps
  <2> HIDE DEF w
  <2>5. ReadWell(w, r)
    BY <2>1, <2>2, <2>4 DEF ReadWell
  <2> QED BY <1>1, <1>11, <2>1, <2>4, <2>5
<1>18. ASSUME NEW a \in Adapters, NEW r \in Replies, Verifies(a, r) PROVE AnswersInv'
  <2> DEFINE v == routing[a][r]
             chosen == {q \in v.chosen : ShownFirst(v, q, r)}
             w == [v EXCEPT !.at = "decide", !.chosen = chosen]
  <2>1. /\ v.at = "verify" /\ RoutesTo(a, r, w)
        /\ UNCHANGED <<asks, says, said, shown, waiting, decision, answered, cache, routed, inputs, receipts, mishaps>>
    BY <1>18 DEF Verifies
  <2>2. v \in ReplyRoutings /\ ReadWell(v, r)
    BY <1>1 DEF AnswersInv, RoutingsRead
  <2>3. chosen \subseteq Questions /\ \A q \in chosen : ShownFirst(v, q, r)
    BY <2>2 DEF ReplyRoutings
  <2> HIDE DEF v, chosen
  <2>4. /\ w \in ReplyRoutings /\ w.at = "decide" /\ w.published = v.published /\ w.answered = v.answered
        /\ w.chosen = chosen
    BY <2>2, <2>3 DEF ReplyRoutings, RoutingSteps
  <2> HIDE DEF w
  <2>5. ASSUME NEW q \in chosen PROVE Seen(q, r)
    <3>1. Precedes(q, r)
      BY <2>3 DEF ShownFirst
    <3>2. ASSUME says[r].kind # "pick", NEW p \in Questions \ {q}, Precedes(p, r), ~Precedes(p, q)
          PROVE  \E b \in Replies : decision[p].by = b /\ Precedes(p, b) /\ Precedes(b, r)
      <4>1. p \in v.published \ {q}
        BY <2>1, <2>2, <3>2 DEF ReadWell
      <4>2. v.answered[p] # NoReply /\ Precedes(p, v.answered[p]) /\ Precedes(v.answered[p], r)
        BY <2>3, <3>2, <4>1 DEF ShownFirst
      <4>3. v.answered[p] \in Replies /\ decision[p].by = v.answered[p]
        BY <2>1, <2>2, <4>2 DEF ReadWell, ReplyRoutings
      <4> QED BY <4>2, <4>3
    <3> QED BY <3>1, <3>2 DEF Seen
  <2>6. ReadWell(w, r)
    BY <2>1, <2>2, <2>4, <2>5 DEF ReadWell
  <2> QED BY <1>1, <1>11, <2>1, <2>4, <2>6
<1>19. ASSUME NEW a \in Adapters, NEW r \in Replies, RoutingFails(a, r) PROVE AnswersInv'
  <2> DEFINE w == [Unread EXCEPT !.at = "none"]
  <2>1. /\ RoutesTo(a, r, w) /\ mishaps' \in Nat
        /\ UNCHANGED <<asks, says, said, shown, waiting, decision, answered, cache, routed, inputs, receipts>>
    BY <1>4, <1>19 DEF RoutingFails, Ends
  <2>2. w \in ReplyRoutings /\ w.at = "none"
    BY DEF Unread, ReplyRoutings, RoutingSteps
  <2> HIDE DEF w
  <2> QED BY <1>11, <2>1, <2>2 DEF ReadWell
<1>20. ASSUME NEW a \in Adapters, NEW r \in Replies, RoutedMeanwhile(a, r) PROVE AnswersInv'
  <2> DEFINE how == IF r \in cache[a].answers THEN "answer"
                    ELSE IF r \in cache[a].ordinary THEN "ordinary" ELSE Routing(routed[r])
  <2>1. /\ r \in cache[a].answers \cup cache[a].ordinary \/ routed[r] # "none"
        /\ Remembers(a, r, how) /\ Settles(a, r, how)
        /\ UNCHANGED <<asks, says, said, shown, waiting, decision, answered, routed, receipts, mishaps>>
    BY <1>20 DEF RoutedMeanwhile
  <2>2. routed[r] # "none" /\ how = Routing(routed[r])
    BY <2>1 DEF AnswersInv, CachesAgree, Routing
  <2>3. how \in {"answer", "ordinary"} /\ RoutedAs(r, Disposition(how))
    BY <1>13, <1>14, <2>1, <2>2
  <2> HIDE DEF how
  <2> QED BY <1>12, <2>1, <2>3
\* A reply that is reserved by nobody decides a waiting question that it may be about.
<1>21. ASSUME NEW r \in Replies, NEW q \in waiting, NEW value \in BOOLEAN, Seen(q, r),
              routed[r] = "none", decision' = [decision EXCEPT ![q] = [by |-> r, value |-> value]],
              routed' = [routed EXCEPT ![r] = IF value THEN "reserved" ELSE "ordinary"],
              said' = said, says' = says
       PROVE  /\ StandsSettled /\ decision' \in [Questions -> Deciders] /\ DecidesOne' /\ SeenFirst'
              /\ q \in Questions /\ decision[q].by = NoReply /\ decision'[q].by = r
              /\ \A p \in Questions \ {q} : decision'[p] = decision[p]
  <2> DEFINE deciding == [by |-> r, value |-> value]
  <2>1. deciding \in Deciders /\ deciding.by = r /\ deciding.value = value
    BY DEF Deciders
  <2>2. q \in Questions /\ decision[q].by = NoReply
    BY <1>1 DEF AnswersInv, DecidedOnce
  <2>3. decision' = [decision EXCEPT ![q] = deciding]
    BY <1>21
  <2> HIDE DEF deciding, Deciders
  <2>4. /\ decision' \in [Questions -> Deciders] /\ decision'[q] = deciding
        /\ \A p \in Questions \ {q} : decision'[p] = decision[p]
    BY <1>1, <2>1, <2>2, <2>3
  <2>5. StandsSettled
    BY <1>3, <1>21, <2>2, <2>4, SameStands
  <2>6. DecidesOne'
    <3>1. /\ routed'[r] = (IF value THEN "reserved" ELSE "ordinary")
          /\ \A s \in Replies : routed[s] # "none" => routed'[s] = routed[s]
      BY <1>1, <1>21
    <3>2. \A p \in Questions : decision[p].by \in Replies =>
             routed[decision[p].by] # "none" /\ decision[p].by # r
      BY <1>21 DEF AnswersInv, DecidesOne
    <3>3. ASSUME NEW p \in Questions, decision'[p].by \in Replies
          PROVE  routed'[decision'[p].by] = IF decision'[p].value THEN "reserved" ELSE "ordinary"
      <4>1. CASE p = q
        BY <2>1, <2>4, <3>1, <4>1
      <4>2. CASE p # q
        BY <2>4, <3>1, <3>2, <3>3, <4>2 DEF AnswersInv, DecidesOne
      <4> QED BY <4>1, <4>2
    <3>4. \A p, o \in Questions : decision'[p].by \in Replies /\ decision'[p].by = decision'[o].by => p = o
      BY <2>1, <2>4, <3>2 DEF AnswersInv, DecidesOne
    <3> QED BY <3>3, <3>4 DEF DecidesOne
  <2>7. SeenFirst'
    <3>1. ASSUME NEW p \in Questions, decision'[p].by \in Replies PROVE Seen(p, decision[p].by)'
      <4>1. CASE p = q
        <5>1. Seen(q, r)'
          BY <1>2, <1>21, <2>2, <2>5, SeenStays
        <5> QED BY <2>1, <2>4, <4>1, <5>1 DEF Seen
      <4>2. CASE p # q
        <5>1. PICK s \in Replies : s = decision[p].by /\ decision'[p].by = s
          BY <2>4, <3>1, <4>2
        <5>2. Seen(p, s)'
          BY <1>2, <2>5, <5>1, SeenStays DEF AnswersInv, SeenFirst
        <5> QED BY <5>1, <5>2 DEF Seen
      <4> QED BY <4>1, <4>2
    <3> QED BY <3>1 DEF SeenFirst
  <2> QED BY <2>1, <2>2, <2>4, <2>5, <2>6, <2>7
<1>22. ASSUME NEW a \in Adapters, NEW r \in Replies, Decides(a, r) PROVE AnswersInv'
  <2> DEFINE about == {q \in routing[a][r].chosen : q \in waiting}
             result == IF about = {} THEN "ordinary" ELSE Outcome(CHOOSE q \in about : TRUE, r)
             how == IF result \in {"decides", "refused"} THEN "answer" ELSE "ordinary"
  <2>1. /\ routing[a][r].at = "decide" /\ routed[r] = "none"
        /\ routed' = [routed EXCEPT ![r] = IF how = "answer" THEN "reserved" ELSE "ordinary"]
        /\ Remembers(a, r, how) /\ Settles(a, r, how)
        /\ UNCHANGED <<asks, says, said, shown, receipts, mishaps>>
    BY <1>22 DEF Decides, Unrouted
  <2>2. \/ UNCHANGED <<waiting, decision, answered>>
        \/ result \in {"decides", "cancels"} /\ \E q \in about : /\ Resolved(q, r, result = "decides")
                                                                 /\ answered' = [answered EXCEPT ![q] = r]
    BY <1>22 DEF Decides
  <2>3. \A q \in about : q \in waiting /\ Seen(q, r)
    BY <1>1, <2>1 DEF AnswersInv, RoutingsRead, ReadWell
  <2> HIDE DEF about, result
  <2>4. how \in {"answer", "ordinary"} /\ RoutedAs(r, Disposition(how))
    BY <2>1 DEF RoutedAs, Disposition
  <2>5. CASE UNCHANGED <<waiting, decision, answered>>
    <3> HIDE DEF how
    <3> QED BY <1>12, <2>1, <2>4, <2>5
  <2>6. ASSUME result \in {"decides", "cancels"}, NEW q \in about, Resolved(q, r, result = "decides"),
               answered' = [answered EXCEPT ![q] = r]
        PROVE  AnswersInv'
    <3>1. /\ q \in waiting /\ Seen(q, r) /\ waiting' = waiting \ {q}
          /\ decision' = [decision EXCEPT ![q] = [by |-> r, value |-> result = "decides"]]
      BY <2>3, <2>6 DEF Resolved
    <3>2. routed' = [routed EXCEPT ![r] = IF result = "decides" THEN "reserved" ELSE "ordinary"]
      BY <2>1, <2>6
    <3>3. /\ StandsSettled /\ decision' \in [Questions -> Deciders] /\ DecidesOne' /\ SeenFirst'
          /\ q \in Questions /\ decision[q].by = NoReply /\ decision'[q].by = r
          /\ \A p \in Questions \ {q} : decision'[p] = decision[p]
      <4>1. PICK value \in BOOLEAN : value = (result = "decides")
        OBVIOUS
      <4> QED BY <1>21, <2>1, <3>1, <3>2, <4>1
    <3> HIDE DEF how
    <3>4. /\ routing' \in [Adapters -> [Replies -> ReplyRoutings]] /\ RoutingsRead'
          /\ cache' \in [Adapters -> Caches] /\ inputs' \subseteq Replies /\ receipts' \subseteq inputs'
          /\ routed' \in [Replies -> {"none", "reserved", "ordinary"}]
          /\ CachesAgree'
      BY <2>1, <2>4, <3>3, RoutingEnds
    <3>5. AnswersTyped'
      <4>1. answered' \in [Questions -> Replies \cup {NoReply}]
        BY <1>1, <2>6
      <4> QED BY <1>1, <2>1, <3>1, <3>3, <3>4, <4>1 DEF AnswersTyped
    <3>6. DecidedOnce'
      <4>1. answered'[q] = r /\ \A p \in Questions \ {q} : answered'[p] = answered[p]
        BY <1>1, <2>6, <3>3
      <4> QED BY <2>1, <3>1, <3>3, <4>1 DEF AnswersInv, DecidedOnce, Recorded
    <3> QED BY <3>3, <3>4, <3>5, <3>6 DEF AnswersInv
  <2> QED BY <2>2, <2>5, <2>6
\* The process dies: nothing that it knew is left, and what stands is in the Store.
<1>23. ASSUME GatewayDies, StandsSettled, DecidesOne', SeenFirst', decision' \in [Questions -> Deciders],
              routed' \in [Replies -> {"none", "reserved", "ordinary"}],
              \A s \in Replies : routed[s] # "none" => routed'[s] = routed[s],
              UNCHANGED <<asks, says, said, shown, answered, receipts>>
       PROVE  AnswersInv'
  <2>1. /\ waiting' = {} /\ inputs' = receipts /\ mishaps' \in Nat
        /\ routing' = [a \in Adapters |-> [r \in Replies |-> Unread]]
        /\ cache' = [a \in Adapters |-> [answers |-> {}, ordinary |-> {}]]
    BY <1>4, <1>23 DEF GatewayDies
  <2>2. Unread \in ReplyRoutings /\ Unread.at = "none"
    BY DEF Unread, ReplyRoutings, RoutingSteps
  <2>3. routing' \in [Adapters -> [Replies -> ReplyRoutings]]
    <3> HIDE DEF ReplyRoutings
    <3> QED BY <2>1, <2>2
  <2>4. RoutingsRead'
    <3> SUFFICES ASSUME NEW a \in Adapters, NEW r \in Replies PROVE ReadWell(routing[a][r], r)'
      BY DEF RoutingsRead
    <3>1. routing'[a][r].at = "none"
      BY <2>1, <2>2
    <3> QED BY <3>1 DEF ReadWell
  <2>5. cache' \in [Adapters -> Caches] /\ \A a \in Adapters : cache'[a].answers = {} /\ cache'[a].ordinary = {}
    BY <2>1 DEF Caches
  <2>6. AnswersTyped'
    BY <1>1, <1>23, <2>1, <2>3, <2>5 DEF AnswersTyped
  <2>7. CachesAgree'
    BY <1>1, <1>23, <2>1, <2>5 DEF AnswersInv, CachesAgree
  <2>8. DecidedOnce'
    BY <1>23, <2>1 DEF AnswersInv, DecidedOnce, Recorded, StandsSettled
  <2> QED BY <1>23, <2>4, <2>6, <2>7, <2>8 DEF AnswersInv
<1>24. CASE DiesBetweenSteps
  <2>1. /\ GatewayDies
        /\ UNCHANGED <<asks, says, said, shown, decision, answered, routed, receipts>>
    BY <1>24 DEF DiesBetweenSteps
  <2>2. StandsSettled
    BY <1>3, <2>1, SameStands
  <2>3. DecidesOne' /\ SeenFirst'
    BY <2>1, <2>2, SeenFirstStays DEF AnswersInv, DecidesOne
  <2> QED BY <1>1, <1>23, <2>1, <2>2, <2>3
<1>25. ASSUME NEW a \in Adapters, NEW r \in Replies, DiesDeciding(a, r) PROVE AnswersInv'
  <2>1. /\ routing[a][r].at = "decide" /\ routed[r] = "none" /\ GatewayDies
        /\ routed' = [routed EXCEPT ![r] = "reserved"]
        /\ UNCHANGED <<asks, says, said, shown, answered, receipts>>
    BY <1>25 DEF DiesDeciding, Unrouted
  <2>2. /\ routed' \in [Replies -> {"none", "reserved", "ordinary"}]
        /\ \A s \in Replies : routed[s] # "none" => routed'[s] = routed[s]
    BY <1>1, <2>1
  <2>3. CASE decision' = decision
    <3>1. StandsSettled
      BY <1>3, <2>1, <2>3, SameStands
    <3>2. DecidesOne'
      <4>1. \A q \in Questions : decision[q].by \in Replies => routed[decision[q].by] # "none"
        BY DEF AnswersInv, DecidesOne
      <4> QED BY <2>2, <2>3, <4>1 DEF AnswersInv, DecidesOne
    <3>3. SeenFirst'
      BY <2>3, <3>1, SeenFirstStays
    <3> QED BY <1>1, <1>23, <2>1, <2>2, <2>3, <3>1, <3>2, <3>3
  <2>4. ASSUME NEW q \in routing[a][r].chosen \cap waiting,
               decision' = [decision EXCEPT ![q] = [by |-> r, value |-> TRUE]]
        PROVE  AnswersInv'
    <3>1. q \in waiting /\ Seen(q, r)
      BY <1>1, <2>1 DEF AnswersInv, RoutingsRead, ReadWell
    <3>2. routed' = [routed EXCEPT ![r] = IF TRUE THEN "reserved" ELSE "ordinary"]
      BY <2>1
    <3>3. /\ StandsSettled /\ decision' \in [Questions -> Deciders] /\ DecidesOne' /\ SeenFirst'
      BY <1>21, <2>1, <2>4, <3>1, <3>2
    <3> QED BY <1>23, <2>1, <2>2, <3>3
  <2> QED BY <1>25, <2>3, <2>4 DEF DiesDeciding
<1> QED
  BY <1>5, <1>6, <1>7, <1>8, <1>9, <1>10, <1>15, <1>16, <1>17, <1>18, <1>19, <1>20, <1>22, <1>24, <1>25
  DEF AnswersNext

LEMMA AnswersStart ==
  ASSUME AnswersInit
  PROVE  AnswersInv
<1>1. PICK kinds \in AskKinds, dialogue \in Dialogues : AnswersIdle(kinds, dialogue)
  BY DEF AnswersInit
<1>2. /\ asks \in [Questions -> {"clarify", "approval"}] /\ says \in [Replies -> Texts] /\ mishaps \in Nat
      /\ said = <<>> /\ shown = [q \in Questions |-> "no"] /\ waiting = {}
      /\ decision = [q \in Questions |-> [by |-> NoReply, value |-> FALSE]]
      /\ answered = [q \in Questions |-> NoReply]
      /\ routing = [a \in Adapters |-> [r \in Replies |-> Unread]]
      /\ cache = [a \in Adapters |-> [answers |-> {}, ordinary |-> {}]]
      /\ routed = [r \in Replies |-> "none"] /\ inputs = {} /\ receipts = {}
  BY <1>1, AnswersAssumption DEF AnswersIdle
<1>3. NoReply \notin Replies
  BY AnswersAssumption
<1>4. Unread \in ReplyRoutings /\ Unread.at = "none"
  BY DEF Unread, ReplyRoutings, RoutingSteps
<1>5. /\ routing \in [Adapters -> [Replies -> ReplyRoutings]]
      /\ \A a \in Adapters, r \in Replies : routing[a][r].at = "none"
  <2> HIDE DEF ReplyRoutings, Unread
  <2> QED BY <1>2, <1>4
<1>6. AnswersTyped
  <2>1. decision \in [Questions -> Deciders] /\ cache \in [Adapters -> Caches]
    BY <1>2 DEF Deciders, Caches
  <2>2. said \in Seq(Questions \cup Replies)
    BY <1>2
  <2> HIDE DEF ReplyRoutings, Deciders, Caches
  <2> QED BY <1>2, <1>5, <2>1, <2>2 DEF AnswersTyped
<1>7. CachesAgree /\ DecidesOne /\ SeenFirst
  BY <1>2, <1>3 DEF CachesAgree, DecidesOne, SeenFirst
<1>8. DecidedOnce
  <2>1. Len(said) = 0
    BY <1>2
  <2> QED BY <1>2, <2>1 DEF DecidedOnce, Recorded
<1>9. RoutingsRead
  BY <1>5 DEF RoutingsRead, ReadWell
<1> QED BY <1>6, <1>7, <1>8, <1>9 DEF AnswersInv

LEMMA AnswersHold ==
  ASSUME AnswersInv
  PROVE  AnswersSound
<1>1. AnswersTypeOK
  <2>1. \A i \in 1..Len(said) : said[i] \in Questions \cup Replies
    BY DEF AnswersInv, AnswersTyped
  <2> QED BY <2>1 DEF AnswersInv, AnswersTyped, AnswersTypeOK, ReplyRoutings, RoutingSteps, Caches, Deciders
<1>2. AnswersOnce
  <2> SUFFICES ASSUME NEW r \in Replies
               PROVE  /\ \A q \in DecidedBy(r) : decision[q].value => r \notin inputs
                      /\ Cardinality(DecidedBy(r)) <= 1
    BY DEF AnswersOnce
  <2>1. \A q \in DecidedBy(r) : decision[q].value => r \notin inputs
    BY DEF DecidedBy, AnswersInv, DecidesOne, CachesAgree
  <2>2. \A p, q \in DecidedBy(r) : p = q
    BY DEF DecidedBy, AnswersInv, DecidesOne
  <2>3. Cardinality(DecidedBy(r)) <= 1
    <3>1. CASE DecidedBy(r) = {}
      BY <3>1, FS_EmptySet
    <3>2. CASE DecidedBy(r) # {}
      <4>1. PICK q \in DecidedBy(r) : DecidedBy(r) = {q}
        BY <2>2, <3>2
      <4>2. Cardinality(DecidedBy(r)) = 1
        BY <4>1, FS_Singleton
      <4> QED BY <4>2
    <3> QED BY <3>1, <3>2
  <2> QED BY <2>1, <2>3
<1>3. AnswersWhatWasSeen
  BY DEF AnswersWhatWasSeen, DecidedBy, AnswersInv, SeenFirst, Seen
<1> QED BY <1>1, <1>2, <1>3 DEF AnswersSound

\* A reply decides one question, once, and one that the person had seen, or is input
\* for Core (native_input.py _answer): for any questions, replies, adapters, deliveries,
\* deaths and failed reads.
THEOREM ReplyDecidesOnce == AnswersSpec => []AnswersSound
<1>1. AnswersInv /\ [AnswersNext]_answersVars => AnswersInv'
  BY AnswersSteps
<1> QED BY <1>1, AnswersStart, AnswersHold, PTL DEF AnswersSpec

-----------------------------------------------------------------------------
(* WorkerStep: nothing of a worker follows its reply.                      *)

LiveSteps == [run : 0..MaxRuns, tool : Tools \cup {"none"}]
SessionRows ==
  [kind : {"step", "repair", "reply"}, step : LiveSteps, state : {"pending", "sent", "failed"},
   started : BOOLEAN, applied : {"unset", "yes", "no"}, expired : BOOLEAN]

StepTyped ==
  /\ worker \in [run : 1..MaxRuns, tool : Tools \cup {"none"}, stopped : BOOLEAN, done : BOOLEAN]
  /\ questionOpen \in BOOLEAN /\ asked \in 0..MaxAsked /\ lost \in 0..MaxLost /\ minute \in BOOLEAN
  /\ outbox \in Seq(SessionRows)
  /\ queue \in [at : {"idle", "looked", "verifies"}, moved : BOOLEAN, step : LiveSteps]
  /\ flusher \in [at : {"idle", "taken", "looked", "posts"}, row : 0..Len(outbox), moved : BOOLEAN]
  /\ air \subseteq DOMAIN outbox
  /\ session \in Seq({"step", "question", "reply"})

IsStep(i) == outbox[i].kind = "step"
\* Steps that may still get a repair.
OpenSteps == {i \in DOMAIN outbox : IsStep(i) /\ outbox[i].applied = "unset"}
\* A row makes at most one more: the reply is one row, a step one and its repair.
FewRows == Len(outbox) + Cardinality(OpenSteps) =< 2 * MaxSteps + (IF worker.done THEN 1 ELSE 0)

\* A pending row has not been settled; only a finished task has a reply.
RowsAgree ==
  \A i \in DOMAIN outbox :
    /\ outbox[i].state = "pending" => outbox[i].applied = "unset"
    /\ outbox[i].kind = "reply" => worker.done

\* The issue's lock: the pump queues or sends.  It queues over nothing unsettled.
QueueAlone ==
  queue.at # "idle" =>
    /\ flusher.at = "idle" /\ ~SomeUnsettled
    /\ ~worker.done => Len(outbox) < MaxSteps

\* The row in hand is pending, and not in the air until its post is lost.
InHand ==
  /\ flusher.at # "idle" => flusher.row \in DOMAIN outbox /\ RowOf.state = "pending"
  /\ flusher.at = "looked" => IsStep(flusher.row) /\ ~RowOf.started
  /\ flusher.at = "posts" => RowOf.started /\ flusher.row \notin air

\* What may land late is unsettled.
AirUnsettled == \A i \in air : Unsettled(i)

\* One step is of the last minute, and a step that may still land leaves no other one
\* that could be sent.
OneFresh ==
  /\ minute => \A i \in DOMAIN outbox : IsStep(i) => outbox[i].expired
  /\ \A i, j \in DOMAIN outbox :
       IsStep(i) /\ IsStep(j) /\ ~outbox[i].expired /\ (~outbox[j].expired \/ Unsettled(j)) => i = j
  /\ flusher.at = "looked" => \A j \in DOMAIN outbox \ {flusher.row} :
       IsStep(j) => outbox[j].expired /\ ~Unsettled(j)

\* The reply is on its way or shown: the task has ended, and no step may land.
ReplyLeft ==
  \/ \E i \in DOMAIN session : session[i] = "reply"
  \/ flusher.at = "posts" /\ RowOf.kind = "reply"
NoStepAfter == ReplyLeft => worker.done /\ \A i \in DOMAIN outbox : IsStep(i) => ~Unsettled(i)

StepInv ==
  /\ StepTyped /\ FewRows /\ RowsAgree /\ QueueAlone /\ InHand /\ AirUnsettled /\ OneFresh
  /\ OneUncertain /\ NoStepAfter /\ ReplyIsLast

\* A step in which no row becomes unsettled, and what is added is no step.
Calm ==
  /\ Len(outbox') >= Len(outbox) /\ (worker.done => worker'.done)
  /\ \A i \in DOMAIN outbox :
       /\ outbox'[i].kind = outbox[i].kind /\ (outbox[i].expired => outbox'[i].expired)
       /\ Unsettled(i)' => Unsettled(i)
  /\ \A i \in DOMAIN outbox' \ DOMAIN outbox : ~IsStep(i)' /\ ~Unsettled(i)'

\* Calm steps leave the one uncertain step alone.
LEMMA CalmKeeps ==
  ASSUME StepTyped, outbox' \in Seq(SessionRows), Calm, OneUncertain, OneFresh,
         minute' => minute \/ \A i \in DOMAIN outbox : outbox'[i].expired,
         flusher'.at = "looked" =>
           \/ flusher.at = "looked" /\ flusher'.row = flusher.row
           \/ /\ flusher'.row \in DOMAIN outbox /\ IsStep(flusher'.row)
              /\ ~outbox[flusher'.row].expired
  PROVE  OneUncertain' /\ OneFresh' /\ (SomeUnsettled' => SomeUnsettled)
<1>1. \A i \in DOMAIN outbox' : IsStep(i)' \/ Unsettled(i)' => i \in DOMAIN outbox
  BY DEF Calm
<1>2. \A i \in DOMAIN outbox :
        /\ (IsStep(i)' => IsStep(i)) /\ (~outbox'[i].expired => ~outbox[i].expired)
        /\ Unsettled(i)' => Unsettled(i)
  BY DEF Calm, IsStep
<1>3. SomeUnsettled' => SomeUnsettled
  BY <1>1, <1>2 DEF SomeUnsettled
<1>4. OneUncertain'
  BY <1>1, <1>2 DEF OneUncertain, IsStep
<1>5. minute' => \A i \in DOMAIN outbox' : IsStep(i)' => outbox'[i].expired
  BY <1>1, <1>2 DEF OneFresh
<1>6. \A i, j \in DOMAIN outbox' :
        IsStep(i)' /\ IsStep(j)' /\ ~outbox'[i].expired /\ (~outbox'[j].expired \/ Unsettled(j)')
          => i = j
  BY <1>1, <1>2 DEF OneFresh
<1>7. flusher'.at = "looked" => \A j \in DOMAIN outbox' \ {flusher'.row} :
        IsStep(j)' => outbox'[j].expired /\ ~Unsettled(j)'
  BY <1>1, <1>2 DEF OneFresh
<1> QED BY <1>3, <1>4, <1>5, <1>6, <1>7 DEF OneFresh

\* A row changes, and stays what it is.
LEMMA RowChanges ==
  ASSUME outbox \in Seq(SessionRows), NEW r \in DOMAIN outbox, NEW v \in SessionRows, NEW table,
         table = [outbox EXCEPT ![r] = v]
  PROVE  /\ table \in Seq(SessionRows) /\ Len(table) = Len(outbox) /\ DOMAIN table = DOMAIN outbox
         /\ table[r] = v /\ \A i \in DOMAIN outbox \ {r} : table[i] = outbox[i]
BY DEF SessionRows

\* A row is added.
LEMMA RowAdded ==
  ASSUME NEW table \in Seq(SessionRows), NEW v \in SessionRows
  PROVE  LET more == Append(table, v) IN
         /\ more \in Seq(SessionRows) /\ Len(more) = Len(table) + 1
         /\ DOMAIN more = DOMAIN table \cup {Len(table) + 1} /\ Len(table) + 1 \notin DOMAIN table
         /\ more[Len(table) + 1] = v /\ \A i \in DOMAIN table : more[i] = table[i]
BY DEF SessionRows

\* There are no more positions than the length.
LEMMA PositionsFew ==
  ASSUME NEW n \in Nat, NEW S \in SUBSET (1..n)
  PROVE  IsFiniteSet(S) /\ Cardinality(S) \in Nat /\ Cardinality(S) =< n
<1>1. IsFiniteSet(1..n) /\ Cardinality(1..n) = n
  BY FS_Interval, 1 \in Int, n \in Int, 1 > n <=> n = 0, n - 1 + 1 = n
<1>2. IsFiniteSet(S) /\ Cardinality(S) =< Cardinality(1..n)
  BY <1>1, FS_Subset
<1> QED BY <1>1, <1>2, FS_CardinalityType

\* The table of which FewRows counts the open steps.
LEMMA UndecidedFew ==
  ASSUME NEW table \in Seq(SessionRows)
  PROVE  LET kept == {i \in DOMAIN table : table[i].kind = "step" /\ table[i].applied = "unset"}
         IN  /\ IsFiniteSet(kept) /\ Cardinality(kept) \in Nat /\ Len(table) \in Nat
             /\ Cardinality(kept) =< Len(table)
<1>1. Len(table) \in Nat /\ DOMAIN table = 1..Len(table)
  OBVIOUS
<1> QED BY <1>1, PositionsFew

\* The table stay few when none is added, or one for a step that was decided, or the reply.
LEMMA FewRowsStay ==
  ASSUME StepTyped, StepTyped', FewRows, worker.done => worker'.done,
         OpenSteps' \subseteq OpenSteps,
         \/ Len(outbox') = Len(outbox)
         \/ /\ Len(outbox') = Len(outbox) + 1
            /\ (worker'.done /\ ~worker.done) \/ OpenSteps' # OpenSteps
  PROVE  FewRows'
<1>1. /\ IsFiniteSet(OpenSteps) /\ Cardinality(OpenSteps) \in Nat
      /\ Cardinality(OpenSteps') \in Nat /\ Len(outbox) \in Nat /\ Len(outbox') \in Nat
      /\ worker.done \in BOOLEAN /\ worker'.done \in BOOLEAN /\ MaxSteps \in Nat
  <2>1. IsFiniteSet(OpenSteps) /\ Cardinality(OpenSteps) \in Nat
    BY UndecidedFew DEF StepTyped, OpenSteps, IsStep
  <2>2. Cardinality(OpenSteps') \in Nat
    BY UndecidedFew DEF StepTyped, OpenSteps, IsStep
  <2>3. /\ Len(outbox) \in Nat /\ Len(outbox') \in Nat
        /\ worker.done \in BOOLEAN /\ worker'.done \in BOOLEAN /\ MaxSteps \in Nat
    BY WorkerStepAssumption DEF StepTyped
  <2> QED BY <2>1, <2>2, <2>3
<1>2. /\ Cardinality(OpenSteps') =< Cardinality(OpenSteps)
      /\ OpenSteps' # OpenSteps => Cardinality(OpenSteps') < Cardinality(OpenSteps)
  BY <1>1, FS_Subset
<1> QED BY <1>1, <1>2 DEF FewRows

\* No row moves.
LEMMA RowsRest ==
  ASSUME StepInv, StepTyped', outbox' = outbox, worker.done => worker'.done, minute' = minute,
         flusher'.at = "looked" =>
           \/ flusher.at = "looked" /\ flusher'.row = flusher.row
           \/ /\ flusher'.row \in DOMAIN outbox /\ IsStep(flusher'.row)
              /\ ~outbox[flusher'.row].expired
  PROVE  /\ FewRows' /\ RowsAgree' /\ OneUncertain' /\ OneFresh'
         /\ SomeUnsettled' <=> SomeUnsettled
         /\ \A i \in DOMAIN outbox : (Unsettled(i)' <=> Unsettled(i)) /\ (IsStep(i)' <=> IsStep(i))
<1>1. \A i \in DOMAIN outbox : (Unsettled(i)' <=> Unsettled(i)) /\ (IsStep(i)' <=> IsStep(i))
  BY DEF Unsettled, IsStep
<1>2. SomeUnsettled' <=> SomeUnsettled
  BY <1>1 DEF SomeUnsettled
<1>3. Calm
  BY <1>1 DEF Calm, StepInv, StepTyped
<1>4. OneUncertain' /\ OneFresh'
  BY <1>3, CalmKeeps DEF StepInv, StepTyped
<1>5. FewRows'
  BY FewRowsStay DEF StepInv, OpenSteps, IsStep
<1>6. RowsAgree'
  BY DEF StepInv, RowsAgree
<1> QED BY <1>1, <1>2, <1>4, <1>5, <1>6

\* What the flusher settles, or gives up for now, in the row it has in hand.
LEMMA RowSettles ==
  ASSUME StepInv, StepTyped', flusher.at # "idle", flusher'.at = "idle",
         NEW v \in SessionRows, NEW table, table = [outbox EXCEPT ![flusher.row] = v],
         v.kind = RowOf.kind, v.expired = RowOf.expired,
         v.state = "pending" => v.applied = "unset",
         v.started /\ v.applied = "unset" => RowOf.started,
         \/ outbox' = table
         \/ /\ RowOf.kind = "step" /\ v.applied # "unset"
            /\ outbox' = Append(table, SessionRow("repair", NoStep)),
         flusher.row \in air => v.started /\ v.applied = "unset" /\ v.state # "sent",
         worker' = worker, minute' = minute, queue' = queue, air' = air
  PROVE  /\ FewRows' /\ RowsAgree' /\ QueueAlone' /\ InHand' /\ AirUnsettled' /\ OneUncertain'
         /\ OneFresh' /\ Calm
<1> DEFINE r == flusher.row
           n == Len(outbox) + 1
           new == SessionRow("repair", NoStep)
<1>1. r \in DOMAIN outbox /\ RowOf.state = "pending" /\ RowOf.applied = "unset"
  BY DEF StepInv, InHand, RowsAgree, RowOf
<1>2. /\ table \in Seq(SessionRows) /\ Len(table) = Len(outbox) /\ DOMAIN table = DOMAIN outbox
      /\ table[r] = v /\ \A i \in DOMAIN outbox \ {r} : table[i] = outbox[i]
  BY <1>1, RowChanges DEF StepInv, StepTyped
<1>3. /\ new \in SessionRows /\ new.kind = "repair" /\ new.state = "pending"
      /\ new.applied = "unset" /\ ~new.started
  BY WorkerStepAssumption DEF SessionRows, SessionRow, NoStep, LiveSteps
<1> HIDE DEF r, new
<1>4. /\ outbox' \in Seq(SessionRows) /\ DOMAIN outbox \subseteq DOMAIN outbox'
      /\ outbox'[r] = v /\ \A i \in DOMAIN outbox \ {r} : outbox'[i] = outbox[i]
      /\ \/ DOMAIN outbox' = DOMAIN outbox /\ Len(outbox') = Len(outbox)
         \/ /\ DOMAIN outbox' = DOMAIN outbox \cup {n} /\ n \notin DOMAIN outbox
            /\ Len(outbox') = Len(outbox) + 1 /\ outbox'[n] = new
            /\ RowOf.kind = "step" /\ v.applied # "unset"
  <2>1. CASE outbox' = table
    BY <1>1, <1>2, <2>1
  <2>2. CASE /\ RowOf.kind = "step" /\ v.applied # "unset" /\ outbox' = Append(table, new)
    <3>1. n = Len(table) + 1 /\ outbox' = Append(table, new)
      BY <1>2, <2>2
    <3> HIDE DEF n
    <3>2. /\ outbox' \in Seq(SessionRows) /\ Len(outbox') = Len(table) + 1
          /\ DOMAIN outbox' = DOMAIN table \cup {n} /\ n \notin DOMAIN table
          /\ outbox'[n] = new /\ \A i \in DOMAIN table : outbox'[i] = table[i]
      BY ZenonT(30), <1>2, <1>3, <3>1, RowAdded
    <3> QED BY <1>1, <1>2, <2>2, <3>2
  <2> QED BY <2>1, <2>2 DEF new
<1> HIDE DEF n
<1>5. \A i \in DOMAIN outbox :
        /\ outbox'[i].kind = outbox[i].kind /\ outbox'[i].expired = outbox[i].expired
        /\ outbox'[i].applied = "unset" => outbox[i].applied = "unset"
  BY <1>1, <1>4 DEF RowOf, r
<1>6. \A i \in DOMAIN outbox : Unsettled(i)' => Unsettled(i)
  BY <1>1, <1>4 DEF Unsettled, RowOf, r
<1>7. \A i \in DOMAIN outbox' \ DOMAIN outbox : ~IsStep(i)' /\ ~Unsettled(i)'
  BY <1>3, <1>4 DEF Unsettled, IsStep
<1>8. Calm
  BY <1>4, <1>5, <1>6, <1>7 DEF Calm, StepInv, StepTyped
<1>9. OneUncertain' /\ OneFresh' /\ (SomeUnsettled' => SomeUnsettled)
  BY <1>4, <1>8, CalmKeeps DEF StepInv, StepTyped
<1>10. FewRows'
  <2>1. OpenSteps' \subseteq OpenSteps
    BY <1>3, <1>4, <1>5 DEF OpenSteps, IsStep
  <2>2. v.applied # "unset" /\ RowOf.kind = "step" => r \in OpenSteps /\ r \notin OpenSteps'
    BY <1>1, <1>4 DEF OpenSteps, IsStep, RowOf, r
  <2> QED BY <1>4, <2>1, <2>2, FewRowsStay DEF StepInv
<1>11. RowsAgree'
  BY <1>1, <1>3, <1>4, <1>5 DEF RowsAgree, StepInv
<1>12. QueueAlone' /\ InHand'
  BY DEF QueueAlone, InHand, StepInv
<1>13. AirUnsettled'
  <2> SUFFICES ASSUME NEW i \in air PROVE Unsettled(i)'
    BY DEF AirUnsettled
  <2>1. i \in DOMAIN outbox /\ Unsettled(i)
    BY DEF StepInv, AirUnsettled, StepTyped
  <2>2. CASE i = r
    BY <1>4, <1>5, <2>1, <2>2 DEF Unsettled, r, SessionRows
  <2>3. CASE i # r
    BY <1>4, <2>1, <2>3 DEF Unsettled
  <2> QED BY <2>2, <2>3
<1> QED BY <1>8, <1>9, <1>10, <1>11, <1>12, <1>13

\* The session keeps the order when nothing is shown, or something other than a step
\* or a step before the reply.
LEMMA SessionGrows ==
  ASSUME session \in Seq({"step", "question", "reply"}), ReplyIsLast,
         NEW x \in {"step", "question", "reply"}, session' = Append(session, x),
         x = "step" => \A i \in DOMAIN session : session[i] # "reply"
  PROVE  /\ session' \in Seq({"step", "question", "reply"}) /\ ReplyIsLast'
         /\ (\E i \in DOMAIN session' : session'[i] = "reply")
              => x = "reply" \/ \E i \in DOMAIN session : session[i] = "reply"
<1> DEFINE n == Len(session)
<1>1. /\ n \in Nat /\ DOMAIN session = 1..n /\ DOMAIN session' = 1..(n + 1)
      /\ session' \in Seq({"step", "question", "reply"})
      /\ session'[n + 1] = x /\ \A i \in 1..n : session'[i] = session[i]
  OBVIOUS
<1> HIDE DEF n
<1>2. \A i \in DOMAIN session' : i \in 1..n \/ i = n + 1
  BY <1>1
<1>3. ReplyIsLast'
  BY <1>1, <1>2 DEF ReplyIsLast
<1> QED BY <1>1, <1>2, <1>3

\* Nobody replied that had not, and no row became an unsettled step.
LEMMA RepliesStay ==
  ASSUME NoStepAfter, ReplyLeft' => ReplyLeft, Calm
  PROVE  NoStepAfter'
<1>1. \A i \in DOMAIN outbox' : IsStep(i)' /\ Unsettled(i)' =>
        i \in DOMAIN outbox /\ IsStep(i) /\ Unsettled(i)
  BY DEF Calm, IsStep
<1> QED BY <1>1 DEF NoStepAfter, Calm

\* Every step of the worker, its questions, the pump and Linear.
LEMMA StepSteps ==
  ASSUME StepInv, [StepNext]_stepVars
  PROVE  StepInv'
<1>1. /\ worker \in [run : 1..MaxRuns, tool : Tools \cup {"none"}, stopped : BOOLEAN, done : BOOLEAN]
      /\ questionOpen \in BOOLEAN /\ asked \in 0..MaxAsked /\ lost \in 0..MaxLost
      /\ minute \in BOOLEAN /\ outbox \in Seq(SessionRows)
      /\ queue \in [at : {"idle", "looked", "verifies"}, moved : BOOLEAN, step : LiveSteps]
      /\ flusher \in [at : {"idle", "taken", "looked", "posts"}, row : 0..Len(outbox), moved : BOOLEAN]
      /\ air \subseteq DOMAIN outbox /\ session \in Seq({"step", "question", "reply"})
  BY DEF StepInv, StepTyped
<1>2. /\ MaxRuns \in Nat \ {0} /\ MaxSteps \in Nat /\ MaxAsked \in Nat /\ MaxLost \in Nat
      /\ Tools # {} /\ "none" \notin Tools
  BY WorkerStepAssumption
<1>3. Len(outbox) \in Nat /\ DOMAIN outbox = 1..Len(outbox)
  BY <1>1
\* Steps that move no row and show nothing: their types and the flusher's place are left.
<1>4. ASSUME StepTyped', outbox' = outbox, worker.done => worker'.done, minute' = minute,
             air' = air, session' = session,
             flusher'.at = flusher.at /\ flusher'.row = flusher.row,
             queue'.at # "idle" => /\ flusher.at = "idle" /\ ~SomeUnsettled
                                   /\ ~worker'.done => Len(outbox) < MaxSteps
      PROVE  StepInv'
  <2>1. /\ FewRows' /\ RowsAgree' /\ OneUncertain' /\ OneFresh'
        /\ SomeUnsettled' <=> SomeUnsettled
        /\ \A i \in DOMAIN outbox : (Unsettled(i)' <=> Unsettled(i)) /\ (IsStep(i)' <=> IsStep(i))
    BY <1>4, RowsRest
  <2>2. QueueAlone'
    BY <1>4, <2>1 DEF QueueAlone
  <2>3. InHand'
    BY <1>4, <2>1 DEF InHand, RowOf, StepInv, IsStep
  <2>4. AirUnsettled'
    BY <1>1, <1>4, <2>1 DEF AirUnsettled, StepInv
  <2>5. NoStepAfter' /\ ReplyIsLast'
    BY <1>4, <2>1 DEF NoStepAfter, ReplyLeft, RowOf, StepInv, ReplyIsLast
  <2> QED BY <1>4, <2>1, <2>2, <2>3, <2>4, <2>5 DEF StepInv
<1>5. ASSUME NEW w \in [run : 1..MaxRuns, tool : Tools \cup {"none"}, stopped : BOOLEAN, done : BOOLEAN],
             w.done = worker.done, Working(w)
      PROVE  StepInv'
  <2>1. /\ worker' = w /\ queue' = [queue EXCEPT !.moved = queue.at # "idle"]
        /\ flusher' = [flusher EXCEPT !.moved = flusher.at = "looked"]
        /\ UNCHANGED <<questionOpen, asked, lost, outbox, minute, air, session>>
    BY <1>5 DEF Working, WorkerMoves
  <2>2. (queue.at # "idle") \in BOOLEAN /\ (flusher.at = "looked") \in BOOLEAN
    BY Zenon
  <2>3. /\ queue' \in [at : {"idle", "looked", "verifies"}, moved : BOOLEAN, step : LiveSteps]
        /\ queue'.at = queue.at
    BY <1>1, <2>1, <2>2
  <2>4. /\ flusher' \in [at : {"idle", "taken", "looked", "posts"}, row : 0..Len(outbox), moved : BOOLEAN]
        /\ flusher'.at = flusher.at /\ flusher'.row = flusher.row
    BY <1>1, <2>1, <2>2
  <2>5. StepTyped'
    BY <1>1, <1>5, <2>1, <2>3, <2>4 DEF StepTyped
  <2> QED BY <1>4, <1>5, <2>1, <2>3, <2>4, <2>5 DEF StepInv, QueueAlone
<1>6. CASE UNCHANGED stepVars
  <2>1. StepTyped'
    BY <1>6 DEF stepVars, StepInv, StepTyped
  <2> QED BY <1>4, <1>6, <2>1 DEF stepVars, StepInv, QueueAlone
<1>7. CASE ToolChanges
  <2>1. PICK t \in (Tools \cup {"none"}) \ {worker.tool} : Working([worker EXCEPT !.tool = t])
    BY <1>7 DEF ToolChanges
  <2> QED BY <1>1, <1>5, <2>1
<1>8. CASE StopAsked
  BY <1>1, <1>5, <1>8 DEF StopAsked
<1>9. CASE NewAttempt
  <2>1. worker.run < MaxRuns /\ worker.run + 1 \in 1..MaxRuns
    BY <1>1, <1>2, <1>9 DEF NewAttempt
  <2> QED BY <1>1, <1>5, <1>9, <2>1 DEF NewAttempt
<1>10. CASE QuestionAsked
  <2>1. /\ asked' \in 0..MaxAsked /\ session' = Append(session, "question") /\ questionOpen' = TRUE
        /\ UNCHANGED <<worker, lost, outbox, minute, queue, flusher, air>>
    BY <1>1, <1>2, <1>10 DEF QuestionAsked
  <2>2. /\ session' \in Seq({"step", "question", "reply"}) /\ ReplyIsLast'
        /\ (\E i \in DOMAIN session' : session'[i] = "reply")
             => \E i \in DOMAIN session : session[i] = "reply"
    BY <1>1, <2>1, SessionGrows DEF StepInv
  <2>3. StepTyped'
    BY <1>1, <2>1, <2>2 DEF StepTyped
  <2>4. /\ FewRows' /\ RowsAgree' /\ OneUncertain' /\ OneFresh'
        /\ SomeUnsettled' <=> SomeUnsettled
        /\ \A i \in DOMAIN outbox : (Unsettled(i)' <=> Unsettled(i)) /\ (IsStep(i)' <=> IsStep(i))
    BY <2>1, <2>3, RowsRest
  <2>5. QueueAlone' /\ InHand' /\ AirUnsettled'
    BY <1>1, <2>1, <2>4 DEF QueueAlone, InHand, AirUnsettled, RowOf, StepInv, IsStep
  <2>6. NoStepAfter'
    BY <2>1, <2>2, <2>4 DEF NoStepAfter, ReplyLeft, RowOf, StepInv
  <2> QED BY <2>2, <2>3, <2>4, <2>5, <2>6 DEF StepInv
<1>11. CASE QuestionAnswered
  <2>1. StepTyped'
    BY <1>11 DEF QuestionAnswered, StepInv, StepTyped
  <2> QED BY <1>4, <1>11, <2>1 DEF QuestionAnswered, StepInv, QueueAlone
<1>12. CASE QueueLooks
  <2>1. /\ flusher.at = "idle" /\ ~worker.done /\ ~SomeUnsettled /\ Len(outbox) < MaxSteps
        /\ queue' = [at |-> "looked", moved |-> FALSE,
                     step |-> [run |-> worker.run, tool |-> worker.tool]]
        /\ UNCHANGED <<worker, questionOpen, asked, lost, outbox, minute, flusher, air, session>>
    BY <1>12 DEF QueueLooks, Queueing, Runnable
  <2>2. queue' \in [at : {"idle", "looked", "verifies"}, moved : BOOLEAN, step : LiveSteps]
    BY <1>1, <1>2, <2>1 DEF LiveSteps
  <2>3. StepTyped'
    BY <1>1, <2>1, <2>2 DEF StepTyped
  <2> QED BY <1>4, <2>1, <2>3
<1>13. CASE QueueConfirms
  <2>1. /\ queue.at = "looked"
        /\ queue' = (IF queue.moved THEN NotQueueing ELSE [queue EXCEPT !.at = "verifies"])
        /\ UNCHANGED <<worker, questionOpen, asked, lost, outbox, minute, flusher, air, session>>
    BY <1>13 DEF QueueConfirms, Queueing
  <2>2. queue' \in [at : {"idle", "looked", "verifies"}, moved : BOOLEAN, step : LiveSteps]
    <3>1. NotQueueing \in [at : {"idle", "looked", "verifies"}, moved : BOOLEAN, step : LiveSteps]
      BY <1>2 DEF LiveSteps, NotQueueing, NoStep
    <3>2. [queue EXCEPT !.at = "verifies"]
            \in [at : {"idle", "looked", "verifies"}, moved : BOOLEAN, step : LiveSteps]
      BY <1>1
    <3> QED BY <2>1, <3>1, <3>2
  <2>3. StepTyped'
    BY <1>1, <2>1, <2>2 DEF StepTyped
  <2> QED BY <1>4, <2>1, <2>3 DEF StepInv, QueueAlone
<1>14. CASE Finishes
  <2> DEFINE n == Len(outbox) + 1
             new == SessionRow("reply", NoStep)
  <2>1. /\ ~worker.done /\ worker' = [worker EXCEPT !.done = TRUE, !.tool = "none"]
        /\ queue' = [queue EXCEPT !.moved = queue.at # "idle"]
        /\ flusher' = [flusher EXCEPT !.moved = flusher.at = "looked"]
        /\ outbox' = Append(outbox, new)
        /\ UNCHANGED <<questionOpen, asked, lost, minute, air, session>>
    BY <1>14 DEF Finishes, WorkerMoves
  <2>2. (queue.at # "idle") \in BOOLEAN /\ (flusher.at = "looked") \in BOOLEAN
    BY Zenon
  <2>3. /\ new \in SessionRows /\ new.kind = "reply" /\ new.state = "pending"
        /\ new.applied = "unset" /\ ~new.started
    BY WorkerStepAssumption DEF SessionRows, SessionRow, NoStep, LiveSteps
  <2> HIDE DEF new
  <2>4. /\ outbox' \in Seq(SessionRows) /\ Len(outbox') = n
        /\ DOMAIN outbox' = DOMAIN outbox \cup {n} /\ n \notin DOMAIN outbox
        /\ outbox'[n] = new /\ \A i \in DOMAIN outbox : outbox'[i] = outbox[i]
    BY <1>1, <2>1, <2>3, RowAdded
  <2>5. /\ worker' \in [run : 1..MaxRuns, tool : Tools \cup {"none"}, stopped : BOOLEAN, done : BOOLEAN]
        /\ worker'.done
    BY <1>1, <2>1
  <2>6. /\ queue' \in [at : {"idle", "looked", "verifies"}, moved : BOOLEAN, step : LiveSteps]
        /\ queue'.at = queue.at
    BY <1>1, <2>1, <2>2
  <2>7. /\ flusher' \in [at : {"idle", "taken", "looked", "posts"}, row : 0..Len(outbox), moved : BOOLEAN]
        /\ flusher'.at = flusher.at /\ flusher'.row = flusher.row
    BY <1>1, <2>1, <2>2
  <2>8. 0..Len(outbox) \subseteq 0..Len(outbox')
    BY <1>3, <2>4
  <2>9. flusher' \in [at : {"idle", "taken", "looked", "posts"}, row : 0..Len(outbox'), moved : BOOLEAN]
    BY <2>7, <2>8
  <2>10. StepTyped'
    BY <1>1, <2>1, <2>4, <2>5, <2>6, <2>9 DEF StepTyped
  <2>11. \A i \in DOMAIN outbox : (Unsettled(i)' <=> Unsettled(i)) /\ (IsStep(i)' <=> IsStep(i))
    BY <2>4 DEF Unsettled, IsStep
  <2>12. \A i \in DOMAIN outbox' \ DOMAIN outbox : ~Unsettled(i)' /\ ~IsStep(i)'
    BY <2>3, <2>4 DEF Unsettled, IsStep
  <2>13. Calm
    BY <1>3, <2>1, <2>4, <2>11, <2>12 DEF Calm
  <2> HIDE DEF n
  <2>14. OneUncertain' /\ OneFresh' /\ (SomeUnsettled' => SomeUnsettled)
    BY <2>1, <2>4, <2>7, <2>13, CalmKeeps DEF StepInv
  <2>15. FewRows'
    <3>1. OpenSteps' \subseteq OpenSteps
      BY <2>4, <2>12 DEF OpenSteps, IsStep
    <3> QED BY <2>1, <2>4, <2>5, <2>10, <3>1, FewRowsStay DEF StepInv, n
  <2>16. RowsAgree'
    BY <2>3, <2>4, <2>5 DEF RowsAgree, StepInv
  <2>17. QueueAlone' /\ InHand' /\ AirUnsettled'
    BY <1>1, <2>1, <2>4, <2>5, <2>6, <2>7, <2>11, <2>14
    DEF QueueAlone, InHand, AirUnsettled, RowOf, StepInv, IsStep
  <2>18. NoStepAfter' /\ ReplyIsLast'
    <3>1. ReplyLeft' => ReplyLeft
      BY <2>1, <2>4, <2>7 DEF ReplyLeft, RowOf, StepInv, InHand
    <3> QED BY <2>1, <2>13, <3>1, RepliesStay DEF StepInv, ReplyIsLast
  <2> QED BY <2>10, <2>14, <2>15, <2>16, <2>17, <2>18 DEF StepInv
<1>15. CASE MinutePasses
  <2>1. /\ outbox' = [i \in DOMAIN outbox |-> [outbox[i] EXCEPT !.expired = TRUE]]
        /\ UNCHANGED <<worker, questionOpen, asked, lost, queue, flusher, air, session>>
        /\ minute' = TRUE
    BY <1>15 DEF MinutePasses
  <2>2. \A i \in DOMAIN outbox : outbox[i] \in SessionRows
    BY <1>1
  <2>3. \A i \in DOMAIN outbox :
          /\ outbox'[i] \in SessionRows /\ outbox'[i].kind = outbox[i].kind
          /\ outbox'[i].state = outbox[i].state /\ outbox'[i].started = outbox[i].started
          /\ outbox'[i].applied = outbox[i].applied /\ outbox'[i].expired
    BY <2>1, <2>2 DEF SessionRows
  <2>4. outbox' \in Seq(SessionRows) /\ Len(outbox') = Len(outbox) /\ DOMAIN outbox' = DOMAIN outbox
    BY <1>3, <2>1, <2>3
  <2>5. StepTyped'
    BY <1>1, <2>1, <2>4 DEF StepTyped
  <2>6. \A i \in DOMAIN outbox : (Unsettled(i)' <=> Unsettled(i)) /\ (IsStep(i)' <=> IsStep(i))
    BY <2>3 DEF Unsettled, IsStep
  <2>7. Calm
    BY <1>3, <2>1, <2>3, <2>4, <2>6 DEF Calm
  <2>8. OneUncertain' /\ OneFresh' /\ (SomeUnsettled' => SomeUnsettled)
    BY <2>1, <2>3, <2>4, <2>7, CalmKeeps DEF StepInv
  <2>9. FewRows'
    <3>1. OpenSteps' \subseteq OpenSteps
      BY <2>3, <2>4, <2>6 DEF OpenSteps
    <3> QED BY <2>1, <2>4, <2>5, <3>1, FewRowsStay DEF StepInv
  <2>10. RowsAgree'
    BY <2>1, <2>3, <2>4 DEF RowsAgree, StepInv
  <2>11. QueueAlone' /\ InHand' /\ AirUnsettled'
    BY <1>1, <2>1, <2>3, <2>4, <2>6, <2>8 DEF QueueAlone, InHand, AirUnsettled, RowOf, StepInv
  <2>12. NoStepAfter' /\ ReplyIsLast'
    <3>1. ReplyLeft' => ReplyLeft
      BY <2>1, <2>3, <2>4 DEF ReplyLeft, RowOf, StepInv, InHand
    <3> QED BY <2>1, <2>7, <3>1, RepliesStay DEF StepInv, ReplyIsLast
  <2> QED BY <2>5, <2>8, <2>9, <2>10, <2>11, <2>12 DEF StepInv
<1>16. CASE Queues
  <2>1. /\ queue.at = "verifies" /\ queue' = NotQueueing
        /\ UNCHANGED <<worker, questionOpen, asked, lost, flusher, air, session>>
    BY <1>16 DEF Queues
  <2>2. queue' \in [at : {"idle", "looked", "verifies"}, moved : BOOLEAN, step : LiveSteps]
    BY <1>2, <2>1 DEF LiveSteps, NotQueueing, NoStep
  <2>3. /\ flusher.at = "idle" /\ ~SomeUnsettled /\ (~worker.done => Len(outbox) < MaxSteps)
        /\ queue'.at = "idle"
    BY <2>1 DEF StepInv, QueueAlone, NotQueueing
  <2>4. CASE UNCHANGED <<outbox, minute>>
    <3>1. StepTyped'
      BY <1>1, <2>1, <2>2, <2>4 DEF StepTyped
    <3> QED BY <1>4, <2>1, <2>3, <2>4, <3>1
  <2>5. CASE /\ Runnable /\ minute /\ outbox' = Append(outbox, SessionRow("step", queue.step))
             /\ minute' = FALSE
    <3> DEFINE n == Len(outbox) + 1
               new == SessionRow("step", queue.step)
    <3>1. /\ new \in SessionRows /\ new.kind = "step" /\ new.applied = "unset" /\ ~new.started
      BY <1>1 DEF SessionRows, SessionRow
    <3> HIDE DEF new
    <3>2. /\ outbox' \in Seq(SessionRows) /\ Len(outbox') = n
          /\ DOMAIN outbox' = DOMAIN outbox \cup {n} /\ n \notin DOMAIN outbox
          /\ outbox'[n] = new /\ \A i \in DOMAIN outbox : outbox'[i] = outbox[i]
      BY <1>1, <2>5, <3>1, RowAdded DEF new
    <3>3. 0..Len(outbox) \subseteq 0..Len(outbox')
      BY <1>3, <3>2
    <3>4. flusher' \in [at : {"idle", "taken", "looked", "posts"}, row : 0..Len(outbox'), moved : BOOLEAN]
      BY <1>1, <2>1, <3>3
    <3>5. StepTyped'
      BY <1>1, <2>1, <2>2, <2>5, <3>2, <3>4 DEF StepTyped
    <3>6. FewRows'
      <4>1. /\ Cardinality(OpenSteps') \in Nat /\ Cardinality(OpenSteps') =< Len(outbox')
            /\ Len(outbox') \in Nat
        BY <3>2, UndecidedFew DEF OpenSteps, IsStep
      <4>2. Len(outbox') =< MaxSteps /\ worker'.done = FALSE
        BY <1>1, <1>2, <1>3, <2>1, <2>3, <2>5, <3>2 DEF Runnable
      <4> QED BY <1>2, <4>1, <4>2 DEF FewRows
    <3>7. n \in Nat /\ ~worker.done
      BY <1>3, <2>5 DEF Runnable
    <3> HIDE DEF n
    <3>8. \A i \in DOMAIN outbox' :
            /\ ~Unsettled(i)' /\ (IsStep(i)' => i = n \/ outbox'[i].expired)
      BY <2>3, <2>5, <3>1, <3>2 DEF SomeUnsettled, Unsettled, IsStep, StepInv, OneFresh
    <3>9. OneUncertain' /\ OneFresh' /\ RowsAgree'
      BY <2>1, <2>3, <2>5, <3>1, <3>2, <3>8 DEF OneUncertain, OneFresh, RowsAgree, StepInv
    <3>10. QueueAlone' /\ InHand'
      BY <2>1, <2>3 DEF QueueAlone, InHand
    <3>11. AirUnsettled'
      BY <1>1, <2>1, <2>3 DEF AirUnsettled, StepInv, SomeUnsettled
    <3>12. NoStepAfter' /\ ReplyIsLast'
      BY <2>1, <2>3, <3>7 DEF NoStepAfter, ReplyLeft, ReplyIsLast, StepInv
    <3> QED BY <3>5, <3>6, <3>9, <3>10, <3>11, <3>12 DEF StepInv
  <2> QED BY <1>16, <2>4, <2>5 DEF Queues
\* The flusher takes a row, and the row as it is.
<1>17. CASE Takes
  <2>1. PICK i \in Pending : Sending([at |-> "taken", row |-> i, moved |-> FALSE])
    BY <1>17 DEF Takes
  <2>2. /\ queue.at = "idle" /\ flusher.at = "idle" /\ i \in DOMAIN outbox
        /\ outbox[i].state = "pending" /\ flusher' = [at |-> "taken", row |-> i, moved |-> FALSE]
        /\ UNCHANGED <<worker, questionOpen, asked, lost, outbox, minute, queue, air, session>>
    BY <1>17, <2>1 DEF Takes, Sending, Pending
  <2>3. flusher' \in [at : {"idle", "taken", "looked", "posts"}, row : 0..Len(outbox), moved : BOOLEAN]
    BY <1>3, <2>2
  <2>4. StepTyped'
    BY <1>1, <2>2, <2>3 DEF StepTyped
  <2>5. /\ FewRows' /\ RowsAgree' /\ OneUncertain' /\ OneFresh'
        /\ SomeUnsettled' <=> SomeUnsettled
        /\ \A j \in DOMAIN outbox : (Unsettled(j)' <=> Unsettled(j)) /\ (IsStep(j)' <=> IsStep(j))
    BY <2>2, <2>4, RowsRest
  <2>6. QueueAlone' /\ InHand' /\ AirUnsettled'
    BY <1>1, <2>2, <2>5 DEF QueueAlone, InHand, AirUnsettled, RowOf, StepInv
  <2>7. NoStepAfter' /\ ReplyIsLast'
    BY <2>2, <2>5 DEF NoStepAfter, ReplyLeft, ReplyIsLast, StepInv
  <2> QED BY <2>4, <2>5, <2>6, <2>7 DEF StepInv
<1>18. CASE SendLooks
  <2>1. /\ flusher.at = "taken" /\ RowOf.kind = "step" /\ ~RowOf.expired /\ ~RowOf.started
        /\ flusher' = [flusher EXCEPT !.at = "looked"]
        /\ UNCHANGED <<worker, questionOpen, asked, lost, outbox, minute, queue, air, session>>
    BY <1>18 DEF SendLooks, Sending
  <2>2. /\ flusher' \in [at : {"idle", "taken", "looked", "posts"}, row : 0..Len(outbox), moved : BOOLEAN]
        /\ flusher'.at = "looked" /\ flusher'.row = flusher.row
    BY <1>1, <2>1
  <2>3. StepTyped'
    BY <1>1, <2>1, <2>2 DEF StepTyped
  <2>4. /\ flusher.row \in DOMAIN outbox /\ outbox[flusher.row].state = "pending"
        /\ IsStep(flusher.row) /\ ~outbox[flusher.row].expired /\ ~outbox[flusher.row].started
    BY <2>1 DEF StepInv, InHand, RowOf, IsStep
  <2>5. /\ FewRows' /\ RowsAgree' /\ OneUncertain' /\ OneFresh'
        /\ SomeUnsettled' <=> SomeUnsettled
        /\ \A j \in DOMAIN outbox : (Unsettled(j)' <=> Unsettled(j)) /\ (IsStep(j)' <=> IsStep(j))
    BY <2>1, <2>2, <2>3, <2>4, RowsRest
  <2>6. QueueAlone' /\ InHand' /\ AirUnsettled'
    BY <1>1, <2>1, <2>2, <2>4, <2>5 DEF QueueAlone, InHand, AirUnsettled, RowOf, StepInv
  <2>7. NoStepAfter' /\ ReplyIsLast'
    BY <2>1, <2>2, <2>5 DEF NoStepAfter, ReplyLeft, ReplyIsLast, StepInv
  <2> QED BY <2>3, <2>5, <2>6, <2>7 DEF StepInv
<1>19. CASE ReplyWaits
  <2>1. /\ flusher.at = "taken" /\ flusher' = [flusher EXCEPT !.at = "idle", !.moved = FALSE]
        /\ UNCHANGED <<worker, questionOpen, asked, lost, outbox, minute, queue, air, session>>
    BY <1>19 DEF ReplyWaits, Sending, Resting
  <2>2. /\ flusher' \in [at : {"idle", "taken", "looked", "posts"}, row : 0..Len(outbox), moved : BOOLEAN]
        /\ flusher'.at = "idle"
    BY <1>1, <2>1
  <2>3. StepTyped'
    BY <1>1, <2>1, <2>2 DEF StepTyped
  <2>4. /\ FewRows' /\ RowsAgree' /\ OneUncertain' /\ OneFresh'
        /\ SomeUnsettled' <=> SomeUnsettled
        /\ \A j \in DOMAIN outbox : (Unsettled(j)' <=> Unsettled(j)) /\ (IsStep(j)' <=> IsStep(j))
    BY <2>1, <2>2, <2>3, RowsRest
  <2>5. QueueAlone' /\ InHand' /\ AirUnsettled'
    BY <1>1, <2>1, <2>2, <2>4 DEF QueueAlone, InHand, AirUnsettled, StepInv
  <2>6. NoStepAfter' /\ ReplyIsLast'
    BY <2>1, <2>2, <2>4 DEF NoStepAfter, ReplyLeft, ReplyIsLast, StepInv
  <2> QED BY <2>3, <2>4, <2>5, <2>6 DEF StepInv
\* A row that never left is settled.
<1>20. ASSUME flusher.at \in {"taken", "looked"}, ~RowOf.started, Settled(flusher.row, "no")
       PROVE  StepInv'
  <2>1. /\ outbox' = SettledRow(flusher.row, "no")
        /\ flusher' = [flusher EXCEPT !.at = "idle", !.moved = FALSE]
        /\ UNCHANGED <<worker, questionOpen, asked, lost, minute, queue, air, session>>
    BY <1>20 DEF Settled, Resting
  <2>2. flusher.row \in DOMAIN outbox /\ RowOf \in SessionRows /\ RowOf.state = "pending"
    BY <1>1, <1>20 DEF StepInv, InHand, RowOf
  <2> DEFINE v == [RowOf EXCEPT !.state = "sent", !.applied = "no"]
  <2>3. /\ v \in SessionRows /\ v.kind = RowOf.kind /\ v.expired = RowOf.expired
        /\ v.state = "sent" /\ v.applied = "no" /\ v.started = RowOf.started
    BY <2>2 DEF SessionRows
  <2>4. outbox' = [outbox EXCEPT ![flusher.row] = v]
    BY <1>1, <2>1, <2>2 DEF SettledRow, RowOf, SessionRows
  <2> HIDE DEF v
  <2>5. flusher.row \notin air
    BY <1>20 DEF StepInv, AirUnsettled, Unsettled, RowOf
  <2>6. outbox' \in Seq(SessionRows) /\ Len(outbox') = Len(outbox) /\ DOMAIN outbox' = DOMAIN outbox
    BY <1>1, <2>2, <2>3, <2>4, RowChanges
  <2>7. /\ flusher' \in [at : {"idle", "taken", "looked", "posts"}, row : 0..Len(outbox), moved : BOOLEAN]
        /\ flusher'.at = "idle"
    BY <1>1, <2>1
  <2>8. StepTyped'
    BY <1>1, <2>1, <2>6, <2>7 DEF StepTyped
  <2>9. /\ FewRows' /\ RowsAgree' /\ QueueAlone' /\ InHand' /\ AirUnsettled' /\ OneUncertain'
        /\ OneFresh' /\ Calm
    BY <1>20, <2>1, <2>3, <2>4, <2>5, <2>7, <2>8, RowSettles
  <2>10. NoStepAfter' /\ ReplyIsLast'
    <3>1. ReplyLeft' => ReplyLeft
      BY <2>1, <2>7 DEF ReplyLeft
    <3> QED BY <2>1, <2>9, <3>1, RepliesStay DEF StepInv, ReplyIsLast
  <2> QED BY <2>8, <2>9, <2>10 DEF StepInv
<1>21. CASE DropsExpired
  BY <1>20, <1>21 DEF DropsExpired
<1>22. CASE StepSuperseded
  BY <1>20, <1>22 DEF StepSuperseded, StepInv, InHand
<1>23. CASE DropsRepair
  BY <1>20, <1>23 DEF DropsRepair
\* A row is admitted: the marker, and then the post.
<1>24. ASSUME flusher.at \in {"taken", "looked"}, AdmitRow, flusher.row \notin air,
              IsStep(flusher.row) => flusher.at = "looked" /\ ~worker.done,
              RowOf.kind = "reply" => ~SomeUnsettled
       PROVE  StepInv'
  <2> DEFINE r == flusher.row
             v == [RowOf EXCEPT !.started = TRUE]
  <2>1. /\ outbox' = [outbox EXCEPT ![r].started = TRUE]
        /\ flusher' = [flusher EXCEPT !.at = "posts"]
        /\ UNCHANGED <<worker, questionOpen, asked, lost, minute, queue, air, session>>
    BY <1>24 DEF AdmitRow
  <2>2. r \in DOMAIN outbox /\ RowOf \in SessionRows /\ RowOf.state = "pending" /\ RowOf = outbox[r]
    BY <1>1, <1>24 DEF StepInv, InHand, RowOf
  <2>3. /\ v \in SessionRows /\ v.kind = RowOf.kind /\ v.expired = RowOf.expired
        /\ v.state = RowOf.state /\ v.applied = RowOf.applied /\ v.started
    BY <2>2 DEF SessionRows
  <2>4. outbox' = [outbox EXCEPT ![r] = v]
    BY <1>1, <2>1, <2>2 DEF SessionRows
  <2> HIDE DEF v
  <2>5. /\ outbox' \in Seq(SessionRows) /\ Len(outbox') = Len(outbox) /\ DOMAIN outbox' = DOMAIN outbox
        /\ outbox'[r] = v /\ \A i \in DOMAIN outbox \ {r} : outbox'[i] = outbox[i]
    BY <1>1, <2>2, <2>3, <2>4, RowChanges
  <2>6. /\ flusher' \in [at : {"idle", "taken", "looked", "posts"}, row : 0..Len(outbox), moved : BOOLEAN]
        /\ flusher'.at = "posts" /\ flusher'.row = r
    BY <1>1, <2>1
  <2>7. StepTyped'
    BY <1>1, <2>1, <2>5, <2>6 DEF StepTyped
  <2> HIDE DEF r
  <2>8. \A i \in DOMAIN outbox :
          /\ (IsStep(i)' <=> IsStep(i)) /\ outbox'[i].kind = outbox[i].kind
          /\ outbox'[i].expired = outbox[i].expired /\ outbox'[i].state = outbox[i].state
          /\ outbox'[i].applied = outbox[i].applied /\ (i # r => (Unsettled(i)' <=> Unsettled(i)))
    BY <2>2, <2>3, <2>5 DEF Unsettled, IsStep
  <2>9. FewRows'
    <3>1. OpenSteps' \subseteq OpenSteps
      BY <2>5, <2>8 DEF OpenSteps
    <3> QED BY <2>1, <2>5, <2>7, <3>1, FewRowsStay DEF StepInv
  <2>10. RowsAgree'
    BY <2>1, <2>5, <2>8 DEF RowsAgree, StepInv
  <2>11. QueueAlone' /\ InHand'
    BY <1>24, <2>1, <2>2, <2>3, <2>5, <2>6, <2>8 DEF QueueAlone, InHand, StepInv, RowOf, r
  <2>12. AirUnsettled'
    BY <1>1, <1>24, <2>1, <2>8 DEF AirUnsettled, StepInv, r
  <2>13. IsStep(r) => \A j \in DOMAIN outbox \ {r} : IsStep(j) => outbox[j].expired /\ ~Unsettled(j)
    BY <1>24 DEF StepInv, OneFresh, r
  <2>14. OneUncertain'
    BY <2>5, <2>8, <2>13 DEF OneUncertain, StepInv, IsStep
  <2>15. OneFresh'
    <3>1. minute' => \A i \in DOMAIN outbox' : IsStep(i)' => outbox'[i].expired
      BY <2>1, <2>5, <2>8 DEF StepInv, OneFresh
    <3>2. ASSUME NEW i \in DOMAIN outbox', NEW j \in DOMAIN outbox', IsStep(i)', IsStep(j)',
                 ~outbox'[i].expired, ~outbox'[j].expired \/ Unsettled(j)'
          PROVE  i = j
      <4>1. /\ i \in DOMAIN outbox /\ j \in DOMAIN outbox /\ IsStep(i) /\ IsStep(j)
            /\ ~outbox[i].expired
            /\ outbox'[j].expired = outbox[j].expired
        BY <2>5, <2>8, <3>2
      <4>2. CASE j # r
        BY <2>8, <3>2, <4>1, <4>2 DEF StepInv, OneFresh
      <4>3. CASE j = r
        BY <2>13, <4>1, <4>3
      <4> QED BY <4>2, <4>3
    <3> QED BY <2>6, <3>1, <3>2 DEF OneFresh
  <2>16. NoStepAfter' /\ ReplyIsLast'
    <3> SUFFICES ASSUME ReplyLeft'
                 PROVE  /\ worker'.done
                        /\ \A i \in DOMAIN outbox' : IsStep(i)' => ~Unsettled(i)'
      BY <2>1 DEF StepInv, ReplyIsLast, NoStepAfter
    <3>1. CASE RowOf.kind = "reply"
      BY <1>24, <2>1, <2>2, <2>5, <2>8, <3>1
      DEF StepInv, RowsAgree, SomeUnsettled, IsStep
    <3>2. CASE RowOf.kind # "reply"
      <4>1. \E i \in DOMAIN session : session[i] = "reply"
        BY <2>1, <2>2, <2>6, <2>8, <3>2 DEF ReplyLeft, RowOf
      <4>2. worker.done /\ \A i \in DOMAIN outbox : IsStep(i) => ~Unsettled(i)
        BY <4>1 DEF ReplyLeft, StepInv, NoStepAfter
      <4> QED BY <1>24, <2>1, <2>5, <2>8, <4>2 DEF r
    <3> QED BY <3>1, <3>2
  <2> QED BY <2>7, <2>9, <2>10, <2>11, <2>12, <2>14, <2>15, <2>16 DEF StepInv
<1>25. CASE AdmitsStep
  <2>1. flusher.at = "looked" /\ AdmitRow /\ ~worker.done /\ ~RowOf.started /\ RowOf.kind = "step"
    BY <1>25 DEF AdmitsStep, Runnable, StepInv, InHand, IsStep, RowOf
  <2>2. flusher.row \notin air
    BY <2>1 DEF StepInv, AirUnsettled, Unsettled, RowOf
  <2> QED BY <1>24, <2>1, <2>2
<1>26. CASE AdmitsReply
  <2>1. flusher.at = "taken" /\ AdmitRow /\ RowOf.kind = "reply" /\ ~SomeUnsettled
    BY <1>26 DEF AdmitsReply
  <2>2. flusher.row \notin air
    BY <1>1, <2>1 DEF StepInv, AirUnsettled, SomeUnsettled
  <2> QED BY <1>24, <2>1, <2>2 DEF IsStep, RowOf
<1>27. CASE AdmitsRepair
  <2>1. flusher.at = "taken" /\ AdmitRow /\ RowOf.kind = "repair" /\ ~RowOf.started
    BY <1>27 DEF AdmitsRepair
  <2>2. flusher.row \notin air
    BY <2>1 DEF StepInv, AirUnsettled, Unsettled, RowOf
  <2> QED BY <1>24, <2>1, <2>2 DEF IsStep, RowOf
\* A row that arrived is settled, and a question it covers is shown again.
<1>28. ASSUME flusher.at # "idle", RowOf.started, flusher.row \notin air,
              outbox' = Repaired(SettledRow(flusher.row, "yes"), flusher.row), flusher' = Resting,
              UNCHANGED <<worker, questionOpen, asked, lost, minute, queue, air>>,
              session' \in Seq({"step", "question", "reply"})
       PROVE  /\ StepTyped' /\ FewRows' /\ RowsAgree' /\ QueueAlone' /\ InHand' /\ AirUnsettled'
              /\ OneUncertain' /\ OneFresh' /\ Calm /\ flusher'.at = "idle"
  <2> DEFINE v == [RowOf EXCEPT !.state = "sent", !.applied = "yes"]
             table == [outbox EXCEPT ![flusher.row] = v]
             new == SessionRow("repair", NoStep)
  <2>1. flusher.row \in DOMAIN outbox /\ RowOf \in SessionRows
    BY <1>1, <1>28 DEF StepInv, InHand, RowOf
  <2>2. /\ v \in SessionRows /\ v.kind = RowOf.kind /\ v.expired = RowOf.expired
        /\ v.state = "sent" /\ v.applied = "yes" /\ v.started = RowOf.started
    BY <2>1 DEF SessionRows
  <2>3. table = SettledRow(flusher.row, "yes")
    BY <1>1, <2>1 DEF SettledRow, RowOf, SessionRows
  <2> HIDE DEF v
  <2>4. /\ table \in Seq(SessionRows) /\ Len(table) = Len(outbox) /\ DOMAIN table = DOMAIN outbox
        /\ table[flusher.row] = v
    BY <1>1, <2>1, <2>2, RowChanges
  <2>5. /\ \/ outbox' = table
           \/ RowOf.kind = "step" /\ outbox' = Append(table, new)
    BY <1>28, <2>2, <2>3, <2>4 DEF Repaired
  <2> HIDE DEF table
  <2>6. new \in SessionRows
    BY WorkerStepAssumption DEF SessionRows, SessionRow, NoStep, LiveSteps
  <2>7. outbox' \in Seq(SessionRows) /\ DOMAIN outbox \subseteq DOMAIN outbox' /\ Len(outbox) =< Len(outbox')
    <3>1. CASE outbox' = table
      BY <1>3, <2>4, <3>1
    <3>2. CASE outbox' = Append(table, new)
      BY <1>3, <2>4, <2>6, <3>2, RowAdded
    <3> QED BY <2>5, <3>1, <3>2
  <2>8. 0..Len(outbox) \subseteq 0..Len(outbox')
    BY <1>3, <2>7
  <2>9. /\ flusher' \in [at : {"idle", "taken", "looked", "posts"}, row : 0..Len(outbox), moved : BOOLEAN]
        /\ flusher'.at = "idle"
    BY <1>1, <1>28 DEF Resting
  <2>10. flusher' \in [at : {"idle", "taken", "looked", "posts"}, row : 0..Len(outbox'), moved : BOOLEAN]
    BY <2>8, <2>9
  <2>11. StepTyped'
    BY <1>1, <1>28, <2>7, <2>10 DEF StepTyped
  <2> HIDE DEF new
  <2>12. /\ FewRows' /\ RowsAgree' /\ QueueAlone' /\ InHand' /\ AirUnsettled' /\ OneUncertain'
         /\ OneFresh' /\ Calm
    BY <1>28, <2>2, <2>5, <2>9, <2>11, RowSettles DEF new, table
  <2> QED BY <2>9, <2>11, <2>12
<1>29. CASE Posts
  <2>1. /\ flusher.at = "posts" /\ session' = Append(session, ShownAs(flusher.row))
        /\ outbox' = Repaired(SettledRow(flusher.row, "yes"), flusher.row) /\ flusher' = Resting
        /\ UNCHANGED <<worker, questionOpen, asked, lost, minute, queue, air>>
    BY <1>29 DEF Posts
  <2>2. /\ flusher.row \in DOMAIN outbox /\ RowOf \in SessionRows /\ RowOf.started
        /\ RowOf.state = "pending" /\ RowOf.applied = "unset" /\ flusher.row \notin air
    BY <1>1, <2>1 DEF StepInv, InHand, RowOf, RowsAgree
  <2>3. /\ ShownAs(flusher.row) \in {"step", "question", "reply"}
        /\ ShownAs(flusher.row) = "step" <=> RowOf.kind = "step"
        /\ ShownAs(flusher.row) = "reply" <=> RowOf.kind = "reply"
    BY <2>2 DEF ShownAs, RowOf, SessionRows
  <2>4. RowOf.kind = "step" => ~ReplyLeft
    BY <2>2 DEF StepInv, NoStepAfter, Unsettled, IsStep, RowOf
  <2>5. /\ session' \in Seq({"step", "question", "reply"}) /\ ReplyIsLast'
        /\ (\E i \in DOMAIN session' : session'[i] = "reply")
             => RowOf.kind = "reply" \/ \E i \in DOMAIN session : session[i] = "reply"
    BY <1>1, <2>1, <2>3, <2>4, SessionGrows DEF StepInv, ReplyLeft
  <2>6. /\ StepTyped' /\ FewRows' /\ RowsAgree' /\ QueueAlone' /\ InHand' /\ AirUnsettled'
        /\ OneUncertain' /\ OneFresh' /\ Calm /\ flusher'.at = "idle"
    BY <1>28, <2>1, <2>2, <2>5
  <2>7. ReplyLeft' => ReplyLeft
    BY <2>1, <2>5, <2>6 DEF ReplyLeft
  <2> QED BY <2>5, <2>6, <2>7, RepliesStay DEF StepInv
<1>30. CASE ReadsStepBack
  <2>1. /\ flusher.at = "taken" /\ RowOf.started /\ flusher' = Resting
        /\ UNCHANGED <<worker, questionOpen, asked, lost, minute, queue, air, session>>
    BY <1>30 DEF ReadsStepBack
  <2>2. CASE /\ flusher.row \notin air
             /\ outbox' = Repaired(SettledRow(flusher.row, "yes"), flusher.row)
    <3>1. /\ StepTyped' /\ FewRows' /\ RowsAgree' /\ QueueAlone' /\ InHand' /\ AirUnsettled'
          /\ OneUncertain' /\ OneFresh' /\ Calm /\ flusher'.at = "idle"
      BY <1>1, <1>28, <2>1, <2>2
    <3>2. ReplyLeft' => ReplyLeft
      BY <2>1, <3>1 DEF ReplyLeft
    <3> QED BY <2>1, <3>1, <3>2, RepliesStay DEF StepInv, ReplyIsLast
  <2>3. CASE flusher.row \in air /\ \E state \in {"pending", "failed"} :
               outbox' = [outbox EXCEPT ![flusher.row].state = state]
    <3>1. PICK state \in {"pending", "failed"} : outbox' = [outbox EXCEPT ![flusher.row].state = state]
      BY <2>3
    <3> DEFINE v == [RowOf EXCEPT !.state = state]
    <3>2. /\ flusher.row \in DOMAIN outbox /\ RowOf \in SessionRows /\ RowOf.applied = "unset"
      BY <1>1, <2>1 DEF StepInv, InHand, RowOf, RowsAgree
    <3>3. /\ v \in SessionRows /\ v.kind = RowOf.kind /\ v.expired = RowOf.expired
          /\ v.state # "sent" /\ v.applied = "unset" /\ v.started
      BY <2>1, <3>2 DEF SessionRows
    <3>4. outbox' = [outbox EXCEPT ![flusher.row] = v]
      BY <1>1, <3>1, <3>2 DEF RowOf, SessionRows
    <3> HIDE DEF v
    <3>5. outbox' \in Seq(SessionRows) /\ Len(outbox') = Len(outbox) /\ DOMAIN outbox' = DOMAIN outbox
      BY <1>1, <3>2, <3>3, <3>4, RowChanges
    <3>6. /\ flusher' \in [at : {"idle", "taken", "looked", "posts"}, row : 0..Len(outbox), moved : BOOLEAN]
          /\ flusher'.at = "idle"
      BY <1>1, <2>1 DEF Resting
    <3>7. StepTyped'
      BY <1>1, <2>1, <3>5, <3>6 DEF StepTyped
    <3>8. /\ FewRows' /\ RowsAgree' /\ QueueAlone' /\ InHand' /\ AirUnsettled' /\ OneUncertain'
          /\ OneFresh' /\ Calm
      BY <2>1, <3>3, <3>4, <3>6, <3>7, RowSettles
    <3>9. ReplyLeft' => ReplyLeft
      BY <2>1, <3>6 DEF ReplyLeft
    <3> QED BY <2>1, <3>7, <3>8, <3>9, RepliesStay DEF StepInv, ReplyIsLast
  <2> QED BY <1>30, <2>2, <2>3 DEF ReadsStepBack
<1>31. CASE StepRefused
  <2>1. /\ flusher.at = "posts" /\ lost < MaxLost /\ lost' = lost + 1 /\ flusher' = Resting
        /\ outbox' = [outbox EXCEPT ![flusher.row].started = FALSE]
        /\ UNCHANGED <<worker, questionOpen, asked, minute, queue, air, session>>
    BY <1>31 DEF StepRefused
  <2> DEFINE v == [RowOf EXCEPT !.started = FALSE]
  <2>2. /\ flusher.row \in DOMAIN outbox /\ RowOf \in SessionRows /\ RowOf.state = "pending"
        /\ RowOf.applied = "unset" /\ flusher.row \notin air
    BY <1>1, <2>1 DEF StepInv, InHand, RowOf, RowsAgree
  <2>3. /\ v \in SessionRows /\ v.kind = RowOf.kind /\ v.expired = RowOf.expired
        /\ v.applied = "unset" /\ ~v.started
    BY <2>2 DEF SessionRows
  <2>4. outbox' = [outbox EXCEPT ![flusher.row] = v]
    BY <1>1, <2>1, <2>2 DEF RowOf, SessionRows
  <2> HIDE DEF v
  <2>5. outbox' \in Seq(SessionRows) /\ Len(outbox') = Len(outbox) /\ DOMAIN outbox' = DOMAIN outbox
    BY <1>1, <2>2, <2>3, <2>4, RowChanges
  <2>6. /\ flusher' \in [at : {"idle", "taken", "looked", "posts"}, row : 0..Len(outbox), moved : BOOLEAN]
        /\ flusher'.at = "idle"
    BY <1>1, <2>1 DEF Resting
  <2>7. lost' \in 0..MaxLost
    BY <1>1, <1>2, <2>1
  <2>8. StepTyped'
    BY <1>1, <2>1, <2>5, <2>6, <2>7 DEF StepTyped
  <2>9. /\ FewRows' /\ RowsAgree' /\ QueueAlone' /\ InHand' /\ AirUnsettled' /\ OneUncertain'
        /\ OneFresh' /\ Calm
    BY <2>1, <2>2, <2>3, <2>4, <2>6, <2>8, RowSettles
  <2>10. ReplyLeft' => ReplyLeft
    BY <2>1, <2>6 DEF ReplyLeft
  <2> QED BY <2>1, <2>8, <2>9, <2>10, RepliesStay DEF StepInv, ReplyIsLast
<1>32. CASE AnswerLost
  <2>1. /\ flusher.at = "posts" /\ RowOf.kind # "reply" /\ lost < MaxLost /\ lost' = lost + 1
        /\ air' = air \cup {flusher.row} /\ flusher' = Resting
        /\ UNCHANGED <<worker, questionOpen, asked, outbox, minute, queue, session>>
    BY <1>32 DEF AnswerLost
  <2>2. /\ flusher.row \in DOMAIN outbox /\ RowOf \in SessionRows /\ RowOf.state = "pending"
        /\ RowOf.applied = "unset" /\ RowOf.started
    BY <1>1, <2>1 DEF StepInv, InHand, RowOf, RowsAgree
  <2>3. Unsettled(flusher.row)
    BY <2>1, <2>2 DEF Unsettled, RowOf, SessionRows
  <2>4. /\ flusher' \in [at : {"idle", "taken", "looked", "posts"}, row : 0..Len(outbox), moved : BOOLEAN]
        /\ flusher'.at = "idle"
    BY <1>1, <2>1 DEF Resting
  <2>5. lost' \in 0..MaxLost
    BY <1>1, <1>2, <2>1
  <2>6. StepTyped'
    BY <1>1, <2>1, <2>2, <2>4, <2>5 DEF StepTyped
  <2>7. /\ FewRows' /\ RowsAgree' /\ OneUncertain' /\ OneFresh'
        /\ SomeUnsettled' <=> SomeUnsettled
        /\ \A i \in DOMAIN outbox : (Unsettled(i)' <=> Unsettled(i)) /\ (IsStep(i)' <=> IsStep(i))
    BY <2>1, <2>4, <2>6, RowsRest
  <2>8. QueueAlone' /\ InHand'
    BY <2>1, <2>4 DEF QueueAlone, InHand, StepInv
  <2>9. AirUnsettled'
    BY <1>1, <2>1, <2>2, <2>3, <2>7 DEF AirUnsettled, StepInv
  <2>10. NoStepAfter' /\ ReplyIsLast'
    BY <2>1, <2>4, <2>7 DEF NoStepAfter, ReplyLeft, ReplyIsLast, StepInv
  <2> QED BY <2>6, <2>7, <2>8, <2>9, <2>10 DEF StepInv
<1>33. CASE LandsLate
  <2>1. PICK i \in air : air' = air \ {i} /\ session' = Append(session, ShownAs(i))
    BY <1>33 DEF LandsLate
  <2>2. UNCHANGED <<worker, questionOpen, asked, lost, outbox, minute, queue, flusher>>
    BY <1>33 DEF LandsLate
  <2>3. i \in DOMAIN outbox /\ Unsettled(i)
    BY <1>1 DEF StepInv, AirUnsettled
  <2>4. /\ ShownAs(i) \in {"step", "question", "reply"} /\ ShownAs(i) # "reply"
        /\ ShownAs(i) = "step" <=> IsStep(i)
    BY <2>3 DEF ShownAs, Unsettled, IsStep
  <2>5. IsStep(i) => ~ReplyLeft
    BY <2>3 DEF StepInv, NoStepAfter
  <2>6. /\ session' \in Seq({"step", "question", "reply"}) /\ ReplyIsLast'
        /\ (\E j \in DOMAIN session' : session'[j] = "reply")
             => \E j \in DOMAIN session : session[j] = "reply"
    BY <1>1, <2>1, <2>4, <2>5, SessionGrows DEF StepInv, ReplyLeft
  <2>7. StepTyped'
    BY <1>1, <2>1, <2>2, <2>6 DEF StepTyped
  <2>8. /\ FewRows' /\ RowsAgree' /\ OneUncertain' /\ OneFresh'
        /\ SomeUnsettled' <=> SomeUnsettled
        /\ \A j \in DOMAIN outbox : (Unsettled(j)' <=> Unsettled(j)) /\ (IsStep(j)' <=> IsStep(j))
    BY <2>2, <2>7, RowsRest
  <2>9. QueueAlone' /\ InHand' /\ AirUnsettled'
    BY <1>1, <2>1, <2>2, <2>8 DEF QueueAlone, InHand, AirUnsettled, RowOf, StepInv, IsStep
  <2>10. NoStepAfter'
    BY <2>2, <2>6, <2>8 DEF NoStepAfter, ReplyLeft, RowOf, StepInv
  <2> QED BY <2>6, <2>7, <2>8, <2>9, <2>10 DEF StepInv
<1> QED
  BY <1>6, <1>7, <1>8, <1>9, <1>10, <1>11, <1>12, <1>13, <1>14, <1>15, <1>16, <1>17, <1>18, <1>19,
     <1>21, <1>22, <1>23, <1>25, <1>26, <1>27, <1>29, <1>30, <1>31, <1>32, <1>33
  DEF StepNext, StepSends

\* At the start nothing is queued or shown.
LEMMA StepStart == StepInit => StepInv
<1> SUFFICES ASSUME StepInit PROVE StepInv
  OBVIOUS
<1>1. /\ worker = [run |-> 1, tool |-> "none", stopped |-> FALSE, done |-> FALSE]
      /\ questionOpen = FALSE /\ asked = 0 /\ lost = 0 /\ outbox = <<>> /\ minute = TRUE
      /\ queue = NotQueueing /\ flusher = [at |-> "idle", row |-> 0, moved |-> FALSE]
      /\ air = {} /\ session = <<>>
  BY DEF StepInit
<1>2. StepTyped
  <2>1. /\ MaxRuns \in Nat \ {0} /\ MaxAsked \in Nat /\ MaxLost \in Nat
    BY WorkerStepAssumption
  <2>2. 1 \in 1..MaxRuns /\ 0 \in 0..MaxRuns /\ 0 \in 0..MaxAsked /\ 0 \in 0..MaxLost
    BY <2>1
  <2>3. outbox \in Seq(SessionRows) /\ session \in Seq({"step", "question", "reply"})
        /\ Len(outbox) = 0 /\ 0 \in 0..0
    BY <1>1
  <2>4. queue \in [at : {"idle", "looked", "verifies"}, moved : BOOLEAN, step : LiveSteps]
    BY <1>1, <2>2 DEF NotQueueing, NoStep, LiveSteps
  <2>5. flusher \in [at : {"idle", "taken", "looked", "posts"}, row : 0..Len(outbox), moved : BOOLEAN]
    BY <1>1, <2>3
  <2> QED BY <1>1, <2>2, <2>3, <2>4, <2>5 DEF StepTyped
<1>3. FewRows
  BY <1>1, <1>2, WorkerStepAssumption, FS_EmptySet DEF FewRows, OpenSteps
<1>4. RowsAgree /\ QueueAlone /\ InHand /\ AirUnsettled /\ OneFresh /\ OneUncertain
  BY <1>1 DEF RowsAgree, QueueAlone, InHand, AirUnsettled, OneFresh, OneUncertain, NotQueueing
<1>5. NoStepAfter /\ ReplyIsLast
  BY <1>1 DEF NoStepAfter, ReplyLeft, ReplyIsLast
<1> QED BY <1>2, <1>3, <1>4, <1>5 DEF StepInv

\* The invariant says what the run looks at.
LEMMA StepHolds == StepInv => StepSound
<1> SUFFICES ASSUME StepInv PROVE StepSound
  OBVIOUS
<1>1. Len(outbox) =< 2 * MaxSteps + 1
  <2>1. Cardinality(OpenSteps) \in Nat /\ Len(outbox) \in Nat
    BY UndecidedFew DEF StepInv, StepTyped, OpenSteps, IsStep
  <2> QED BY <2>1, WorkerStepAssumption DEF StepInv, FewRows
<1>2. flusher.row \in 0..Len(outbox) /\ \A i \in DOMAIN outbox : outbox[i] \in SessionRows
  BY DEF StepInv, StepTyped
<1>3. StepTypeOK
  BY <1>1, <1>2 DEF StepTypeOK, StepInv, StepTyped, SessionRows, LiveSteps
<1> QED BY <1>3 DEF StepSound, StepInv

\* A worker's closing reply is the last the session shows of its live status, and one
\* step at a time may land late (worker_progress.py queue and flush): for any tools,
\* attempts, steps, questions and lost answers.
THEOREM ReplyClosesProgress == StepSpec => []StepSound
<1>1. StepInv /\ [StepNext]_stepVars => StepInv'
  BY StepSteps
<1> QED BY <1>1, StepStart, StepHolds, PTL DEF StepSpec
=============================================================================
