------------------------------- MODULE Sweep -------------------------------
(***************************************************************************)
(* The recheck pass and the hourly sweep of unbound issues (bridge.py,      *)
(* recheck to _app_set_started_state): stale work nobody is doing goes back  *)
(* to Todo, and a link whose native task was deleted is retired.  One issue. *)
(* Persons change the issue at any time, another process of the home links  *)
(* it (the issue's lock is a process's own), Core creates and deletes tasks, *)
(* and a pass reads Linear several times before its one write, which may     *)
(* fail, get lost or die with the process.                                   *)
(***************************************************************************)
EXTENDS Integers, Sequences, FiniteSets

CONSTANTS
  MaxHistory,   \* bound: changes of the issue
  Window,       \* history entries a bounded scan reads when it finds no move
  MaxTroubles   \* bound: failed reads, lost answers, crashes

ASSUME SweepAssumption ==
  MaxHistory \in Nat \ {0} /\ Window \in Nat \ {0} /\ MaxTroubles \in Nat

VARIABLES
  card,      \* [creator, history, delegated, quiet]: the issue in Linear
  link,      \* the store's work row: "none", "chat" (origin not native) or "task"
  native,    \* the native task that names the issue: "none", "alive", "gone"
  decided,   \* version |-> decision, the applied unbound-sweep intents
  pass,      \* the pass under way
  failures   \* counter of the bound

sweepVars == <<card, link, native, decided, pass, failures>>

People == {"app", "person"}
StateMoves == {"start", "block", "todo"}            \* entries that move the state
Routings == StateMoves \cup {"assign", "delegate"}    \* entries _routed counts
Entries == [by : People, what : Routings \cup {"comment"}]
\* Every change of the issue moves updatedAt.
Version == Len(card.history)

Newest(h, S) == LET at == {i \in 1..Len(h) : h[i].what \in S}
              IN IF at = {} THEN 0 ELSE CHOOSE i \in at : \A j \in at : j =< i
StateOf(h) == IF Newest(h, StateMoves) = 0 THEN "start" ELSE h[Newest(h, StateMoves)].what

NoPass == [at |-> "idle", version |-> 0, quiet |-> FALSE, parks |-> FALSE, seen |-> <<>>]

\* The issue is on the app's list in a started state; it was created In Progress.
SweepIdle(creator, row) ==
  /\ card = [creator |-> creator, history |-> <<>>, delegated |-> TRUE, quiet |-> FALSE]
  /\ link = row
  /\ native = IF row = "task" THEN "alive" ELSE "none"
  /\ decided = <<>> /\ pass = NoPass /\ failures = 0
SweepInit == \E creator \in People, row \in {"none", "chat", "task"} : SweepIdle(creator, row)

Changed(by, what) ==
  /\ Version < MaxHistory
  /\ card' = [card EXCEPT !.history = Append(@, [by |-> by, what |-> what]), !.quiet = FALSE,
                            !.delegated = IF what = "delegate" THEN ~@ ELSE @]

-----------------------------------------------------------------------------
(* Persons, Core, and the home's other work.                                 *)

PersonChanges ==
  /\ \E what \in Routings \cup {"comment"} : what # StateOf(card.history) /\ Changed("person", what)
  /\ UNCHANGED <<link, native, decided, pass, failures>>

HourPasses ==
  /\ ~card.quiet /\ card' = [card EXCEPT !.quiet = TRUE]
  /\ UNCHANGED <<link, native, decided, pass, failures>>

TaskCreated ==
  /\ native = "none" /\ link = "none" /\ native' = "alive"
  /\ UNCHANGED <<card, link, decided, pass, failures>>

\* An unlinked task leaves nothing behind; a linked one is missed by its row.
TaskDeleted ==
  /\ native = "alive" /\ failures < MaxTroubles /\ failures' = failures + 1
  /\ native' = IF link = "task" THEN "gone" ELSE "none"
  /\ UNCHANGED <<card, link, decided, pass>>

\* bind_native: an absent row only.
Bind ==
  /\ link = "none" /\ native = "alive" /\ card.delegated
  /\ link' = "task"
  /\ UNCHANGED <<card, native, decided, pass, failures>>

\* Reports of linked work: the issue stays the app's, or is delegated to nobody.
ReportsWork ==
  /\ link = "task" /\ native = "alive" /\ StateOf(card.history) # "start"
  /\ Changed("app", "start")
  /\ UNCHANGED <<link, native, decided, pass, failures>>

-----------------------------------------------------------------------------
(* What a scan of the routing history tells.                                  *)

\* Newest first, until a move is read or the bound stops it.
Scanned(h) ==
  LET from == IF Newest(h, StateMoves) = 0 THEN Len(h) - Window + 1 ELSE Newest(h, StateMoves)
  IN {i \in 1..Len(h) : i >= from}
ReadEnoughAnyway(h) == TRUE
ReadEnough(h) ==
  Newest(h, StateMoves) # 0 \/ Len(h) =< Window

\* _app_set_started_state.
AppSetStarted(h) ==
  LET routed == {i \in Scanned(h) : h[i].what \in Routings}
      moved == {i \in routed : h[i].what \in StateMoves}
      later(m) == {i \in routed : i > m}
  IN IF moved = {}
     THEN ReadEnough(h) /\ card.creator = "app" /\ \A i \in routed : h[i].by = "app"
     ELSE \E m \in moved : /\ \A n \in moved : n =< m
                           /\ h[m].by = "app" /\ h[m].what = "start"
                           /\ \A i \in later(m) : h[i].by = "app"

-----------------------------------------------------------------------------
(* The sweep: one listed issue.                                               *)

Stays == /\ pass' = NoPass /\ UNCHANGED <<card, link, native, decided, failures>>

\* A started issue delegated to the app is on the page.
Lists ==
  /\ pass.at = "idle" /\ card.delegated /\ StateOf(card.history) \in {"start", "block"}
  /\ pass' = [NoPass EXCEPT !.at = "listed", !.version = Version, !.quiet = card.quiet]
  /\ UNCHANGED <<card, link, native, decided, failures>>

\* Linked work, a version already decided and a fresh one are passed over.
PassedOver == link # "none" \/ pass.version \in DOMAIN decided \/ ~pass.quiet
PassesOver == pass.at = "listed" /\ PassedOver /\ Stays

DiscoversAndDecides ==
  /\ pass.at = "listed" /\ ~PassedOver
  /\ pass' = [pass EXCEPT !.at = IF native = "none" THEN "reads" ELSE "exists"]
  /\ decided' = [v \in DOMAIN decided \cup {pass.version} |->
                   IF v \in DOMAIN decided THEN decided[v] ELSE "moved"]
  /\ UNCHANGED <<card, link, native, failures>>

Discovers ==
  /\ pass.at = "listed" /\ ~PassedOver
  /\ pass' = [pass EXCEPT !.at = IF native = "none" THEN "reads" ELSE "exists"]
  /\ UNCHANGED <<card, link, native, decided, failures>>

\* The fresh copy of the issue, then its history.
Reads ==
  /\ pass.at = "reads"
  /\ pass' = [pass EXCEPT !.at = IF card.delegated /\ StateOf(card.history) = "start"
                                 THEN "history" ELSE "left"]
  /\ UNCHANGED <<card, link, native, decided, failures>>

ReadsHistory ==
  /\ pass.at = "history"
  /\ pass' = [pass EXCEPT !.at = IF AppSetStarted(card.history) THEN "moves" ELSE "left",
                          !.seen = card.history]
  /\ UNCHANGED <<card, link, native, decided, failures>>

\* "Linked while we looked".
LinkedMeanwhile == pass.at = "moves" /\ link # "none" /\ Stays

MovesToTodo ==
  /\ pass.at = "moves" /\ link = "none"
  /\ Changed("app", "todo")
  /\ pass' = [pass EXCEPT !.at = "moved"]
  /\ UNCHANGED <<link, native, decided, failures>>

\* The decision is written after the effect, once per version of the issue.
Records ==
  /\ pass.at \in {"exists", "left", "moved"}
  /\ decided' = [v \in DOMAIN decided \cup {pass.version} |->
                   IF v \in DOMAIN decided THEN decided[v] ELSE pass.at]
  /\ pass' = NoPass
  /\ UNCHANGED <<card, link, native, failures>>

-----------------------------------------------------------------------------
(* The recheck of a tracked issue: _recheck_row and _retire_untracked.        *)

\* A row that is not native, or whose task was deleted.
Untracked == link = "chat" \/ (link = "task" /\ native = "gone")

Rechecks ==
  /\ pass.at = "idle" /\ Untracked
  /\ pass' = [NoPass EXCEPT !.at = "rechecks"]
  /\ UNCHANGED <<card, link, native, decided, failures>>

RetireReads ==
  /\ pass.at = "rechecks"
  /\ pass' = [pass EXCEPT !.at = "retires", !.seen = card.history,
                          !.parks = card.delegated /\ AppSetStarted(card.history)]
  /\ UNCHANGED <<card, link, native, decided, failures>>

RetireMoves ==
  /\ pass.at = "retires" /\ pass.parks
  /\ Changed("app", "todo")
  /\ pass' = [pass EXCEPT !.parks = FALSE]
  /\ UNCHANGED <<link, native, decided, failures>>

\* The row and, for a native one, its binding go: a fresh link can bind again.
RetiresRow ==
  /\ pass.at = "retires" /\ ~pass.parks
  /\ link' = "none" /\ native' = (IF native = "gone" THEN "none" ELSE native)
  /\ pass' = NoPass
  /\ UNCHANGED <<card, decided, failures>>

\* A read or the write fails, the answer of an applied write is lost, a rate
\* limit ends the pass, the process dies: nothing more of this pass is done.
PassDies ==
  /\ pass.at # "idle" /\ failures < MaxTroubles
  /\ failures' = failures + 1 /\ pass' = NoPass
  /\ \/ UNCHANGED card
     \/ (pass.at = "moves" \/ (pass.at = "retires" /\ pass.parks)) /\ Changed("app", "todo")
  /\ UNCHANGED <<link, native, decided>>

SweepSteps ==
  \/ PassesOver \/ Discovers \/ Reads \/ ReadsHistory \/ LinkedMeanwhile \/ MovesToTodo
  \/ Records \/ RetireReads \/ RetireMoves \/ RetiresRow

SweepNext ==
  \/ PersonChanges \/ HourPasses \/ TaskCreated \/ TaskDeleted \/ Bind \/ ReportsWork
  \/ Lists \/ Rechecks \/ SweepSteps \/ PassDies

SweepSpec == SweepInit /\ [][SweepNext]_sweepVars

SweepTypeOK ==
  /\ card \in [creator : People, history : Seq(Entries), delegated : BOOLEAN, quiet : BOOLEAN]
  /\ Version =< MaxHistory /\ failures \in 0..MaxTroubles
  /\ link \in {"none", "chat", "task"} /\ native \in {"none", "alive", "gone"}
  /\ DOMAIN decided \subseteq 0..MaxHistory
  /\ \A v \in DOMAIN decided : decided[v] \in {"exists", "left", "moved"}

-----------------------------------------------------------------------------
(* Promises.                                                                  *)

\* A person's choice of state, assignee or delegate up to position n of the
\* history stands: nothing newer says the app started the work again.
PersonDecided(n) ==
  LET h == SubSeq(card.history, 1, n)
      mine == {i \in 1..n : h[i].by = "app" /\ h[i].what = "start"}
      theirs == {i \in 1..n : h[i].by = "person" /\ h[i].what \in Routings}
  IN \/ \E i \in theirs : \A j \in mine : j < i
     \/ mine = {} /\ card.creator = "person"

\* The app sends an issue to Todo only when every choice a person had made when
\* the pass read the history is older than the app's own start: one made after
\* that read is what the window between read and write leaves to chance.  Also,
\* a version with a decision is never decided again (the sweep's "once per issue
\* version", bridge.py:3948-3960).
SweepRespectsPeople ==
  [][/\ (/\ Len(card'.history) > Version
         /\ card'.history[Version + 1] = [by |-> "app", what |-> "todo"])
          => ~PersonDecided(Len(pass.seen))
     /\ \A v \in DOMAIN decided : decided'[v] = decided[v]]_sweepVars

\* In Progress says an agent works on it.  Work the app started, with no link,
\* no task and no person's choice, does not stay so for ever, however its passes
\* fail; only a version found while an unlinked task existed keeps its decision.
Stale ==
  /\ link = "none" /\ native = "none" /\ card.delegated
  /\ StateOf(card.history) = "start" /\ AppSetStarted(card.history)
  /\ Version < MaxHistory
  /\ Version \in DOMAIN decided => decided[Version] # "exists"

StaleIsParked == Stale ~> ~Stale

\* A row whose native task was deleted is retired in the end.
GoneIsRetired ==
  (link = "task" /\ native = "gone" /\ Version < MaxHistory)
    ~> (link = "none" \/ Version = MaxHistory)

\* The hourly passes leave nothing untended: stale work and deleted tasks.
SweepSettles == StaleIsParked /\ GoneIsRetired
=============================================================================
