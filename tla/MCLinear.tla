----------------------------- MODULE MCLinear ------------------------------
(***************************************************************************)
(* The Linear plugin's sessions on small instances: who runs an issue's task, *)
(* what a person's reply answers, what the session shows, what evidence a Done *)
(* rests on, the chat turn's guard and the API clients.  They share only the  *)
(* outbox and the store's transactions, so a behaviour moves one of them, and *)
(* an idle one does not multiply the states.                                  *)
(***************************************************************************)
EXTENDS TakeOver, Answers, Conversation, Evidence, ChatGuard, LinearClient, MCReporting, Sweep

VARIABLES on \* the component that moves

\* Answers: a clarification and an approval; two replies, one reaching both adapters,
\* or one reply and a mishap.
SaidSo(kind, of) == [kind |-> kind, of |-> of]
Dialogue(first, second, trouble) ==
  [says |-> [r \in Replies |-> IF r = "r1" THEN first ELSE second], mishaps |-> trouble]
SomeDialogues == {Dialogue(SaidSo("yes", NoReply), SaidSo("yes", NoReply), 0),
                  Dialogue(SaidSo("chat", NoReply), SaidSo("pick", "q2"), 0),
                  Dialogue(SaidSo("yes", NoReply), SaidSo("none", NoReply), 1)}
SomeKinds == {[q \in Questions |-> IF q = "q1" THEN "clarify" ELSE "approval"]}
SomeReaches == [r \in Replies |-> IF r = "r1" THEN {"old", "new"} ELSE {"new"}]

\* Conversation: what may be posted, asked and lost.
Budget(notes, questions, unanswered) ==
  [posts |-> notes, asks |-> questions, lost |-> unanswered]
SomeBudgets == {Budget(1, 1, 0), Budget(0, 1, 1), Budget(1, 0, 1)}

\* Evidence: a run of this workflow in its first attempt, and one more of each kind that has
\* been re-run or has not started when the proof begins.
SomeOrigins == {[r \in Runs |-> IF r = "r1" THEN "own" ELSE o] : o \in {"own", "added", "foreign"}}

SomeBegun == [r \in Runs |-> IF r = "r1" THEN {1} ELSE {0, 2}]

\* A pull request that is merged already has no re-run run.
OpenWhenRerun == \A r \in Runs : pr.state = "merged" => runs[r].attempt # 2

\* ChatGuard: two turns of one session, one of another.
SomeSessions == [t \in ChatTurns |-> IF t \in {"t1", "t2"} THEN "s1" ELSE "s2"]
SomeRequests == {{"t1", "t2"}, {"t1", "t3"}}

\* LinearClient: two clients of the profile and a 401 or a death, or one client with all.
Deployment(clients, rejections, deaths) ==
  [clients |-> clients, rejections |-> rejections, outages |-> 1, deaths |-> deaths]
SomeDeployments == {Deployment({"c1", "c2"}, 1, 0), Deployment({"c1", "c2"}, 0, 1),
                    Deployment({"c1"}, 2, 1)}

otherVars(name) ==
  /\ name # "takeover" => UNCHANGED toVars
  /\ name # "answers" => UNCHANGED answersVars
  /\ name # "conversation" => UNCHANGED conversationVars
  /\ name # "evidence" => UNCHANGED evidenceVars
  /\ name # "guard" => UNCHANGED guardVars
  /\ name # "client" => UNCHANGED clientVars
  /\ name # "reporting" => UNCHANGED repVars
  /\ name # "sweep" => UNCHANGED sweepVars

Init ==
  /\ on \in {"takeover", "answers", "conversation", "evidence", "guard", "client",
             "reporting", "sweep"}
  /\ IF on = "takeover" THEN TakeOverInit ELSE TakeOverIdle("ready")
  /\ IF on = "answers" THEN AnswersInit
     ELSE AnswersIdle([q \in Questions |-> "clarify"],
                      Dialogue(SaidSo("yes", NoReply), SaidSo("yes", NoReply), 0))
  /\ IF on = "conversation" THEN ConversationInit ELSE ConversationIdle(Budget(1, 0, 1))
  /\ IF on = "evidence" THEN EvidenceInit /\ OpenWhenRerun ELSE EvidenceIdle([r \in Runs |-> "own"])
  /\ IF on = "guard" THEN GuardInit ELSE GuardIdle({"t1", "t2"})
  /\ IF on = "client" THEN ClientInit ELSE ClientIdle(Deployment({"c1"}, 2, 1))
  /\ IF on = "reporting" THEN ReportingInit ELSE ReportingIdle(CHOOSE p \in Plots : TRUE)
  /\ IF on = "sweep" THEN SweepInit ELSE SweepIdle("app", "none")

\* The step is this component's and leaves the others alone.
Only(name) == on = name /\ on' = on /\ otherVars(name)

Next ==
  \/ Only("takeover") /\ TakeOverNext
  \/ Only("answers") /\ AnswersNext
  \/ Only("conversation") /\ ConversationNext
  \/ Only("evidence") /\ EvidenceNext
  \/ Only("guard") /\ GuardNext
  \/ Only("client") /\ ClientNext
  \/ Only("reporting") /\ ReportingNext
  \/ Only("sweep") /\ SweepNext

vars == <<on, toVars, answersVars, conversationVars, evidenceVars, guardVars, clientVars,
          repVars, sweepVars>>

Spec == Init /\ [][Next]_vars

\* The clients alone.
ClientsOnly == Init /\ on = "client" /\ [][Only("client") /\ ClientNext]_vars
=============================================================================
