------------------------------- MODULE Evidence -------------------------------
(***************************************************************************)
(* acceptance.py: a pull request's required checks proved from its GitHub  *)
(* Actions jobs.  The proof is made of separate reads - the pull request,  *)
(* the runs of its head, the jobs of each run, the pull request again -    *)
(* while people push, close, merge and re-run, and new runs start.         *)
(*                                                                         *)
(* A run is "own" (a trusted event of this repository with a workflow of   *)
(* the base branch), "added" (trusted, but its workflow is not on the base *)
(* branch) or "foreign" (not trusted).  Requirements that are not Actions  *)
(* jobs and pull requests of forks end before any of this and are left out.*)
(***************************************************************************)
EXTENDS Naturals

CONSTANTS
    Heads,          \* commits the pull request may have as its head
    Runs,           \* Actions runs
    Checks,         \* the required checks, as 1..n in the order they are reported
    Origins,        \* what the runs are: a set of functions from Runs
    Begun,          \* [Runs -> the attempts a run may be in when the proof begins, of 0..2]
    MaxChanges      \* bound: changes on GitHub during one proof

ASSUME EvidenceAssumption ==
    /\ Heads # {} /\ Origins \subseteq [Runs -> {"own", "added", "foreign"}]
    /\ Checks \subseteq Nat /\ Begun \in [Runs -> SUBSET (0..2)] /\ MaxChanges \in Nat

VARIABLES
    origin,     \* [Runs -> {"own", "added", "foreign"}]
    pr,         \* the pull request: its state and head
    runs,       \* GitHub's runs: head, attempt (0: not started), the job of each check
                \* in that attempt and in the one before
    proof,      \* the proof in progress
    during      \* what has held on GitHub since the proof began

evidenceVars == <<origin, pr, runs, proof, during>>

(* "failure" stands for every conclusion but success.                      *)
JobStates == {"absent", "running", "success", "failure"}
Absent == [c \in Checks |-> "absent"]
Ready(jobs) == \A c \in Checks : jobs[c] # "running"

NoProof == [pc |-> "idle", head |-> CHOOSE h \in Heads : TRUE, open |-> FALSE, changes |-> 0,
            listed |-> [r \in Runs |-> 0], over |-> {}, read |-> {},
            found |-> [r \in Runs |-> Absent], verdict |-> "none"]
NothingMeanwhile == [failing |-> {}, failed |-> {}, passed |-> {}, lasting |-> {},
                     current |-> FALSE, closed |-> FALSE, open |-> FALSE]

EvidenceIdle(o) ==
    /\ origin = o
    /\ pr = [state |-> "open", head |-> NoProof.head]
    /\ runs = [r \in Runs |-> [head |-> NoProof.head, attempt |-> 0, over |-> TRUE,
                               jobs |-> Absent, earlier |-> Absent]]
    /\ proof = NoProof
    /\ during = NothingMeanwhile

(* A run has not started, is in its first attempt, or was re-run after a   *)
(* failure.                                                                *)
Failed(jobs) == [c \in Checks |-> IF jobs[c] = "absent" THEN "absent" ELSE "failure"]
Plausible(run) ==
    /\ run.over => Ready(run.jobs)
    /\ run.attempt = 0 => run.over /\ run.jobs = Absent
    /\ run.earlier = IF run.attempt = 2 THEN Failed(run.jobs) ELSE Absent

EvidenceInit ==
    /\ origin \in Origins
    /\ pr \in [state : {"open", "merged"}, head : {NoProof.head}]
    /\ runs \in [Runs -> {run \in [head : {NoProof.head}, attempt : {0, 1, 2}, over : BOOLEAN,
                                   jobs : [Checks -> JobStates],
                                   earlier : [Checks -> {"absent", "failure"}]] : Plausible(run)}]
    /\ \A r \in Runs : runs[r].attempt \in Begun[r]
    /\ proof = NoProof
    /\ during = NothingMeanwhile

-----------------------------------------------------------------------------
(* GitHub: external.                                                       *)

OnHead(r) == runs[r].head = proof.head
Failing(all, h) == {rc \in Runs \X Checks : all[rc[1]].head = h /\ all[rc[1]].jobs[rc[2]] = "failure"}
Passing(all, h) == {rc \in Runs \X Checks : all[rc[1]].head = h /\ all[rc[1]].jobs[rc[2]] = "success"}
Stands(p, h) == p.head = h /\ p.state # "closed"

(* One change, remembered in what has held since the proof began: all      *)
(* along (failing, lasting, current, closed, open) or once (failed, passed).*)
Changes(p, all) ==
    /\ proof.pc \notin {"idle", "told"} /\ proof.changes < MaxChanges
    /\ pr' = p /\ runs' = all
    /\ proof' = [proof EXCEPT !.changes = @ + 1]
    /\ during' = [failing |-> during.failing \cap Failing(all, proof.head),
                  failed |-> during.failed \cup Failing(all, proof.head),
                  passed |-> during.passed \cup Passing(all, proof.head),
                  lasting |-> during.lasting \cap Passing(all, proof.head),
                  current |-> during.current /\ Stands(p, proof.head),
                  closed |-> during.closed /\ p.state = "closed",
                  open |-> during.open /\ p.state # "closed"]
    /\ UNCHANGED origin

Push == \E h \in Heads \ {pr.head} :
          pr.state = "open" /\ Changes([pr EXCEPT !.head = h], runs)
Merge == pr.state = "open" /\ Changes([pr EXCEPT !.state = "merged"], runs)
Close == pr.state = "open" /\ Changes([pr EXCEPT !.state = "closed"], runs)
Reopen == pr.state = "closed" /\ Changes([pr EXCEPT !.state = "open"], runs)
JobEnds(r) ==
    \E c \in Checks, s \in {"success", "failure"} :
        runs[r].jobs[c] = "running" /\ Changes(pr, [runs EXCEPT ![r].jobs[c] = s])
RunEnds(r) == ~runs[r].over /\ Ready(runs[r].jobs) /\ Changes(pr, [runs EXCEPT ![r].over = TRUE])
(* Jobs that ran run again; GitHub still shows those of the attempt before.*)
Rerun(r) ==
    /\ runs[r].attempt # 0 /\ runs[r].over
    /\ Changes(pr, [runs EXCEPT ![r].attempt = @ + 1, ![r].over = FALSE, ![r].earlier = runs[r].jobs,
                                  ![r].jobs = [c \in Checks |-> IF @[c] = "absent" THEN "absent" ELSE "running"]])
Starts(r) ==
    /\ runs[r].attempt = 0
    /\ \E some \in SUBSET Checks :
          Changes(pr, [runs EXCEPT ![r].attempt = 1, ![r].over = FALSE, ![r].head = pr.head,
                         ![r].jobs = [c \in Checks |-> IF c \in some THEN "running" ELSE "absent"]])

GitHub ==
    \/ Push \/ Merge \/ Close \/ Reopen
    \/ \E r \in Runs : JobEnds(r) \/ RunEnds(r) \/ Rerun(r) \/ Starts(r)

-----------------------------------------------------------------------------
(* The proof.                                                              *)

Told(verdict) == [proof EXCEPT !.pc = "told", !.verdict = verdict]

(* Core's verifier has read the head and was refused the check results, or *)
(* did not get an answer at all ("core").                                  *)
Prove ==
    /\ proof.pc = "idle"
    /\ \E pc \in {"pull", "core"} : proof' = [proof EXCEPT !.pc = pc, !.head = pr.head]
    /\ during' = [failing |-> Failing(runs, pr.head), failed |-> Failing(runs, pr.head),
                  passed |-> Passing(runs, pr.head), lasting |-> Passing(runs, pr.head),
                  current |-> Stands(pr, pr.head), closed |-> pr.state = "closed",
                  open |-> pr.state # "closed"]
    /\ UNCHANGED <<origin, pr, runs>>

Refusal ==
    IF pr.state = "closed" THEN "refused"
    ELSE IF pr.head # proof.head THEN "waiting" ELSE "none"

(* Core's unanswered question stays one unless the pull request is closed. *)
ReadClosed ==
    /\ proof.pc = "core"
    /\ proof' = Told(IF pr.state = "closed" THEN "refused" ELSE "waiting")
    /\ UNCHANGED <<origin, pr, runs, during>>

ReadPull ==
    /\ proof.pc = "pull"
    /\ proof' = IF Refusal # "none" THEN Told(Refusal)
                ELSE [proof EXCEPT !.pc = "runs", !.open = pr.state = "open"]
    /\ UNCHANGED <<origin, pr, runs, during>>

ListRuns ==
    /\ proof.pc = "runs"
    /\ proof' = [proof EXCEPT !.pc = "jobs",
                    !.listed = [r \in Runs |-> IF OnHead(r) THEN runs[r].attempt ELSE 0],
                    !.over = {r \in Runs : OnHead(r) /\ runs[r].over}]
    /\ UNCHANGED <<origin, pr, runs, during>>

(* Jobs of another attempt than the listed one do not count: GitHub shows  *)
(* the newest attempt's, and may show those of the attempt before.         *)
ReadAnyAttempt(r, shown) ==
    [c \in Checks |-> IF shown /\ runs[r].earlier[c] = "failure" THEN "failure" ELSE runs[r].jobs[c]]
Read(r, shown) ==
    IF runs[r].attempt = proof.listed[r] THEN runs[r].jobs
    ELSE IF shown /\ runs[r].attempt = proof.listed[r] + 1 THEN runs[r].earlier ELSE Absent
Listed == {r \in Runs : proof.listed[r] # 0}

ReadJobs(r) ==
    /\ proof.pc = "jobs" /\ r \in Listed \ proof.read
    /\ \E shown \in BOOLEAN :
          proof' = [proof EXCEPT !.read = @ \cup {r}, !.found[r] = Read(r, shown)]
    /\ UNCHANGED <<origin, pr, runs, during>>

Jobs(c) == {r \in Listed : proof.found[r][c] # "absent"}
Counted(c) == {r \in Jobs(c) : origin[r] = "own"}
RefusingTrusted(c) == {r \in Jobs(c) \ Counted(c) : origin[r] # "foreign" /\ proof.found[r][c] # "success"}
Refusing(c) == {r \in Jobs(c) \ Counted(c) : proof.found[r][c] # "success"}

Trusted == {r \in Listed : origin[r] # "foreign"}
Running == Trusted = {} \/ Trusted \ proof.over # {}

(* The check ran, successfully, but only where it proves nothing.          *)
UntrustedOnly(c) ==
    /\ Jobs(c) # {} /\ Counted(c) \cup Refusing(c) = {}
    /\ Jobs(c) \cap Trusted # {} \/ ~(proof.open /\ Running)

(* The outcomes of a check: one per counted or refusing job, else whether  *)
(* it may still come.                                                      *)
Outcomes(c) ==
    IF Counted(c) \cup Refusing(c) # {}
    THEN {proof.found[r][c] : r \in Counted(c) \cup Refusing(c)}
    ELSE {IF proof.open /\ Running /\ ~UntrustedOnly(c) THEN "running" ELSE "missing"}

(* GitHub could not be asked, as opposed to answering no: the first check  *)
(* that did not pass has not finished, and none has failed.                *)
Undecided ==
    LET short == {c \in Checks : Outcomes(c) # {"success"}}
    IN  /\ \A c \in short : "failure" \notin Outcomes(c)
        /\ "running" \in Outcomes(CHOOSE c \in short : \A k \in short : c <= k)

Verdict ==
    IF \A c \in Checks : Outcomes(c) = {"success"} THEN "accepted"
    ELSE IF Undecided THEN "waiting" ELSE "refused"

(* The pull request is read once more: the head's successes never transfer *)
(* to another.  A failed check is a definite answer even then.             *)
UntrustedAlone ==
    /\ \E c \in Checks : UntrustedOnly(c)
    /\ \A c \in Checks : Outcomes(c) \subseteq {"success", "missing"}
ConcludedOnce == IF UntrustedAlone THEN "refused" ELSE Verdict
Concluded ==
    CASE UntrustedAlone -> "refused"
      [] ~UntrustedAlone /\ Refusal = "none" -> Verdict
      [] ~UntrustedAlone /\ Refusal # "none" ->
            IF \E c \in Checks : "failure" \in Outcomes(c) THEN "refused" ELSE Refusal
Conclude ==
    /\ proof.pc = "jobs" /\ proof.read = Listed
    /\ proof' = Told(Concluded)
    /\ UNCHANGED <<origin, pr, runs, during>>

(* A read is refused, not answered or incomplete.                          *)
ReadFails ==
    /\ proof.pc \in {"core", "pull", "runs", "jobs"}
    /\ proof' = Told("unread")
    /\ UNCHANGED <<origin, pr, runs, during>>

EvidenceNext ==
    \/ GitHub \/ Prove \/ ReadClosed \/ ReadPull \/ ListRuns \/ Conclude \/ ReadFails
    \/ \E r \in Runs : ReadJobs(r)

EvidenceSpec == EvidenceInit /\ [][EvidenceNext]_evidenceVars
-----------------------------------------------------------------------------
EvidenceTypeOK ==
    /\ pr \in [state : {"open", "merged", "closed"}, head : Heads]
    /\ proof.verdict \in {"none", "accepted", "refused", "waiting", "unread"}
    /\ proof.read \subseteq Runs /\ proof.over \subseteq Runs
    /\ \A r \in Runs : proof.found[r] \in [Checks -> JobStates] /\ runs[r].jobs \in [Checks -> JobStates]

(* Nothing is accepted that is not proved (acceptance.py:18): when the     *)
(* checks are accepted, the pull request still has the recorded head, each *)
(* check has passed in a run of the repository's own workflows on that     *)
(* head, no required job of that head has been failed all along, and the   *)
(* pull request was not closed all along.                                  *)
AcceptedIsProven ==
    proof.verdict = "accepted" =>
        /\ Stands(pr, proof.head) /\ ~during.closed
        /\ \A c \in Checks : \E r \in Runs : origin[r] = "own" /\ <<r, c>> \in during.passed
        /\ during.failing = {}

(* Only GitHub refusing or not answering is worth asking again             *)
(* (acceptance.py:23): a required job that was read and has failed all     *)
(* along on the head that the pull request has had all along is never      *)
(* waited for, nor is a pull request closed all along.                     *)
FailureIsSaid ==
    proof.verdict = "waiting" =>
        /\ ~during.closed
        /\ during.current => \A rc \in during.failing : rc[1] \notin proof.read

(* GitHub answered no (acceptance.py:23), and not about an earlier attempt *)
(* or another head: what is refused was closed at some time, or a required *)
(* job of the head had failed at some time, or a check has not been passed *)
(* all along in a run of the repository's own workflows.                   *)
RefusalIsDeserved ==
    proof.verdict = "refused" =>
        \/ ~during.open \/ during.failed # {}
        \/ \E c \in Checks : \A r \in Runs : origin[r] = "own" => <<r, c>> \notin during.lasting

(* A Done rests on evidence, and a lack of it is told from a lack of answers: *)
(* acceptance.py's verdict, whatever GitHub's runs do while it reads them.   *)
EvidenceSound == EvidenceTypeOK /\ AcceptedIsProven /\ FailureIsSaid /\ RefusalIsDeserved
=============================================================================
