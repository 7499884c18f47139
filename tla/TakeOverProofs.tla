--------------------------- MODULE TakeOverProofs ---------------------------
(***************************************************************************)
(* One runner per issue, for any number of calls and of native events, while *)
(* a resume does not outlive its requester's wait.                           *)
(***************************************************************************)
EXTENDS TakeOver, TLAPS

-----------------------------------------------------------------------------
(* The inductive invariant.                                                  *)

OwnerTasks == [status : {"ready", "running", "blocked", "done"},
               stop : {"none", "handover", "person", "elsewhere"}, stopAt : Nat,
               events : Nat, worker : BOOLEAN,
               attempt : {"none", "started", "unknown", "settled"}]
OwnerCalls == [kind : {"none", "hand_off", "resume"},
               phase : {"none", "start", "check", "stop", "verify", "prove", "replied", "dead"},
               expect : Nat, stopAt : Nat, ours : BOOLEAN, stopped : BOOLEAN, tried : BOOLEAN,
               reply : {"none", "handed_off", "unchanged", "paused", "resumed"}]

LocalTasks == [status : {"none", "blocked", "ready", "running", "done"},
               create : {"none", "attempting", "applied"},
               activate : {"none", "attempting", "applied", "reconcile"},
               by : {"none", "stop", "closed", "person", "unverified"},
               receipt : BOOLEAN, accepted : BOOLEAN,
               routing : {"none", "queued", "sent"}]
Issues == [delegate : {"owner", "self", "other", "none"}, closed : BOOLEAN,
           moved : BOOLEAN, stopped : BOOLEAN]
Chats == [n : 0..MaxCalls, kind : {"none", "take_over", "resume_owner"},
          phase : {"idle", "ask", "create", "bind", "admit", "activate", "settle", "route", "failed"},
          reply : {"none", "taken", "refused", "paused", "resumed", "uncertain"}]

\* The type invariant, with the calls as a function on their numbers.
Typed ==
  /\ ownerTask \in OwnerTasks
  /\ ownerCall \in [CallNumbers -> OwnerCalls]
  /\ ownerLock \in 0..MaxCalls
  /\ localTask \in LocalTasks
  /\ issue \in Issues
  /\ chat \in Chats

\* A call not made yet is untouched; only a call that replied has a reply; a
\* resume is served only while its requester waits for it.
CallInv ==
  /\ \A c \in CallNumbers : c > chat.n => ownerCall[c] = NoCallYet
  /\ \A c \in CallNumbers : ownerCall[c].reply # "none" => ownerCall[c].phase = "replied"
  /\ \A c \in CallNumbers :
       ownerCall[c].kind = "resume" /\ ownerCall[c].phase \in {"start", "check", "stop"}
         => chat.phase = "ask" /\ chat.n = c
  /\ chat.phase # "idle" => chat.n \in CallNumbers

\* What a call has read of the owner's history is not ahead of it, and while it
\* has not moved the task still runs.
Reads(c) ==
  /\ ownerCall[c].stopped => ownerCall[c].stopAt <= ownerTask.events
  /\ ownerCall[c].kind = "hand_off" /\ ownerCall[c].phase = "stop"
       => /\ ownerCall[c].expect <= ownerTask.events
          /\ ownerCall[c].expect = ownerTask.events => ownerTask.status \in {"ready", "running"}
HistoryInv ==
  /\ ownerTask.stopAt <= ownerTask.events
  /\ \A c \in CallNumbers : Reads(c)

\* Call c reported the work as handed off, and the owner's work has been down
\* since the stop it proved.
Down(c) ==
  /\ ownerCall[c].reply = "handed_off"
  /\ ownerTask.status = "blocked" /\ ~ownerTask.worker
  /\ ownerTask.stopAt = ownerCall[c].stopAt

Starting == \/ chat.phase \in {"create", "bind", "admit", "activate"}
            \/ chat.phase = "ask" /\ ownerCall[chat.n].reply = "handed_off"
NeverResumed == \A c \in CallNumbers : ownerCall[c].kind # "resume"

\* The owner is down while this agent starts the work or may run it; once the
\* requester has asked it to go on, only a new proof lets the work run here.
HandOverInv ==
  /\ Starting => Down(chat.n)
  /\ localTask.status \in {"ready", "running"} => \E c \in CallNumbers : Down(c)
  /\ localTask.receipt /\ NeverResumed => \E c \in CallNumbers : Down(c)
  /\ localTask.accepted => localTask.receipt
  /\ localTask.routing = "queued" => localTask.accepted
  /\ chat.phase = "ask" /\ chat.kind = "resume_owner"
       => localTask.status \notin {"ready", "running"}
  /\ chat.phase = "ask" => \/ chat.kind = "take_over" /\ ownerCall[chat.n].kind = "hand_off"
                           \/ chat.kind = "resume_owner" /\ ownerCall[chat.n].kind = "resume"

\* A Stop that a call made is over for good once the task has left it.
Left(c) == ~(LiveStop /\ ownerTask.stopAt = ownerCall[c].stopAt)
RefusalInv ==
  /\ \A c \in CallNumbers :
       /\ ownerCall[c].stopped
            => /\ ownerCall[c].phase \in {"verify", "prove", "replied", "dead"}
               /\ ownerCall[c].phase = "prove" => ownerCall[c].ours
               /\ ownerCall[c].reply = "unchanged" => Left(c)
  /\ chat.phase = "idle" /\ chat.reply = "refused"
       => /\ chat.n \in CallNumbers
          /\ ownerCall[chat.n].phase = "none" \/ ownerCall[chat.n].reply = "unchanged"

TakeOverInv == Typed /\ CallInv /\ HistoryInv /\ HandOverInv /\ RefusalInv

\* A resume dies with its requester's wait.
ResumeWaits == "resume" \notin Survives

-----------------------------------------------------------------------------
(* Types.                                                                    *)

LEMMA TypedIsTypeOK ==
  ASSUME Typed
  PROVE  TakeOverTypeOK
BY DEF Typed, TakeOverTypeOK, OwnerTasks, OwnerCalls, LocalTasks, Issues, Chats

\* One more event; a stop at the next event; a resume.
LEMMA EventOf ==
  ASSUME NEW t \in OwnerTasks
  PROVE  /\ Event(t) \in OwnerTasks
         /\ Event(t).events = t.events + 1 /\ Event(t).stopAt = t.stopAt
         /\ Event(t).status = t.status /\ Event(t).stop = t.stop
         /\ Event(t).worker = t.worker /\ Event(t).attempt = t.attempt
BY DEF Event, OwnerTasks

LEMMA StoppedOf ==
  ASSUME NEW t \in OwnerTasks, NEW cause \in {"handover", "person", "elsewhere"}
  PROVE  /\ Stopped(t, cause) \in OwnerTasks
         /\ Stopped(t, cause).status = "blocked"
         /\ Stopped(t, cause).stopAt = t.events + 1
         /\ Stopped(t, cause).events = t.events + 1
<1> DEFINE e == Event(t)
<1>1. e \in OwnerTasks /\ e.events = t.events + 1
  BY EventOf
<1>2. t.events + 1 \in Nat
  BY DEF OwnerTasks
<1>3. Stopped(t, cause) = [e EXCEPT !.status = "blocked", !.stop = cause, !.stopAt = t.events + 1]
  BY DEF Stopped
<1> HIDE DEF e
<1> QED BY <1>1, <1>2, <1>3 DEF OwnerTasks

LEMMA ResumedOf ==
  ASSUME NEW t \in OwnerTasks
  PROVE  /\ Resumed(t) \in OwnerTasks
         /\ Resumed(t).status = "ready" /\ Resumed(t).stopAt = t.stopAt
         /\ Resumed(t).events = t.events + 1
<1> DEFINE e == Event(t)
<1>1. e \in OwnerTasks /\ e.events = t.events + 1 /\ e.stopAt = t.stopAt
  BY EventOf
<1>2. Resumed(t) = [e EXCEPT !.status = "ready", !.stop = "none"]
  BY DEF Resumed
<1> HIDE DEF e
<1> QED BY <1>1, <1>2 DEF OwnerTasks

\* What a step may do to the owner's task.
RunsOn == /\ ownerTask.status \in {"ready", "running"}
          /\ ownerTask'.status \in {"running", "done"}
          /\ ownerTask'.stopAt = ownerTask.stopAt
          /\ ownerTask'.events = ownerTask.events + 1
Stops == /\ ownerTask.status \in {"ready", "running"}
         /\ ownerTask'.status = "blocked"
         /\ ownerTask'.stopAt = ownerTask.events + 1
         /\ ownerTask'.events = ownerTask.events + 1
WindsDown == /\ ownerTask.status = "blocked"
             /\ ownerTask'.status = "blocked"
             /\ ownerTask'.stopAt = ownerTask.stopAt
             /\ ownerTask'.events \in {ownerTask.events, ownerTask.events + 1}
             /\ ~ownerTask.worker => ~ownerTask'.worker
Resumes == /\ ownerTask'.status = "ready"
           /\ ownerTask'.stopAt = ownerTask.stopAt
           /\ ownerTask'.events = ownerTask.events + 1

\* The owner's board does one of these.
LEMMA BoardMoves ==
  ASSUME Typed
  PROVE  /\ OwnerClaims \/ OwnerFinishes => ownerTask' \in OwnerTasks /\ RunsOn
         /\ WorkerExits \/ GatewayGivesUp => ownerTask' \in OwnerTasks /\ WindsDown
         /\ PersonStopsOwner \/ OtherAgentTakesOver => ownerTask' \in OwnerTasks /\ Stops
         /\ PersonResumesOwner => ownerTask' \in OwnerTasks /\ Resumes
<1>0. ownerTask \in OwnerTasks
  BY DEF Typed
<1> DEFINE e == Event(ownerTask)
<1>e. /\ e \in OwnerTasks
      /\ e.events = ownerTask.events + 1 /\ e.stopAt = ownerTask.stopAt
      /\ e.status = ownerTask.status /\ e.stop = ownerTask.stop
      /\ e.worker = ownerTask.worker /\ e.attempt = ownerTask.attempt
  BY <1>0, EventOf
<1> HIDE DEF e
<1>1. ASSUME OwnerClaims
      PROVE  ownerTask' \in OwnerTasks /\ RunsOn
  <2>1. /\ ownerTask.status = "ready"
        /\ ownerTask' = [e EXCEPT !.status = "running", !.worker = TRUE, !.attempt = "started"]
    BY <1>1 DEF OwnerClaims, OwnerBoard, e
  <2> QED BY <2>1, <1>e DEF RunsOn, OwnerTasks
<1>2. ASSUME OwnerFinishes
      PROVE  ownerTask' \in OwnerTasks /\ RunsOn
  <2>1. /\ ownerTask.status = "running"
        /\ ownerTask' = [e EXCEPT !.status = "done", !.worker = FALSE, !.attempt = "settled"]
    BY <1>2 DEF OwnerFinishes, OwnerBoard, e
  <2> QED BY <2>1, <1>e DEF RunsOn, OwnerTasks
<1>3. ASSUME WorkerExits
      PROVE  ownerTask' \in OwnerTasks /\ WindsDown
  <2>1. PICK late \in BOOLEAN :
          /\ ownerTask.status = "blocked"
          /\ ownerTask' = [(IF late THEN Event(ownerTask) ELSE ownerTask) EXCEPT
                             !.worker = FALSE, !.attempt = IF @ = "started" THEN "settled" ELSE @]
    BY <1>3 DEF WorkerExits, OwnerBoard
  <2> DEFINE t == IF late THEN e ELSE ownerTask
  <2>2. /\ t \in OwnerTasks
        /\ t.status = "blocked" /\ t.stop = ownerTask.stop /\ t.stopAt = ownerTask.stopAt
        /\ t.events \in {ownerTask.events, ownerTask.events + 1}
    BY <2>1, <1>e, <1>0
  <2>3. ownerTask' = [t EXCEPT !.worker = FALSE, !.attempt = IF @ = "started" THEN "settled" ELSE @]
    BY <2>1 DEF e
  <2> HIDE DEF t
  <2> QED BY <2>1, <2>2, <2>3 DEF WindsDown, OwnerTasks
<1>4. ASSUME GatewayGivesUp
      PROVE  ownerTask' \in OwnerTasks /\ WindsDown
  <2>1. ownerTask.status = "blocked" /\ ownerTask' = [ownerTask EXCEPT !.attempt = "unknown"]
    BY <1>4 DEF GatewayGivesUp, OwnerBoard
  <2> QED BY <2>1, <1>0 DEF WindsDown, OwnerTasks
<1>5. ASSUME NEW cause \in {"handover", "person", "elsewhere"},
             ownerTask.status \in {"ready", "running"}, OwnerBoard(Stopped(ownerTask, cause))
      PROVE  ownerTask' \in OwnerTasks /\ Stops
  BY <1>5, <1>0, StoppedOf DEF OwnerBoard, Stops
<1>6. PersonResumesOwner => ownerTask' \in OwnerTasks /\ Resumes
  BY <1>0, ResumedOf DEF PersonResumesOwner, OwnerBoard, Resumes
<1> QED BY <1>1, <1>2, <1>3, <1>4, <1>5, <1>6 DEF PersonStopsOwner, OtherAgentTakesOver

-----------------------------------------------------------------------------
(* The owner's processes.                                                    *)

\* Call c moves, and no other.
OnlyCall(c) ==
  /\ ownerCall' \in [CallNumbers -> OwnerCalls]
  /\ \A d \in CallNumbers : d # c => ownerCall'[d] = ownerCall[d]
  /\ ownerCall'[c].kind = ownerCall[c].kind
  /\ ownerLock' \in 0..MaxCalls

\* It replies; it goes on to a phase without having replied.
Replies(c, reply) ==
  /\ OnlyCall(c)
  /\ ownerCall'[c].phase = "replied" /\ ownerCall'[c].reply = reply
  /\ ownerCall'[c].stopped = ownerCall[c].stopped
  /\ ownerCall'[c].stopAt = ownerCall[c].stopAt
GoesOn(c, phase) ==
  /\ OnlyCall(c)
  /\ ownerCall'[c].phase = phase /\ ownerCall'[c].reply = ownerCall[c].reply

LEMMA CallGoes ==
  ASSUME Typed, NEW c \in CallNumbers, NEW y \in OwnerCalls, Goes(c, y)
  PROVE  /\ ownerCall' \in [CallNumbers -> OwnerCalls]
         /\ ownerCall'[c] = y
         /\ \A d \in CallNumbers : d # c => ownerCall'[d] = ownerCall[d]
BY DEF Typed, Goes

LEMMA CallAnswers ==
  ASSUME Typed, NEW c \in CallNumbers, NEW r \in {"handed_off", "unchanged", "paused", "resumed"},
         Answers(c, r)
  PROVE  Replies(c, r)
<1> DEFINE y == [ownerCall[c] EXCEPT !.phase = "replied", !.reply = r]
<1>0. ownerCall[c] \in OwnerCalls /\ ownerLock \in 0..MaxCalls /\ MaxCalls \in Nat
  BY TakeOverAssumption DEF Typed
<1>1. /\ y \in OwnerCalls /\ y.phase = "replied" /\ y.reply = r /\ y.kind = ownerCall[c].kind
      /\ y.stopped = ownerCall[c].stopped /\ y.stopAt = ownerCall[c].stopAt
  BY <1>0 DEF OwnerCalls
<1>2. Goes(c, y) /\ ownerLock' = IF ownerLock = c THEN Nobody ELSE ownerLock
  BY DEF Answers
<1>3. ownerLock' \in 0..MaxCalls
  BY <1>0, <1>2 DEF Nobody
<1> HIDE DEF y
<1> QED BY <1>1, <1>2, <1>3, CallGoes DEF Replies, OnlyCall

\* What each step of a call does to it and to the task.
Stays == UNCHANGED ownerTask

LEMMA LocksDoes ==
  ASSUME Typed, NEW c \in CallNumbers, OwnerLocks(c)
  PROVE  /\ Stays /\ ownerCall[c].phase = "start"
         /\ \/ GoesOn(c, "check") /\ ownerCall'[c].stopped = ownerCall[c].stopped
               /\ ownerCall'[c].stopAt = ownerCall[c].stopAt
            \/ Replies(c, "unchanged")
<1>0. ownerCall[c] \in OwnerCalls /\ MaxCalls \in Nat
  BY TakeOverAssumption DEF Typed
<1>1. CASE Answers(c, "unchanged")
  BY <1>1, CallAnswers DEF OwnerLocks, Stays
<1>2. CASE ownerLock' = c /\ Goes(c, [ownerCall[c] EXCEPT !.phase = "check"])
  <2> DEFINE y == [ownerCall[c] EXCEPT !.phase = "check"]
  <2>1. /\ y \in OwnerCalls /\ y.phase = "check" /\ y.reply = ownerCall[c].reply
        /\ y.kind = ownerCall[c].kind
        /\ y.stopped = ownerCall[c].stopped /\ y.stopAt = ownerCall[c].stopAt
    BY <1>0 DEF OwnerCalls
  <2>2. ownerLock' \in 0..MaxCalls
    BY <1>0, <1>2 DEF CallNumbers
  <2>3. Goes(c, y)
    BY <1>2
  <2> HIDE DEF y
  <2> QED BY <2>1, <2>2, <2>3, CallGoes DEF OwnerLocks, Stays, GoesOn, OnlyCall
<1> QED BY <1>1, <1>2 DEF OwnerLocks

LEMMA HandOffChecksDoes ==
  ASSUME Typed, NEW c \in CallNumbers, HandOffChecks(c)
  PROVE  /\ Stays /\ ownerCall[c].kind = "hand_off" /\ ownerCall[c].phase = "check"
         /\ \/ GoesOn(c, "prove") /\ ownerCall'[c].stopped = ownerCall[c].stopped
            \/ Replies(c, "unchanged")
            \/ /\ GoesOn(c, "stop") /\ ownerCall'[c].stopped = ownerCall[c].stopped
               /\ ownerCall'[c].expect = ownerTask.events
               /\ ownerTask.status \in {"ready", "running"}
<1>0. /\ ownerCall[c] \in OwnerCalls /\ ownerTask.stopAt \in Nat /\ ownerTask.events \in Nat
      /\ ownerLock \in 0..MaxCalls
  BY DEF Typed, OwnerTasks
<1>1. CASE Answers(c, "unchanged")
  BY <1>1, CallAnswers DEF HandOffChecks, Stays, Serving
<1>2. CASE /\ ownerTask.status \in {"ready", "running"} /\ UNCHANGED ownerLock
           /\ Goes(c, [ownerCall[c] EXCEPT !.phase = "stop", !.expect = ownerTask.events])
  <2> DEFINE y == [ownerCall[c] EXCEPT !.phase = "stop", !.expect = ownerTask.events]
  <2>1. /\ y \in OwnerCalls /\ y.phase = "stop" /\ y.reply = ownerCall[c].reply
        /\ y.kind = ownerCall[c].kind
        /\ y.stopped = ownerCall[c].stopped /\ y.expect = ownerTask.events
    BY <1>0 DEF OwnerCalls
  <2>3. Goes(c, y)
    BY <1>2
  <2> HIDE DEF y
  <2> QED BY <1>0, <1>2, <2>1, <2>3, CallGoes DEF HandOffChecks, Stays, GoesOn, OnlyCall, Serving
<1>3. ASSUME NEW y \in OwnerCalls, Goes(c, y), UNCHANGED ownerLock,
             y.phase = "prove", y.reply = ownerCall[c].reply, y.kind = ownerCall[c].kind,
             y.stopped = ownerCall[c].stopped
      PROVE  GoesOn(c, "prove") /\ ownerCall'[c].stopped = ownerCall[c].stopped
  BY <1>0, <1>3, CallGoes DEF GoesOn, OnlyCall
<1>4. CASE /\ UNCHANGED ownerLock
           /\ Goes(c, [ownerCall[c] EXCEPT !.phase = "prove", !.stopAt = ownerTask.stopAt, !.ours = TRUE])
  <2> DEFINE y == [ownerCall[c] EXCEPT !.phase = "prove", !.stopAt = ownerTask.stopAt, !.ours = TRUE]
  <2>1. /\ y \in OwnerCalls /\ y.phase = "prove" /\ y.reply = ownerCall[c].reply
        /\ y.kind = ownerCall[c].kind /\ y.stopped = ownerCall[c].stopped
    BY <1>0 DEF OwnerCalls
  <2>2. Goes(c, y)
    BY <1>4
  <2> HIDE DEF y
  <2> QED BY <1>3, <1>4, <2>1, <2>2 DEF HandOffChecks, Stays, Serving
<1>5. CASE /\ UNCHANGED ownerLock
           /\ Goes(c, [ownerCall[c] EXCEPT !.phase = "prove", !.stopAt = ownerTask.stopAt])
  <2> DEFINE y == [ownerCall[c] EXCEPT !.phase = "prove", !.stopAt = ownerTask.stopAt]
  <2>1. /\ y \in OwnerCalls /\ y.phase = "prove" /\ y.reply = ownerCall[c].reply
        /\ y.kind = ownerCall[c].kind /\ y.stopped = ownerCall[c].stopped
    BY <1>0 DEF OwnerCalls
  <2>2. Goes(c, y)
    BY <1>5
  <2> HIDE DEF y
  <2> QED BY <1>3, <1>5, <2>1, <2>2 DEF HandOffChecks, Stays, Serving
<1> QED BY <1>1, <1>2, <1>4, <1>5 DEF HandOffChecks

LEMMA HandOffStopsDoes ==
  ASSUME Typed, NEW c \in CallNumbers, HandOffStops(c)
  PROVE  /\ ownerCall[c].kind = "hand_off" /\ ownerCall[c].phase = "stop"
         /\ GoesOn(c, "verify") /\ ownerTask' \in OwnerTasks
         /\ \/ /\ ownerTask.events = ownerCall[c].expect
               /\ ownerTask' = Stopped(ownerTask, "handover")
               /\ ownerCall'[c].stopAt = ownerTask.events + 1
            \/ Stays /\ ~ownerCall'[c].stopped
<1>0. /\ ownerCall[c] \in OwnerCalls /\ ownerTask \in OwnerTasks /\ ownerTask.events + 1 \in Nat
      /\ ownerLock \in 0..MaxCalls
  BY DEF Typed, OwnerTasks
<1> DEFINE lands == ownerTask.events = ownerCall[c].expect
           at == IF lands THEN ownerTask.events + 1 ELSE 0
           y == [ownerCall[c] EXCEPT !.phase = "verify", !.stopped = lands, !.stopAt = at]
<1>1. at \in Nat /\ lands \in BOOLEAN
  BY <1>0
<1>2. Goes(c, y) /\ ownerTask' = IF lands THEN Stopped(ownerTask, "handover") ELSE ownerTask
  BY DEF HandOffStops
<1>3. at = IF lands THEN ownerTask.events + 1 ELSE 0
  OBVIOUS
<1> HIDE DEF at, lands
<1>4. /\ y \in OwnerCalls /\ y.phase = "verify" /\ y.reply = ownerCall[c].reply
      /\ y.kind = ownerCall[c].kind /\ y.stopped = lands /\ y.stopAt = at
  BY <1>0, <1>1 DEF OwnerCalls
<1> HIDE DEF y
<1>5. GoesOn(c, "verify") /\ ownerCall'[c] = y
  BY <1>0, <1>2, <1>4, CallGoes DEF HandOffStops, GoesOn, OnlyCall
<1>6. Serving(c, "hand_off", "stop")
  BY DEF HandOffStops
<1>7. CASE lands
  <2>1. ownerTask' = Stopped(ownerTask, "handover") /\ ownerTask' \in OwnerTasks
    BY <1>0, <1>2, <1>7, StoppedOf
  <2> QED BY <2>1, <1>3, <1>4, <1>5, <1>6, <1>7 DEF lands, Serving
<1>8. CASE ~lands
  BY <1>0, <1>2, <1>4, <1>5, <1>6, <1>8 DEF Stays, Serving
<1> QED BY <1>7, <1>8

LEMMA HandOffVerifiesDoes ==
  ASSUME Typed, NEW c \in CallNumbers, HandOffVerifies(c)
  PROVE  /\ Stays /\ ownerCall[c].kind = "hand_off" /\ ownerCall[c].phase = "verify"
         /\ \/ /\ GoesOn(c, "prove") /\ ownerCall'[c].ours
               /\ ownerCall'[c].stopped = ownerCall[c].stopped
               /\ ownerCall'[c].stopAt = ownerCall[c].stopAt
            \/ /\ Replies(c, "unchanged")
               /\ ~(LiveStop /\ ownerCall[c].stopped /\ ownerTask.stopAt = ownerCall[c].stopAt)
            \/ Replies(c, "paused")
<1>0. ownerCall[c] \in OwnerCalls /\ ownerLock \in 0..MaxCalls
  BY DEF Typed
<1>1. CASE UNCHANGED ownerLock /\ Goes(c, [ownerCall[c] EXCEPT !.phase = "prove", !.ours = TRUE])
  <2> DEFINE y == [ownerCall[c] EXCEPT !.phase = "prove", !.ours = TRUE]
  <2>1. /\ y \in OwnerCalls /\ y.phase = "prove" /\ y.reply = ownerCall[c].reply
        /\ y.kind = ownerCall[c].kind /\ y.stopped = ownerCall[c].stopped
        /\ y.stopAt = ownerCall[c].stopAt /\ y.ours
    BY <1>0 DEF OwnerCalls
  <2>2. Goes(c, y)
    BY <1>1
  <2> HIDE DEF y
  <2> QED BY <1>0, <1>1, <2>1, <2>2, CallGoes DEF HandOffVerifies, Stays, Serving, GoesOn, OnlyCall
<1>2. CASE /\ ~(LiveStop /\ ownerCall[c].stopped /\ ownerTask.stopAt = ownerCall[c].stopAt)
           /\ Answers(c, "unchanged")
  BY <1>2, CallAnswers DEF HandOffVerifies, Stays, Serving
<1>3. CASE Answers(c, "paused")
  BY <1>3, CallAnswers DEF HandOffVerifies, Stays, Serving
<1> QED BY <1>1, <1>2, <1>3 DEF HandOffVerifies

LEMMA ResolveUnknownDoes ==
  ASSUME Typed, NEW c \in CallNumbers, ResolveUnknown(c)
  PROVE  /\ ownerCall[c].kind = "hand_off" /\ ownerCall[c].phase = "prove"
         /\ ownerTask' \in OwnerTasks /\ WindsDown /\ ownerTask'.events = ownerTask.events
         /\ GoesOn(c, "prove") /\ ownerCall'[c].ours
         /\ ownerCall'[c].stopped = ownerCall[c].stopped
         /\ ownerCall'[c].stopAt = ownerCall[c].stopAt
<1>0. /\ ownerCall[c] \in OwnerCalls /\ ownerLock \in 0..MaxCalls /\ ownerTask \in OwnerTasks
      /\ ownerCall[c].ours
  BY DEF Typed, ResolveUnknown
<1>1. ownerTask' \in OwnerTasks /\ WindsDown /\ ownerTask'.events = ownerTask.events
  <2>1. ownerTask.status = "blocked"
    BY DEF ResolveUnknown, SameStop, LiveStop
  <2>2. CASE ownerTask' = [ownerTask EXCEPT !.worker = FALSE, !.attempt = "settled"]
    BY <1>0, <2>1, <2>2 DEF WindsDown, OwnerTasks
  <2>3. CASE UNCHANGED ownerTask
    BY <1>0, <2>1, <2>3 DEF WindsDown, OwnerTasks
  <2> QED BY <2>2, <2>3 DEF ResolveUnknown
<1> DEFINE y == [ownerCall[c] EXCEPT !.tried = TRUE]
<1>2. Serving(c, "hand_off", "prove") /\ Goes(c, y) /\ UNCHANGED ownerLock
  BY DEF ResolveUnknown
<1>3. /\ y \in OwnerCalls /\ y.phase = ownerCall[c].phase /\ y.reply = ownerCall[c].reply
      /\ y.kind = ownerCall[c].kind /\ y.stopped = ownerCall[c].stopped
      /\ y.stopAt = ownerCall[c].stopAt /\ y.ours
  BY <1>0 DEF OwnerCalls
<1> HIDE DEF y
<1> QED BY <1>0, <1>1, <1>2, <1>3, CallGoes DEF Serving, GoesOn, OnlyCall

LEMMA HandOffProvesDoes ==
  ASSUME Typed, NEW c \in CallNumbers, HandOffProves(c)
  PROVE  /\ Stays /\ ownerCall[c].kind = "hand_off" /\ ownerCall[c].phase = "prove"
         /\ \/ Replies(c, "handed_off") /\ SameStop(c) /\ Quiescent
            \/ Replies(c, "paused")
            \/ Replies(c, "unchanged") /\ ~ownerCall[c].ours
<1>0. Stays /\ Serving(c, "hand_off", "prove")
  BY DEF HandOffProves, Stays
<1>1. CASE SameStop(c) /\ Quiescent /\ Answers(c, "handed_off")
  BY <1>0, <1>1, CallAnswers DEF Serving
<1>2. CASE Answers(c, "paused")
  BY <1>0, <1>2, CallAnswers DEF Serving
<1>3. CASE ~ownerCall[c].ours /\ Answers(c, "unchanged")
  BY <1>0, <1>3, CallAnswers DEF Serving
<1> QED BY <1>1, <1>2, <1>3 DEF HandOffProves

LEMMA ResumeChecksDoes ==
  ASSUME Typed, NEW c \in CallNumbers, ResumeChecks(c)
  PROVE  /\ Stays /\ ownerCall[c].kind = "resume" /\ ownerCall[c].phase = "check"
         /\ \/ GoesOn(c, "stop") /\ ownerCall'[c].stopped = ownerCall[c].stopped
            \/ Replies(c, "unchanged")
<1>0. /\ ownerCall[c] \in OwnerCalls /\ ownerTask.events \in Nat /\ ownerLock \in 0..MaxCalls
      /\ Stays /\ Serving(c, "resume", "check")
  BY DEF Typed, OwnerTasks, ResumeChecks, Stays
<1>1. CASE Answers(c, "unchanged")
  BY <1>0, <1>1, CallAnswers DEF Serving
<1>2. CASE /\ UNCHANGED ownerLock
           /\ Goes(c, [ownerCall[c] EXCEPT !.phase = "stop", !.expect = ownerTask.events])
  <2> DEFINE y == [ownerCall[c] EXCEPT !.phase = "stop", !.expect = ownerTask.events]
  <2>1. /\ y \in OwnerCalls /\ y.phase = "stop" /\ y.reply = ownerCall[c].reply
        /\ y.kind = ownerCall[c].kind /\ y.stopped = ownerCall[c].stopped
    BY <1>0 DEF OwnerCalls
  <2>2. Goes(c, y)
    BY <1>2
  <2> HIDE DEF y
  <2> QED BY <1>0, <1>2, <2>1, <2>2, CallGoes DEF Serving, GoesOn, OnlyCall
<1> QED BY <1>1, <1>2 DEF ResumeChecks

LEMMA ResumeUnblocksDoes ==
  ASSUME Typed, NEW c \in CallNumbers, ResumeUnblocks(c)
  PROVE  /\ ownerCall[c].kind = "resume" /\ ownerCall[c].phase = "stop"
         /\ \/ ownerTask' = Resumed(ownerTask) /\ Replies(c, "resumed")
               /\ ownerTask.events = ownerCall[c].expect
            \/ Stays /\ GoesOn(c, "check") /\ ownerCall'[c].stopped = ownerCall[c].stopped
            \/ Stays /\ Replies(c, "unchanged")
<1>0. /\ ownerCall[c] \in OwnerCalls /\ ownerLock \in 0..MaxCalls
      /\ Serving(c, "resume", "stop")
  BY DEF Typed, ResumeUnblocks
<1>1. CASE /\ ownerTask.events = ownerCall[c].expect /\ ownerTask' = Resumed(ownerTask)
           /\ Answers(c, "resumed")
  BY <1>0, <1>1, CallAnswers DEF Serving
<1>2. CASE Stays /\ UNCHANGED ownerLock /\ Goes(c, [ownerCall[c] EXCEPT !.phase = "check"])
  <2> DEFINE y == [ownerCall[c] EXCEPT !.phase = "check"]
  <2>1. /\ y \in OwnerCalls /\ y.phase = "check" /\ y.reply = ownerCall[c].reply
        /\ y.kind = ownerCall[c].kind /\ y.stopped = ownerCall[c].stopped
    BY <1>0 DEF OwnerCalls
  <2>2. Goes(c, y)
    BY <1>2
  <2> HIDE DEF y
  <2> QED BY <1>0, <1>2, <2>1, <2>2, CallGoes DEF Serving, GoesOn, OnlyCall
<1>3. CASE Stays /\ Answers(c, "unchanged")
  BY <1>0, <1>3, CallAnswers DEF Serving
<1> QED BY <1>1, <1>2, <1>3 DEF ResumeUnblocks, Stays

-----------------------------------------------------------------------------
(* What the steps keep.                                                      *)

\* Whatever happens to the owner's task, what an unmoved call knows of it stays
\* true; a pause that call has left is not its own again.
LEMMA TaskMoves ==
  ASSUME Typed, HistoryInv, ownerTask' \in OwnerTasks, ownerCall' \in [CallNumbers -> OwnerCalls],
         Stays \/ RunsOn \/ Stops \/ WindsDown \/ Resumes
  PROVE  /\ ownerTask'.stopAt <= ownerTask'.events
         /\ ownerTask.events <= ownerTask'.events
         /\ \A c \in CallNumbers : ownerCall'[c] = ownerCall[c] => Reads(c)'
         /\ \A c \in CallNumbers :
              ownerCall[c].stopped /\ Left(c) /\ ownerCall'[c].stopAt = ownerCall[c].stopAt => Left(c)'
<1>0. /\ ownerTask \in OwnerTasks
      /\ ownerTask.stopAt \in Nat /\ ownerTask.events \in Nat
      /\ ownerTask'.stopAt \in Nat /\ ownerTask'.events \in Nat
      /\ \A c \in CallNumbers : ownerCall[c].stopAt \in Nat /\ ownerCall[c].expect \in Nat
  BY DEF Typed, OwnerTasks, OwnerCalls
<1>1. ownerTask'.stopAt <= ownerTask'.events /\ ownerTask.events <= ownerTask'.events
  BY <1>0 DEF HistoryInv, Stays, RunsOn, Stops, WindsDown, Resumes
<1>2. ASSUME NEW c \in CallNumbers, ownerCall'[c] = ownerCall[c]
      PROVE  Reads(c)'
  <2>1. Reads(c)
    BY DEF HistoryInv
  <2>2. ownerTask'.events = ownerTask.events /\ ownerTask.status \in {"ready", "running"}
          => ownerTask'.status = ownerTask.status
    BY <1>0 DEF Stays, RunsOn, Stops, WindsDown, Resumes
  <2> QED BY <1>0, <1>1, <1>2, <2>1, <2>2 DEF Reads
<1>3. ASSUME NEW c \in CallNumbers, ownerCall[c].stopped, Left(c), ownerCall'[c].stopAt = ownerCall[c].stopAt
      PROVE  Left(c)'
  <2>1. ownerCall[c].stopAt <= ownerTask.events
    BY <1>3 DEF HistoryInv, Reads
  <2> QED BY <1>0, <1>3, <2>1 DEF Left, LiveStop, Stays, RunsOn, Stops, WindsDown, Resumes
<1> QED BY <1>1, <1>2, <1>3

\* A winding down task stays down, a running one was not.
LEMMA DownMoves ==
  ASSUME Typed, NEW c \in CallNumbers, ownerCall'[c] = ownerCall[c]
  PROVE  /\ Stays \/ WindsDown => (Down(c) => Down(c)')
         /\ RunsOn \/ Stops => ~Down(c)
BY DEF Down, Stays, WindsDown, RunsOn, Stops

\* The owner's board.
LEMMA BoardKeeps ==
  ASSUME TakeOverInv, OwnerClaims \/ OwnerFinishes \/ WorkerExits \/ GatewayGivesUp
                      \/ PersonStopsOwner \/ OtherAgentTakesOver \/ PersonResumesOwner
  PROVE  TakeOverInv'
<1> USE DEF TakeOverInv
<1>1. UNCHANGED <<ownerCall, ownerLock, localTask, issue, chat>>
  BY DEF OwnerClaims, OwnerFinishes, WorkerExits, GatewayGivesUp, PersonStopsOwner,
         OtherAgentTakesOver, PersonResumesOwner, OwnerBoard
<1>2. /\ ownerTask' \in OwnerTasks
      /\ RunsOn \/ WindsDown \/ Stops \/ (Resumes /\ PersonResumesOwner)
  <2>1. Typed
    OBVIOUS
  <2>2. CASE OwnerClaims \/ OwnerFinishes
    BY <2>1, <2>2, BoardMoves
  <2>3. CASE WorkerExits \/ GatewayGivesUp
    BY <2>1, <2>3, BoardMoves
  <2>4. CASE PersonStopsOwner \/ OtherAgentTakesOver
    BY <2>1, <2>4, BoardMoves
  <2>5. CASE PersonResumesOwner
    BY <2>1, <2>5, BoardMoves
  <2> QED BY <2>2, <2>3, <2>4, <2>5
<1>3. Typed'
  BY <1>1, <1>2 DEF Typed
<1>4. CallInv'
  BY <1>1 DEF CallInv
<1>5. HistoryInv' /\ \A c \in CallNumbers : ownerCall[c].stopped /\ Left(c) => Left(c)'
  BY <1>1, <1>2, <1>3, TaskMoves DEF HistoryInv, Typed
<1>6. \A c \in CallNumbers : Down(c) => Down(c)'
  <2>1. PersonResumesOwner => \A c \in CallNumbers : ~Down(c)
    BY DEF PersonResumesOwner, Down
  <2> QED BY <1>1, <1>2, <2>1, DownMoves
<1>7. HandOverInv'
  <2>1. Starting => chat.n \in CallNumbers
    BY DEF Starting, CallInv
  <2> QED BY <1>1, <1>6, <2>1 DEF HandOverInv, Starting, NeverResumed
<1>8. RefusalInv'
  BY <1>1, <1>5 DEF RefusalInv
<1> QED BY <1>3, <1>4, <1>5, <1>7, <1>8

\* A step of a call keeps what is known of the other calls, and its own parts of
\* the invariants are enough.
LEMMA CallKeeps ==
  ASSUME TakeOverInv, NEW c \in CallNumbers, OnlyCall(c), ownerTask' \in OwnerTasks,
         Stays \/ RunsOn \/ Stops \/ WindsDown \/ Resumes, UNCHANGED <<localTask, issue, chat>>,
         ownerCall[c].phase \in {"start", "check", "stop", "verify", "prove"},
         ownerCall'[c].reply # "none" => ownerCall'[c].phase = "replied",
         ownerCall[c].kind = "resume" /\ ownerCall'[c].phase \in {"start", "check", "stop"}
           => ownerCall[c].phase \in {"start", "check", "stop"},
         Reads(c)',
         ownerCall'[c].stopped =>
           /\ ownerCall'[c].phase \in {"verify", "prove", "replied", "dead"}
           /\ ownerCall'[c].phase = "prove" => ownerCall'[c].ours
           /\ ownerCall'[c].reply = "unchanged" => Left(c)'
  PROVE  Typed' /\ CallInv' /\ HistoryInv' /\ RefusalInv'
<1> USE DEF TakeOverInv
<1>1. Typed'
  BY DEF Typed, OnlyCall
<1>2. /\ ownerTask'.stopAt <= ownerTask'.events
      /\ \A d \in CallNumbers : d # c => Reads(d)'
      /\ \A d \in CallNumbers : d # c => (ownerCall[d].stopped /\ Left(d) => Left(d)')
  BY <1>1, TaskMoves DEF OnlyCall, Typed
<1>3. ownerCall[c].reply = "none" /\ c <= chat.n
  <2>1. chat.n \in Nat /\ c \in Nat
    BY DEF Typed, Chats, CallNumbers
  <2>2. ownerCall[c] # NoCallYet
    BY DEF NoCallYet
  <2> QED BY <2>1, <2>2 DEF CallInv
<1>4. CallInv'
  <2>1. chat.n \in Nat /\ c \in Nat
    BY DEF Typed, Chats, CallNumbers
  <2>2. \A d \in CallNumbers : d # c => ownerCall'[d] = ownerCall[d]
    BY DEF OnlyCall
  <2>3. \A d \in CallNumbers : d > chat'.n => ownerCall'[d] = NoCallYet
    BY <1>3, <2>1, <2>2 DEF CallInv, CallNumbers
  <2>4. \A d \in CallNumbers : ownerCall'[d].reply # "none" => ownerCall'[d].phase = "replied"
    BY <2>2 DEF CallInv
  <2>5. \A d \in CallNumbers :
          ownerCall'[d].kind = "resume" /\ ownerCall'[d].phase \in {"start", "check", "stop"}
            => chat.phase = "ask" /\ chat.n = d
    <3>1. ownerCall'[c].kind = ownerCall[c].kind
      BY DEF OnlyCall
    <3> QED BY <2>2, <3>1 DEF CallInv
  <2> QED BY <2>3, <2>4, <2>5 DEF CallInv
<1>5. HistoryInv'
  BY <1>2 DEF HistoryInv
<1>6. RefusalInv'
  <2>1. \A d \in CallNumbers : d # c => ownerCall'[d] = ownerCall[d]
    BY DEF OnlyCall
  <2>2. ASSUME chat.phase = "idle", chat.reply = "refused"
        PROVE  chat.n # c /\ chat.n \in CallNumbers
    <3>1. /\ chat.n \in CallNumbers
          /\ ownerCall[chat.n].phase = "none" \/ ownerCall[chat.n].reply = "unchanged"
      BY <2>2 DEF RefusalInv
    <3> QED BY <1>3, <3>1
  <2>3. \A d \in CallNumbers :
          ownerCall'[d].stopped
            => /\ ownerCall'[d].phase \in {"verify", "prove", "replied", "dead"}
               /\ ownerCall'[d].phase = "prove" => ownerCall'[d].ours
               /\ ownerCall'[d].reply = "unchanged" => Left(d)'
    BY <1>2, <2>1 DEF RefusalInv
  <2> QED BY <2>1, <2>2, <2>3 DEF RefusalInv
<1> QED BY <1>1, <1>4, <1>5, <1>6

\* While the task stays down, a call that goes on or replies keeps the owner down
\* for the work here; a hand-over is reported only of a task that is down.
LEMMA CallKeepsDown ==
  ASSUME TakeOverInv, NEW c \in CallNumbers, OnlyCall(c), Stays \/ WindsDown,
         UNCHANGED <<localTask, issue, chat>>, ownerCall[c].reply = "none",
         ownerCall'[c].reply = "handed_off" => Down(c)'
  PROVE  HandOverInv'
<1> USE DEF TakeOverInv
<1>1. \A d \in CallNumbers : Down(d) => Down(d)'
  BY DownMoves DEF OnlyCall, Down
<1>2. NeverResumed' = NeverResumed
  BY DEF NeverResumed, OnlyCall
<1>3. Starting' => chat.n \in CallNumbers
  BY DEF Starting, CallInv
<1>4. Starting' => Down(chat.n)'
  <2>1. CASE Starting
    BY <2>1, <1>1, <1>3 DEF HandOverInv, Starting, CallInv
  <2>2. CASE ~Starting
    BY <2>2, <1>3 DEF Starting, OnlyCall
  <2> QED BY <2>1, <2>2
<1>5. chat.phase = "ask" => ownerCall'[chat.n].kind = ownerCall[chat.n].kind
  BY DEF CallInv, OnlyCall
<1> QED BY <1>1, <1>2, <1>4, <1>5 DEF HandOverInv

\* Each step of an owner's process keeps the invariant.
LEMMA OwnerStepKeeps ==
  ASSUME TakeOverInv, NEW c \in CallNumbers, OwnerStep(c)
  PROVE  TakeOverInv'
<1>0. /\ Typed /\ CallInv /\ HistoryInv /\ HandOverInv /\ RefusalInv
      /\ ownerTask \in OwnerTasks /\ ownerTask.events \in Nat
  BY DEF TakeOverInv, Typed, OwnerTasks
<1>1. UNCHANGED <<localTask, issue, chat>>
  BY DEF OwnerStep, OwnerLocks, HandOffChecks, HandOffStops, HandOffVerifies, ResolveUnknown,
         HandOffProves, ResumeChecks, ResumeUnblocks, ServedElsewhere
<1>2. ownerCall[c].phase # "replied" => ownerCall[c].reply = "none"
  BY <1>0 DEF CallInv
<1>3. ownerCall[c].phase \in {"start", "check", "stop"} => ~ownerCall[c].stopped
  BY <1>0 DEF RefusalInv
<1>4. ownerCall[c].stopped => ownerCall[c].stopAt <= ownerTask.events
  BY <1>0 DEF HistoryInv, Reads
<1>5. CASE OwnerLocks(c)
  <2>1. /\ Stays /\ ownerCall[c].phase = "start" /\ OnlyCall(c) /\ ~ownerCall'[c].stopped
        /\ ownerCall'[c].phase \in {"check", "replied"} /\ ownerCall'[c].reply # "handed_off"
        /\ ownerCall'[c].reply # "none" => ownerCall'[c].phase = "replied"
    BY <1>0, <1>2, <1>3, <1>5, LocksDoes DEF GoesOn, Replies
  <2>2. Reads(c)' /\ ownerTask' \in OwnerTasks
    BY <1>0, <2>1 DEF Reads, Stays
  <2>3. Typed' /\ CallInv' /\ HistoryInv' /\ RefusalInv'
    BY <1>1, <2>1, <2>2, CallKeeps
  <2>4. HandOverInv'
    BY <1>1, <1>2, <2>1, CallKeepsDown
  <2> QED BY <2>3, <2>4 DEF TakeOverInv
<1>6. CASE HandOffChecks(c)
  <2>1. /\ Stays /\ ownerCall[c].kind = "hand_off" /\ ownerCall[c].phase = "check"
        /\ OnlyCall(c) /\ ~ownerCall'[c].stopped
        /\ ownerCall'[c].reply # "handed_off"
        /\ ownerCall'[c].reply # "none" => ownerCall'[c].phase = "replied"
        /\ ownerCall'[c].phase = "stop" => /\ ownerCall'[c].expect = ownerTask.events
                                           /\ ownerTask.status \in {"ready", "running"}
    BY <1>0, <1>2, <1>3, <1>6, HandOffChecksDoes DEF GoesOn, Replies
  <2>2. Reads(c)' /\ ownerTask' \in OwnerTasks
    BY <1>0, <2>1 DEF Reads, Stays
  <2>3. Typed' /\ CallInv' /\ HistoryInv' /\ RefusalInv'
    BY <1>1, <2>1, <2>2, CallKeeps
  <2>4. HandOverInv'
    BY <1>1, <1>2, <2>1, CallKeepsDown
  <2> QED BY <2>3, <2>4 DEF TakeOverInv
<1>7. CASE HandOffStops(c)
  <2>1. /\ ownerCall[c].kind = "hand_off" /\ ownerCall[c].phase = "stop"
        /\ OnlyCall(c) /\ ownerCall'[c].phase = "verify" /\ ownerCall'[c].reply = ownerCall[c].reply
        /\ ownerTask' \in OwnerTasks
    BY <1>0, <1>7, HandOffStopsDoes DEF GoesOn
  <2>2. CASE /\ ownerTask.events = ownerCall[c].expect
             /\ ownerTask' = Stopped(ownerTask, "handover")
             /\ ownerCall'[c].stopAt = ownerTask.events + 1
    <3>1. ownerTask.status \in {"ready", "running"}
      BY <1>0, <2>1, <2>2 DEF HistoryInv, Reads
    <3>2. Stops
      BY <1>0, <2>2, <3>1, StoppedOf DEF Stops
    <3>3. Reads(c)'
      BY <1>0, <2>1, <2>2, <3>2 DEF Reads, Stops
    <3>4. Typed' /\ CallInv' /\ HistoryInv' /\ RefusalInv'
      BY <1>0, <1>1, <1>2, <2>1, <3>2, <3>3, CallKeeps
    <3>5. \A d \in CallNumbers : ~Down(d)
      BY <3>1 DEF Down
    <3>6. ~Starting' /\ localTask.status \notin {"ready", "running"} /\ ~(localTask.receipt /\ NeverResumed)
      <4>1. ~Starting
        BY <1>0, <3>5 DEF HandOverInv, Starting, CallInv
      <4>2. ownerCall'[c].reply = "none"
        BY <1>2, <2>1
      <4> QED BY <1>0, <1>1, <2>1, <3>5, <4>1, <4>2 DEF HandOverInv, Starting, CallInv, OnlyCall
    <3>7. NeverResumed' = NeverResumed
      BY <2>1 DEF NeverResumed, OnlyCall
    <3>8. chat.phase = "ask" => ownerCall'[chat.n].kind = ownerCall[chat.n].kind
      BY <1>0, <2>1 DEF CallInv, OnlyCall
    <3>9. HandOverInv'
      BY <1>0, <1>1, <3>6, <3>7, <3>8 DEF HandOverInv
    <3> QED BY <3>4, <3>9 DEF TakeOverInv
  <2>3. CASE Stays /\ ~ownerCall'[c].stopped
    <3>1. Reads(c)'
      BY <2>1, <2>3 DEF Reads
    <3>2. Typed' /\ CallInv' /\ HistoryInv' /\ RefusalInv'
      BY <1>1, <1>2, <2>1, <2>3, <3>1, CallKeeps
    <3>3. HandOverInv'
      BY <1>1, <1>2, <2>1, <2>3, CallKeepsDown
    <3> QED BY <3>2, <3>3 DEF TakeOverInv
  <2> QED BY <1>0, <1>7, <2>2, <2>3, HandOffStopsDoes
<1>8. CASE HandOffVerifies(c)
  <2>1. /\ Stays /\ ownerCall[c].kind = "hand_off" /\ ownerCall[c].phase = "verify"
        /\ OnlyCall(c) /\ ownerCall'[c].stopped = ownerCall[c].stopped
        /\ ownerCall'[c].stopAt = ownerCall[c].stopAt
        /\ ownerCall'[c].reply # "handed_off"
        /\ ownerCall'[c].reply # "none" => ownerCall'[c].phase = "replied"
        /\ ownerCall'[c].phase \in {"prove", "replied"}
        /\ ownerCall'[c].phase = "prove" => ownerCall'[c].ours
        /\ ownerCall'[c].reply = "unchanged"
             => ~(LiveStop /\ ownerCall[c].stopped /\ ownerTask.stopAt = ownerCall[c].stopAt)
    BY <1>0, <1>2, <1>8, HandOffVerifiesDoes DEF GoesOn, Replies
  <2>2. Reads(c)' /\ ownerTask' \in OwnerTasks
    BY <1>0, <1>4, <2>1 DEF Reads, Stays
  <2>3. ownerCall'[c].stopped /\ ownerCall'[c].reply = "unchanged" => Left(c)'
    BY <2>1 DEF Left, LiveStop, Stays
  <2>4. Typed' /\ CallInv' /\ HistoryInv' /\ RefusalInv'
    BY <1>1, <2>1, <2>2, <2>3, CallKeeps
  <2>5. HandOverInv'
    BY <1>1, <1>2, <2>1, CallKeepsDown
  <2> QED BY <2>4, <2>5 DEF TakeOverInv
<1>9. CASE ResolveUnknown(c)
  <2>1. /\ ownerCall[c].kind = "hand_off" /\ ownerCall[c].phase = "prove" /\ WindsDown
        /\ ownerTask'.events = ownerTask.events /\ ownerTask' \in OwnerTasks
        /\ OnlyCall(c) /\ ownerCall'[c].stopped = ownerCall[c].stopped
        /\ ownerCall'[c].stopAt = ownerCall[c].stopAt
        /\ ownerCall'[c].phase = "prove" /\ ownerCall'[c].ours /\ ownerCall'[c].reply = "none"
    BY <1>0, <1>2, <1>9, ResolveUnknownDoes DEF GoesOn
  <2>2. Reads(c)'
    BY <1>0, <1>4, <2>1 DEF Reads
  <2>3. Typed' /\ CallInv' /\ HistoryInv' /\ RefusalInv'
    BY <1>1, <2>1, <2>2, CallKeeps
  <2>4. HandOverInv'
    BY <1>1, <1>2, <2>1, CallKeepsDown
  <2> QED BY <2>3, <2>4 DEF TakeOverInv
<1>10. CASE HandOffProves(c)
  <2>1. /\ Stays /\ ownerCall[c].kind = "hand_off" /\ ownerCall[c].phase = "prove"
        /\ OnlyCall(c) /\ ownerCall'[c].stopped = ownerCall[c].stopped
        /\ ownerCall'[c].stopAt = ownerCall[c].stopAt
        /\ ownerCall'[c].phase = "replied"
        /\ ownerCall'[c].reply = "handed_off" => SameStop(c) /\ Quiescent
        /\ ownerCall'[c].reply = "unchanged" => ~ownerCall[c].ours
    BY <1>0, <1>2, <1>10, HandOffProvesDoes DEF Replies
  <2>2. Reads(c)' /\ ownerTask' \in OwnerTasks
    BY <1>0, <1>4, <2>1 DEF Reads, Stays
  <2>3. ownerCall[c].stopped => ownerCall[c].ours
    BY <1>0, <2>1 DEF RefusalInv
  <2>4. Typed' /\ CallInv' /\ HistoryInv' /\ RefusalInv'
    BY <1>1, <2>1, <2>2, <2>3, CallKeeps
  <2>5. ownerCall'[c].reply = "handed_off" => Down(c)'
    BY <2>1 DEF Down, SameStop, LiveStop, Quiescent, Stays
  <2>6. HandOverInv'
    BY <1>1, <1>2, <2>1, <2>5, CallKeepsDown
  <2> QED BY <2>4, <2>6 DEF TakeOverInv
<1>11. CASE ResumeChecks(c)
  <2>1. /\ Stays /\ ownerCall[c].kind = "resume" /\ ownerCall[c].phase = "check"
        /\ OnlyCall(c) /\ ~ownerCall'[c].stopped
        /\ ownerCall'[c].reply # "handed_off"
        /\ ownerCall'[c].reply # "none" => ownerCall'[c].phase = "replied"
    BY <1>0, <1>2, <1>3, <1>11, ResumeChecksDoes DEF GoesOn, Replies
  <2>2. Reads(c)' /\ ownerTask' \in OwnerTasks
    BY <1>0, <2>1 DEF Reads, Stays, OnlyCall
  <2>3. Typed' /\ CallInv' /\ HistoryInv' /\ RefusalInv'
    BY <1>1, <2>1, <2>2, CallKeeps
  <2>4. HandOverInv'
    BY <1>1, <1>2, <2>1, CallKeepsDown
  <2> QED BY <2>3, <2>4 DEF TakeOverInv
<1>12. CASE ResumeUnblocks(c)
  <2>1. /\ ownerCall[c].kind = "resume" /\ ownerCall[c].phase = "stop"
        /\ OnlyCall(c) /\ ~ownerCall'[c].stopped
        /\ ownerCall'[c].reply # "handed_off"
        /\ ownerCall'[c].reply # "none" => ownerCall'[c].phase = "replied"
        /\ Stays \/ ownerTask' = Resumed(ownerTask)
    BY <1>0, <1>2, <1>3, <1>12, ResumeUnblocksDoes DEF GoesOn, Replies
  <2>2. Reads(c)'
    BY <1>0, <2>1 DEF Reads, OnlyCall
  <2>3. ownerTask' \in OwnerTasks /\ (Stays \/ Resumes)
    BY <1>0, <2>1, ResumedOf DEF Stays, Resumes
  <2>4. Typed' /\ CallInv' /\ HistoryInv' /\ RefusalInv'
    BY <1>1, <2>1, <2>2, <2>3, CallKeeps
  <2>5. CASE Stays
    BY <1>1, <1>2, <2>1, <2>4, <2>5, CallKeepsDown DEF TakeOverInv
  <2>6. CASE ownerTask' = Resumed(ownerTask)
    \* the requester waits for this resume, and runs nothing
    <3>1. chat.phase = "ask" /\ chat.n = c /\ chat.kind = "resume_owner"
      BY <1>0, <2>1 DEF CallInv, HandOverInv
    <3>2. localTask.status \notin {"ready", "running"} /\ ~Starting' /\ ~NeverResumed'
      BY <1>0, <1>1, <2>1, <3>1 DEF HandOverInv, Starting, NeverResumed, OnlyCall
    <3>3. ownerCall'[chat.n].kind = "resume"
      BY <2>1, <3>1 DEF OnlyCall
    <3>4. HandOverInv'
      BY <1>0, <1>1, <3>1, <3>2, <3>3 DEF HandOverInv
    <3> QED BY <2>4, <3>4 DEF TakeOverInv
  <2> QED BY <2>1, <2>5, <2>6
<1> QED BY <1>5, <1>6, <1>7, <1>8, <1>9, <1>10, <1>11, <1>12 DEF OwnerStep

-----------------------------------------------------------------------------
(* The requester's call.                                                     *)

LEMMA ChatChanges ==
  ASSUME Typed
  PROVE  /\ \A r \in {"none", "taken", "refused", "paused", "resumed", "uncertain"} : Says(r) =>
              /\ chat' \in Chats /\ chat'.n = chat.n /\ chat'.kind = chat.kind
              /\ chat'.phase = "idle" /\ chat'.reply = r
         /\ \A p \in {"create", "bind", "admit", "activate", "settle", "route", "failed"} :
              chat' = [chat EXCEPT !.phase = p] =>
              /\ chat' \in Chats /\ chat'.n = chat.n /\ chat'.kind = chat.kind /\ chat'.phase = p
         /\ \A k \in {"take_over", "resume_owner"}, p \in {"idle", "ask", "route"},
              r \in {"none", "refused"} :
              chat.n < MaxCalls /\ Asks(k, p, r) =>
              /\ chat' \in Chats /\ chat'.n = chat.n + 1 /\ chat'.n \in CallNumbers
              /\ chat'.kind = k /\ chat'.phase = p /\ chat'.reply = r
<1>0. chat \in Chats /\ MaxCalls \in Nat /\ chat.n \in 0..MaxCalls
  BY TakeOverAssumption DEF Typed, Chats
<1>1. \A r \in {"none", "taken", "refused", "paused", "resumed", "uncertain"} : Says(r) =>
        /\ chat' \in Chats /\ chat'.n = chat.n /\ chat'.kind = chat.kind
        /\ chat'.phase = "idle" /\ chat'.reply = r
  BY <1>0 DEF Says, Chats
<1>2. \A p \in {"create", "bind", "admit", "activate", "settle", "route", "failed"} :
        chat' = [chat EXCEPT !.phase = p] =>
        /\ chat' \in Chats /\ chat'.n = chat.n /\ chat'.kind = chat.kind /\ chat'.phase = p
  BY <1>0 DEF Chats
<1>3. chat.n < MaxCalls => chat.n + 1 \in 0..MaxCalls /\ chat.n + 1 \in CallNumbers
  BY <1>0 DEF CallNumbers
<1>4. \A k \in {"take_over", "resume_owner"}, p \in {"idle", "ask", "route"}, r \in {"none", "refused"} :
        chat.n < MaxCalls /\ Asks(k, p, r) =>
        /\ chat' \in Chats /\ chat'.n = chat.n + 1 /\ chat'.n \in CallNumbers
        /\ chat'.kind = k /\ chat'.phase = p /\ chat'.reply = r
  BY <1>3 DEF Asks, Chats
<1> QED BY <1>1, <1>2, <1>4

\* The end of an abandoned call: it has neither replied nor been stopped by.
LEMMA AbandonedDoes ==
  ASSUME Typed, NEW c \in CallNumbers, Abandoned(c)
  PROVE  \/ /\ ownerCall' = ownerCall /\ ownerLock' = ownerLock
            /\ ownerCall[c].phase \in {"none", "replied"} \/ ownerCall[c].kind \in Survives
         \/ /\ OnlyCall(c) /\ ownerCall[c].phase \notin {"none", "replied"}
            /\ ownerCall[c].kind \notin Survives
            /\ ownerCall'[c].phase = "dead" /\ ownerCall'[c].reply = ownerCall[c].reply
            /\ ownerCall'[c].stopped = ownerCall[c].stopped
            /\ ownerCall'[c].stopAt = ownerCall[c].stopAt
<1>0. /\ ownerCall[c] \in OwnerCalls /\ ownerLock \in 0..MaxCalls /\ MaxCalls \in Nat
  BY TakeOverAssumption DEF Typed
<1>1. CASE ownerCall[c].phase \in {"none", "replied"} \/ ownerCall[c].kind \in Survives
  BY <1>1 DEF Abandoned
<1>2. CASE ~(ownerCall[c].phase \in {"none", "replied"} \/ ownerCall[c].kind \in Survives)
  <2> DEFINE y == [ownerCall[c] EXCEPT !.phase = "dead"]
  <2>1. /\ y \in OwnerCalls /\ y.phase = "dead" /\ y.reply = ownerCall[c].reply
        /\ y.kind = ownerCall[c].kind /\ y.stopped = ownerCall[c].stopped
        /\ y.stopAt = ownerCall[c].stopAt
    BY <1>0 DEF OwnerCalls
  <2>2. Goes(c, y) /\ ownerLock' = IF ownerLock = c THEN Nobody ELSE ownerLock
    BY <1>2 DEF Abandoned
  <2>3. ownerLock' \in 0..MaxCalls
    BY <1>0, <2>2 DEF Nobody
  <2> HIDE DEF y
  <2> QED BY <1>2, <2>1, <2>2, <2>3, CallGoes DEF OnlyCall
<1> QED BY <1>1, <1>2

\* A call in progress moves on: the calls and the task are as they were.
LEMMA ChatKeeps ==
  ASSUME TakeOverInv, UNCHANGED <<ownerTask, ownerCall, ownerLock>>,
         localTask' \in LocalTasks, issue' \in Issues, chat' \in Chats,
         chat'.n = chat.n, chat'.kind = chat.kind, chat.phase # "idle",
         chat'.phase = "ask" => chat.phase = "ask",
         chat.phase = "ask" => chat'.phase = "ask" \/ ownerCall[chat.n].phase = "replied",
         chat'.phase = "idle" /\ chat'.reply = "refused" => ownerCall[chat.n].reply = "unchanged"
  PROVE  Typed' /\ CallInv' /\ HistoryInv' /\ RefusalInv'
<1> USE DEF TakeOverInv
<1>1. Typed' /\ HistoryInv'
  BY DEF Typed, HistoryInv, Reads
<1>2. chat.n \in CallNumbers
  BY DEF CallInv
<1>3. CallInv'
  BY <1>2 DEF CallInv
<1>4. RefusalInv'
  BY <1>2 DEF RefusalInv, Left, LiveStop
<1> QED BY <1>1, <1>3, <1>4

\* A new call: the one before is over, the next one begins or was refused.
LEMMA AskKeeps ==
  ASSUME TakeOverInv, UNCHANGED <<ownerTask, ownerLock, localTask>>, issue' \in Issues,
         chat.phase = "idle", chat.n < MaxCalls, chat' \in Chats, chat'.n = chat.n + 1,
         chat'.phase = "idle" /\ chat'.reply = "refused" => ownerCall' = ownerCall,
         NEW k \in {"hand_off", "resume"},
         \/ ownerCall' = ownerCall /\ chat'.phase # "ask"
         \/ /\ ownerCall' = [ownerCall EXCEPT ![chat.n + 1] =
                               [NoCallYet EXCEPT !.kind = k, !.phase = "start"]]
            /\ chat'.phase = "ask"
            /\ chat'.kind = IF k = "hand_off" THEN "take_over" ELSE "resume_owner"
            /\ k = "resume" => localTask.status \notin {"ready", "running"},
         chat'.phase \in {"idle", "ask", "route"}
  PROVE  TakeOverInv'
<1> DEFINE n == chat.n + 1
           y == [NoCallYet EXCEPT !.kind = k, !.phase = "start"]
<1>0. Typed /\ CallInv /\ HistoryInv /\ HandOverInv /\ RefusalInv
  BY DEF TakeOverInv
<1>1. /\ chat.n \in Nat /\ n \in CallNumbers /\ MaxCalls \in Nat
      /\ ownerCall[n] = NoCallYet /\ ownerCall \in [CallNumbers -> OwnerCalls]
  BY <1>0, TakeOverAssumption DEF Typed, Chats, CallNumbers, CallInv
<1>2. /\ y \in OwnerCalls /\ y.kind = k /\ y.phase = "start" /\ ~y.stopped /\ y.reply = "none"
  BY DEF NoCallYet, OwnerCalls
<1>3. ownerCall' = ownerCall \/ ownerCall' = [ownerCall EXCEPT ![n] = y]
  OBVIOUS
<1> HIDE DEF n, y
<1>4. /\ ownerCall' \in [CallNumbers -> OwnerCalls]
      /\ \A c \in CallNumbers : c # n => ownerCall'[c] = ownerCall[c]
      /\ ownerCall'[n] = NoCallYet \/ (ownerCall'[n] = y /\ chat'.phase = "ask")
  BY <1>1, <1>2, <1>3 DEF n, y
<1>5. /\ ownerCall'[n].reply = "none" /\ ~ownerCall'[n].stopped
      /\ ownerCall'[n].phase \in {"none", "start"}
  BY <1>2, <1>4 DEF NoCallYet
<1>6. chat'.n = n /\ \A c \in CallNumbers : c # n => (c > n <=> c > chat.n)
  BY <1>1 DEF n, CallNumbers
<1>7. Typed'
  BY <1>0, <1>4 DEF Typed
<1>8. CallInv'
  <2>1. \A c \in CallNumbers : c > chat'.n => ownerCall'[c] = NoCallYet
    BY <1>0, <1>1, <1>4, <1>6 DEF CallInv, CallNumbers
  <2>2. \A c \in CallNumbers : ownerCall'[c].reply # "none" => ownerCall'[c].phase = "replied"
    BY <1>0, <1>4, <1>5 DEF CallInv
  <2>3. \A c \in CallNumbers :
          ownerCall'[c].kind = "resume" /\ ownerCall'[c].phase \in {"start", "check", "stop"}
            => chat'.phase = "ask" /\ chat'.n = c
    <3>1. \A c \in CallNumbers : c # n => ~(ownerCall[c].kind = "resume" /\ ownerCall[c].phase \in {"start", "check", "stop"})
      BY <1>0 DEF CallInv
    <3> QED BY <1>4, <1>6, <3>1 DEF NoCallYet
  <2>4. chat'.phase # "idle" => chat'.n \in CallNumbers
    BY <1>1, <1>6
  <2> QED BY <2>1, <2>2, <2>3, <2>4 DEF CallInv
<1>9. HistoryInv'
  BY <1>0, <1>4, <1>5 DEF HistoryInv, Reads
<1>10. RefusalInv'
  <2>1. \A c \in CallNumbers :
          ownerCall'[c].stopped
            => /\ ownerCall'[c].phase \in {"verify", "prove", "replied", "dead"}
               /\ ownerCall'[c].phase = "prove" => ownerCall'[c].ours
               /\ ownerCall'[c].reply = "unchanged" => Left(c)'
    BY <1>0, <1>4, <1>5 DEF RefusalInv, Left, LiveStop
  <2>2. chat'.phase = "idle" => ownerCall'[n].phase = "none"
    BY <1>4 DEF NoCallYet
  <2> QED BY <1>1, <1>6, <2>1, <2>2 DEF RefusalInv
<1>11. \A c \in CallNumbers : Down(c) => Down(c)'
  BY <1>1, <1>4 DEF Down, NoCallYet
<1>12. NeverResumed' => NeverResumed
  BY <1>1, <1>4 DEF NeverResumed, NoCallYet
<1>13. ~Starting'
  BY <1>5, <1>6 DEF Starting
<1>14. HandOverInv'
  <2>1. chat'.phase = "ask" => /\ ownerCall'[chat'.n].kind = k
                               /\ chat'.kind = IF k = "hand_off" THEN "take_over" ELSE "resume_owner"
                               /\ k = "resume" => localTask.status \notin {"ready", "running"}
    BY <1>1, <1>2, <1>4, <1>6 DEF n, y
  <2> QED BY <1>0, <1>11, <1>12, <1>13, <2>1 DEF HandOverInv
<1> QED BY <1>7, <1>8, <1>9, <1>10, <1>14 DEF TakeOverInv

\* The owner stays down for the work here while the call and the local task move.
LEMMA DownKeeps ==
  ASSUME TakeOverInv, UNCHANGED <<ownerTask, ownerCall>>, chat'.n = chat.n, chat'.kind = chat.kind,
         Starting' => Starting, chat'.phase = "ask" => chat.phase = "ask",
         localTask'.status \in {"ready", "running"}
           => \/ localTask.status \in {"ready", "running"}
              \/ chat.phase # "ask" /\ Starting
              \/ NeverResumed /\ localTask.receipt,
         localTask'.receipt => localTask.receipt \/ Starting,
         localTask'.accepted => localTask'.receipt,
         localTask'.routing = "queued" => localTask'.accepted
  PROVE  HandOverInv'
<1>0. CallInv /\ HandOverInv
  BY DEF TakeOverInv
<1>1. \A c \in CallNumbers : Down(c) => Down(c)'
  BY DEF Down
<1>2. Starting => chat.n \in CallNumbers
  BY <1>0 DEF CallInv, Starting
<1>3. NeverResumed' = NeverResumed
  BY DEF NeverResumed
<1>4. Starting' => Down(chat.n)'
  BY <1>0, <1>1, <1>2 DEF HandOverInv
<1>5. Starting \/ (localTask.receipt /\ NeverResumed) \/ localTask.status \in {"ready", "running"}
        => \E c \in CallNumbers : Down(c)'
  BY <1>0, <1>1, <1>2 DEF HandOverInv
<1>6. chat'.phase = "ask" /\ chat'.kind = "resume_owner" => localTask'.status \notin {"ready", "running"}
  <2>1. chat.phase = "ask" /\ chat.kind = "resume_owner" => ~NeverResumed
    BY <1>0 DEF HandOverInv, CallInv, NeverResumed
  <2> QED BY <1>0, <2>1 DEF HandOverInv
<1>7. localTask'.status \in {"ready", "running"} => \E c \in CallNumbers : Down(c)'
  BY <1>5
<1>8. localTask'.receipt /\ NeverResumed' => \E c \in CallNumbers : Down(c)'
  BY <1>3, <1>5
<1>9. chat'.phase = "ask" => \/ chat'.kind = "take_over" /\ ownerCall'[chat'.n].kind = "hand_off"
                             \/ chat'.kind = "resume_owner" /\ ownerCall'[chat'.n].kind = "resume"
  BY <1>0 DEF HandOverInv
<1> QED BY <1>4, <1>6, <1>7, <1>8, <1>9 DEF HandOverInv

\* The requester stops waiting: its owner call is over unless it outlives the wait.
LEMMA WaitEnds ==
  ASSUME TakeOverInv, ResumeWaits, OwnerUnknown \/ RequesterDies
  PROVE  TakeOverInv'
<1> DEFINE n == chat.n
<1>0. /\ Typed /\ CallInv /\ HistoryInv /\ HandOverInv /\ RefusalInv
      /\ n \in CallNumbers
  BY DEF TakeOverInv, CallInv, OwnerUnknown, RequesterDies
<1>1. UNCHANGED <<ownerTask, localTask, issue>> /\ Abandoned(n)
  BY DEF OwnerUnknown, RequesterDies
<1>2. /\ chat' \in Chats /\ chat'.n = n /\ chat'.phase = "idle" /\ chat'.reply # "refused"
  BY <1>0, ChatChanges DEF OwnerUnknown, RequesterDies
<1> HIDE DEF n
<1>3. /\ ownerCall' \in [CallNumbers -> OwnerCalls] /\ ownerLock' \in 0..MaxCalls
      /\ \A c \in CallNumbers :
           /\ ownerCall'[c].reply = ownerCall[c].reply /\ ownerCall'[c].kind = ownerCall[c].kind
           /\ ownerCall'[c].stopped = ownerCall[c].stopped /\ ownerCall'[c].stopAt = ownerCall[c].stopAt
           /\ ownerCall'[c] = ownerCall[c]
              \/ (c = n /\ ownerCall[c].phase \notin {"none", "replied"} /\ ownerCall'[c].phase = "dead")
      /\ ownerCall'[n].phase \in {"none", "replied", "dead"} \/ ownerCall[n].kind \in Survives
  <2>1. CASE /\ ownerCall' = ownerCall /\ ownerLock' = ownerLock
             /\ ownerCall[n].phase \in {"none", "replied"} \/ ownerCall[n].kind \in Survives
    BY <1>0, <2>1 DEF Typed
  <2>2. CASE /\ OnlyCall(n) /\ ownerCall[n].phase \notin {"none", "replied"}
             /\ ownerCall'[n].phase = "dead" /\ ownerCall'[n].reply = ownerCall[n].reply
             /\ ownerCall'[n].stopped = ownerCall[n].stopped
             /\ ownerCall'[n].stopAt = ownerCall[n].stopAt
    BY <2>2 DEF OnlyCall
  <2>3. Typed /\ n \in CallNumbers /\ Abandoned(n)
    BY <1>0, <1>1
  <2>4. \/ /\ ownerCall' = ownerCall /\ ownerLock' = ownerLock
           /\ ownerCall[n].phase \in {"none", "replied"} \/ ownerCall[n].kind \in Survives
        \/ /\ OnlyCall(n) /\ ownerCall[n].phase \notin {"none", "replied"}
           /\ ownerCall'[n].phase = "dead" /\ ownerCall'[n].reply = ownerCall[n].reply
           /\ ownerCall'[n].stopped = ownerCall[n].stopped
           /\ ownerCall'[n].stopAt = ownerCall[n].stopAt
    BY <2>3, AbandonedDoes
  <2> QED BY <2>1, <2>2, <2>4
<1>4. Typed'
  BY <1>0, <1>1, <1>2, <1>3 DEF Typed
<1>5. CallInv'
  <2>1. \A c \in CallNumbers : c > chat'.n => ownerCall'[c] = NoCallYet
    <3> SUFFICES ASSUME NEW c \in CallNumbers, c > n PROVE ownerCall'[c] = NoCallYet
      BY <1>2
    <3>1. n \in Nat /\ c \in Nat /\ c # n
      BY <1>0 DEF CallNumbers
    <3>2. ownerCall[c] = NoCallYet
      BY <1>0 DEF CallInv, n
    <3> QED BY <1>3, <3>1, <3>2
  <2>2. \A c \in CallNumbers : ownerCall'[c].reply # "none" => ownerCall'[c].phase = "replied"
    BY <1>0, <1>3 DEF CallInv
  <2>3. \A c \in CallNumbers :
          ~(ownerCall'[c].kind = "resume" /\ ownerCall'[c].phase \in {"start", "check", "stop"})
    <3> SUFFICES ASSUME NEW c \in CallNumbers, ownerCall'[c].kind = "resume",
                        ownerCall'[c].phase \in {"start", "check", "stop"}
                 PROVE  FALSE
      OBVIOUS
    <3>1. ownerCall'[c] = ownerCall[c]
      BY <1>3
    <3>2. c = n
      BY <1>0, <3>1 DEF CallInv, n
    <3> QED BY <1>3, <3>1, <3>2 DEF ResumeWaits
  <2> QED BY <1>2, <2>1, <2>2, <2>3 DEF CallInv
<1>6. HistoryInv'
  BY <1>0, <1>1, <1>3 DEF HistoryInv, Reads
<1>7. RefusalInv'
  <2>1. \A c \in CallNumbers :
          ownerCall'[c].stopped
            => /\ ownerCall'[c].phase \in {"verify", "prove", "replied", "dead"}
               /\ ownerCall'[c].phase = "prove" => ownerCall'[c].ours
               /\ ownerCall'[c].reply = "unchanged" => Left(c)'
    BY <1>0, <1>1, <1>3 DEF RefusalInv, Left, LiveStop
  <2> QED BY <1>2, <2>1 DEF RefusalInv
<1>8. HandOverInv'
  <2>1. \A c \in CallNumbers : Down(c) => Down(c)'
    BY <1>1, <1>3 DEF Down
  <2>2. NeverResumed' = NeverResumed
    BY <1>3 DEF NeverResumed
  <2>3. ~Starting' /\ chat'.phase # "ask"
    BY <1>2 DEF Starting
  <2> QED BY <1>0, <1>1, <2>1, <2>2, <2>3 DEF HandOverInv
<1> QED BY <1>4, <1>5, <1>6, <1>7, <1>8 DEF TakeOverInv

\* The owner's answer is taken.
LEMMA AnswerKeeps ==
  ASSUME TakeOverInv, OwnerAnswers
  PROVE  TakeOverInv'
<1>0. /\ Typed /\ CallInv /\ HandOverInv
      /\ chat.phase = "ask" /\ ownerCall[chat.n].phase = "replied"
      /\ UNCHANGED <<ownerTask, ownerCall, ownerLock, localTask, issue>>
  BY DEF TakeOverInv, OwnerAnswers
<1>1. /\ chat' \in Chats /\ chat'.n = chat.n /\ chat'.kind = chat.kind
      /\ chat'.phase \in {"create", "idle"}
      /\ chat'.phase = "create" => ownerCall[chat.n].reply = "handed_off"
      /\ chat'.phase = "idle" /\ chat'.reply = "refused" => ownerCall[chat.n].reply = "unchanged"
  BY <1>0, ChatChanges DEF OwnerAnswers
<1>2. Typed' /\ CallInv' /\ HistoryInv' /\ RefusalInv'
  BY <1>0, <1>1, ChatKeeps DEF Typed
<1>3. Starting' => Starting
  BY <1>0, <1>1 DEF Starting
<1>4. HandOverInv'
  BY <1>0, <1>1, <1>3, DownKeeps DEF HandOverInv
<1> QED BY <1>2, <1>4 DEF TakeOverInv

\* A call asks, or is refused at once.
LEMMA AsksKeep ==
  ASSUME TakeOverInv, TakeOverAsks \/ ResumeAsks
  PROVE  TakeOverInv'
<1>0. /\ Typed /\ issue \in Issues /\ chat.phase = "idle" /\ chat.n < MaxCalls
      /\ UNCHANGED <<ownerTask, ownerLock, localTask>>
  BY DEF TakeOverInv, Typed, TakeOverAsks, ResumeAsks
<1>1. CASE TakeOverAsks
  <2>1. [issue EXCEPT !.moved = FALSE] \in Issues
    BY <1>0 DEF Issues
  <2>2. \/ /\ Asks("take_over", "ask", "none") /\ issue' \in Issues
           /\ ownerCall' = [ownerCall EXCEPT ![chat.n + 1] =
                              [NoCallYet EXCEPT !.kind = "hand_off", !.phase = "start"]]
        \/ Asks("take_over", "route", "none") /\ ownerCall' = ownerCall /\ issue' \in Issues
        \/ Asks("take_over", "idle", "refused") /\ ownerCall' = ownerCall /\ issue' \in Issues
    BY <1>0, <1>1, <2>1 DEF TakeOverAsks
  <2>3. /\ chat' \in Chats /\ chat'.n = chat.n + 1 /\ issue' \in Issues
        /\ chat'.phase \in {"idle", "ask", "route"}
        /\ chat'.phase = "idle" => ownerCall' = ownerCall
        /\ \/ ownerCall' = ownerCall /\ chat'.phase # "ask"
           \/ /\ ownerCall' = [ownerCall EXCEPT ![chat.n + 1] =
                                [NoCallYet EXCEPT !.kind = "hand_off", !.phase = "start"]]
              /\ chat'.phase = "ask" /\ chat'.kind = "take_over"
    BY <1>0, <2>2, ChatChanges
  <2> QED BY <1>0, <2>3, AskKeeps
<1>2. CASE ResumeAsks
  <2>1. /\ issue' \in Issues
        /\ \/ /\ Asks("resume_owner", "ask", "none")
              /\ localTask.status \in {"none", "blocked"}
              /\ ownerCall' = [ownerCall EXCEPT ![chat.n + 1] =
                                 [NoCallYet EXCEPT !.kind = "resume", !.phase = "start"]]
           \/ Asks("resume_owner", "idle", "refused") /\ ownerCall' = ownerCall
    BY <1>0, <1>2 DEF ResumeAsks
  <2>2. /\ chat' \in Chats /\ chat'.n = chat.n + 1
        /\ chat'.phase \in {"idle", "ask", "route"}
        /\ chat'.phase = "idle" => ownerCall' = ownerCall
        /\ \/ ownerCall' = ownerCall /\ chat'.phase # "ask"
           \/ /\ ownerCall' = [ownerCall EXCEPT ![chat.n + 1] =
                                [NoCallYet EXCEPT !.kind = "resume", !.phase = "start"]]
              /\ chat'.phase = "ask" /\ chat'.kind = "resume_owner"
              /\ localTask.status \notin {"ready", "running"}
    BY <1>0, <2>1, ChatChanges
  <2> QED BY <1>0, <2>1, <2>2, AskKeeps
<1> QED BY <1>1, <1>2

-----------------------------------------------------------------------------
(* The start of the work here, the local board, Linear and the tick.         *)

\* What a step of the start does to the local task.
StartStep ==
  EntrustRefuses \/ EntrustCreates \/ EntrustReuses \/ EntrustBinds \/ Admit \/ Activate
  \/ SettleActivation \/ Routes \/ StartRaises \/ StartFails

LEMMA StartKeeps ==
  ASSUME TakeOverInv, StartStep
  PROVE  TakeOverInv'
<1>0. /\ Typed /\ CallInv /\ HandOverInv
      /\ localTask \in LocalTasks /\ chat \in Chats /\ issue \in Issues
  BY DEF TakeOverInv, Typed
<1>1. /\ UNCHANGED <<ownerTask, ownerCall, ownerLock, issue>>
      /\ chat.phase \in {"create", "bind", "admit", "activate", "settle", "route", "failed"}
  BY DEF StartStep, EntrustRefuses, EntrustCreates, EntrustReuses, EntrustBinds, Admit, Activate,
         SettleActivation, Routes, StartRaises, StartFails
<1>2. /\ chat' \in Chats /\ chat'.n = chat.n /\ chat'.kind = chat.kind
      /\ chat'.phase # "ask"
      /\ chat'.phase = "idle" => chat'.reply # "refused"
      /\ chat'.phase = "create" => chat.phase = "create"
      /\ chat'.phase \in {"bind", "admit", "activate"}
           => chat.phase \in {"create", "bind", "admit", "activate"}
  <2>1. CASE EntrustRefuses \/ StartRaises
    <3>1. chat' = [chat EXCEPT !.phase = "failed"]
      BY <2>1 DEF EntrustRefuses, StartRaises, ChatGoes
    <3> QED BY <1>0, <3>1, ChatChanges
  <2>2. CASE EntrustCreates
    <3>1. chat' = [chat EXCEPT !.phase = "bind"] /\ chat.phase = "create"
      BY <2>2 DEF EntrustCreates, ChatGoes
    <3> QED BY <1>0, <3>1, ChatChanges
  <2>3. CASE EntrustReuses \/ EntrustBinds
    <3>1. chat' = [chat EXCEPT !.phase = "admit"] /\ chat.phase \in {"create", "bind"}
      BY <2>3 DEF EntrustReuses, EntrustBinds, ChatGoes
    <3> QED BY <1>0, <3>1, ChatChanges
  <2>4. CASE Admit
    <3>1. /\ chat.phase = "admit"
          /\ \E p \in {"route", "failed", "activate"} : chat' = [chat EXCEPT !.phase = p]
      BY <2>4 DEF Admit, ChatGoes
    <3> QED BY <1>0, <3>1, ChatChanges
  <2>5. CASE Activate
    <3>1. chat' = [chat EXCEPT !.phase = "settle"]
      BY <2>5 DEF Activate, ChatGoes
    <3> QED BY <1>0, <3>1, ChatChanges
  <2>6. CASE SettleActivation
    <3>1. \E p \in {"route", "failed"} : chat' = [chat EXCEPT !.phase = p]
      BY <2>6 DEF SettleActivation
    <3> QED BY <1>0, <3>1, ChatChanges
  <2>7. CASE Routes \/ StartFails
    <3>1. Says("taken") \/ Says("paused")
      BY <2>7 DEF Routes, StartFails
    <3> QED BY <1>0, <3>1, ChatChanges
  <2> QED BY <2>1, <2>2, <2>3, <2>4, <2>5, <2>6, <2>7 DEF StartStep
<1>3. /\ localTask' \in LocalTasks
      /\ localTask'.status \in {"ready", "running"}
           => localTask.status \in {"ready", "running"} \/ chat.phase = "activate"
      /\ localTask'.receipt => localTask.receipt \/ chat.phase = "activate"
      /\ localTask'.accepted => localTask'.receipt
      /\ localTask'.routing = "queued" => localTask'.accepted
  <2>0. /\ localTask.accepted => localTask.receipt
        /\ localTask.routing = "queued" => localTask.accepted
    BY <1>0 DEF HandOverInv
  <2>1. CASE UNCHANGED localTask
    BY <1>0, <2>0, <2>1
  <2>2. CASE EntrustCreates
    <3>1. localTask' = [localTask EXCEPT !.create = "attempting"]
      BY <2>2 DEF EntrustCreates
    <3> QED BY <1>0, <2>0, <3>1 DEF LocalTasks
  <2>3. CASE EntrustBinds
    <3>1. localTask' = [localTask EXCEPT !.status = "blocked", !.create = "applied"]
      BY <2>3 DEF EntrustBinds
    <3> QED BY <1>0, <2>0, <3>1 DEF LocalTasks
  <2>4. CASE Admit
    <3>1. Superseded \in {"none", "stop", "closed", "person"}
      BY DEF Superseded
    <3> DEFINE routing == IF localTask.routing = "queued" THEN "none" ELSE localTask.routing
               activate == IF Readmittable THEN localTask.activate ELSE "attempting"
    <3>2. /\ routing \in {"none", "queued", "sent"} /\ routing # "queued"
          /\ activate \in {"none", "attempting", "applied", "reconcile"}
      BY <1>0 DEF LocalTasks
    <3>3. \/ UNCHANGED localTask
          \/ localTask' = [localTask EXCEPT !.activate = "reconcile", !.by = Superseded, !.routing = routing]
          \/ localTask' = [localTask EXCEPT !.activate = activate]
      BY <2>4 DEF Admit
    <3> HIDE DEF routing, activate
    <3>4. CASE localTask' = [localTask EXCEPT !.activate = "reconcile", !.by = Superseded, !.routing = routing]
      BY <1>0, <2>0, <3>1, <3>2, <3>4 DEF LocalTasks
    <3>5. CASE localTask' = [localTask EXCEPT !.activate = activate]
      BY <1>0, <2>0, <3>2, <3>5 DEF LocalTasks
    <3> QED BY <2>1, <3>3, <3>4, <3>5
  <2>5. CASE Activate
    <3>1. \/ UNCHANGED localTask
          \/ localTask' = [localTask EXCEPT !.status = "ready", !.receipt = TRUE] /\ chat.phase = "activate"
      BY <2>5 DEF Activate
    <3>2. CASE localTask' = [localTask EXCEPT !.status = "ready", !.receipt = TRUE] /\ chat.phase = "activate"
      BY <1>0, <2>0, <3>2 DEF LocalTasks
    <3> QED BY <2>1, <3>1, <3>2
  <2>6. CASE SettleActivation
    <3> DEFINE activate == IF localTask.receipt THEN "applied" ELSE "reconcile"
               by == IF localTask.receipt THEN "none" ELSE "unverified"
    <3>1. localTask' = [localTask EXCEPT !.activate = activate, !.accepted = localTask.receipt, !.by = by]
      BY <2>6 DEF SettleActivation
    <3>2. /\ activate \in {"none", "attempting", "applied", "reconcile"}
          /\ by \in {"none", "stop", "closed", "person", "unverified"}
      OBVIOUS
    <3> HIDE DEF activate, by
    <3> QED BY ZenonT(30), <1>0, <2>0, <3>1, <3>2 DEF LocalTasks
  <2>7. CASE Routes
    <3> DEFINE routing == IF localTask.routing = "none" /\ localTask.accepted /\ RoutingAllowed
                             /\ localTask.status # "done" THEN "queued" ELSE localTask.routing
    <3>1. localTask' = [localTask EXCEPT !.routing = routing]
      BY <2>7 DEF Routes
    <3>2. routing \in {"none", "queued", "sent"} /\ (routing = "queued" => localTask.accepted)
      BY <1>0, <2>0 DEF LocalTasks
    <3> HIDE DEF routing
    <3> QED BY <1>0, <2>0, <3>1, <3>2 DEF LocalTasks
  <2>8. EntrustRefuses \/ EntrustReuses \/ StartRaises \/ StartFails => UNCHANGED localTask
    BY DEF EntrustRefuses, EntrustReuses, StartRaises, StartFails
  <2> QED BY <2>1, <2>2, <2>3, <2>4, <2>5, <2>6, <2>7, <2>8 DEF StartStep
<1>4. Typed' /\ CallInv' /\ HistoryInv' /\ RefusalInv'
  BY <1>0, <1>1, <1>2, <1>3, ChatKeeps
<1>5. /\ Starting' => Starting
      /\ chat.phase = "activate" => Starting /\ chat.phase # "ask"
  BY <1>1, <1>2 DEF Starting
<1>6. HandOverInv'
  <2>1. UNCHANGED <<ownerTask, ownerCall>>
    BY <1>1
  <2>2. localTask'.status \in {"ready", "running"}
          => \/ localTask.status \in {"ready", "running"}
             \/ chat.phase # "ask" /\ Starting
    BY <1>3, <1>5
  <2>3. localTask'.receipt => localTask.receipt \/ Starting
    BY <1>3, <1>5
  <2> QED BY <1>2, <1>3, <1>5, <2>1, <2>2, <2>3, DownKeeps
<1> QED BY <1>4, <1>6 DEF TakeOverInv

\* The local board, people in Linear, and the tick.
AroundStep ==
  OwnerReports \/ PersonRoutes \/ PersonClosesOrReopens \/ LocalClaims \/ LocalFinishes
  \/ PersonResumesHere \/ PersonStopsHere \/ RecoverAdmission \/ RecoverDelegate \/ SendDelegate

LEMMA AroundKeeps ==
  ASSUME TakeOverInv, AroundStep
  PROVE  TakeOverInv'
<1>0. /\ Typed /\ CallInv /\ HistoryInv /\ HandOverInv /\ RefusalInv
      /\ localTask \in LocalTasks /\ issue \in Issues
  BY DEF TakeOverInv, Typed
<1>1. UNCHANGED <<ownerTask, ownerCall, ownerLock, chat>>
  BY DEF AroundStep, OwnerReports, PersonRoutes, PersonClosesOrReopens, LocalClaims, LocalFinishes,
         PersonResumesHere, PersonStopsHere, RecoverAdmission, RecoverDelegate, SendDelegate,
         LocalBoard, Tick
<1>2. issue' \in Issues
  <2>1. CASE OwnerReports
    <3>1. issue' = [issue EXCEPT !.moved = TRUE]
      BY <2>1 DEF OwnerReports
    <3> QED BY <1>0, <3>1 DEF Issues
  <2>2. CASE PersonRoutes
    <3>1. \E to \in {"owner", "other", "none"} : issue' = [issue EXCEPT !.delegate = to, !.moved = TRUE]
      BY <2>2 DEF PersonRoutes
    <3> QED BY <1>0, <3>1 DEF Issues
  <2>3. CASE PersonClosesOrReopens
    <3>1. issue' = [issue EXCEPT !.closed = ~issue.closed, !.moved = TRUE] /\ (~issue.closed) \in BOOLEAN
      BY <1>0, <2>3 DEF PersonClosesOrReopens, Issues
    <3> QED BY <1>0, <3>1 DEF Issues
  <2>4. CASE PersonStopsHere
    <3>1. issue' = [issue EXCEPT !.stopped = TRUE] \/ issue' = issue
      BY <2>4 DEF PersonStopsHere
    <3> QED BY <1>0, <3>1 DEF Issues
  <2>5. CASE SendDelegate
    <3>1. issue' = [issue EXCEPT !.delegate = "self"] \/ issue' = issue
      BY <2>5 DEF SendDelegate
    <3> QED BY <1>0, <3>1 DEF Issues
  <2>6. LocalClaims \/ LocalFinishes \/ PersonResumesHere \/ RecoverAdmission \/ RecoverDelegate
          => issue' = issue
    BY DEF LocalClaims, LocalFinishes, PersonResumesHere, LocalBoard, RecoverAdmission, RecoverDelegate
  <2> QED BY <1>0, <2>1, <2>2, <2>3, <2>4, <2>5, <2>6 DEF AroundStep
<1>3. /\ localTask' \in LocalTasks
      /\ localTask'.status \in {"ready", "running"}
           => \/ localTask.status \in {"ready", "running"}
              \/ NeverResumed /\ localTask.receipt
      /\ localTask'.receipt => localTask.receipt
      /\ localTask'.accepted => localTask'.receipt
      /\ localTask'.routing = "queued" => localTask'.accepted
  <2>0. /\ localTask.accepted => localTask.receipt
        /\ localTask.routing = "queued" => localTask.accepted
    BY <1>0 DEF HandOverInv
  <2>1. CASE UNCHANGED localTask
    BY <1>0, <2>0, <2>1
  <2>2. CASE LocalClaims \/ LocalFinishes
    <3>1. /\ localTask.status \in {"ready", "running"}
          /\ \E s \in {"running", "done"} : localTask' = [localTask EXCEPT !.status = s]
      BY <2>2 DEF LocalClaims, LocalFinishes, LocalBoard
    <3> QED BY <1>0, <2>0, <3>1 DEF LocalTasks
  <2>3. CASE PersonResumesHere
    <3>1. localTask' = [localTask EXCEPT !.status = "ready"] /\ localTask.accepted /\ NeverResumed
      BY <2>3 DEF PersonResumesHere, LocalBoard, NeverResumed
    <3> QED BY <1>0, <2>0, <3>1 DEF LocalTasks
  <2>4. CASE PersonStopsHere
    <3>1. localTask' = [localTask EXCEPT !.status = "blocked"] \/ UNCHANGED localTask
      BY <2>4 DEF PersonStopsHere
    <3>2. CASE localTask' = [localTask EXCEPT !.status = "blocked"]
      BY <1>0, <2>0, <3>2 DEF LocalTasks
    <3> QED BY <2>1, <3>1, <3>2
  <2>5. CASE RecoverAdmission
    <3>1. localTask' = [localTask EXCEPT !.activate = "applied", !.accepted = TRUE] /\ localTask.receipt
      BY <2>5 DEF RecoverAdmission, Tick
    <3> QED BY <1>0, <2>0, <3>1 DEF LocalTasks
  <2>6. CASE RecoverDelegate
    <3>1. localTask' = [localTask EXCEPT !.routing = "queued"] /\ localTask.accepted
      BY <2>6 DEF RecoverDelegate, Tick
    <3> QED BY <1>0, <2>0, <3>1 DEF LocalTasks
  <2>7. CASE SendDelegate
    <3>1. localTask' = [localTask EXCEPT !.routing = "sent"]
      BY <2>7 DEF SendDelegate, Tick
    <3> QED BY <1>0, <2>0, <3>1 DEF LocalTasks
  <2>8. OwnerReports \/ PersonRoutes \/ PersonClosesOrReopens => UNCHANGED localTask
    BY DEF OwnerReports, PersonRoutes, PersonClosesOrReopens
  <2> QED BY <2>1, <2>2, <2>3, <2>4, <2>5, <2>6, <2>7, <2>8 DEF AroundStep
<1>4. Typed' /\ CallInv' /\ HistoryInv' /\ RefusalInv'
  BY <1>0, <1>1, <1>2, <1>3 DEF Typed, CallInv, HistoryInv, Reads, RefusalInv, Left, LiveStop
<1>5. Starting' => Starting
  BY <1>1 DEF Starting
<1>6. HandOverInv'
  BY <1>1, <1>3, <1>5, DownKeeps
<1> QED BY <1>4, <1>6 DEF TakeOverInv

-----------------------------------------------------------------------------
(* The theorems.                                                             *)

LEMMA TakeOverInvHolds ==
  ASSUME TakeOverInit
  PROVE  TakeOverInv
<1>0. PICK s \in {"ready", "running"} : TakeOverIdle(s)
  BY DEF TakeOverInit
<1>1. ownerTask \in OwnerTasks /\ ownerTask.stopAt = 0 /\ ownerTask.events = 0
  <2> DEFINE attempt == IF s = "running" THEN "started" ELSE "none"
             worker == s = "running"
  <2>1. ownerTask = [status |-> s, stop |-> "none", stopAt |-> 0, events |-> 0, worker |-> worker, attempt |-> attempt]
    BY <1>0 DEF TakeOverIdle
  <2>2. attempt \in {"none", "started", "unknown", "settled"} /\ worker \in BOOLEAN
    OBVIOUS
  <2> HIDE DEF attempt, worker
  <2> QED BY <2>1, <2>2 DEF OwnerTasks
<1>2. NoCallYet \in OwnerCalls
  BY DEF NoCallYet, OwnerCalls
<1>3. /\ ownerCall \in [CallNumbers -> OwnerCalls]
      /\ \A c \in CallNumbers : ownerCall[c] = NoCallYet
  BY <1>0, <1>2 DEF TakeOverIdle
<1>4. /\ localTask \in LocalTasks /\ localTask.status = "none" /\ ~localTask.receipt
      /\ ~localTask.accepted /\ localTask.routing = "none"
  BY <1>0 DEF TakeOverIdle, LocalTasks
<1>5. issue \in Issues
  BY <1>0 DEF TakeOverIdle, Issues
<1>6. 0 \in 0..MaxCalls
  BY TakeOverAssumption
<1>7. chat \in Chats /\ chat.phase = "idle" /\ chat.reply = "none"
  BY <1>0, <1>6 DEF TakeOverIdle, Chats
<1>8. Typed
  BY <1>0, <1>1, <1>3, <1>4, <1>5, <1>6, <1>7 DEF Typed, TakeOverIdle, Nobody
<1>9. CallInv
  BY <1>3, <1>7 DEF CallInv, NoCallYet
<1>10. HistoryInv
  BY <1>1, <1>3 DEF HistoryInv, Reads, NoCallYet
<1>11. HandOverInv
  BY <1>4, <1>7 DEF HandOverInv, Starting
<1>12. RefusalInv
  BY <1>3, <1>7 DEF RefusalInv, NoCallYet
<1> QED BY <1>8, <1>9, <1>10, <1>11, <1>12 DEF TakeOverInv

LEMMA TakeOverStep ==
  ASSUME TakeOverInv, ResumeWaits, [TakeOverNext]_toVars
  PROVE  TakeOverInv'
<1>1. CASE UNCHANGED toVars
  BY <1>1 DEF toVars, TakeOverInv, Typed, CallInv, HistoryInv, Reads, HandOverInv, Down, Starting,
              NeverResumed, RefusalInv, Left, LiveStop
<1>2. CASE \E c \in CallNumbers : OwnerStep(c)
  BY <1>2, OwnerStepKeeps
<1>3. CASE StartStep
  BY <1>3, StartKeeps
<1>4. CASE AroundStep
  BY <1>4, AroundKeeps
<1>5. CASE OwnerClaims \/ OwnerFinishes \/ WorkerExits \/ GatewayGivesUp
           \/ PersonStopsOwner \/ OtherAgentTakesOver \/ PersonResumesOwner
  BY <1>5, BoardKeeps
<1>6. CASE TakeOverAsks \/ ResumeAsks
  BY <1>6, AsksKeep
<1>7. CASE OwnerAnswers
  BY <1>7, AnswerKeeps
<1>8. CASE OwnerUnknown \/ RequesterDies
  BY <1>8, WaitEnds
<1> QED BY <1>1, <1>2, <1>3, <1>4, <1>5, <1>6, <1>7, <1>8 DEF TakeOverNext, StartStep, AroundStep

LEMMA TakeOverInvSound ==
  ASSUME TakeOverInv
  PROVE  TakeOverSound
<1>1. TakeOverTypeOK
  BY TypedIsTypeOK DEF TakeOverInv
<1>2. OneRunner
  BY DEF TakeOverInv, HandOverInv, Down, OneRunner
<1>3. RefusalLeavesNoPause
  BY DEF TakeOverInv, RefusalInv, RefusalLeavesNoPause, Left
<1> QED BY <1>1, <1>2, <1>3 DEF TakeOverSound

\* The delegate's write rests on admitted work alone, whatever calls survive.
AdmissionInv ==
  /\ localTask \in LocalTasks
  /\ issue \in Issues
  /\ localTask.accepted => localTask.receipt
  /\ localTask.routing = "queued" => localTask.accepted

\* The native receipt is for ever, and only an admission follows it.
LEMMA AdmissionKeeps ==
  ASSUME AdmissionInv, [TakeOverNext]_toVars
  PROVE  AdmissionInv'
<1>0. ASSUME UNCHANGED localTask, issue' \in Issues PROVE AdmissionInv'
  BY <1>0 DEF AdmissionInv
<1>i. issue \in Issues
  BY DEF AdmissionInv
<1>1. CASE UNCHANGED <<localTask, issue>>
  BY <1>0, <1>1, <1>i
<1>2. CASE OwnerReports
  <2>1. issue' = [issue EXCEPT !.moved = TRUE] /\ UNCHANGED localTask
    BY <1>2 DEF OwnerReports
  <2>2. issue' \in Issues
    BY <2>1, <1>i DEF Issues
  <2> QED BY <2>1, <2>2, <1>0
<1>3. CASE PersonRoutes
  <2>1. PICK to \in {"owner", "other", "none"} : issue' = [issue EXCEPT !.delegate = to, !.moved = TRUE]
    BY <1>3 DEF PersonRoutes
  <2>2. UNCHANGED localTask
    BY <1>3 DEF PersonRoutes
  <2>3. issue' \in Issues
    BY <2>1, <1>i DEF Issues
  <2> QED BY <2>2, <2>3, <1>0
<1>4. CASE PersonClosesOrReopens
  <2>1. PICK closed \in BOOLEAN : issue' = [issue EXCEPT !.closed = closed, !.moved = TRUE]
    BY <1>4, Zenon DEF PersonClosesOrReopens
  <2>2. UNCHANGED localTask
    BY <1>4 DEF PersonClosesOrReopens
  <2>3. issue' \in Issues
    BY <2>1, <1>i DEF Issues
  <2> QED BY <2>2, <2>3, <1>0
<1> USE DEF AdmissionInv, LocalTasks, Issues
<1>5. CASE LocalClaims \/ LocalFinishes \/ PersonResumesHere
  <2>1. PICK status \in {"ready", "running", "done"} :
          localTask' = [localTask EXCEPT !.status = status] /\ UNCHANGED issue
    BY <1>5 DEF LocalClaims, LocalFinishes, PersonResumesHere, LocalBoard
  <2> QED BY <2>1
<1>6. CASE PersonStopsHere
  <2>1. CASE issue' = [issue EXCEPT !.stopped = TRUE] /\ UNCHANGED localTask
    <3>1. issue' \in Issues
      BY <2>1
    <3> QED BY <2>1, <3>1, <1>0
  <2>2. CASE localTask' = [localTask EXCEPT !.status = "blocked"] /\ UNCHANGED issue
    BY <2>2
  <2> QED BY <1>6, <2>1, <2>2 DEF PersonStopsHere
<1>7. CASE TakeOverAsks
  <2>1. (issue' = [issue EXCEPT !.moved = FALSE] \/ issue' = issue) /\ UNCHANGED localTask
    BY <1>7 DEF TakeOverAsks
  <2>2. issue' \in Issues
    BY <2>1
  <2> QED BY <2>1, <2>2, <1>0
<1>8. CASE EntrustCreates \/ EntrustBinds
  <2>1. CASE localTask' = [localTask EXCEPT !.create = "attempting"] /\ UNCHANGED issue
    BY <2>1
  <2>2. CASE localTask' = [localTask EXCEPT !.status = "blocked", !.create = "applied"] /\ UNCHANGED issue
    BY ZenonT(30), <2>2
  <2> QED BY <1>8, <2>1, <2>2 DEF EntrustCreates, EntrustBinds
<1>9. CASE Admit
  <2>1. CASE UNCHANGED localTask
    BY <1>9, <2>1 DEF Admit
  <2>2. CASE /\ Superseded # "none"
             /\ localTask' = [localTask EXCEPT !.activate = "reconcile", !.by = Superseded,
                               !.routing = IF @ = "queued" THEN "none" ELSE @]
    <3> DEFINE by == Superseded
               routing == IF localTask.routing = "queued" THEN "none" ELSE localTask.routing
    <3>1. by \in {"stop", "closed", "person"}
      BY <2>2 DEF Superseded
    <3>2. routing \in {"none", "sent"}
      OBVIOUS
    <3>3. localTask' = [localTask EXCEPT !.activate = "reconcile", !.by = by, !.routing = routing]
      BY <2>2
    <3> HIDE DEF by, routing
    <3> QED BY ZenonT(30), <1>9, <3>1, <3>2, <3>3 DEF Admit
  <2>3. CASE localTask' = [localTask EXCEPT !.activate = IF Readmittable THEN @ ELSE "attempting"]
    <3> DEFINE activate == IF Readmittable THEN localTask.activate ELSE "attempting"
    <3>1. activate \in {"none", "attempting", "applied", "reconcile"}
      OBVIOUS
    <3>2. localTask' = [localTask EXCEPT !.activate = activate]
      BY <2>3
    <3> HIDE DEF activate
    <3> QED BY <1>9, <3>1, <3>2 DEF Admit
  <2> QED BY <1>9, <2>1, <2>2, <2>3 DEF Admit
<1>10. CASE Activate
  <2>1. CASE localTask' = [localTask EXCEPT !.status = "ready", !.receipt = TRUE] /\ UNCHANGED issue
    BY <2>1
  <2>2. CASE UNCHANGED <<localTask, issue>>
    BY <2>2
  <2> QED BY <1>10, <2>1, <2>2 DEF Activate
<1>11. CASE SettleActivation
  <2>1. CASE localTask.receipt
    <3>1. /\ localTask' = [localTask EXCEPT !.activate = "applied", !.accepted = TRUE, !.by = "none"]
          /\ UNCHANGED issue
      BY <1>11, <2>1 DEF SettleActivation
    <3> QED BY <2>1, <3>1
  <2>2. CASE ~localTask.receipt
    <3>1. /\ localTask' = [localTask EXCEPT !.activate = "reconcile", !.accepted = FALSE,
                                             !.by = "unverified"]
          /\ UNCHANGED issue
      BY <1>11, <2>2 DEF SettleActivation
    <3> QED BY ZenonT(30), <2>2, <3>1
  <2> QED BY <2>1, <2>2
<1>12. CASE Routes
  <2> DEFINE routing == IF localTask.routing = "none" /\ localTask.accepted /\ RoutingAllowed
                           /\ localTask.status # "done" THEN "queued" ELSE localTask.routing
  <2>1. routing \in {"none", "queued", "sent"} /\ (routing = "queued" => localTask.accepted)
    OBVIOUS
  <2>2. localTask' = [localTask EXCEPT !.routing = routing] /\ UNCHANGED issue
    BY <1>12 DEF Routes
  <2> HIDE DEF routing
  <2> QED BY <2>1, <2>2
<1>13. CASE RecoverAdmission \/ RecoverDelegate
  <2>1. CASE /\ localTask.receipt /\ UNCHANGED issue
             /\ localTask' = [localTask EXCEPT !.activate = "applied", !.accepted = TRUE]
    BY <2>1
  <2>2. CASE /\ localTask.accepted /\ UNCHANGED issue
             /\ localTask' = [localTask EXCEPT !.routing = "queued"]
    BY <2>2
  <2> QED BY <1>13, <2>1, <2>2 DEF RecoverAdmission, RecoverDelegate, Tick
<1>14. CASE SendDelegate
  <2>1. PICK routing \in {"none", "sent"} : localTask' = [localTask EXCEPT !.routing = routing]
    BY <1>14 DEF SendDelegate, Tick
  <2>2. issue' = issue \/ issue' = [issue EXCEPT !.delegate = "self"]
    BY <1>14 DEF SendDelegate, Tick
  <2>3. issue' \in Issues
    BY <2>2
  <2>4. localTask' \in LocalTasks /\ (localTask'.accepted => localTask'.receipt)
        /\ localTask'.routing # "queued"
    BY <2>1
  <2> QED BY <2>3, <2>4
<1>15. \/ UNCHANGED <<localTask, issue>> \/ OwnerReports \/ PersonRoutes \/ PersonClosesOrReopens
       \/ LocalClaims \/ LocalFinishes \/ PersonResumesHere \/ PersonStopsHere \/ TakeOverAsks
       \/ EntrustCreates \/ EntrustBinds \/ Admit \/ Activate \/ SettleActivation \/ Routes
       \/ RecoverAdmission \/ RecoverDelegate \/ SendDelegate
  <2>1. OwnerClaims \/ OwnerFinishes \/ WorkerExits \/ GatewayGivesUp \/ PersonStopsOwner
          \/ OtherAgentTakesOver \/ PersonResumesOwner => UNCHANGED <<localTask, issue>>
    BY DEF OwnerClaims, OwnerFinishes, WorkerExits, GatewayGivesUp, PersonStopsOwner,
           OtherAgentTakesOver, PersonResumesOwner, OwnerBoard
  <2>2. (\E c \in CallNumbers : OwnerStep(c)) => UNCHANGED <<localTask, issue>>
    BY DEF OwnerStep, OwnerLocks, HandOffChecks, HandOffStops, HandOffVerifies, ResolveUnknown,
           HandOffProves, ResumeChecks, ResumeUnblocks, ServedElsewhere
  <2>3. ResumeAsks \/ OwnerAnswers \/ OwnerUnknown \/ RequesterDies \/ EntrustRefuses
          \/ EntrustReuses \/ StartRaises \/ StartFails => UNCHANGED <<localTask, issue>>
    BY DEF ResumeAsks, OwnerAnswers, OwnerUnknown, RequesterDies, EntrustRefuses, EntrustReuses,
           StartRaises, StartFails
  <2> QED BY <2>1, <2>2, <2>3 DEF TakeOverNext, toVars
<1> QED BY <1>1, <1>2, <1>3, <1>4, <1>5, <1>6, <1>7, <1>8, <1>9, <1>10, <1>11, <1>12, <1>13,
           <1>14, <1>15

\* Only the tick's write makes this agent the delegate.
LEMMA WriteIsAdmitted ==
  ASSUME AdmissionInv, [TakeOverNext]_toVars, issue.delegate # "self", issue'.delegate = "self"
  PROVE  localTask.accepted /\ ~issue.moved /\ ~issue.closed
<1>0. issue \in Issues /\ (localTask.routing = "queued" => localTask.accepted)
  BY DEF AdmissionInv
<1>1. CASE SendDelegate
  <2>1. localTask.routing = "queued" /\ RoutingAllowed
    BY <1>1 DEF SendDelegate
  <2> QED BY <1>0, <2>1 DEF RoutingAllowed
<1>2. CASE UNCHANGED issue
  BY <1>2
<1>3. CASE OwnerReports
  <2>1. issue' = [issue EXCEPT !.moved = TRUE]
    BY <1>3 DEF OwnerReports
  <2> QED BY <1>0, <2>1 DEF Issues
<1>4. CASE PersonRoutes
  <2>1. \E to \in {"owner", "other", "none"} : issue' = [issue EXCEPT !.delegate = to, !.moved = TRUE]
    BY <1>4 DEF PersonRoutes
  <2> QED BY <1>0, <2>1 DEF Issues
<1>5. CASE PersonClosesOrReopens
  <2>1. issue' = [issue EXCEPT !.closed = ~issue.closed, !.moved = TRUE]
    BY <1>5 DEF PersonClosesOrReopens
  <2> QED BY <1>0, <2>1 DEF Issues
<1>6. CASE PersonStopsHere
  <2>1. issue' = [issue EXCEPT !.stopped = TRUE] \/ issue' = issue
    BY <1>6 DEF PersonStopsHere
  <2> QED BY <1>0, <2>1 DEF Issues
<1>7. CASE TakeOverAsks
  <2>1. issue' = [issue EXCEPT !.moved = FALSE] \/ issue' = issue
    BY <1>7 DEF TakeOverAsks
  <2> QED BY <1>0, <2>1 DEF Issues
<1>8. \/ SendDelegate \/ UNCHANGED issue \/ OwnerReports \/ PersonRoutes \/ PersonClosesOrReopens
      \/ PersonStopsHere \/ TakeOverAsks
  <2>1. OwnerClaims \/ OwnerFinishes \/ WorkerExits \/ GatewayGivesUp \/ PersonStopsOwner
          \/ OtherAgentTakesOver \/ PersonResumesOwner => UNCHANGED issue
    BY DEF OwnerClaims, OwnerFinishes, WorkerExits, GatewayGivesUp, PersonStopsOwner,
           OtherAgentTakesOver, PersonResumesOwner, OwnerBoard
  <2>2. (\E c \in CallNumbers : OwnerStep(c)) => UNCHANGED issue
    BY DEF OwnerStep, OwnerLocks, HandOffChecks, HandOffStops, HandOffVerifies, ResolveUnknown,
           HandOffProves, ResumeChecks, ResumeUnblocks, ServedElsewhere
  <2>3. LocalClaims \/ LocalFinishes \/ PersonResumesHere \/ RecoverAdmission \/ RecoverDelegate
          => UNCHANGED issue
    BY DEF LocalClaims, LocalFinishes, PersonResumesHere, LocalBoard, RecoverAdmission, RecoverDelegate
  <2>4. ResumeAsks \/ OwnerAnswers \/ OwnerUnknown \/ RequesterDies => UNCHANGED issue
    BY DEF ResumeAsks, OwnerAnswers, OwnerUnknown, RequesterDies
  <2>5. StartStep => UNCHANGED issue
    BY DEF StartStep, EntrustRefuses, EntrustCreates, EntrustReuses, EntrustBinds, Admit, Activate,
           SettleActivation, Routes, StartRaises, StartFails
  <2> QED BY <2>1, <2>2, <2>3, <2>4, <2>5 DEF TakeOverNext, StartStep, toVars
<1> QED BY <1>1, <1>2, <1>3, <1>4, <1>5, <1>6, <1>7, <1>8

\* However calls, timeouts, crashes and people's moves interleave, an issue's work
\* has one runner and a refusal has left no pause, when a resume does not outlive
\* its requester's wait.
THEOREM OneRunnerPerIssue == ResumeWaits => (TakeOverSpec => []TakeOverSound)
<1> SUFFICES ASSUME ResumeWaits PROVE TakeOverSpec => []TakeOverSound
  OBVIOUS
<1>1. TakeOverInit => TakeOverInv
  BY TakeOverInvHolds
<1>2. TakeOverInv /\ [TakeOverNext]_toVars => TakeOverInv'
  BY TakeOverStep
<1>3. TakeOverInv => TakeOverSound
  BY TakeOverInvSound
<1> QED BY <1>1, <1>2, <1>3, PTL DEF TakeOverSpec

\* Linear shows this agent as delegate by its own write only for work admitted here
\* and over no person's change, whatever outlives whom.
THEOREM DelegateIsAdmitted == TakeOverSpec => DelegateFollowsAdmission
<1> DEFINE Written == issue.delegate # "self" /\ issue'.delegate = "self"
                        => localTask.accepted /\ ~issue.moved /\ ~issue.closed
<1>1. TakeOverInit => AdmissionInv
  BY DEF TakeOverInit, TakeOverIdle, AdmissionInv, LocalTasks, Issues
<1>2. AdmissionInv /\ [TakeOverNext]_toVars => AdmissionInv'
  BY AdmissionKeeps
<1>3. AdmissionInv /\ [TakeOverNext]_toVars => [Written]_toVars
  BY WriteIsAdmitted
<1> QED BY <1>1, <1>2, <1>3, PTL DEF TakeOverSpec, DelegateFollowsAdmission
=============================================================================
