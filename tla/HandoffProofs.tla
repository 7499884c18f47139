---------------------------- MODULE HandoffProofs ----------------------------
(***************************************************************************)
(* A human who drives an agent's browser drives it alone, and the sessions    *)
(* keep the fence of RestLock, for any numbers of requests, users and         *)
(* sessions, while no End begins during its session's revocation.             *)
(***************************************************************************)
EXTENDS HandoffSession, TLAPS

-----------------------------------------------------------------------------
(* The inductive invariant.                                                  *)

\* The session exists and is not over.
Live(s) == sess[s].state \notin Terminal \cup {"unused"}

Ops == {"free", "button", "button held", "connect", "connect held",
        "input", "output", "observing", "finish", "storing", "revoking"}
Terms == {"none", "closing", "draining", "retained", "released"}
Revokes == {"no", "waiting", "fencing"}
Requesting == req \in [Requests -> {"idle", "body", "gate", "shared", "forwarding"}]

\* A terminal cleanup is at work exactly on an ending session, a revocation on
\* one that is not; only the cleanup's last phases are outside the action_lock.
Threads(s) ==
  /\ term[s] # "none" <=> sess[s].state = "ending"
  /\ term[s] # "none" => revoke[s] = "no"
  /\ revoke[s] = "waiting" <=> sess[s].state = "revoking"
  /\ revoke[s] = "fencing" <=> op[s] = "revoking"
  /\ revoke[s] = "fencing" => sess[s].state = "revoked"
  /\ op[s] \notin {"free", "revoking"} => Live(s)
  /\ op[s] \in {"finish", "storing"} => term[s] = "draining"
  /\ term[s] \in {"retained", "released"} => op[s] = "free"

\* A viewer of a session in takeover mode has had the takeover confirmed.
Viewing(s) ==
  /\ op[s] \in {"connect", "connect held"} => sess[s].mode = "takeover"
  /\ op[s] = "input" => sess[s].confirmed /\ sess[s].mode = "takeover"
  /\ sess[s].viewer # "none" /\ sess[s].mode = "takeover" => sess[s].confirmed

\* What releases an inherited marker has taken the fence itself; eligibility is
\* that of the End at work.
Entitled(s) ==
  /\ op[s] = "observing" /\ inherited => sess[s].confirmed
  /\ op[s] = "storing" /\ inherited => sess[s].confirmed /\ sess[s].target = "ended"
  /\ inherited /\ eligible = s
       => op[s] = "finish" /\ sess[s].confirmed /\ sess[s].target = "ended"

\* The marker is up from before the drain until the human is gone, and nobody
\* has been inside since the drain.
Fenced(s) ==
  /\ Waiting(s) \/ Held(s) => marker
  /\ Held(s) => \A r \in Requests : req[r] \notin {"shared", "forwarding"}
  /\ Drives(s) => marker /\ \A r \in Requests : req[r] # "forwarding"

HandoffInv ==
  /\ TypeOK /\ Requesting
  /\ \A s \in Sessions : Threads(s) /\ Viewing(s) /\ Entitled(s) /\ Fenced(s)
  /\ OneOwner

\* The step leaves every other session alone.
Touches(s) ==
  \A t \in Sessions \ {s} :
    sess'[t] = sess[t] /\ op'[t] = op[t] /\ term'[t] = term[t] /\ revoke'[t] = revoke[t]

\* Nobody inherits a marker while it is being released, and only this session
\* may become eligible.
Inherits(s) ==
  \/ (inherited' => inherited) /\ eligible' \in {eligible, NoSession, s}
  \/ LifecycleFree /\ eligible' = NoSession

Control == \E s \in Sessions : Drives(s)
fenceVars == <<marker, req, Hold, Control>>

\* The step is one of the fence, or none.
OfFence == Fence!RestNext \/ UNCHANGED fenceVars

-----------------------------------------------------------------------------
(* What the invariant says of the other sessions.                            *)

\* While one session is live, no other is, and none uses the fence.
LEMMA Alone ==
  ASSUME HandoffInv, NEW s \in Sessions, NEW t \in Sessions, s # t, Live(s)
  PROVE  ~Live(t) /\ op[t] \in {"free", "revoking"} /\ ~Waiting(t) /\ ~Held(t) /\ ~Drives(t)
<1>1. active = s
  BY DEF HandoffInv, OneOwner, Live
<1>2. ~Live(t)
  BY <1>1 DEF HandoffInv, OneOwner, Live
<1>3. op[t] \in {"free", "revoking"}
  BY <1>2 DEF HandoffInv, Threads
<1> QED BY <1>2, <1>3 DEF Waiting, Held, Drives, Live

\* Another session's part of the invariant and of the fence does not move.
LEMMA OthersKeep ==
  ASSUME HandoffInv, NEW s \in Sessions, Touches(s), NEW t \in Sessions, s # t
  PROVE  /\ Threads(t)' /\ Viewing(t)'
         /\ (Live(t)' <=> Live(t)) /\ (Waiting(t)' <=> Waiting(t)) /\ (Held(t)' <=> Held(t))
         /\ (Drives(t)' <=> Drives(t))
<1>1. Threads(t) /\ Viewing(t)
  BY DEF HandoffInv
<1>2. sess'[t] = sess[t] /\ op'[t] = op[t] /\ term'[t] = term[t] /\ revoke'[t] = revoke[t]
  BY DEF Touches
<1> QED BY <1>1, <1>2 DEF Threads, Viewing, Live, Waiting, Held, Drives

\* Hold and Control, by the one session that may use the fence.
LEMMA HoldOf ==
  ASSUME NEW s \in Sessions, \A t \in Sessions \ {s} : ~Waiting(t) /\ ~Held(t) /\ ~Drives(t)
  PROVE  /\ Hold = IF Held(s) THEN "held" ELSE IF Waiting(s) THEN "waiting" ELSE "none"
         /\ Control = Drives(s)
BY DEF Hold, Control, Held, Waiting, Drives

-----------------------------------------------------------------------------
(* Steps by what they do to the fence.                                       *)

\* A step that moves neither marker nor flock, and nobody's control.
LEMMA QuietKeeps ==
  ASSUME HandoffInv, TypeOK', NEW s \in Sessions, Touches(s),
         UNCHANGED <<marker, req, active>>, Inherits(s),
         Threads(s)', Viewing(s)', Entitled(s)',
         Live(s)' <=> Live(s), Waiting(s)' <=> Waiting(s), Held(s)' <=> Held(s),
         Drives(s)' <=> Drives(s)
  PROVE  HandoffInv' /\ OfFence
<1>1. ASSUME NEW t \in Sessions
      PROVE  /\ Threads(t)' /\ Viewing(t)' /\ Entitled(t)'
             /\ (Live(t)' <=> Live(t)) /\ (Waiting(t)' <=> Waiting(t)) /\ (Held(t)' <=> Held(t))
             /\ (Drives(t)' <=> Drives(t))
  <2>1. CASE t = s
    BY <2>1
  <2>2. CASE t # s
    <3>1. Entitled(t)
      BY DEF HandoffInv
    <3>2. sess'[t] = sess[t] /\ op'[t] = op[t]
      BY <2>2 DEF Touches
    <3>3. t # NoSession
      BY DEF Sessions, NoSession
    <3>4. Entitled(t)'
      BY <2>2, <3>1, <3>2, <3>3 DEF Entitled, Inherits, LifecycleFree
    <3> QED BY <2>2, <3>4, OthersKeep
  <2> QED BY <2>1, <2>2
<1>2. \A t \in Sessions : Fenced(t)'
  BY <1>1 DEF HandoffInv, Fenced
<1>3. OneOwner'
  BY <1>1 DEF HandoffInv, OneOwner, Live
<1>4. Requesting'
  BY DEF HandoffInv, Requesting
<1>5. UNCHANGED fenceVars
  BY <1>1 DEF fenceVars, Hold, Control
<1> QED BY <1>1, <1>2, <1>3, <1>4, <1>5 DEF HandoffInv, OfFence

\* This session's use of the flock.
HoldsFlock(s) == IF Held(s) THEN "held" ELSE IF Waiting(s) THEN "waiting" ELSE "none"

\* A step of the live session: no other one stands in the way of the fence.
LEMMA LiveKeeps ==
  ASSUME HandoffInv, TypeOK', NEW s \in Sessions, Touches(s), Live(s),
         UNCHANGED req, Inherits(s),
         Threads(s)', Viewing(s)', Entitled(s)', Fenced(s)',
         (Live(s)' /\ active' = active) \/ (~Live(s)' /\ active' = NoSession)
  PROVE  /\ HandoffInv'
         /\ Hold = HoldsFlock(s) /\ Hold' = HoldsFlock(s)'
         /\ Control = Drives(s) /\ Control' = Drives(s)'
<1>1. ASSUME NEW t \in Sessions, t # s
      PROVE  /\ Threads(t)' /\ Viewing(t)' /\ Entitled(t)' /\ Fenced(t)'
             /\ ~Live(t) /\ ~Live(t)' /\ ~Waiting(t) /\ ~Held(t) /\ ~Drives(t)
             /\ ~Waiting(t)' /\ ~Held(t)' /\ ~Drives(t)'
  <2>1. ~Live(t) /\ ~Waiting(t) /\ ~Held(t) /\ ~Drives(t) /\ op[t] \in {"free", "revoking"}
    BY <1>1, Alone
  <2>2. ~Live(t)' /\ ~Waiting(t)' /\ ~Held(t)' /\ ~Drives(t)' /\ Threads(t)' /\ Viewing(t)'
    BY <1>1, <2>1, OthersKeep
  <2>3. Entitled(t)
    BY DEF HandoffInv
  <2>4. sess'[t] = sess[t] /\ op'[t] = op[t] /\ t # NoSession
    BY <1>1 DEF Touches, Sessions, NoSession
  <2>5. Entitled(t)'
    BY <1>1, <2>3, <2>4 DEF Entitled, Inherits, LifecycleFree
  <2> QED BY <2>1, <2>2, <2>5 DEF Fenced
<1>2. \A t \in Sessions : Threads(t)' /\ Viewing(t)' /\ Entitled(t)' /\ Fenced(t)'
  BY <1>1
<1>3. active = s
  BY DEF HandoffInv, OneOwner, Live
<1>4. OneOwner'
  <2>1. s # NoSession
    BY DEF Sessions, NoSession
  <2> QED BY <1>1, <1>3, <2>1 DEF OneOwner, Live, Sessions, NoSession
<1>5. Requesting'
  BY DEF HandoffInv, Requesting
<1>6. HandoffInv'
  BY <1>2, <1>4, <1>5 DEF HandoffInv
<1>7. Hold = HoldsFlock(s) /\ Control = Drives(s)
  BY <1>1, HoldOf DEF HoldsFlock
<1>8. Hold' = HoldsFlock(s)' /\ Control' = Drives(s)'
  BY <1>1 DEF HoldsFlock, Hold, Control, Held, Waiting, Drives
<1> QED BY <1>6, <1>7, <1>8

-----------------------------------------------------------------------------
(* One session's steps.                                                      *)

\* What a session's record becomes is all that happens to the records.
LEMMA RecordMoves ==
  ASSUME TypeOK, NEW s \in Sessions, NEW rec \in Session, sess' = [sess EXCEPT ![s] = rec]
  PROVE  /\ sess' \in [Sessions -> Session]
         /\ sess'[s] = rec
         /\ \A t \in Sessions \ {s} : sess'[t] = sess[t]
BY DEF TypeOK

\* The invariant at one session.
LEMMA Here ==
  ASSUME HandoffInv, NEW s \in Sessions
  PROVE  /\ TypeOK /\ Threads(s) /\ Viewing(s) /\ Entitled(s) /\ Fenced(s)
         /\ sess[s] \in Session /\ op[s] \in Ops /\ term[s] \in Terms /\ revoke[s] \in Revokes
BY DEF HandoffInv, TypeOK, Ops, Terms, Revokes

\* Input and screen take the action_lock and give it back.
LEMMA ForwardingKeeps ==
  ASSUME HandoffInv, NEW s \in Sessions, SendInput(s) \/ InputSent(s) \/ SendScreen(s) \/ ScreenSent(s)
  PROVE  HandoffInv' /\ OfFence
<1>a. TypeOK
  BY Here
<1>b. Threads(s)
  BY Here
<1>c. Viewing(s)
  BY Here
<1>d. Entitled(s)
  BY Here
<1>e. PICK o \in Ops : op' = [op EXCEPT ![s] = o]
  BY <1>a DEF TypeOK, Ops, SendInput, InputSent, SendScreen, ScreenSent, Became, MayConnect,
       policyVars, lifeVars, proxyVars
<1>f. op'[s] = o /\ op' \in [Sessions -> Ops] /\ \A t \in Sessions \ {s} : op'[t] = op[t]
  BY <1>a, <1>e DEF TypeOK, Ops
<1>1. /\ sess' = sess /\ term' = term /\ revoke' = revoke /\ UNCHANGED lifeVars
      /\ op[s] \in {"free", "input", "output"} /\ op'[s] \in {"free", "input", "output"}
      /\ op'[s] # "free" => sess[s].state \in {"active", "recovery_required"} /\ op[s] = "free"
      /\ op'[s] = "input" => sess[s].viewer # "none" /\ sess[s].mode = "takeover"
  BY <1>a, <1>f DEF TypeOK, SendInput, InputSent, SendScreen, ScreenSent, Became, MayConnect,
       policyVars, lifeVars, proxyVars
<1>2. UNCHANGED <<marker, req, active, policyVars>> /\ Inherits(s)
  BY DEF Inherits, SendInput, InputSent, SendScreen, ScreenSent, Became, MayConnect, policyVars,
       lifeVars, proxyVars
<1>3. TypeOK' /\ Touches(s)
  <2>1. revoke' \in [Sessions -> Revokes] /\ \A t \in Sessions \ {s} : revoke'[t] = revoke[t]
    BY <1>a, <1>1 DEF TypeOK, Revokes, SendInput, InputSent, SendScreen, ScreenSent, Became,
         MayConnect, policyVars, lifeVars, proxyVars
  <2>2. inherited' \in BOOLEAN /\ eligible' \in Sessions \cup {NoSession}
    BY <1>a DEF TypeOK, SendInput, InputSent, SendScreen, ScreenSent, Became, MayConnect,
         policyVars, lifeVars, proxyVars
  <2> QED BY <1>a, <1>f, <1>1, <1>2, <2>1, <2>2 DEF TypeOK, Touches, Ops, Revokes, policyVars
<1>4. Threads(s)'
  BY <1>b, <1>1 DEF Threads, Live, Terminal
<1>5. Viewing(s)'
  BY <1>c, <1>1 DEF Viewing
<1>6. Entitled(s)'
  BY <1>d, <1>1 DEF Entitled, Sessions, NoSession, lifeVars
<1>7. (Live(s)' <=> Live(s))
  BY <1>1 DEF Live
<1>8. (Waiting(s)' <=> Waiting(s)) /\ (Held(s)' <=> Held(s))
  <2>1. ~Waiting(s) /\ ~Held(s) /\ ~Waiting(s)' /\ ~Held(s)'
    BY <1>1 DEF Waiting, Held
  <2> QED BY <2>1
<1>9. (Drives(s)' <=> Drives(s))
  BY <1>1 DEF Drives
<1> QED BY <1>2, <1>3, <1>4, <1>5, <1>6, <1>7, <1>8, <1>9, QuietKeeps

\* A release begins to save, or keeps the fence.
LEMMA ObserveBeginsKeeps ==
  ASSUME HandoffInv, NEW s \in Sessions, ObserveFails(s) \/ (Observe(s) /\ marker)
  PROVE  HandoffInv' /\ OfFence
<1>a. TypeOK
  BY Here
<1>b. Threads(s)
  BY Here
<1>c. Viewing(s)
  BY Here
<1>d. Entitled(s)
  BY Here
<1>e. PICK o \in Ops : op' = [op EXCEPT ![s] = o]
  BY <1>a DEF TypeOK, Ops, ObserveFails, Observe, Became, MayConnect, policyVars, lifeVars,
       proxyVars
<1>f. op'[s] = o /\ op' \in [Sessions -> Ops] /\ \A t \in Sessions \ {s} : op'[t] = op[t]
  BY <1>a, <1>e DEF TypeOK, Ops
<1>1. /\ sess' = sess /\ term' = term /\ revoke' = revoke /\ UNCHANGED lifeVars
      /\ \/ op[s] = "observing" /\ op'[s] = "free"
         \/ /\ op[s] = "free" /\ op'[s] = "observing"
            /\ sess[s].state \in {"active", "recovery_required"}
            /\ inherited => sess[s].confirmed
  BY <1>a, <1>f DEF TypeOK, ObserveFails, Observe, Became, MayConnect, policyVars, lifeVars,
       proxyVars
<1>2. UNCHANGED <<marker, req, active, policyVars>> /\ Inherits(s)
  BY DEF Inherits, ObserveFails, Observe, Became, MayConnect, policyVars, lifeVars, proxyVars
<1>3. TypeOK' /\ Touches(s)
  <2>1. revoke' \in [Sessions -> Revokes] /\ \A t \in Sessions \ {s} : revoke'[t] = revoke[t]
    BY <1>a, <1>1 DEF TypeOK, Revokes, ObserveFails, Observe, Became, MayConnect, policyVars,
         lifeVars, proxyVars
  <2>2. inherited' \in BOOLEAN /\ eligible' \in Sessions \cup {NoSession}
    BY <1>a DEF TypeOK, ObserveFails, Observe, Became, MayConnect, policyVars, lifeVars, proxyVars
  <2> QED BY <1>a, <1>f, <1>1, <1>2, <2>1, <2>2 DEF TypeOK, Touches, Ops, Revokes, policyVars
<1>4. Threads(s)'
  BY <1>b, <1>1 DEF Threads, Live, Terminal
<1>5. Viewing(s)'
  BY <1>c, <1>1 DEF Viewing
<1>6. Entitled(s)'
  BY <1>d, <1>1 DEF Entitled, Sessions, NoSession, lifeVars
<1>7. (Live(s)' <=> Live(s))
  BY <1>1 DEF Live
<1>8. (Waiting(s)' <=> Waiting(s)) /\ (Held(s)' <=> Held(s))
  <2>1. ~Waiting(s) /\ ~Held(s) /\ ~Waiting(s)' /\ ~Held(s)'
    BY <1>1 DEF Waiting, Held
  <2> QED BY <2>1
<1>9. (Drives(s)' <=> Drives(s))
  BY <1>1 DEF Drives
<1> QED BY <1>2, <1>3, <1>4, <1>5, <1>6, <1>7, <1>8, <1>9, QuietKeeps

\* An End notes that it may release what it has taken.
LEMMA TransitionKeeps ==
  ASSUME HandoffInv, NEW s \in Sessions, Transition(s)
  PROVE  HandoffInv' /\ OfFence
<1>a. TypeOK
  BY Here
<1>b. Threads(s)
  BY Here
<1>c. Viewing(s)
  BY Here
<1>d. Entitled(s)
  BY Here
<1>e. PICK o \in Ops : op' = [op EXCEPT ![s] = o]
  BY <1>a DEF TypeOK, Ops, Transition, Became, policyVars, lifeVars, proxyVars, NoSession, Sessions
<1>f. op'[s] = o /\ op' \in [Sessions -> Ops] /\ \A t \in Sessions \ {s} : op'[t] = op[t]
  BY <1>a, <1>e DEF TypeOK, Ops
<1>1. /\ sess' = sess /\ term' = term /\ revoke' = revoke /\ inherited' = inherited
      /\ term[s] = "draining" /\ op[s] = "free" /\ op'[s] = "finish"
      /\ eligible' = s => eligible = s \/ (sess[s].target = "ended" /\ sess[s].confirmed)
  BY <1>a, <1>f DEF TypeOK, Transition, Became, policyVars, lifeVars, proxyVars, NoSession, Sessions
<1>2. UNCHANGED <<marker, req, active, policyVars>> /\ Inherits(s)
  BY DEF Inherits, Transition, Became, policyVars, lifeVars, proxyVars, NoSession, Sessions
<1>3. TypeOK' /\ Touches(s)
  <2>1. revoke' \in [Sessions -> Revokes] /\ \A t \in Sessions \ {s} : revoke'[t] = revoke[t]
    BY <1>a, <1>1 DEF TypeOK, Revokes, Transition, Became, policyVars, lifeVars, proxyVars,
         NoSession, Sessions
  <2>2. inherited' \in BOOLEAN /\ eligible' \in Sessions \cup {NoSession}
    BY <1>a DEF TypeOK, Transition, Became, policyVars, lifeVars, proxyVars, NoSession, Sessions
  <2> QED BY <1>a, <1>f, <1>1, <1>2, <2>1, <2>2 DEF TypeOK, Touches, Ops, Revokes, policyVars
<1>4. Threads(s)'
  BY <1>b, <1>1 DEF Threads, Live, Terminal
<1>5. Viewing(s)'
  BY <1>c, <1>1 DEF Viewing
<1>6. Entitled(s)'
  BY <1>d, <1>1 DEF Entitled, Sessions, NoSession, lifeVars
<1>7. (Live(s)' <=> Live(s))
  BY <1>1 DEF Live
<1>8. (Waiting(s)' <=> Waiting(s)) /\ (Held(s)' <=> Held(s))
  <2>1. ~Waiting(s) /\ ~Held(s) /\ ~Waiting(s)' /\ ~Held(s)'
    BY <1>1 DEF Waiting, Held
  <2> QED BY <2>1
<1>9. (Drives(s)' <=> Drives(s))
  BY <1>1 DEF Drives
<1> QED BY <1>2, <1>3, <1>4, <1>5, <1>6, <1>7, <1>8, <1>9, QuietKeeps

\* A revoked session's marker is kept for the next one.
LEMMA RetainKeeps ==
  ASSUME HandoffInv, NEW s \in Sessions, Retain(s)
  PROVE  HandoffInv' /\ OfFence
<1>a. TypeOK
  BY Here
<1>b. Threads(s)
  BY Here
<1>c. Viewing(s)
  BY Here
<1>d. Entitled(s)
  BY Here
<1>e. PICK o \in Ops : op' = [op EXCEPT ![s] = o]
  BY <1>a DEF TypeOK, Ops, Retain, Became, policyVars, lifeVars, proxyVars, NoSession, Sessions,
       LifecycleFree
<1>f. op'[s] = o /\ op' \in [Sessions -> Ops] /\ \A t \in Sessions \ {s} : op'[t] = op[t]
  BY <1>a, <1>e DEF TypeOK, Ops
<1>1. /\ sess' = sess /\ term' = term /\ op[s] = "revoking" /\ op'[s] = "free"
      /\ revoke[s] = "fencing" /\ revoke'[s] = "no" /\ eligible' = NoSession
  BY <1>a, <1>f DEF TypeOK, Retain, Became, policyVars, lifeVars, proxyVars, NoSession, Sessions,
       LifecycleFree
<1>2. UNCHANGED <<marker, req, active, policyVars>> /\ Inherits(s)
  BY DEF Inherits, Retain, Became, policyVars, lifeVars, proxyVars, NoSession, Sessions,
       LifecycleFree
<1>3. TypeOK' /\ Touches(s)
  <2>1. revoke' \in [Sessions -> Revokes] /\ \A t \in Sessions \ {s} : revoke'[t] = revoke[t]
    BY <1>a, <1>1 DEF TypeOK, Revokes, Retain, Became, policyVars, lifeVars, proxyVars,
         NoSession, Sessions, LifecycleFree
  <2>2. inherited' \in BOOLEAN /\ eligible' \in Sessions \cup {NoSession}
    BY <1>a DEF TypeOK, Retain, Became, policyVars, lifeVars, proxyVars, NoSession, Sessions,
         LifecycleFree
  <2> QED BY <1>a, <1>f, <1>1, <1>2, <2>1, <2>2 DEF TypeOK, Touches, Ops, Revokes, policyVars
<1>4. Threads(s)'
  BY <1>b, <1>1 DEF Threads, Live, Terminal
<1>5. Viewing(s)'
  BY <1>c, <1>1 DEF Viewing
<1>6. Entitled(s)'
  BY <1>d, <1>1 DEF Entitled, Sessions, NoSession, lifeVars
<1>7. (Live(s)' <=> Live(s))
  BY <1>1 DEF Live
<1>8. (Waiting(s)' <=> Waiting(s)) /\ (Held(s)' <=> Held(s))
  <2>1. ~Waiting(s) /\ ~Held(s) /\ ~Waiting(s)' /\ ~Held(s)'
    BY <1>1 DEF Waiting, Held
  <2> QED BY <2>1
<1>9. (Drives(s)' <=> Drives(s))
  BY <1>1 DEF Drives
<1> QED BY <1>2, <1>3, <1>4, <1>5, <1>6, <1>7, <1>8, <1>9, QuietKeeps

\* A session's time passes, or is prolonged.
LEMMA TimeKeeps ==
  ASSUME HandoffInv, NEW s \in Sessions, Pass(s) \/ Visit(s)
  PROVE  HandoffInv' /\ OfFence
<1>a. TypeOK /\ sess[s] \in Session
  BY Here
<1>b. Threads(s)
  BY Here
<1>c. Viewing(s)
  BY Here
<1>d. Entitled(s)
  BY Here
<1>0. PICK late \in BOOLEAN : sess' = [sess EXCEPT ![s].late = late]
  BY DEF Pass, Visit
<1> DEFINE r == [sess[s] EXCEPT !.late = late]
<1>e. /\ r \in Session /\ sess' = [sess EXCEPT ![s] = r]
      /\ r.state = sess[s].state /\ r.target = sess[s].target
      /\ r.confirmed = sess[s].confirmed /\ r.mode = sess[s].mode /\ r.viewer = sess[s].viewer
  BY <1>a, <1>0 DEF Session, Pass, Visit
<1> HIDE DEF r
<1>f. /\ sess' \in [Sessions -> Session] /\ sess'[s] = r
      /\ \A t \in Sessions \ {s} : sess'[t] = sess[t]
  BY <1>a, <1>e, RecordMoves
<1>1. op' = op /\ term' = term /\ revoke' = revoke
  BY <1>a, <1>b DEF TypeOK, Threads, Pass, Visit, policyVars, lifeVars, proxyVars
<1>2. UNCHANGED <<marker, req, active, policyVars, lifeVars>> /\ Inherits(s)
  <2>1. UNCHANGED <<marker, req, active, policyVars, lifeVars>>
    BY DEF Pass, Visit, policyVars, lifeVars, proxyVars
  <2> QED BY <2>1 DEF Inherits, lifeVars
<1>3. TypeOK' /\ Touches(s)
  <2>1. op' \in [Sessions -> Ops] /\ \A t \in Sessions \ {s} : op'[t] = op[t]
    BY <1>a DEF TypeOK, Ops, Pass, Visit, policyVars, lifeVars, proxyVars
  <2>2. /\ term' \in [Sessions -> Terms] /\ \A t \in Sessions \ {s} : term'[t] = term[t]
        /\ revoke' \in [Sessions -> Revokes] /\ \A t \in Sessions \ {s} : revoke'[t] = revoke[t]
    BY <1>a DEF TypeOK, Terms, Revokes, Pass, Visit, policyVars, lifeVars, proxyVars
  <2> QED BY <1>a, <1>f, <1>2, <2>1, <2>2 DEF TypeOK, Touches, Ops, Terms, Revokes, policyVars,
               lifeVars
<1>4. Threads(s)'
  BY <1>b, <1>e, <1>f, <1>1 DEF Threads, Live, Terminal
<1>5. Viewing(s)'
  BY <1>c, <1>e, <1>f, <1>1 DEF Viewing
<1>6. Entitled(s)'
  BY <1>b, <1>d, <1>e, <1>f, <1>1, <1>2 DEF Entitled, Threads, lifeVars
<1>7. Live(s)' <=> Live(s)
  BY <1>e, <1>f, <1>1 DEF Live, Terminal
<1>8. (Waiting(s)' <=> Waiting(s)) /\ (Held(s)' <=> Held(s))
  BY <1>1 DEF Waiting, Held
<1>9. Drives(s)' <=> Drives(s)
  BY <1>b, <1>e, <1>f, <1>1 DEF Drives, Threads, Terminal
<1> QED BY <1>2, <1>3, <1>4, <1>5, <1>6, <1>7, <1>8, <1>9, QuietKeeps

\* A viewer comes to an observing session, is attached, goes or is closed.
LEMMA ViewerKeeps ==
  ASSUME HandoffInv, NEW s \in Sessions,
         (Connect(s) /\ sess[s].mode = "observe") \/ Attach(s) \/ Detach(s) \/ Close(s)
  PROVE  HandoffInv' /\ OfFence
<1>a. TypeOK /\ sess[s] \in Session
  BY Here
<1>b. Threads(s)
  BY Here
<1>c. Viewing(s)
  BY Here
<1>d. Entitled(s)
  BY Here
<1>0. PICK v \in {"none", "opening", "open"} :
        /\ sess' = [sess EXCEPT ![s].viewer = v]
        /\ v # "none" => sess[s].viewer # "none" \/ sess[s].mode = "observe"
  <2>1. CASE Connect(s) /\ sess[s].mode = "observe"
    BY <2>1 DEF Connect
  <2>2. CASE Attach(s)
    BY <2>2 DEF Attach
  <2>3. CASE Detach(s)
    BY <2>3 DEF Detach
  <2>4. CASE Close(s)
    <3>1. CASE sess[s].viewer = "open"
      BY <2>4, <3>1 DEF Close
    <3>2. CASE sess[s].viewer # "open"
      BY <1>a, <2>4, <3>2 DEF Close, Session
    <3> QED BY <3>1, <3>2
  <2> QED BY <2>1, <2>2, <2>3, <2>4
<1> DEFINE r == [sess[s] EXCEPT !.viewer = v]
<1>e. /\ r \in Session /\ sess' = [sess EXCEPT ![s] = r]
      /\ r.state = sess[s].state /\ r.target = sess[s].target
      /\ r.confirmed = sess[s].confirmed /\ r.mode = sess[s].mode
      /\ r.viewer # "none" /\ r.mode = "takeover" => sess[s].viewer # "none"
  BY <1>a, <1>0 DEF Session
<1> HIDE DEF r
<1>f. /\ sess' \in [Sessions -> Session] /\ sess'[s] = r
      /\ \A t \in Sessions \ {s} : sess'[t] = sess[t]
  BY <1>a, <1>e, RecordMoves
<1>1. /\ op' = op /\ revoke' = revoke
      /\ \/ term' = term
         \/ term[s] = "closing" /\ term'[s] = "draining"
  BY <1>a, <1>b DEF TypeOK, Threads, Connect, Attach, Detach, Close, Became, policyVars,
       lifeVars, proxyVars
<1>2. UNCHANGED <<marker, req, active, policyVars, lifeVars>> /\ Inherits(s)
  <2>1. UNCHANGED <<marker, req, active, policyVars, lifeVars>>
    BY DEF Connect, Attach, Detach, Close, Became, policyVars, lifeVars, proxyVars
  <2> QED BY <2>1 DEF Inherits, lifeVars
<1>3. TypeOK' /\ Touches(s)
  <2>1. op' \in [Sessions -> Ops] /\ \A t \in Sessions \ {s} : op'[t] = op[t]
    BY <1>a DEF TypeOK, Ops, Connect, Attach, Detach, Close, Became, policyVars, lifeVars, proxyVars
  <2>2. /\ term' \in [Sessions -> Terms] /\ \A t \in Sessions \ {s} : term'[t] = term[t]
        /\ revoke' \in [Sessions -> Revokes] /\ \A t \in Sessions \ {s} : revoke'[t] = revoke[t]
    BY <1>a DEF TypeOK, Terms, Revokes, Connect, Attach, Detach, Close, Became, policyVars,
         lifeVars, proxyVars
  <2> QED BY <1>a, <1>f, <1>2, <2>1, <2>2 DEF TypeOK, Touches, Ops, Terms, Revokes, policyVars,
               lifeVars
<1>4. Threads(s)'
  BY <1>b, <1>e, <1>f, <1>1 DEF Threads, Live, Terminal
<1>5. Viewing(s)'
  BY <1>c, <1>e, <1>f, <1>1 DEF Viewing
<1>6. Entitled(s)'
  BY <1>b, <1>d, <1>e, <1>f, <1>1, <1>2 DEF Entitled, Threads, lifeVars
<1>7. Live(s)' <=> Live(s)
  BY <1>e, <1>f, <1>1 DEF Live, Terminal
<1>8. (Waiting(s)' <=> Waiting(s)) /\ (Held(s)' <=> Held(s))
  BY <1>1 DEF Waiting, Held
<1>9. Drives(s)' <=> Drives(s)
  BY <1>b, <1>e, <1>f, <1>1 DEF Drives, Threads, Terminal
<1> QED BY <1>2, <1>3, <1>4, <1>5, <1>6, <1>7, <1>8, <1>9, QuietKeeps

\* An End begins, or an expiry.
LEMMA EndingKeeps ==
  ASSUME HandoffInv, NEW s \in Sessions, EndWaits, End(s) \/ Expire(s)
  PROVE  HandoffInv' /\ OfFence
<1>a. TypeOK /\ sess[s] \in Session
  BY Here
<1>b. Threads(s)
  BY Here
<1>c. Viewing(s)
  BY Here
<1>d. Entitled(s)
  BY Here
<1>0. PICK target \in {"ended", "expired"} :
        sess' = [sess EXCEPT ![s].state = "ending", ![s].target = target]
  BY DEF End, Expire, BeginTerminal, Target
<1> DEFINE r == [sess[s] EXCEPT !.state = "ending", !.target = target]
<1>e. /\ r \in Session /\ sess' = [sess EXCEPT ![s] = r]
      /\ r.state = "ending" /\ r.viewer = sess[s].viewer
      /\ r.confirmed = sess[s].confirmed /\ r.mode = sess[s].mode
  BY <1>a, <1>0 DEF Session
<1> HIDE DEF r
<1>f. /\ sess' \in [Sessions -> Session] /\ sess'[s] = r
      /\ \A t \in Sessions \ {s} : sess'[t] = sess[t]
  BY <1>a, <1>e, RecordMoves
<1>1. /\ op' = op /\ revoke' = revoke /\ revoke[s] = "no" /\ term[s] = "none" /\ term'[s] = "closing"
      /\ sess[s].state \in {"active", "recovery_required"}
  BY <1>a, <1>b DEF TypeOK, Threads, End, Expire, BeginTerminal, policyVars, lifeVars, proxyVars
<1>2. UNCHANGED <<marker, req, active, policyVars, lifeVars>> /\ Inherits(s)
  <2>1. UNCHANGED <<marker, req, active, policyVars, lifeVars>>
    BY DEF End, Expire, BeginTerminal, policyVars, lifeVars, proxyVars
  <2> QED BY <2>1 DEF Inherits, lifeVars
<1>3. TypeOK' /\ Touches(s)
  <2>1. op' \in [Sessions -> Ops] /\ \A t \in Sessions \ {s} : op'[t] = op[t]
    BY <1>a DEF TypeOK, Ops, End, Expire, BeginTerminal, policyVars, lifeVars, proxyVars
  <2>2. /\ term' \in [Sessions -> Terms] /\ \A t \in Sessions \ {s} : term'[t] = term[t]
        /\ revoke' \in [Sessions -> Revokes] /\ \A t \in Sessions \ {s} : revoke'[t] = revoke[t]
    BY <1>a DEF TypeOK, Terms, Revokes, End, Expire, BeginTerminal, policyVars, lifeVars, proxyVars
  <2> QED BY <1>a, <1>f, <1>2, <2>1, <2>2 DEF TypeOK, Touches, Ops, Terms, Revokes, policyVars,
               lifeVars
<1>4. Threads(s)'
  BY <1>b, <1>e, <1>f, <1>1 DEF Threads, Live, Terminal
<1>5. Viewing(s)'
  BY <1>c, <1>e, <1>f, <1>1 DEF Viewing
<1>6. Entitled(s)'
  BY <1>b, <1>d, <1>e, <1>f, <1>1, <1>2 DEF Entitled, Threads, lifeVars
<1>7. Live(s)' <=> Live(s)
  BY <1>e, <1>f, <1>1 DEF Live, Terminal
<1>8. (Waiting(s)' <=> Waiting(s)) /\ (Held(s)' <=> Held(s))
  BY <1>1 DEF Waiting, Held
<1>9. Drives(s)' <=> Drives(s)
  BY <1>b, <1>e, <1>f, <1>1 DEF Drives, Threads, Terminal
<1> QED BY <1>2, <1>3, <1>4, <1>5, <1>6, <1>7, <1>8, <1>9, QuietKeeps

\* The viewer's socket cannot be closed.
LEMMA CloseFailsKeeps ==
  ASSUME HandoffInv, NEW s \in Sessions, CloseFails(s)
  PROVE  HandoffInv' /\ OfFence
<1>a. TypeOK /\ sess[s] \in Session
  BY Here
<1>b. Threads(s)
  BY Here
<1>c. Viewing(s)
  BY Here
<1>d. Entitled(s)
  BY Here
<1> DEFINE r == [sess[s] EXCEPT !.state = "recovery_required"]
<1>e. /\ r \in Session /\ sess' = [sess EXCEPT ![s] = r]
      /\ r.state = "recovery_required" /\ r.viewer = sess[s].viewer /\ r.target = sess[s].target
      /\ r.confirmed = sess[s].confirmed /\ r.mode = sess[s].mode
  BY <1>a DEF Session, CloseFails, Recovery
<1> HIDE DEF r
<1>f. /\ sess' \in [Sessions -> Session] /\ sess'[s] = r
      /\ \A t \in Sessions \ {s} : sess'[t] = sess[t]
  BY <1>a, <1>e, RecordMoves
<1>1. /\ op' = op /\ revoke' = revoke /\ term[s] = "closing" /\ term'[s] = "none"
      /\ sess[s].state = "ending"
  BY <1>a, <1>b DEF TypeOK, Threads, CloseFails, Recovery, policyVars, lifeVars, proxyVars
<1>2. UNCHANGED <<marker, req, active, policyVars, lifeVars>> /\ Inherits(s)
  <2>1. UNCHANGED <<marker, req, active, policyVars, lifeVars>>
    BY DEF CloseFails, Recovery, policyVars, lifeVars, proxyVars
  <2> QED BY <2>1 DEF Inherits, lifeVars
<1>3. TypeOK' /\ Touches(s)
  <2>1. op' \in [Sessions -> Ops] /\ \A t \in Sessions \ {s} : op'[t] = op[t]
    BY <1>a DEF TypeOK, Ops, CloseFails, Recovery, policyVars, lifeVars, proxyVars
  <2>2. /\ term' \in [Sessions -> Terms] /\ \A t \in Sessions \ {s} : term'[t] = term[t]
        /\ revoke' \in [Sessions -> Revokes] /\ \A t \in Sessions \ {s} : revoke'[t] = revoke[t]
    BY <1>a DEF TypeOK, Terms, Revokes, CloseFails, Recovery, policyVars, lifeVars, proxyVars
  <2> QED BY <1>a, <1>f, <1>2, <2>1, <2>2 DEF TypeOK, Touches, Ops, Terms, Revokes, policyVars,
               lifeVars
<1>4. Threads(s)'
  BY <1>b, <1>e, <1>f, <1>1 DEF Threads, Live, Terminal
<1>5. Viewing(s)'
  BY <1>c, <1>e, <1>f, <1>1 DEF Viewing
<1>6. Entitled(s)'
  BY <1>b, <1>d, <1>e, <1>f, <1>1, <1>2 DEF Entitled, Threads, lifeVars
<1>7. Live(s)' <=> Live(s)
  BY <1>e, <1>f, <1>1 DEF Live, Terminal
<1>8. (Waiting(s)' <=> Waiting(s)) /\ (Held(s)' <=> Held(s))
  BY <1>1 DEF Waiting, Held
<1>9. Drives(s)' <=> Drives(s)
  BY <1>b, <1>e, <1>f, <1>1 DEF Drives, Threads, Terminal
<1> QED BY <1>2, <1>3, <1>4, <1>5, <1>6, <1>7, <1>8, <1>9, QuietKeeps

\* The browser's state cannot be saved.
LEMMA StoreFailsKeeps ==
  ASSUME HandoffInv, NEW s \in Sessions, StoreFails(s)
  PROVE  HandoffInv' /\ OfFence
<1>a. TypeOK /\ sess[s] \in Session
  BY Here
<1>b. Threads(s)
  BY Here
<1>c. Viewing(s)
  BY Here
<1>d. Entitled(s)
  BY Here
<1> DEFINE r == [sess[s] EXCEPT !.state = "recovery_required"]
<1>e. /\ r \in Session /\ sess' = [sess EXCEPT ![s] = r]
      /\ r.state = "recovery_required" /\ r.viewer = sess[s].viewer /\ r.target = sess[s].target
      /\ r.confirmed = sess[s].confirmed /\ r.mode = sess[s].mode
  BY <1>a DEF Session, StoreFails, Recovery
<1> HIDE DEF r
<1>f. /\ sess' \in [Sessions -> Session] /\ sess'[s] = r
      /\ \A t \in Sessions \ {s} : sess'[t] = sess[t]
  BY <1>a, <1>e, RecordMoves
<1>1. /\ op[s] = "storing" /\ op'[s] = "free" /\ revoke' = revoke
      /\ term[s] = "draining" /\ term'[s] = "none" /\ sess[s].state = "ending"
  BY <1>a, <1>b DEF TypeOK, Threads, StoreFails, Recovery, Became, policyVars, lifeVars, proxyVars
<1>2. UNCHANGED <<marker, req, active, policyVars, lifeVars>> /\ Inherits(s)
  <2>1. UNCHANGED <<marker, req, active, policyVars, lifeVars>>
    BY DEF StoreFails, Recovery, Became, policyVars, lifeVars, proxyVars
  <2> QED BY <2>1 DEF Inherits, lifeVars
<1>3. TypeOK' /\ Touches(s)
  <2>1. op' \in [Sessions -> Ops] /\ \A t \in Sessions \ {s} : op'[t] = op[t]
    BY <1>a DEF TypeOK, Ops, StoreFails, Recovery, Became, policyVars, lifeVars, proxyVars
  <2>2. /\ term' \in [Sessions -> Terms] /\ \A t \in Sessions \ {s} : term'[t] = term[t]
        /\ revoke' \in [Sessions -> Revokes] /\ \A t \in Sessions \ {s} : revoke'[t] = revoke[t]
    BY <1>a DEF TypeOK, Terms, Revokes, StoreFails, Recovery, Became, policyVars, lifeVars,
         proxyVars
  <2> QED BY <1>a, <1>f, <1>2, <2>1, <2>2 DEF TypeOK, Touches, Ops, Terms, Revokes, policyVars,
               lifeVars
<1>4. Threads(s)'
  BY <1>b, <1>e, <1>f, <1>1 DEF Threads, Live, Terminal
<1>5. Viewing(s)'
  BY <1>c, <1>e, <1>f, <1>1 DEF Viewing
<1>6. Entitled(s)'
  BY <1>b, <1>d, <1>e, <1>f, <1>1, <1>2 DEF Entitled, Threads, lifeVars
<1>7. Live(s)' <=> Live(s)
  BY <1>e, <1>f, <1>1 DEF Live, Terminal
<1>8. (Waiting(s)' <=> Waiting(s)) /\ (Held(s)' <=> Held(s))
  BY <1>1 DEF Waiting, Held
<1>9. Drives(s)' <=> Drives(s)
  BY <1>b, <1>e, <1>f, <1>1 DEF Drives, Threads, Terminal
<1> QED BY <1>2, <1>3, <1>4, <1>5, <1>6, <1>7, <1>8, <1>9, QuietKeeps

\* An old session is forgotten.
LEMMA PruneKeeps ==
  ASSUME HandoffInv, NEW s \in Sessions, Prune(s)
  PROVE  HandoffInv' /\ OfFence
<1>a. TypeOK
  BY Here
<1>b. Threads(s)
  BY Here
<1>d. Entitled(s)
  BY Here
<1>e. Unused \in Session
  BY DEF Session, Unused
<1>f. /\ sess' \in [Sessions -> Session] /\ sess'[s] = Unused
      /\ \A t \in Sessions \ {s} : sess'[t] = sess[t]
  BY <1>a, <1>e, RecordMoves DEF Prune
<1>1. /\ sess[s].state \in Terminal /\ term[s] = "none" /\ revoke[s] = "no"
      /\ UNCHANGED <<proxyVars, op, term, revoke, lifeVars, policyVars>>
  BY DEF Prune
<1>2. op[s] = "free"
  BY <1>b, <1>1 DEF Threads, Live
<1>3. active # s
  BY <1>1 DEF HandoffInv, OneOwner
<1>4. active' = active
  BY <1>3 DEF Prune
<1>5. UNCHANGED <<marker, req, active>> /\ Inherits(s)
  BY <1>1, <1>4 DEF Inherits, proxyVars, lifeVars
<1>6. TypeOK' /\ Touches(s)
  BY <1>a, <1>f, <1>1, <1>4 DEF TypeOK, Touches, proxyVars, lifeVars, policyVars
<1>7. Threads(s)'
  BY <1>b, <1>f, <1>1, <1>2 DEF Threads, Live, Unused, Terminal
<1>8. Viewing(s)'
  BY <1>f, <1>1, <1>2 DEF Viewing, Unused
<1>9. Entitled(s)'
  BY <1>d, <1>f, <1>1, <1>2 DEF Entitled, lifeVars
<1>10. ~Live(s) /\ ~Live(s)'
  BY <1>f, <1>1 DEF Live, Unused
<1>11. ~Waiting(s) /\ ~Held(s) /\ ~Waiting(s)' /\ ~Held(s)'
  BY <1>1, <1>2 DEF Waiting, Held
<1>12. ~Drives(s) /\ ~Drives(s)'
  BY <1>10 DEF Drives, Live
<1> QED BY <1>5, <1>6, <1>7, <1>8, <1>9, <1>10, <1>11, <1>12, QuietKeeps

\* The marker is retained.
LEMMA RetainedKeeps ==
  ASSUME HandoffInv, NEW s \in Sessions, op[s] = "finish",
         op' = [op EXCEPT ![s] = "free"], term' = [term EXCEPT ![s] = "retained"],
         UNCHANGED <<marker, lifeVars, req, sess, revoke, active, policyVars>>,
         inherited, sess[s].target # "ended" \/ eligible = NoSession
  PROVE  HandoffInv' /\ OfFence
<1>a. TypeOK
  BY Here
<1>b. Threads(s)
  BY Here
<1>c. Viewing(s)
  BY Here
<1>d. Entitled(s)
  BY Here
<1>1. /\ sess' = sess /\ revoke' = revoke /\ op'[s] = "free"
      /\ term[s] = "draining" /\ term'[s] = "retained"
  BY <1>a, <1>b DEF TypeOK, Threads
<1>2. UNCHANGED <<marker, req, active, policyVars>> /\ Inherits(s)
  BY DEF Inherits, lifeVars
<1>3. TypeOK' /\ Touches(s)
  BY <1>a DEF TypeOK, Touches, lifeVars, policyVars
<1>4. Threads(s)'
  BY <1>b, <1>1 DEF Threads, Live, Terminal
<1>5. Viewing(s)'
  BY <1>c, <1>1 DEF Viewing
<1>6. Entitled(s)'
  BY <1>d, <1>1 DEF Entitled, lifeVars, Sessions, NoSession
<1>7. Live(s)' <=> Live(s)
  BY <1>1 DEF Live
<1>8. (Waiting(s)' <=> Waiting(s)) /\ (Held(s)' <=> Held(s))
  BY <1>1 DEF Waiting, Held
<1>9. Drives(s)' <=> Drives(s)
  BY <1>1 DEF Drives
<1> QED BY <1>2, <1>3, <1>4, <1>5, <1>6, <1>7, <1>8, <1>9, QuietKeeps

\* The release begins to save what there is.
LEMMA StoringKeeps ==
  ASSUME HandoffInv, NEW s \in Sessions, op[s] = "finish",
         op' = [op EXCEPT ![s] = "storing"],
         inherited => sess[s].target = "ended" /\ eligible # NoSession,
         eligible' = IF inherited THEN NoSession ELSE eligible,
         UNCHANGED <<marker, inherited, term, req, sess, revoke, active, policyVars>>
  PROVE  HandoffInv' /\ OfFence
<1>a. TypeOK
  BY Here
<1>b. Threads(s)
  BY Here
<1>c. Viewing(s)
  BY Here
<1>1. sess' = sess /\ revoke' = revoke /\ term' = term /\ term[s] = "draining" /\ op'[s] = "storing"
  BY <1>a, <1>b DEF TypeOK, Threads
<1>2. UNCHANGED <<marker, req, active, policyVars>> /\ Inherits(s)
  BY DEF Inherits
<1>3. TypeOK' /\ Touches(s)
  BY <1>a DEF TypeOK, Touches, policyVars
<1>4. Threads(s)'
  BY <1>b, <1>1 DEF Threads, Live, Terminal
<1>5. Viewing(s)'
  BY <1>c, <1>1 DEF Viewing
<1>6. inherited => sess[s].confirmed
  <2> SUFFICES ASSUME inherited PROVE sess[s].confirmed
    OBVIOUS
  <2>1. eligible \in Sessions /\ Entitled(eligible) /\ Threads(eligible)
    BY <1>a DEF HandoffInv, TypeOK
  <2>2. op[eligible] = "finish" /\ sess[eligible].confirmed
    BY <2>1 DEF Entitled
  <2>3. Live(eligible) /\ Live(s)
    BY <1>b, <2>1, <2>2 DEF Threads
  <2>4. eligible = s
    BY <2>1, <2>3, Alone
  <2> QED BY <2>2, <2>4
<1>7. Entitled(s)'
  BY <1>1, <1>6 DEF Entitled, Sessions, NoSession
<1>8. Live(s)' <=> Live(s)
  BY <1>1 DEF Live
<1>9. (Waiting(s)' <=> Waiting(s)) /\ (Held(s)' <=> Held(s))
  BY <1>1 DEF Waiting, Held
<1>10. Drives(s)' <=> Drives(s)
  BY <1>1 DEF Drives
<1> QED BY <1>2, <1>3, <1>4, <1>5, <1>7, <1>8, <1>9, <1>10, QuietKeeps

-----------------------------------------------------------------------------
(* One session's steps that take, leave or give back the fence.              *)

\* The broker's steps of RestLock, by flock and control.
LEMMA FenceSteps ==
  ASSUME UNCHANGED req,
         \/ /\ Hold = "none" /\ marker' = TRUE /\ Hold' = "waiting"
            /\ Control' <=> Control
         \/ /\ Hold = "waiting" /\ Hold' = "held" /\ UNCHANGED marker
            /\ \A r \in Requests : req[r] \notin {"shared", "forwarding"}
            /\ Control' <=> Control
         \/ Hold = "held" /\ Hold' = "none" /\ Control' /\ UNCHANGED marker
         \/ /\ Hold = "waiting" /\ Hold' = "none" /\ UNCHANGED marker
            /\ Control' <=> Control
         \/ Hold = "none" /\ Hold' = "none" /\ marker' = FALSE /\ ~Control'
         \/ Hold' \in {Hold, "none"} /\ ~Control' /\ UNCHANGED marker
  PROVE  OfFence
BY DEF OfFence, Control, Fence!RestNext, Fence!Takeover, Fence!Touch, Fence!Drain, Fence!Shared,
       Fence!Acknowledge, Fence!DrainFails, Fence!Release, Fence!Leave

\* The marker goes up before the drain.
LEMMA TouchKeeps ==
  ASSUME HandoffInv, NEW s \in Sessions, Button(s) \/ (Connect(s) /\ sess[s].mode = "takeover")
  PROVE  HandoffInv' /\ OfFence
<1>a. TypeOK /\ sess[s] \in Session
  BY Here
<1>b. Threads(s)
  BY Here
<1>c. Viewing(s)
  BY Here
<1>d. Entitled(s) /\ Fenced(s)
  BY Here
<1>e. UNCHANGED sess
  BY DEF Button, Connect, Became, MayConnect, policyVars, lifeVars, proxyVars, Session
<1>f. /\ sess' \in [Sessions -> Session] /\ sess'[s] = sess[s]
      /\ \A t \in Sessions \ {s} : sess'[t] = sess[t]
  BY <1>a, <1>e DEF TypeOK
<1>1. /\ term' = term /\ revoke' = revoke /\ active' = active /\ UNCHANGED lifeVars
      /\ op[s] = "free" /\ op'[s] \in {"button", "connect"} /\ marker' = TRUE
      /\ op'[s] = "connect" => sess[s].mode = "takeover"
      /\ sess[s].state \in {"active", "recovery_required"}
  BY <1>a, <1>b DEF TypeOK, Threads, Button, Connect, Became, MayConnect, policyVars, lifeVars,
       proxyVars, Session
<1>2. UNCHANGED <<req, policyVars>> /\ Inherits(s) /\ inherited' \in BOOLEAN
        /\ eligible' \in Sessions \cup {NoSession} /\ marker' \in BOOLEAN
  <2>1. UNCHANGED <<req, policyVars>>
    BY DEF Button, Connect, Became, MayConnect, policyVars, lifeVars, proxyVars, Session
  <2>2. (inherited' = inherited \/ inherited' = FALSE) /\ eligible' \in {eligible, NoSession}
    BY DEF Button, Connect, Became, MayConnect, policyVars, lifeVars, proxyVars, Session
  <2>3. marker' = marker \/ marker' = FALSE \/ marker' = TRUE
    BY DEF Button, Connect, Became, MayConnect, policyVars, lifeVars, proxyVars, Session
  <2>4. inherited \in BOOLEAN
    BY <1>a DEF TypeOK
  <2>6. inherited' \in BOOLEAN /\ (inherited' => inherited)
    <3>1. CASE inherited' = inherited
      BY <2>4, <3>1
    <3>2. CASE inherited' = FALSE
      BY <3>2
    <3> QED BY <2>2, <3>1, <3>2
  <2>7. Inherits(s)
    BY <2>2, <2>6 DEF Inherits
  <2>5. eligible' \in Sessions \cup {NoSession} /\ marker' \in BOOLEAN
    BY <1>a, <2>2, <2>3 DEF TypeOK
  <2> QED BY <2>1, <2>5, <2>6, <2>7
<1>3. TypeOK' /\ Touches(s)
  <2>1. op' \in [Sessions -> Ops] /\ \A t \in Sessions \ {s} : op'[t] = op[t]
    BY <1>a DEF TypeOK, Ops, Button, Connect, Became, MayConnect, policyVars, lifeVars,
         proxyVars, Session
  <2>2. /\ term' \in [Sessions -> Terms] /\ \A t \in Sessions \ {s} : term'[t] = term[t]
        /\ revoke' \in [Sessions -> Revokes] /\ \A t \in Sessions \ {s} : revoke'[t] = revoke[t]
    BY <1>a DEF TypeOK, Terms, Revokes, Button, Connect, Became, MayConnect, policyVars,
         lifeVars, proxyVars, Session
  <2>3. active' \in Sessions \cup {NoSession}
    BY <1>a DEF TypeOK, Button, Connect, Became, MayConnect, policyVars, lifeVars, proxyVars,
         Session
  <2> QED BY <1>a, <1>f, <1>2, <2>1, <2>2, <2>3 DEF TypeOK, Touches, Ops, Terms, Revokes, policyVars
<1>4. Threads(s)'
  BY <1>b, <1>e, <1>f, <1>1 DEF Threads, Live, Terminal
<1>5. Viewing(s)'
  BY <1>c, <1>e, <1>f, <1>1 DEF Viewing
<1>6. Entitled(s)'
  BY <1>b, <1>d, <1>e, <1>f, <1>1 DEF Entitled, Threads, lifeVars, Sessions, NoSession
<1>7. Live(s)
  BY <1>b, <1>1 DEF Threads, Live, Terminal
<1>8. Live(s)' /\ active' = active
  BY <1>b, <1>e, <1>f, <1>1, <1>7 DEF Live, Terminal, HandoffInv, OneOwner
<1>9. Fenced(s)'
  BY <1>b, <1>c, <1>d, <1>e, <1>f, <1>1, <1>2 DEF Fenced, Waiting, Held, Drives, Threads,
       Viewing, Terminal
<1>10. /\ HandoffInv'
       /\ Hold = HoldsFlock(s) /\ Hold' = HoldsFlock(s)'
       /\ Control = Drives(s) /\ Control' = Drives(s)'
  BY <1>2, <1>3, <1>4, <1>5, <1>6, <1>7, <1>8, <1>9, LiveKeeps
<1>11. HoldsFlock(s) = "none" /\ HoldsFlock(s)' = "waiting"
  BY <1>1 DEF HoldsFlock, Waiting, Held
<1>12. Drives(s)' <=> Drives(s)
  BY <1>b, <1>c, <1>e, <1>f, <1>1, <1>7 DEF Drives, Threads, Viewing, Terminal, Live
<1> QED BY <1>1, <1>2, <1>10, <1>11, <1>12, FenceSteps

\* LOCK_EX is granted once nobody is inside.
LEMMA DrainKeeps ==
  ASSUME HandoffInv, NEW s \in Sessions, Drain(s)
  PROVE  HandoffInv' /\ OfFence
<1>a. TypeOK /\ sess[s] \in Session
  BY Here
<1>b. Threads(s)
  BY Here
<1>c. Viewing(s)
  BY Here
<1>d. Entitled(s) /\ Fenced(s)
  BY Here
<1>e. UNCHANGED sess
  BY DEF Drain, Became, Fence!Shared, policyVars, lifeVars, proxyVars
<1>f. /\ sess' \in [Sessions -> Session] /\ sess'[s] = sess[s]
      /\ \A t \in Sessions \ {s} : sess'[t] = sess[t]
  BY <1>a, <1>e DEF TypeOK
<1>1. /\ term' = term /\ revoke' = revoke /\ active' = active /\ UNCHANGED lifeVars
      /\ \/ op[s] = "button" /\ op'[s] = "button held"
         \/ op[s] = "connect" /\ op'[s] = "connect held"
      /\ marker' = marker /\ \A r \in Requests : req[r] \notin {"shared", "forwarding"}
  BY <1>a, <1>b DEF TypeOK, Threads, Drain, Became, Fence!Shared, policyVars, lifeVars, proxyVars
<1>2. UNCHANGED <<req, policyVars>> /\ Inherits(s) /\ inherited' \in BOOLEAN
        /\ eligible' \in Sessions \cup {NoSession} /\ marker' \in BOOLEAN
  <2>1. UNCHANGED <<req, policyVars>>
    BY DEF Drain, Became, Fence!Shared, policyVars, lifeVars, proxyVars
  <2>2. (inherited' = inherited \/ inherited' = FALSE) /\ eligible' \in {eligible, NoSession}
    BY DEF Drain, Became, Fence!Shared, policyVars, lifeVars, proxyVars
  <2>3. marker' = marker \/ marker' = FALSE \/ marker' = TRUE
    BY DEF Drain, Became, Fence!Shared, policyVars, lifeVars, proxyVars
  <2>4. inherited \in BOOLEAN
    BY <1>a DEF TypeOK
  <2>6. inherited' \in BOOLEAN /\ (inherited' => inherited)
    <3>1. CASE inherited' = inherited
      BY <2>4, <3>1
    <3>2. CASE inherited' = FALSE
      BY <3>2
    <3> QED BY <2>2, <3>1, <3>2
  <2>7. Inherits(s)
    BY <2>2, <2>6 DEF Inherits
  <2>5. eligible' \in Sessions \cup {NoSession} /\ marker' \in BOOLEAN
    BY <1>a, <2>2, <2>3 DEF TypeOK
  <2> QED BY <2>1, <2>5, <2>6, <2>7
<1>3. TypeOK' /\ Touches(s)
  <2>1. op' \in [Sessions -> Ops] /\ \A t \in Sessions \ {s} : op'[t] = op[t]
    BY <1>a DEF TypeOK, Ops, Drain, Became, Fence!Shared, policyVars, lifeVars, proxyVars
  <2>2. /\ term' \in [Sessions -> Terms] /\ \A t \in Sessions \ {s} : term'[t] = term[t]
        /\ revoke' \in [Sessions -> Revokes] /\ \A t \in Sessions \ {s} : revoke'[t] = revoke[t]
    BY <1>a DEF TypeOK, Terms, Revokes, Drain, Became, Fence!Shared, policyVars, lifeVars, proxyVars
  <2>3. active' \in Sessions \cup {NoSession}
    BY <1>a DEF TypeOK, Drain, Became, Fence!Shared, policyVars, lifeVars, proxyVars
  <2> QED BY <1>a, <1>f, <1>2, <2>1, <2>2, <2>3 DEF TypeOK, Touches, Ops, Terms, Revokes, policyVars
<1>4. Threads(s)'
  BY <1>b, <1>e, <1>f, <1>1 DEF Threads, Live, Terminal
<1>5. Viewing(s)'
  BY <1>c, <1>e, <1>f, <1>1 DEF Viewing
<1>6. Entitled(s)'
  BY <1>b, <1>d, <1>e, <1>f, <1>1 DEF Entitled, Threads, lifeVars, Sessions, NoSession
<1>7. Live(s)
  BY <1>b, <1>1 DEF Threads, Live, Terminal
<1>8. Live(s)' /\ active' = active
  BY <1>b, <1>e, <1>f, <1>1, <1>7 DEF Live, Terminal, HandoffInv, OneOwner
<1>9. Fenced(s)'
  BY <1>b, <1>c, <1>d, <1>e, <1>f, <1>1, <1>2 DEF Fenced, Waiting, Held, Drives, Threads,
       Viewing, Terminal
<1>10. /\ HandoffInv'
       /\ Hold = HoldsFlock(s) /\ Hold' = HoldsFlock(s)'
       /\ Control = Drives(s) /\ Control' = Drives(s)'
  BY <1>2, <1>3, <1>4, <1>5, <1>6, <1>7, <1>8, <1>9, LiveKeeps
<1>11. HoldsFlock(s) = "waiting" /\ HoldsFlock(s)' = "held"
  BY <1>1 DEF HoldsFlock, Waiting, Held
<1>12. Drives(s)' <=> Drives(s)
  BY <1>b, <1>c, <1>e, <1>f, <1>1, <1>7 DEF Drives, Threads, Viewing, Terminal, Live
<1> QED BY <1>1, <1>2, <1>10, <1>11, <1>12, FenceSteps

\* The drain fails, and the marker stays.
LEMMA DrainFailsKeeps ==
  ASSUME HandoffInv, NEW s \in Sessions, DrainFails(s)
  PROVE  HandoffInv' /\ OfFence
<1>a. TypeOK /\ sess[s] \in Session
  BY Here
<1>b. Threads(s)
  BY Here
<1>c. Viewing(s)
  BY Here
<1>d. Entitled(s) /\ Fenced(s)
  BY Here
<1>e. UNCHANGED sess
  BY DEF DrainFails, Waiting, policyVars, lifeVars, proxyVars
<1>f. /\ sess' \in [Sessions -> Session] /\ sess'[s] = sess[s]
      /\ \A t \in Sessions \ {s} : sess'[t] = sess[t]
  BY <1>a, <1>e DEF TypeOK
<1>1. /\ term' = term /\ revoke' = revoke /\ active' = active /\ UNCHANGED lifeVars
      /\ op[s] \in {"button", "connect"} /\ op'[s] = "free" /\ marker' = marker
  BY <1>a, <1>b DEF TypeOK, Threads, DrainFails, Waiting, policyVars, lifeVars, proxyVars
<1>2. UNCHANGED <<req, policyVars>> /\ Inherits(s) /\ inherited' \in BOOLEAN
        /\ eligible' \in Sessions \cup {NoSession} /\ marker' \in BOOLEAN
  <2>1. UNCHANGED <<req, policyVars>>
    BY DEF DrainFails, Waiting, policyVars, lifeVars, proxyVars
  <2>2. (inherited' = inherited \/ inherited' = FALSE) /\ eligible' \in {eligible, NoSession}
    BY DEF DrainFails, Waiting, policyVars, lifeVars, proxyVars
  <2>3. marker' = marker \/ marker' = FALSE \/ marker' = TRUE
    BY DEF DrainFails, Waiting, policyVars, lifeVars, proxyVars
  <2>4. inherited \in BOOLEAN
    BY <1>a DEF TypeOK
  <2>6. inherited' \in BOOLEAN /\ (inherited' => inherited)
    <3>1. CASE inherited' = inherited
      BY <2>4, <3>1
    <3>2. CASE inherited' = FALSE
      BY <3>2
    <3> QED BY <2>2, <3>1, <3>2
  <2>7. Inherits(s)
    BY <2>2, <2>6 DEF Inherits
  <2>5. eligible' \in Sessions \cup {NoSession} /\ marker' \in BOOLEAN
    BY <1>a, <2>2, <2>3 DEF TypeOK
  <2> QED BY <2>1, <2>5, <2>6, <2>7
<1>3. TypeOK' /\ Touches(s)
  <2>1. op' \in [Sessions -> Ops] /\ \A t \in Sessions \ {s} : op'[t] = op[t]
    BY <1>a DEF TypeOK, Ops, DrainFails, Waiting, policyVars, lifeVars, proxyVars
  <2>2. /\ term' \in [Sessions -> Terms] /\ \A t \in Sessions \ {s} : term'[t] = term[t]
        /\ revoke' \in [Sessions -> Revokes] /\ \A t \in Sessions \ {s} : revoke'[t] = revoke[t]
    BY <1>a DEF TypeOK, Terms, Revokes, DrainFails, Waiting, policyVars, lifeVars, proxyVars
  <2>3. active' \in Sessions \cup {NoSession}
    BY <1>a DEF TypeOK, DrainFails, Waiting, policyVars, lifeVars, proxyVars
  <2> QED BY <1>a, <1>f, <1>2, <2>1, <2>2, <2>3 DEF TypeOK, Touches, Ops, Terms, Revokes, policyVars
<1>4. Threads(s)'
  BY <1>b, <1>e, <1>f, <1>1 DEF Threads, Live, Terminal
<1>5. Viewing(s)'
  BY <1>c, <1>e, <1>f, <1>1 DEF Viewing
<1>6. Entitled(s)'
  BY <1>b, <1>d, <1>e, <1>f, <1>1 DEF Entitled, Threads, lifeVars, Sessions, NoSession
<1>7. Live(s)
  BY <1>b, <1>1 DEF Threads, Live, Terminal
<1>8. Live(s)' /\ active' = active
  BY <1>b, <1>e, <1>f, <1>1, <1>7 DEF Live, Terminal, HandoffInv, OneOwner
<1>9. Fenced(s)'
  BY <1>b, <1>c, <1>d, <1>e, <1>f, <1>1, <1>2 DEF Fenced, Waiting, Held, Drives, Threads,
       Viewing, Terminal
<1>10. /\ HandoffInv'
       /\ Hold = HoldsFlock(s) /\ Hold' = HoldsFlock(s)'
       /\ Control = Drives(s) /\ Control' = Drives(s)'
  BY <1>2, <1>3, <1>4, <1>5, <1>6, <1>7, <1>8, <1>9, LiveKeeps
<1>11. HoldsFlock(s) = "waiting" /\ HoldsFlock(s)' = "none"
  BY <1>1 DEF HoldsFlock, Waiting, Held
<1>12. Drives(s)' <=> Drives(s)
  BY <1>b, <1>c, <1>e, <1>f, <1>1, <1>7 DEF Drives, Threads, Viewing, Terminal, Live
<1> QED BY <1>1, <1>2, <1>10, <1>11, <1>12, FenceSteps

\* The takeover is confirmed, whatever became of the session.
LEMMA ConfirmKeeps ==
  ASSUME HandoffInv, NEW s \in Sessions, Confirm(s)
  PROVE  HandoffInv' /\ OfFence
<1>a. TypeOK /\ sess[s] \in Session
  BY Here
<1>b. Threads(s)
  BY Here
<1>c. Viewing(s)
  BY Here
<1>d. Entitled(s) /\ Fenced(s)
  BY Here
<1>0. PICK mode \in {"takeover", "observe"}, viewer \in {"none", "opening", "open"} :
        /\ sess' = [sess EXCEPT ![s].confirmed = TRUE, ![s].mode = mode, ![s].viewer = viewer]
        /\ mode = "takeover"
  <2> DEFINE mode == IF op[s] = "button held" THEN "takeover" ELSE sess[s].mode
             viewer == IF op[s] = "connect held" THEN "opening" ELSE sess[s].viewer
  <2>1. mode \in {"takeover", "observe"} /\ viewer \in {"none", "opening", "open"}
    BY <1>a DEF Session
  <2>2. mode = "takeover"
    BY <1>c DEF Viewing, Confirm, Held
  <2>3. sess' = [sess EXCEPT ![s].confirmed = TRUE, ![s].mode = mode, ![s].viewer = viewer]
    BY DEF Confirm
  <2> HIDE DEF mode, viewer
  <2> QED BY <2>1, <2>2, <2>3
<1> DEFINE r == [sess[s] EXCEPT !.confirmed = TRUE, !.mode = mode, !.viewer = viewer]
<1>e. /\ r \in Session /\ sess' = [sess EXCEPT ![s] = r]
      /\ r.state = sess[s].state /\ r.target = sess[s].target /\ r.confirmed /\ r.mode = "takeover"
  BY <1>a, <1>0 DEF Session
<1> HIDE DEF r
<1>f. /\ sess' \in [Sessions -> Session] /\ sess'[s] = r
      /\ \A t \in Sessions \ {s} : sess'[t] = sess[t]
  BY <1>a, <1>e, RecordMoves
<1>1. /\ term' = term /\ revoke' = revoke /\ active' = active /\ UNCHANGED lifeVars
      /\ op[s] \in {"button held", "connect held"} /\ op'[s] = "free" /\ marker' = marker
  BY <1>a, <1>b DEF TypeOK, Threads, Confirm, Held, policyVars, lifeVars, proxyVars
<1>2. UNCHANGED <<req, policyVars>> /\ Inherits(s) /\ inherited' \in BOOLEAN
        /\ eligible' \in Sessions \cup {NoSession} /\ marker' \in BOOLEAN
  <2>1. UNCHANGED <<req, policyVars>>
    BY DEF Confirm, Held, policyVars, lifeVars, proxyVars
  <2>2. (inherited' = inherited \/ inherited' = FALSE) /\ eligible' \in {eligible, NoSession}
    BY DEF Confirm, Held, policyVars, lifeVars, proxyVars
  <2>3. marker' = marker \/ marker' = FALSE \/ marker' = TRUE
    BY DEF Confirm, Held, policyVars, lifeVars, proxyVars
  <2>4. inherited \in BOOLEAN
    BY <1>a DEF TypeOK
  <2>6. inherited' \in BOOLEAN /\ (inherited' => inherited)
    <3>1. CASE inherited' = inherited
      BY <2>4, <3>1
    <3>2. CASE inherited' = FALSE
      BY <3>2
    <3> QED BY <2>2, <3>1, <3>2
  <2>7. Inherits(s)
    BY <2>2, <2>6 DEF Inherits
  <2>5. eligible' \in Sessions \cup {NoSession} /\ marker' \in BOOLEAN
    BY <1>a, <2>2, <2>3 DEF TypeOK
  <2> QED BY <2>1, <2>5, <2>6, <2>7
<1>3. TypeOK' /\ Touches(s)
  <2>1. op' \in [Sessions -> Ops] /\ \A t \in Sessions \ {s} : op'[t] = op[t]
    BY <1>a DEF TypeOK, Ops, Confirm, Held, policyVars, lifeVars, proxyVars
  <2>2. /\ term' \in [Sessions -> Terms] /\ \A t \in Sessions \ {s} : term'[t] = term[t]
        /\ revoke' \in [Sessions -> Revokes] /\ \A t \in Sessions \ {s} : revoke'[t] = revoke[t]
    BY <1>a DEF TypeOK, Terms, Revokes, Confirm, Held, policyVars, lifeVars, proxyVars
  <2>3. active' \in Sessions \cup {NoSession}
    BY <1>a DEF TypeOK, Confirm, Held, policyVars, lifeVars, proxyVars
  <2> QED BY <1>a, <1>f, <1>2, <2>1, <2>2, <2>3 DEF TypeOK, Touches, Ops, Terms, Revokes, policyVars
<1>4. Threads(s)'
  BY <1>b, <1>e, <1>f, <1>1 DEF Threads, Live, Terminal
<1>5. Viewing(s)'
  BY <1>c, <1>e, <1>f, <1>1 DEF Viewing
<1>6. Entitled(s)'
  BY <1>b, <1>d, <1>e, <1>f, <1>1 DEF Entitled, Threads, lifeVars, Sessions, NoSession
<1>7. Live(s)
  BY <1>b, <1>1 DEF Threads, Live, Terminal
<1>8. Live(s)' /\ active' = active
  BY <1>b, <1>e, <1>f, <1>1, <1>7 DEF Live, Terminal, HandoffInv, OneOwner
<1>9. Fenced(s)'
  BY <1>b, <1>c, <1>d, <1>e, <1>f, <1>1, <1>2 DEF Fenced, Waiting, Held, Drives, Threads,
       Viewing, Terminal
<1>10. /\ HandoffInv'
       /\ Hold = HoldsFlock(s) /\ Hold' = HoldsFlock(s)'
       /\ Control = Drives(s) /\ Control' = Drives(s)'
  BY <1>2, <1>3, <1>4, <1>5, <1>6, <1>7, <1>8, <1>9, LiveKeeps
<1>11. HoldsFlock(s) = "held" /\ HoldsFlock(s)' = "none"
  BY <1>1 DEF HoldsFlock, Waiting, Held
<1>12. Drives(s)'
  BY <1>b, <1>c, <1>e, <1>f, <1>1, <1>7 DEF Drives, Threads, Viewing, Terminal, Live
<1> QED BY <1>1, <1>2, <1>10, <1>11, <1>12, FenceSteps

\* The human gives the browser back, the session stays.
LEMMA ObserveKeeps ==
  ASSUME HandoffInv, NEW s \in Sessions, (Observe(s) /\ ~marker) \/ Observed(s)
  PROVE  HandoffInv' /\ OfFence
<1>a. TypeOK /\ sess[s] \in Session
  BY Here
<1>b. Threads(s)
  BY Here
<1>c. Viewing(s)
  BY Here
<1>d. Entitled(s) /\ Fenced(s)
  BY Here
<1> DEFINE r == [sess[s] EXCEPT !.mode = "observe"]
<1>e. /\ r \in Session /\ sess' = [sess EXCEPT ![s] = r]
      /\ r.state = sess[s].state /\ r.target = sess[s].target /\ r.mode = "observe"
      /\ r.confirmed = sess[s].confirmed /\ r.viewer = sess[s].viewer
  BY <1>a DEF Session, Observe, Observed, Released
<1> HIDE DEF r
<1>f. /\ sess' \in [Sessions -> Session] /\ sess'[s] = r
      /\ \A t \in Sessions \ {s} : sess'[t] = sess[t]
  BY <1>a, <1>e, RecordMoves
<1>1. /\ term' = term /\ revoke' = revoke /\ active' = active /\ eligible' = eligible
      /\ ~inherited' /\ marker' = FALSE
      /\ \/ op[s] = "free" /\ sess[s].state \in {"active", "recovery_required"}
         \/ op[s] = "observing"
      /\ op'[s] = "free"
  BY <1>a, <1>b DEF TypeOK, Threads, Observe, Observed, Released, Became, MayConnect, policyVars,
       lifeVars, proxyVars
<1>2. UNCHANGED <<req, policyVars>> /\ Inherits(s) /\ inherited' \in BOOLEAN
        /\ eligible' \in Sessions \cup {NoSession} /\ marker' \in BOOLEAN
  <2>1. UNCHANGED <<req, policyVars>>
    BY DEF Observe, Observed, Released, Became, MayConnect, policyVars, lifeVars, proxyVars
  <2>2. (inherited' = inherited \/ inherited' = FALSE) /\ eligible' \in {eligible, NoSession}
    BY DEF Observe, Observed, Released, Became, MayConnect, policyVars, lifeVars, proxyVars
  <2>3. marker' = marker \/ marker' = FALSE \/ marker' = TRUE
    BY DEF Observe, Observed, Released, Became, MayConnect, policyVars, lifeVars, proxyVars
  <2>4. inherited \in BOOLEAN
    BY <1>a DEF TypeOK
  <2>6. inherited' \in BOOLEAN /\ (inherited' => inherited)
    <3>1. CASE inherited' = inherited
      BY <2>4, <3>1
    <3>2. CASE inherited' = FALSE
      BY <3>2
    <3> QED BY <2>2, <3>1, <3>2
  <2>7. Inherits(s)
    BY <2>2, <2>6 DEF Inherits
  <2>5. eligible' \in Sessions \cup {NoSession} /\ marker' \in BOOLEAN
    BY <1>a, <2>2, <2>3 DEF TypeOK
  <2> QED BY <2>1, <2>5, <2>6, <2>7
<1>3. TypeOK' /\ Touches(s)
  <2>1. op' \in [Sessions -> Ops] /\ \A t \in Sessions \ {s} : op'[t] = op[t]
    BY <1>a DEF TypeOK, Ops, Observe, Observed, Released, Became, MayConnect, policyVars,
         lifeVars, proxyVars
  <2>2. /\ term' \in [Sessions -> Terms] /\ \A t \in Sessions \ {s} : term'[t] = term[t]
        /\ revoke' \in [Sessions -> Revokes] /\ \A t \in Sessions \ {s} : revoke'[t] = revoke[t]
    BY <1>a DEF TypeOK, Terms, Revokes, Observe, Observed, Released, Became, MayConnect,
         policyVars, lifeVars, proxyVars
  <2>3. active' \in Sessions \cup {NoSession}
    BY <1>a DEF TypeOK, Observe, Observed, Released, Became, MayConnect, policyVars, lifeVars,
         proxyVars
  <2> QED BY <1>a, <1>f, <1>2, <2>1, <2>2, <2>3 DEF TypeOK, Touches, Ops, Terms, Revokes, policyVars
<1>4. Threads(s)'
  BY <1>b, <1>e, <1>f, <1>1 DEF Threads, Live, Terminal
<1>5. Viewing(s)'
  BY <1>c, <1>e, <1>f, <1>1 DEF Viewing
<1>6. Entitled(s)'
  BY <1>b, <1>d, <1>e, <1>f, <1>1 DEF Entitled, Threads, lifeVars, Sessions, NoSession
<1>7. Live(s)
  BY <1>b, <1>1 DEF Threads, Live, Terminal
<1>8. Live(s)' /\ active' = active
  BY <1>b, <1>e, <1>f, <1>1, <1>7 DEF Live, Terminal, HandoffInv, OneOwner
<1>9. Fenced(s)'
  BY <1>b, <1>c, <1>d, <1>e, <1>f, <1>1, <1>2 DEF Fenced, Waiting, Held, Drives, Threads,
       Viewing, Terminal
<1>10. /\ HandoffInv'
       /\ Hold = HoldsFlock(s) /\ Hold' = HoldsFlock(s)'
       /\ Control = Drives(s) /\ Control' = Drives(s)'
  BY <1>2, <1>3, <1>4, <1>5, <1>6, <1>7, <1>8, <1>9, LiveKeeps
<1>11. HoldsFlock(s) = "none" /\ HoldsFlock(s)' = "none"
  BY <1>1 DEF HoldsFlock, Waiting, Held
<1>12. ~Drives(s)'
  BY <1>b, <1>c, <1>e, <1>f, <1>1, <1>7 DEF Drives, Threads, Viewing, Terminal, Live
<1> QED BY <1>1, <1>2, <1>10, <1>11, <1>12, FenceSteps

\* The marker goes, and with it the human.
LEMMA UnlockKeeps ==
  ASSUME HandoffInv, NEW s \in Sessions, op[s] \in {"finish", "storing"}, Unlock(s),
         UNCHANGED <<req, sess, revoke, active, policyVars>>, eligible' \in {eligible, NoSession}
  PROVE  HandoffInv' /\ OfFence
<1>a. TypeOK /\ sess[s] \in Session
  BY Here
<1>b. Threads(s)
  BY Here
<1>c. Viewing(s)
  BY Here
<1>d. Entitled(s) /\ Fenced(s)
  BY Here
<1>e. UNCHANGED sess
  BY DEF Unlock, policyVars
<1>f. /\ sess' \in [Sessions -> Session] /\ sess'[s] = sess[s]
      /\ \A t \in Sessions \ {s} : sess'[t] = sess[t]
  BY <1>a, <1>e DEF TypeOK
<1>1. /\ revoke' = revoke /\ active' = active /\ ~inherited' /\ marker' = FALSE
      /\ op[s] \in {"finish", "storing"} /\ op'[s] = "free"
      /\ term[s] = "draining" /\ term'[s] = "released"
  BY <1>a, <1>b DEF TypeOK, Threads, Unlock, policyVars
<1>2. UNCHANGED <<req, policyVars>> /\ Inherits(s) /\ inherited' \in BOOLEAN
        /\ eligible' \in Sessions \cup {NoSession} /\ marker' \in BOOLEAN
  <2>1. UNCHANGED <<req, policyVars>>
    BY DEF Unlock, policyVars
  <2>2. (inherited' = inherited \/ inherited' = FALSE) /\ eligible' \in {eligible, NoSession}
    BY DEF Unlock, policyVars
  <2>3. marker' = marker \/ marker' = FALSE \/ marker' = TRUE
    BY DEF Unlock, policyVars
  <2>4. inherited \in BOOLEAN
    BY <1>a DEF TypeOK
  <2>6. inherited' \in BOOLEAN /\ (inherited' => inherited)
    <3>1. CASE inherited' = inherited
      BY <2>4, <3>1
    <3>2. CASE inherited' = FALSE
      BY <3>2
    <3> QED BY <2>2, <3>1, <3>2
  <2>7. Inherits(s)
    BY <2>2, <2>6 DEF Inherits
  <2>5. eligible' \in Sessions \cup {NoSession} /\ marker' \in BOOLEAN
    BY <1>a, <2>2, <2>3 DEF TypeOK
  <2> QED BY <2>1, <2>5, <2>6, <2>7
<1>3. TypeOK' /\ Touches(s)
  <2>1. op' \in [Sessions -> Ops] /\ \A t \in Sessions \ {s} : op'[t] = op[t]
    BY <1>a DEF TypeOK, Ops, Unlock, policyVars
  <2>2. /\ term' \in [Sessions -> Terms] /\ \A t \in Sessions \ {s} : term'[t] = term[t]
        /\ revoke' \in [Sessions -> Revokes] /\ \A t \in Sessions \ {s} : revoke'[t] = revoke[t]
    BY <1>a DEF TypeOK, Terms, Revokes, Unlock, policyVars
  <2>3. active' \in Sessions \cup {NoSession}
    BY <1>a DEF TypeOK, Unlock, policyVars
  <2> QED BY <1>a, <1>f, <1>2, <2>1, <2>2, <2>3 DEF TypeOK, Touches, Ops, Terms, Revokes, policyVars
<1>4. Threads(s)'
  BY <1>b, <1>e, <1>f, <1>1 DEF Threads, Live, Terminal
<1>5. Viewing(s)'
  BY <1>c, <1>e, <1>f, <1>1 DEF Viewing
<1>6. Entitled(s)'
  BY <1>b, <1>d, <1>e, <1>f, <1>1 DEF Entitled, Threads, lifeVars, Sessions, NoSession
<1>7. Live(s)
  BY <1>b, <1>1 DEF Threads, Live, Terminal
<1>8. Live(s)' /\ active' = active
  BY <1>b, <1>e, <1>f, <1>1, <1>7 DEF Live, Terminal, HandoffInv, OneOwner
<1>9. Fenced(s)'
  BY <1>b, <1>c, <1>d, <1>e, <1>f, <1>1, <1>2 DEF Fenced, Waiting, Held, Drives, Threads,
       Viewing, Terminal
<1>10. /\ HandoffInv'
       /\ Hold = HoldsFlock(s) /\ Hold' = HoldsFlock(s)'
       /\ Control = Drives(s) /\ Control' = Drives(s)'
  BY <1>2, <1>3, <1>4, <1>5, <1>6, <1>7, <1>8, <1>9, LiveKeeps
<1>11. HoldsFlock(s) = "none" /\ HoldsFlock(s)' = "none"
  BY <1>1 DEF HoldsFlock, Waiting, Held
<1>12. ~Drives(s)'
  BY <1>b, <1>c, <1>e, <1>f, <1>1, <1>7 DEF Drives, Threads, Viewing, Terminal, Live
<1> QED BY <1>1, <1>2, <1>10, <1>11, <1>12, FenceSteps

\* The session is over, its marker retained or released.
LEMMA FinalizeKeeps ==
  ASSUME HandoffInv, NEW s \in Sessions, Finalize(s)
  PROVE  HandoffInv' /\ OfFence
<1>a. TypeOK /\ sess[s] \in Session
  BY Here
<1>b. Threads(s)
  BY Here
<1>c. Viewing(s)
  BY Here
<1>d. Entitled(s) /\ Fenced(s)
  BY Here
<1>0. PICK outcome \in Terminal : sess' = [sess EXCEPT ![s] = [Unused EXCEPT !.state = outcome]]
  <2>1. term[s] # "none" /\ revoke[s] = "no"
    BY <1>b DEF Finalize, Threads
  <2>2. sess[s].target \in Terminal
    BY <1>a DEF Session, Terminal
  <2> QED BY <2>1, <2>2 DEF Finalize, Over
<1> DEFINE r == [Unused EXCEPT !.state = outcome]
<1>e. /\ r \in Session /\ sess' = [sess EXCEPT ![s] = r]
      /\ r.state \in Terminal /\ r.viewer = "none" /\ ~r.confirmed
  BY <1>a, <1>0 DEF Session, Unused, Terminal
<1> HIDE DEF r
<1>f. /\ sess' \in [Sessions -> Session] /\ sess'[s] = r
      /\ \A t \in Sessions \ {s} : sess'[t] = sess[t]
  BY <1>a, <1>e, RecordMoves
<1>1. /\ op' = op /\ op[s] = "free" /\ revoke' = revoke /\ UNCHANGED lifeVars /\ marker' = marker
      /\ term[s] \in {"retained", "released"} /\ term'[s] = "none"
      /\ active' = IF active = s THEN NoSession ELSE active
      /\ sess[s].state = "ending"
  BY <1>a, <1>b DEF TypeOK, Threads, Finalize, policyVars, lifeVars, proxyVars
<1>2. UNCHANGED <<req, policyVars>> /\ Inherits(s) /\ inherited' \in BOOLEAN
        /\ eligible' \in Sessions \cup {NoSession} /\ marker' \in BOOLEAN
  <2>1. UNCHANGED <<req, policyVars>>
    BY DEF Finalize, policyVars, lifeVars, proxyVars
  <2>2. (inherited' = inherited \/ inherited' = FALSE) /\ eligible' \in {eligible, NoSession}
    BY DEF Finalize, policyVars, lifeVars, proxyVars
  <2>3. marker' = marker \/ marker' = FALSE \/ marker' = TRUE
    BY DEF Finalize, policyVars, lifeVars, proxyVars
  <2>4. inherited \in BOOLEAN
    BY <1>a DEF TypeOK
  <2>6. inherited' \in BOOLEAN /\ (inherited' => inherited)
    <3>1. CASE inherited' = inherited
      BY <2>4, <3>1
    <3>2. CASE inherited' = FALSE
      BY <3>2
    <3> QED BY <2>2, <3>1, <3>2
  <2>7. Inherits(s)
    BY <2>2, <2>6 DEF Inherits
  <2>5. eligible' \in Sessions \cup {NoSession} /\ marker' \in BOOLEAN
    BY <1>a, <2>2, <2>3 DEF TypeOK
  <2> QED BY <2>1, <2>5, <2>6, <2>7
<1>3. TypeOK' /\ Touches(s)
  <2>1. op' \in [Sessions -> Ops] /\ \A t \in Sessions \ {s} : op'[t] = op[t]
    BY <1>a DEF TypeOK, Ops, Finalize, policyVars, lifeVars, proxyVars
  <2>2. /\ term' \in [Sessions -> Terms] /\ \A t \in Sessions \ {s} : term'[t] = term[t]
        /\ revoke' \in [Sessions -> Revokes] /\ \A t \in Sessions \ {s} : revoke'[t] = revoke[t]
    BY <1>a DEF TypeOK, Terms, Revokes, Finalize, policyVars, lifeVars, proxyVars
  <2>3. active' \in Sessions \cup {NoSession}
    BY <1>a DEF TypeOK, Finalize, policyVars, lifeVars, proxyVars
  <2> QED BY <1>a, <1>f, <1>2, <2>1, <2>2, <2>3 DEF TypeOK, Touches, Ops, Terms, Revokes, policyVars
<1>4. Threads(s)'
  BY <1>b, <1>e, <1>f, <1>1 DEF Threads, Live, Terminal
<1>5. Viewing(s)'
  BY <1>c, <1>e, <1>f, <1>1 DEF Viewing
<1>6. Entitled(s)'
  BY <1>b, <1>d, <1>e, <1>f, <1>1 DEF Entitled, Threads, lifeVars, Sessions, NoSession
<1>7. Live(s)
  BY <1>b, <1>1 DEF Threads, Live, Terminal
<1>8. ~Live(s)' /\ active' = NoSession
  BY <1>b, <1>e, <1>f, <1>1, <1>7 DEF Live, Terminal, HandoffInv, OneOwner
<1>9. Fenced(s)'
  BY <1>b, <1>c, <1>d, <1>e, <1>f, <1>1, <1>2 DEF Fenced, Waiting, Held, Drives, Threads,
       Viewing, Terminal
<1>10. /\ HandoffInv'
       /\ Hold = HoldsFlock(s) /\ Hold' = HoldsFlock(s)'
       /\ Control = Drives(s) /\ Control' = Drives(s)'
  BY <1>2, <1>3, <1>4, <1>5, <1>6, <1>7, <1>8, <1>9, LiveKeeps
<1>11. HoldsFlock(s) = "none" /\ HoldsFlock(s)' = "none"
  BY <1>1 DEF HoldsFlock, Waiting, Held
<1>12. ~Drives(s)'
  BY <1>b, <1>c, <1>e, <1>f, <1>1, <1>7 DEF Drives, Threads, Viewing, Terminal, Live
<1> QED BY <1>1, <1>2, <1>10, <1>11, <1>12, FenceSteps

\* A revocation gives the workspace up, not the marker.
LEMMA RevokeKeeps ==
  ASSUME HandoffInv, NEW s \in Sessions, Revoke(s)
  PROVE  HandoffInv' /\ OfFence
<1>a. TypeOK /\ sess[s] \in Session
  BY Here
<1>b. Threads(s)
  BY Here
<1>c. Viewing(s)
  BY Here
<1>d. Entitled(s) /\ Fenced(s)
  BY Here
<1>0. PICK outcome \in Terminal : /\ outcome = "revoked"
                                   /\ sess' = [sess EXCEPT ![s] = [Unused EXCEPT !.state = outcome]]
  <2>1. term[s] = "none"
    BY <1>b DEF Revoke, Threads
  <2> QED BY <2>1 DEF Revoke, Over, Terminal
<1> DEFINE r == [Unused EXCEPT !.state = outcome]
<1>e. /\ r \in Session /\ sess' = [sess EXCEPT ![s] = r]
      /\ r.state \in Terminal /\ r.viewer = "none" /\ ~r.confirmed /\ r.state = "revoked"
  BY <1>a, <1>0 DEF Session, Unused, Terminal
<1> HIDE DEF r
<1>f. /\ sess' \in [Sessions -> Session] /\ sess'[s] = r
      /\ \A t \in Sessions \ {s} : sess'[t] = sess[t]
  BY <1>a, <1>e, RecordMoves
<1>1. /\ op[s] = "free" /\ op'[s] = "revoking" /\ UNCHANGED lifeVars /\ marker' = marker
      /\ revoke[s] = "waiting" /\ revoke'[s] = "fencing"
      /\ term' = term /\ term[s] = "none"
      /\ active' = IF active = s THEN NoSession ELSE active
      /\ sess[s].state = "revoking"
  BY <1>a, <1>b DEF TypeOK, Threads, Revoke, Became, policyVars, lifeVars, proxyVars
<1>2. UNCHANGED <<req, policyVars>> /\ Inherits(s) /\ inherited' \in BOOLEAN
        /\ eligible' \in Sessions \cup {NoSession} /\ marker' \in BOOLEAN
  <2>1. UNCHANGED <<req, policyVars>>
    BY DEF Revoke, Became, policyVars, lifeVars, proxyVars
  <2>2. (inherited' = inherited \/ inherited' = FALSE) /\ eligible' \in {eligible, NoSession}
    BY DEF Revoke, Became, policyVars, lifeVars, proxyVars
  <2>3. marker' = marker \/ marker' = FALSE \/ marker' = TRUE
    BY DEF Revoke, Became, policyVars, lifeVars, proxyVars
  <2>4. inherited \in BOOLEAN
    BY <1>a DEF TypeOK
  <2>6. inherited' \in BOOLEAN /\ (inherited' => inherited)
    <3>1. CASE inherited' = inherited
      BY <2>4, <3>1
    <3>2. CASE inherited' = FALSE
      BY <3>2
    <3> QED BY <2>2, <3>1, <3>2
  <2>7. Inherits(s)
    BY <2>2, <2>6 DEF Inherits
  <2>5. eligible' \in Sessions \cup {NoSession} /\ marker' \in BOOLEAN
    BY <1>a, <2>2, <2>3 DEF TypeOK
  <2> QED BY <2>1, <2>5, <2>6, <2>7
<1>3. TypeOK' /\ Touches(s)
  <2>1. op' \in [Sessions -> Ops] /\ \A t \in Sessions \ {s} : op'[t] = op[t]
    BY <1>a DEF TypeOK, Ops, Revoke, Became, policyVars, lifeVars, proxyVars
  <2>2. /\ term' \in [Sessions -> Terms] /\ \A t \in Sessions \ {s} : term'[t] = term[t]
        /\ revoke' \in [Sessions -> Revokes] /\ \A t \in Sessions \ {s} : revoke'[t] = revoke[t]
    BY <1>a DEF TypeOK, Terms, Revokes, Revoke, Became, policyVars, lifeVars, proxyVars
  <2>3. active' \in Sessions \cup {NoSession}
    BY <1>a DEF TypeOK, Revoke, Became, policyVars, lifeVars, proxyVars
  <2> QED BY <1>a, <1>f, <1>2, <2>1, <2>2, <2>3 DEF TypeOK, Touches, Ops, Terms, Revokes, policyVars
<1>4. Threads(s)'
  BY <1>b, <1>e, <1>f, <1>1 DEF Threads, Live, Terminal
<1>5. Viewing(s)'
  BY <1>c, <1>e, <1>f, <1>1 DEF Viewing
<1>6. Entitled(s)'
  BY <1>b, <1>d, <1>e, <1>f, <1>1 DEF Entitled, Threads, lifeVars, Sessions, NoSession
<1>7. Live(s)
  BY <1>b, <1>1 DEF Threads, Live, Terminal
<1>8. ~Live(s)' /\ active' = NoSession
  BY <1>b, <1>e, <1>f, <1>1, <1>7 DEF Live, Terminal, HandoffInv, OneOwner
<1>9. Fenced(s)'
  BY <1>b, <1>c, <1>d, <1>e, <1>f, <1>1, <1>2 DEF Fenced, Waiting, Held, Drives, Threads,
       Viewing, Terminal
<1>10. /\ HandoffInv'
       /\ Hold = HoldsFlock(s) /\ Hold' = HoldsFlock(s)'
       /\ Control = Drives(s) /\ Control' = Drives(s)'
  BY <1>2, <1>3, <1>4, <1>5, <1>6, <1>7, <1>8, <1>9, LiveKeeps
<1>11. HoldsFlock(s) = "none" /\ HoldsFlock(s)' = "none"
  BY <1>1 DEF HoldsFlock, Waiting, Held
<1>12. ~Drives(s)'
  BY <1>b, <1>c, <1>e, <1>f, <1>1, <1>7 DEF Drives, Threads, Viewing, Terminal, Live
<1> QED BY <1>1, <1>2, <1>10, <1>11, <1>12, FenceSteps

-----------------------------------------------------------------------------
(* The other steps.                                                          *)

\* A handler thread enters when nobody holds LOCK_EX, and goes on to forward
\* when the marker is absent.
LEMMA ProxyKeeps ==
  ASSUME HandoffInv, NEW r \in Requests, ProxyStep(r)
  PROVE  HandoffInv' /\ OfFence
<1>a. TypeOK /\ Requesting
  BY DEF HandoffInv
<1>1. UNCHANGED <<marker, sess, op, term, revoke, active, lifeVars, policyVars>> /\ Fence!Proxy(r)
  BY DEF ProxyStep, Fence!Proxy, Fence!Handle, Fence!Arrive, Fence!ReadBody, Fence!RefuseBody,
         Fence!Gate, Fence!GateFails, Fence!Recheck, Fence!Forwarded, Fence!HandlerMoves
<1>2. PICK at \in {"idle", "body", "gate", "shared", "forwarding"} :
        /\ req' = [req EXCEPT ![r] = at]
        /\ at = "shared" => Hold # "held"
        /\ at = "forwarding" => req[r] = "shared" /\ ~marker
  BY <1>a, <1>1
     DEF TypeOK, Requesting, Fence!Proxy, Fence!Handle, Fence!Arrive, Fence!ReadBody, Fence!RefuseBody,
         Fence!Gate, Fence!GateFails, Fence!Recheck, Fence!Forwarded, Fence!HandlerMoves
<1>3. Requesting' /\ req'[r] = at /\ \A q \in Requests \ {r} : req'[q] = req[q]
  BY <1>a, <1>2 DEF Requesting
<1>4. TypeOK'
  BY <1>a, <1>1 DEF TypeOK, lifeVars, policyVars
<1>5. ASSUME NEW s \in Sessions
      PROVE  Threads(s)' /\ Viewing(s)' /\ Entitled(s)' /\ Fenced(s)'
  <2>1. Threads(s)' /\ Viewing(s)' /\ Entitled(s)'
    BY <1>1, Here DEF Threads, Viewing, Entitled, Live, lifeVars
  <2>2. Fenced(s) /\ (Waiting(s)' <=> Waiting(s)) /\ (Held(s)' <=> Held(s))
           /\ (Drives(s)' <=> Drives(s))
    BY <1>1, Here DEF Waiting, Held, Drives
  <2>3. Held(s) => Hold = "held"
    BY DEF Hold
  <2> QED BY <1>1, <1>2, <1>3, <2>1, <2>2, <2>3 DEF Fenced
<1>6. OneOwner'
  BY <1>1 DEF HandoffInv, OneOwner
<1> QED BY <1>1, <1>3, <1>4, <1>5, <1>6 DEF HandoffInv, OfFence, Fence!RestNext

\* A step that only touches what is waiting for a mint.
LEMMA StutterKeeps ==
  ASSUME HandoffInv, UNCHANGED <<proxyVars, sess, op, term, revoke, active, lifeVars>>,
         grants' \subseteq Users, minting' \subseteq Users
  PROVE  HandoffInv' /\ OfFence
<1>1. UNCHANGED <<marker, req, sess, op, term, revoke, active, inherited, eligible>>
  BY DEF proxyVars, lifeVars
<1>2. TypeOK' /\ Requesting'
  BY <1>1 DEF HandoffInv, TypeOK, Requesting
<1>3. ASSUME NEW s \in Sessions
      PROVE  Threads(s)' /\ Viewing(s)' /\ Entitled(s)' /\ Fenced(s)'
  BY ZenonT(30), <1>1, Here DEF Threads, Viewing, Entitled, Fenced, Live, Waiting, Held, Drives
<1>4. OneOwner'
  BY <1>1 DEF HandoffInv, OneOwner
<1>5. UNCHANGED fenceVars
  BY <1>1 DEF fenceVars, Hold, Control, Waiting, Held, Drives
<1> QED BY <1>2, <1>3, <1>4, <1>5 DEF HandoffInv, OfFence

\* A new session is nobody's fence yet.
LEMMA MintKeeps ==
  ASSUME HandoffInv, NEW u \in Users, Mint(u)
  PROVE  HandoffInv' /\ OfFence
<1>a. TypeOK /\ Requesting
  BY DEF HandoffInv
<1>b. minting' \subseteq Users /\ grants' \subseteq Users
  BY <1>a DEF TypeOK, Mint
<1>1. CASE active # NoSession
  BY <1>a, <1>b, <1>1, StutterKeeps DEF Mint
<1>2. CASE active = NoSession
  <2>1. PICK s \in Sessions :
          /\ sess[s].state = "unused"
          /\ sess' = [sess EXCEPT ![s] = [Unused EXCEPT !.state = "active", !.owner = u]]
          /\ active' = s
    BY <1>2 DEF Mint
  <2> DEFINE rec == [Unused EXCEPT !.state = "active", !.owner = u]
  <2>2. /\ rec \in Session /\ rec.state = "active" /\ rec.viewer = "none" /\ ~rec.confirmed
        /\ rec.mode = "takeover"
    BY DEF Session, Unused
  <2>3. sess' = [sess EXCEPT ![s] = rec]
    BY <2>1
  <2> HIDE DEF rec
  <2>4. /\ sess' \in [Sessions -> Session] /\ sess'[s] = rec
        /\ \A t \in Sessions \ {s} : sess'[t] = sess[t]
    BY <1>a, <2>2, <2>3, RecordMoves
  <2>5. UNCHANGED <<marker, req, op, term, revoke, inherited, eligible, grants>>
    BY DEF Mint, proxyVars, lifeVars
  <2>6. \A t \in Sessions : ~Live(t)
    BY <1>2 DEF HandoffInv, OneOwner, Live, Sessions, NoSession
  <2>7. \A t \in Sessions : op[t] \in {"free", "revoking"} /\ ~Drives(t)
    BY <2>6, Here DEF Threads, Drives, Live
  <2>8. ~Drives(s)' /\ \A t \in Sessions \ {s} : ~Drives(t)'
    BY <2>2, <2>4, <2>5, <2>7 DEF Drives
  <2>9. \A t \in Sessions : ~Drives(t)' /\ ~Waiting(t) /\ ~Held(t) /\ ~Waiting(t)' /\ ~Held(t)'
    BY <2>5, <2>7, <2>8 DEF Waiting, Held
  <2>10. TypeOK' /\ Requesting'
    BY <1>a, <1>b, <2>1, <2>4, <2>5 DEF TypeOK, Requesting
  <2>11. Threads(s)' /\ Viewing(s)' /\ Entitled(s)'
    <3>1. Threads(s) /\ Entitled(s) /\ op[s] \in {"free", "revoking"}
      BY <2>7, Here
    <3>2. op[s] = "free" /\ term[s] = "none" /\ revoke[s] # "waiting" /\ revoke[s] # "fencing"
      BY <2>1, <3>1 DEF Threads
    <3>3. Threads(s)'
      BY <2>2, <2>4, <2>5, <3>2 DEF Threads, Live, Terminal
    <3>4. Viewing(s)' /\ Entitled(s)'
      BY <2>2, <2>4, <2>5, <3>1, <3>2 DEF Viewing, Entitled
    <3> QED BY <3>3, <3>4
  <2>12. ASSUME NEW t \in Sessions, t # s PROVE Threads(t)' /\ Viewing(t)' /\ Entitled(t)'
    <3>1. Threads(t) /\ Viewing(t) /\ Entitled(t)
      BY Here
    <3>2. /\ sess'[t] = sess[t] /\ op'[t] = op[t] /\ term'[t] = term[t] /\ revoke'[t] = revoke[t]
          /\ inherited' = inherited /\ eligible' = eligible
      BY <2>4, <2>5, <2>12
    <3> QED BY <3>1, <3>2 DEF Threads, Viewing, Entitled, Live
  <2>13. OneOwner'
    <3>1. \A t \in Sessions \ {s} : sess'[t].state \in Terminal \cup {"unused"}
      BY <2>4, <2>6 DEF Live
    <3>2. sess'[s].state \notin Terminal \cup {"unused"}
      BY <2>2, <2>4 DEF Terminal
    <3> QED BY <2>1, <3>1, <3>2 DEF OneOwner
  <2>14. \A t \in Sessions : Fenced(t)'
    BY <2>9 DEF Fenced
  <2>15. UNCHANGED fenceVars
    BY <2>5, <2>7, <2>9 DEF fenceVars, Hold, Control
  <2> QED BY <2>10, <2>11, <2>12, <2>13, <2>14, <2>15 DEF HandoffInv, OfFence
<1> QED BY <1>1, <1>2

\* A withdrawn grant stops its owner's live session where it is.
LEMMA ReloadKeeps ==
  ASSUME HandoffInv, NEW G \in SUBSET Users, Reload(G)
  PROVE  HandoffInv' /\ OfFence
<1>a. TypeOK /\ Requesting
  BY DEF HandoffInv
<1> DEFINE affected == {s \in Sessions : /\ sess[s].state \in {"active", "recovery_required"}
                                         /\ sess[s].owner \notin G}
<1>1. /\ sess' = [s \in Sessions |-> IF s \in affected THEN [sess[s] EXCEPT !.state = "revoking"]
                                     ELSE sess[s]]
      /\ revoke' = [s \in Sessions |-> IF s \in affected THEN "waiting" ELSE revoke[s]]
      /\ UNCHANGED <<marker, req, op, term, active, inherited, eligible, minting>> /\ grants' = G
  BY DEF Reload, proxyVars, lifeVars
<1>2. ASSUME NEW s \in affected
      PROVE  /\ s \in Sessions /\ sess[s].state \in {"active", "recovery_required"}
             /\ sess'[s] \in Session /\ sess'[s].state = "revoking" /\ revoke'[s] = "waiting"
             /\ sess'[s].viewer = sess[s].viewer /\ sess'[s].confirmed = sess[s].confirmed
             /\ sess'[s].mode = sess[s].mode /\ sess'[s].target = sess[s].target
  <2>1. s \in Sessions /\ sess[s].state \in {"active", "recovery_required"} /\ sess[s] \in Session
    BY <1>a DEF TypeOK
  <2>2. sess'[s] = [sess[s] EXCEPT !.state = "revoking"] /\ revoke'[s] = "waiting"
    BY <1>1, <2>1
  <2> QED BY <2>1, <2>2 DEF Session
<1>3. \A s \in Sessions \ affected : sess'[s] = sess[s] /\ revoke'[s] = revoke[s]
  BY <1>1
<1>4. TypeOK' /\ Requesting'
  <2>1. sess' \in [Sessions -> Session]
    <3>1. \A s \in Sessions :
            (IF s \in affected THEN [sess[s] EXCEPT !.state = "revoking"] ELSE sess[s]) \in Session
      BY ZenonT(30), <1>a, <1>1, <1>2, <1>3 DEF TypeOK
    <3> QED BY <1>1, <3>1
  <2>2. revoke' \in [Sessions -> {"no", "waiting", "fencing"}]
    BY <1>a, <1>1 DEF TypeOK
  <2> QED BY <1>a, <1>1, <2>1, <2>2 DEF TypeOK, Requesting
<1> HIDE DEF affected
<1>5. ASSUME NEW s \in Sessions
      PROVE  /\ Threads(s)' /\ Viewing(s)' /\ Entitled(s)'
             /\ (Live(s)' <=> Live(s)) /\ (Drives(s)' <=> Drives(s))
  <2>a. Threads(s)
    BY Here
  <2>b. Viewing(s) /\ Entitled(s)
    BY Here
  <2>1. CASE s \in affected
    <3>1. term[s] = "none" /\ revoke[s] # "waiting" /\ revoke[s] # "fencing" /\ op[s] # "revoking"
      BY <1>2, <2>1, <2>a DEF Threads
    <3>2. Threads(s)'
      BY <1>1, <1>2, <2>1, <2>a, <3>1 DEF Threads, Live, Terminal
    <3>3. /\ op'[s] = op[s] /\ term'[s] = term[s] /\ inherited' = inherited /\ eligible' = eligible
          /\ sess'[s].viewer = sess[s].viewer /\ sess'[s].confirmed = sess[s].confirmed
          /\ sess'[s].mode = sess[s].mode /\ sess'[s].target = sess[s].target
      BY <1>1, <1>2, <2>1
    <3>4. Viewing(s)'
      BY <2>b, <3>3 DEF Viewing
    <3>5. Entitled(s)'
      BY <2>b, <3>3 DEF Entitled
    <3>6. Live(s) /\ Live(s)'
      BY <1>2, <2>1 DEF Live, Terminal
    <3>7. Drives(s)' <=> Drives(s)
      BY <3>3, <3>6 DEF Live, Drives
    <3> QED BY <3>2, <3>4, <3>5, <3>6, <3>7
  <2>2. CASE s \notin affected
    BY <1>1, <1>3, <2>2, <2>a, <2>b DEF Threads, Viewing, Entitled, Live, Drives
  <2> QED BY <2>1, <2>2
<1>6. \A s \in Sessions : (Waiting(s)' <=> Waiting(s)) /\ (Held(s)' <=> Held(s))
  BY <1>1 DEF Waiting, Held
<1>7. \A s \in Sessions : Fenced(s)'
  BY <1>1, <1>5, <1>6 DEF HandoffInv, Fenced
<1>8. OneOwner'
  BY <1>1, <1>5 DEF HandoffInv, OneOwner, Live
<1>9. UNCHANGED fenceVars
  BY <1>1, <1>5, <1>6 DEF fenceVars, Hold, Control
<1> QED BY <1>4, <1>5, <1>7, <1>8, <1>9 DEF HandoffInv, OfFence

\* A state of the broker as it starts, and what it leaves of the fence.
Fresh ==
  /\ marker \in BOOLEAN /\ inherited = marker /\ eligible = NoSession /\ active = NoSession
  /\ sess = [s \in Sessions |-> Unused] /\ op = [s \in Sessions |-> "free"]
  /\ term = [s \in Sessions |-> "none"] /\ revoke = [s \in Sessions |-> "no"]
  /\ grants \subseteq Users /\ minting = {} /\ Requesting
Open == Hold = "none" /\ ~Control

LEMMA FreshHolds == Fresh => HandoffInv /\ Open
<1> SUFFICES ASSUME Fresh PROVE HandoffInv /\ Open
  OBVIOUS
<1> USE DEF Fresh
<1>1. \A s \in Sessions : /\ sess[s] = Unused /\ op[s] = "free" /\ term[s] = "none"
                          /\ revoke[s] = "no" /\ s # NoSession
  BY DEF Sessions, NoSession
<1>2. /\ Unused \in Session /\ Unused.state = "unused" /\ Unused.viewer = "none"
      /\ Unused.confirmed = FALSE
  BY DEF Unused, Session
<1>3. TypeOK
  BY <1>2 DEF TypeOK
<1>4. \A s \in Sessions : ~Waiting(s) /\ ~Held(s) /\ ~Drives(s)
  BY <1>1, <1>2 DEF Waiting, Held, Drives
<1>5. \A s \in Sessions : Threads(s) /\ Viewing(s)
  BY <1>1, <1>2 DEF Threads, Viewing, Live
<1>6. \A s \in Sessions : Entitled(s)
  BY <1>1 DEF Entitled
<1>7. \A s \in Sessions : Fenced(s)
  BY <1>4 DEF Fenced
<1>8. OneOwner
  BY <1>1, <1>2 DEF OneOwner
<1>9. Open
  BY <1>4 DEF Open, Hold, Control
<1> QED BY <1>3, <1>5, <1>6, <1>7, <1>8, <1>9 DEF HandoffInv

\* The kernel drops a dead broker's flock, the marker stays.
LEMMA RestartKeeps ==
  ASSUME HandoffInv, Restart
  PROVE  HandoffInv' /\ OfFence
<1>1. TypeOK /\ Requesting
  BY DEF HandoffInv
<1>2. Fresh'
  BY <1>1 DEF Fresh, Restart, TypeOK, Requesting, proxyVars
<1>3. HandoffInv' /\ Open'
  BY <1>2, FreshHolds, PTL
<1> QED BY <1>3, FenceSteps DEF Open, Restart, proxyVars

\* What a person asks for.
LEMMA AskKeeps ==
  ASSUME EndWaits, HandoffInv, NEW s \in Sessions, Ask(s)
  PROVE  HandoffInv' /\ OfFence
<1>1. CASE Pass(s) \/ Visit(s)
  BY <1>1, TimeKeeps
<1>2. CASE Button(s) \/ Connect(s)
  <2>1. sess[s].mode \in {"takeover", "observe"}
    BY Here DEF Session
  <2> QED BY <1>2, <2>1, TouchKeeps, ViewerKeeps
<1>3. CASE Attach(s) \/ Detach(s)
  BY <1>3, ViewerKeeps
<1>4. CASE SendInput(s) \/ SendScreen(s)
  BY <1>4, ForwardingKeeps
<1>5. CASE Observe(s)
  BY <1>5, ObserveKeeps, ObserveBeginsKeeps
<1>6. CASE End(s) \/ Expire(s)
  BY <1>6, EndingKeeps
<1>7. CASE Prune(s)
  BY <1>7, PruneKeeps
<1> QED BY <1>1, <1>2, <1>3, <1>4, <1>5, <1>6, <1>7 DEF Ask

\* The terminal cleanup's own step under the action_lock.
LEMMA FinishKeeps ==
  ASSUME HandoffInv, NEW s \in Sessions, Finish(s)
  PROVE  HandoffInv' /\ OfFence
<1>1. CASE /\ inherited /\ (sess[s].target # "ended" \/ eligible = NoSession)
           /\ op' = [op EXCEPT ![s] = "free"] /\ term' = [term EXCEPT ![s] = "retained"]
           /\ UNCHANGED <<marker, lifeVars>>
  <2>1. UNCHANGED <<marker, lifeVars, req, sess, revoke, active, policyVars>> /\ op[s] = "finish"
    BY <1>1 DEF Finish
  <2> QED BY <1>1, <2>1, RetainedKeeps
<1>2. CASE /\ inherited => sess[s].target = "ended" /\ eligible # NoSession
           /\ eligible' = IF inherited THEN NoSession ELSE eligible
           /\ marker /\ op' = [op EXCEPT ![s] = "storing"] /\ UNCHANGED <<marker, inherited, term>>
  <2>1. /\ UNCHANGED <<marker, inherited, term, req, sess, revoke, active, policyVars>>
        /\ op[s] = "finish"
    BY <1>2 DEF Finish
  <2> QED BY <1>2, <2>1, StoringKeeps
<1>3. CASE eligible' = (IF inherited THEN NoSession ELSE eligible) /\ Unlock(s)
  <2>1. UNCHANGED <<req, sess, revoke, active, policyVars>> /\ op[s] \in {"finish", "storing"}
    BY DEF Finish
  <2>2. eligible' \in {eligible, NoSession}
    BY <1>3
  <2> QED BY <1>3, <2>1, <2>2, UnlockKeeps
<1> QED BY <1>1, <1>2, <1>3 DEF Finish

\* What the holder of an action_lock does.
LEMMA ActKeeps ==
  ASSUME HandoffInv, NEW s \in Sessions, Act(s)
  PROVE  HandoffInv' /\ OfFence
<1>1. CASE Drain(s)
  BY <1>1, DrainKeeps
<1>2. CASE DrainFails(s)
  BY <1>2, DrainFailsKeeps
<1>3. CASE Confirm(s)
  BY <1>3, ConfirmKeeps
<1>4. CASE InputSent(s)
  BY <1>4, ForwardingKeeps
<1>5. CASE Observed(s)
  BY <1>5, ObserveKeeps
<1>6. CASE ObserveFails(s)
  BY <1>6, ObserveBeginsKeeps
<1>7. CASE Finish(s)
  BY <1>7, FinishKeeps
<1>8. CASE Stored(s)
  <2>1. /\ UNCHANGED <<req, sess, revoke, active, policyVars>> /\ op[s] \in {"finish", "storing"}
        /\ Unlock(s) /\ eligible' \in {eligible, NoSession}
    BY <1>8 DEF Stored
  <2> QED BY <2>1, UnlockKeeps
<1>9. CASE StoreFails(s)
  BY <1>9, StoreFailsKeeps
<1> QED BY <1>1, <1>2, <1>3, <1>4, <1>5, <1>6, <1>7, <1>8, <1>9 DEF Act

\* Every step keeps the invariant and is one of the fence, or none.
LEMMA HandoffStep ==
  ASSUME EndWaits, HandoffInv, [Next]_handoffVars
  PROVE  HandoffInv' /\ OfFence
<1>1. CASE UNCHANGED handoffVars
  <2>1. /\ UNCHANGED <<proxyVars, sess, op, term, revoke, active, lifeVars>>
        /\ grants' \subseteq Users /\ minting' \subseteq Users
    BY <1>1 DEF handoffVars, policyVars, HandoffInv, TypeOK
  <2> QED BY <2>1, StutterKeeps
<1>2. ASSUME NEW r \in Requests, ProxyStep(r) PROVE HandoffInv' /\ OfFence
  BY <1>2, ProxyKeeps
<1>3. ASSUME NEW u \in Users, Authorize(u) PROVE HandoffInv' /\ OfFence
  <2>1. /\ UNCHANGED <<proxyVars, sess, op, term, revoke, active, lifeVars>>
        /\ grants' \subseteq Users /\ minting' \subseteq Users
    BY <1>3 DEF Authorize, HandoffInv, TypeOK
  <2> QED BY <2>1, StutterKeeps
<1>4. ASSUME NEW u \in Users, Mint(u) PROVE HandoffInv' /\ OfFence
  BY <1>4, MintKeeps
<1>5. ASSUME NEW s \in Sessions, Ask(s) \/ Act(s) PROVE HandoffInv' /\ OfFence
  BY <1>5, AskKeeps, ActKeeps
<1>6. ASSUME NEW s \in Sessions, ScreenSent(s) PROVE HandoffInv' /\ OfFence
  BY <1>6, ForwardingKeeps
<1>7. ASSUME NEW s \in Sessions, Clean(s) PROVE HandoffInv' /\ OfFence
  BY <1>7, ViewerKeeps, TransitionKeeps, FinalizeKeeps DEF Clean
<1>8. ASSUME NEW s \in Sessions, CloseFails(s) PROVE HandoffInv' /\ OfFence
  BY <1>8, CloseFailsKeeps
<1>9. ASSUME NEW s \in Sessions, Withdraw(s) PROVE HandoffInv' /\ OfFence
  BY <1>9, RevokeKeeps, RetainKeeps DEF Withdraw
<1>10. ASSUME NEW G \in SUBSET Users, Reload(G) PROVE HandoffInv' /\ OfFence
  BY <1>10, ReloadKeeps
<1>11. CASE Restart
  BY <1>11, RestartKeeps
<1> QED BY <1>1, <1>2, <1>3, <1>4, <1>5, <1>6, <1>7, <1>8, <1>9, <1>10, <1>11 DEF Next

LEMMA HandoffInit == Init => Fresh
BY DEF Init, Fresh, Requesting

\* A human whose input is on its way drives, and is fenced.
LEMMA InputIsFenced == HandoffInv => HumanAlone
<1> SUFFICES ASSUME HandoffInv, NEW s \in Sessions, op[s] = "input"
             PROVE  \A r \in Requests : req[r] # "forwarding"
  BY DEF HumanAlone
<1>1. Threads(s) /\ Viewing(s) /\ Fenced(s)
  BY Here
<1>2. Live(s) /\ term[s] # "released" /\ sess[s].confirmed /\ sess[s].mode = "takeover"
  BY <1>1 DEF Threads, Viewing
<1>3. Drives(s)
  BY <1>2 DEF Drives, Live
<1> QED BY <1>1, <1>3 DEF Fenced

\* The marker falls only once the browser's state is saved, or when a release
\* found nothing to save because it had fallen before.
LEMMA MarkerFalls ==
  ASSUME [Next]_handoffVars, marker, ~marker'
  PROVE  \E s \in Sessions : Observed(s) \/ Stored(s)
<1>1. ~UNCHANGED marker
  OBVIOUS
<1>2. ~UNCHANGED handoffVars /\ ~Restart /\ ~(\E r \in Requests : ProxyStep(r))
  BY <1>1 DEF handoffVars, proxyVars, Restart, ProxyStep, Fence!Proxy, Fence!Handle, Fence!Arrive,
              Fence!ReadBody, Fence!RefuseBody, Fence!Gate, Fence!GateFails, Fence!Recheck,
              Fence!Forwarded, Fence!HandlerMoves
<1>3. ~(\E u \in Users : Authorize(u) \/ Mint(u)) /\ ~(\E G \in SUBSET Users : Reload(G))
  BY <1>1 DEF Authorize, Mint, Reload, proxyVars
<1>4. ASSUME NEW s \in Sessions PROVE ~Ask(s)
  <2>1. ~(Pass(s) \/ Visit(s) \/ Attach(s) \/ Detach(s) \/ SendInput(s) \/ SendScreen(s) \/ Prune(s))
    BY <1>1 DEF Pass, Visit, Attach, Detach, SendInput, SendScreen, Prune, proxyVars
  <2>2. ~(Button(s) \/ Connect(s) \/ Observe(s))
    BY <1>1 DEF Button, Connect, Observe
  <2>3. ~(End(s) \/ Expire(s))
    BY <1>1 DEF End, Expire, BeginTerminal, proxyVars
  <2> QED BY <2>1, <2>2, <2>3 DEF Ask
<1>5. ASSUME NEW s \in Sessions PROVE ~(ScreenSent(s) \/ CloseFails(s) \/ Clean(s) \/ Withdraw(s))
  BY <1>1 DEF ScreenSent, CloseFails, Recovery, Clean, Close, Transition, Finalize, Withdraw,
       Revoke,
              Retain, proxyVars
<1>6. ASSUME NEW s \in Sessions, Act(s) PROVE Observed(s) \/ Stored(s)
  BY <1>1, <1>6 DEF Act, Drain, DrainFails, Confirm, InputSent, ObserveFails, Finish, StoreFails,
                    Recovery, proxyVars
<1> QED BY <1>2, <1>3, <1>4, <1>5, <1>6 DEF Next

\* Who releases an inherited marker is entitled to.
LEMMA ReleaseIsEntitled ==
  ASSUME HandoffInv, [Next]_handoffVars, marker, ~marker', inherited
  PROVE  \E s \in Sessions :
           /\ op[s] \in {"observing", "storing"} /\ sess[s].confirmed
           /\ op[s] = "storing" => sess[s].target = "ended"
<1>1. PICK s \in Sessions : Observed(s) \/ Stored(s)
  BY MarkerFalls
<1>2. op[s] \in {"observing", "storing"}
  BY <1>1 DEF Observed, Stored, Became
<1>3. Entitled(s)
  BY Here
<1> QED BY <1>2, <1>3 DEF Entitled

-----------------------------------------------------------------------------
(* The theorems.                                                             *)

\* The inductive invariant holds of every behaviour.
LEMMA HandoffInvariant == EndWaits => (Spec => []HandoffInv)
<1> SUFFICES ASSUME EndWaits PROVE Spec => []HandoffInv
  OBVIOUS
<1>1. Init => HandoffInv
  BY HandoffInit, FreshHolds
<1>2. HandoffInv /\ [Next]_handoffVars => HandoffInv'
  BY HandoffStep
<1> QED BY <1>1, <1>2, PTL DEF Spec

\* Every session, thread and index keeps its type.
THEOREM SessionsTyped == EndWaits => (Spec => []TypeOK)
<1>1. HandoffInv => TypeOK
  BY DEF HandoffInv
<1> QED BY <1>1, HandoffInvariant, PTL

\* While a human's input is on its way, no automation request is, whatever became
\* of the session since its takeover.
THEOREM InputIsAlone == EndWaits => (Spec => []HumanAlone)
BY HandoffInvariant, InputIsFenced, PTL

\* The workspace's owner is the one session that is not over.
THEOREM OwnerIsTheLiveSession == EndWaits => (Spec => []OneOwner)
<1>1. HandoffInv => OneOwner
  BY DEF HandoffInv
<1> QED BY <1>1, HandoffInvariant, PTL

\* Sessions and proxy implement RestLock: every step of theirs is one of its
\* takeovers, releases, departures and requests, or changes nothing of it.
THEOREM ImplementsRestLock == EndWaits => (Spec => KeepsFence)
<1> SUFFICES ASSUME EndWaits PROVE Spec => KeepsFence
  OBVIOUS
<1>1. Init => Fence!RestInit
  <2> SUFFICES ASSUME Init PROVE Fence!RestInit
    OBVIOUS
  <2>1. Open
    BY HandoffInit, FreshHolds
  <2> QED BY <2>1 DEF Init, Open, Control, Fence!RestInit
<1>2. HandoffInv /\ [Next]_handoffVars => [Fence!RestNext]_(Fence!restVars)
  BY HandoffStep DEF OfFence, fenceVars, Control, Fence!restVars
<1> QED BY <1>1, <1>2, HandoffInvariant, PTL DEF Spec, KeepsFence, Fence!RestSpec

\* An inherited marker is released only by a session that took the fence itself,
\* and by its expiry never.
THEOREM InheritedReleasedFreshly == EndWaits => (Spec => FreshRelease)
<1> DEFINE Freshly ==
      marker /\ ~marker' /\ inherited =>
        \E s \in Sessions :
          /\ op[s] \in {"observing", "storing"} /\ sess[s].confirmed
          /\ op[s] = "storing" => sess[s].target = "ended"
<1>1. HandoffInv /\ [Next]_handoffVars => [Freshly]_handoffVars
  BY ReleaseIsEntitled
<1> QED BY <1>1, HandoffInvariant, PTL DEF Spec, FreshRelease

=============================================================================
