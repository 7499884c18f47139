--------------------------- MODULE HandoffSession ---------------------------
(***************************************************************************)
(* The browser broker's handoff sessions of one agent's default workspace:   *)
(* HandoffBroker of session_policy.py with the callbacks of origin.py        *)
(* (InheritedLockLifecycle, acquire_human_control, checkpoint_then_release), *)
(* next to the request threads of the REST lock proxy (module RestLock).     *)
(*                                                                           *)
(* A session's action_lock serialises the viewer's actions, takeovers,       *)
(* releases, the terminal cleanup and a revocation; op[s] says who has it.   *)
(* The lifecycle mutex is held only within a step.  A terminal cleanup and a *)
(* revocation are threads of their own: term[s], revoke[s].                  *)
(***************************************************************************)
EXTENDS Integers, FiniteSets

CONSTANTS
  Requests,     \* bound: automation requests handled at once
  Users,        \* the people a policy may grant the browser to
  NoUser,       \* the owner of a free slot
  MaxSessions,  \* bound: sessions the broker remembers
  EndWaits      \* assume that no End begins while its session is being revoked

ASSUME HandoffAssumption ==
  MaxSessions \in Nat \ {0} /\ EndWaits \in BOOLEAN /\ NoUser \notin Users

Sessions == 1..MaxSessions
NoSession == 0
Terminal == {"expired", "revoked", "ended"}

VARIABLES
  marker,     \* the lock file exists
  req,        \* the proxy's handler threads (RestLock)
  sess,       \* _sessions
  op,         \* session -> what the holder of its action_lock is doing
  term,       \* session -> where its terminal cleanup is
  revoke,     \* session -> where its revocation is
  active,     \* _active_by_agent
  inherited,  \* InheritedLockLifecycle.inherited
  eligible,   \* InheritedLockLifecycle._eligible_session
  grants,     \* principals
  minting     \* users whose mint has passed _authorized_principal

proxyVars == <<marker, req>>
lifeVars == <<inherited, eligible>>
policyVars == <<grants, minting>>
handoffVars == <<proxyVars, sess, op, term, revoke, active, lifeVars, policyVars>>

\* state "active" stands for pending and active, "unused" for a free slot;
\* late: the session's expires_at has passed; viewer: its websocket.
Session == [state : {"unused", "active", "revoking", "ending", "recovery_required"}
                      \cup Terminal,
            owner : Users \cup {NoUser}, late : BOOLEAN, target : {"ended", "expired"},
            confirmed : BOOLEAN, mode : {"takeover", "observe"},
            viewer : {"none", "opening", "open"}]

Unused == [state |-> "unused", owner |-> NoUser, late |-> FALSE,
           target |-> "ended", confirmed |-> FALSE, mode |-> "takeover", viewer |-> "none"]

TypeOK ==
  /\ marker \in BOOLEAN
  /\ sess \in [Sessions -> Session]
  /\ op \in [Sessions -> {"free", "button", "button held", "connect", "connect held",
                          "input", "output", "observing", "finish", "storing", "revoking"}]
  /\ term \in [Sessions -> {"none", "closing", "draining", "retained", "released"}]
  /\ revoke \in [Sessions -> {"no", "waiting", "fencing"}]
  /\ active \in Sessions \cup {NoSession}
  /\ inherited \in BOOLEAN
  /\ eligible \in Sessions \cup {NoSession}
  /\ grants \subseteq Users
  /\ minting \subseteq Users

\* The record of a session that is over, of which only the state is read again
\* once neither an End nor a revocation is at work on it.
Over(s, outcome) ==
  IF term[s] # "none" /\ revoke[s] # "no"
  THEN [sess[s] EXCEPT !.state = outcome, !.viewer = IF @ = "open" THEN "none" ELSE @]
  ELSE [Unused EXCEPT !.state = outcome]

Waiting(s) == op[s] \in {"button", "connect"}
Held(s) == op[s] \in {"button held", "connect held"}

\* The broker's use of the flock, over all its sessions.
Hold == IF \E s \in Sessions : Held(s) THEN "held"
        ELSE IF \E s \in Sessions : Waiting(s) THEN "waiting" ELSE "none"

\* The human of this session has the browser: it took the fence, and has
\* neither released it nor been seen off.
Drives(s) ==
  /\ sess[s].confirmed /\ sess[s].mode = "takeover"
  /\ sess[s].state \notin Terminal \cup {"unused"}
  /\ term[s] # "released"

Fence == INSTANCE RestLock WITH hold <- Hold, control <- \E s \in Sessions : Drives(s)

\* _human_may_connect
MayConnect(s) ==
  \/ sess[s].state = "recovery_required"
  \/ (sess[s].state = "active" /\ ~sess[s].late)

\* InheritedLockLifecycle._lock, which a checkpoint keeps.
LifecycleFree == \A s \in Sessions : op[s] \notin {"observing", "storing"}

Became(s, from, to) == op[s] = from /\ op' = [op EXCEPT ![s] = to]

-----------------------------------------------------------------------------
(* The proxy's threads.                                                      *)

ProxyStep(r) ==
  /\ UNCHANGED <<sess, op, term, revoke, active, lifeVars, policyVars>>
  /\ Fence!Proxy(r)

-----------------------------------------------------------------------------
(* Minting a session.                                                        *)

\* _authorized_principal reads the policy and lets go of the lifecycle mutex.
Authorize(u) ==
  /\ u \in grants /\ minting = {}  \* bound: one mint at a time
  /\ minting' = minting \cup {u}
  /\ UNCHANGED <<proxyVars, sess, op, term, revoke, active, lifeVars, grants>>

\* The same owner's session is returned, anyone else gets 409.
Mint(u) ==
  /\ u \in minting
  /\ minting' = minting \ {u}
  /\ IF active # NoSession
     THEN UNCHANGED <<sess, active>>
     ELSE \E s \in Sessions :
            /\ sess[s].state = "unused" /\ \A t \in 1..(s - 1) : sess[t].state # "unused"
            /\ sess' = [sess EXCEPT ![s] = [Unused EXCEPT !.state = "active", !.owner = u]]
            /\ active' = s
  /\ UNCHANGED <<proxyVars, op, term, revoke, lifeVars, grants>>

\* expires_at passes.
Pass(s) ==
  /\ sess[s].state \in {"active", "recovery_required"} /\ ~sess[s].late
  /\ sess' = [sess EXCEPT ![s].late = TRUE]
  /\ UNCHANGED <<proxyVars, op, term, revoke, active, lifeVars, policyVars>>

\* public_page gives a human who comes back to repair the browser more time.
Visit(s) ==
  /\ sess[s].state = "recovery_required" /\ sess[s].late
  /\ sess' = [sess EXCEPT ![s].late = FALSE]
  /\ UNCHANGED <<proxyVars, op, term, revoke, active, lifeVars, policyVars>>

-----------------------------------------------------------------------------
(* Taking the browser over.                                                  *)

\* acquire_takeover: the mode button.
Button(s) ==
  /\ MayConnect(s)
  /\ Became(s, "free", "button")
  /\ marker' = TRUE
  /\ UNCHANGED <<req, sess, term, revoke, active, lifeVars, policyVars>>

\* acquire_takeover_if_current: a viewer connects, and takes the fence unless
\* the session observes.
Connect(s) ==
  /\ MayConnect(s) /\ sess[s].viewer = "none"
  /\ IF sess[s].mode = "takeover"
     THEN Became(s, "free", "connect") /\ marker' = TRUE /\ UNCHANGED sess
     ELSE /\ op[s] = "free"
          /\ sess' = [sess EXCEPT ![s].viewer = "opening"]
          /\ UNCHANGED <<op, marker>>
  /\ UNCHANGED <<req, term, revoke, active, lifeVars, policyVars>>

\* LOCK_EX is granted.
Drain(s) ==
  /\ Became(s, "button", "button held") \/ Became(s, "connect", "connect held")
  /\ Fence!Shared = {}
  /\ UNCHANGED <<proxyVars, sess, term, revoke, active, lifeVars, policyVars>>

\* 503: the marker stays, the session is as it was.
DrainFails(s) ==
  /\ Waiting(s)
  /\ op' = [op EXCEPT ![s] = "free"]
  /\ UNCHANGED <<proxyVars, sess, term, revoke, active, lifeVars, policyVars>>

\* Takeover confirmed, whatever became of the session during the drain.
Confirm(s) ==
  /\ Held(s)
  /\ sess' = [sess EXCEPT ![s].confirmed = TRUE,
                ![s].mode = IF op[s] = "button held" THEN "takeover" ELSE @,
                ![s].viewer = IF op[s] = "connect held" THEN "opening" ELSE @]
  /\ op' = [op EXCEPT ![s] = "free"]
  /\ UNCHANGED <<proxyVars, term, revoke, active, lifeVars, policyVars>>

\* attach_socket
Attach(s) ==
  /\ op[s] = "free" /\ sess[s].viewer = "opening"
  /\ sess' = [sess EXCEPT ![s].viewer = IF MayConnect(s) THEN "open" ELSE "none"]
  /\ UNCHANGED <<proxyVars, op, term, revoke, active, lifeVars, policyVars>>

\* The viewer goes.  detach_socket leaves an ending session's socket to its End.
Detach(s) ==
  /\ op[s] = "free" /\ sess[s].viewer # "none" /\ sess[s].state # "ending"
  /\ sess' = [sess EXCEPT ![s].viewer = "none"]
  /\ UNCHANGED <<proxyVars, op, term, revoke, active, lifeVars, policyVars>>

\* Mutant: the mode is not looked at under the action_lock.
SendInputInAnyMode(s) ==
  /\ sess[s].viewer = "open" /\ MayConnect(s)
  /\ Became(s, "free", "input")
  /\ UNCHANGED <<proxyVars, sess, term, revoke, active, lifeVars, policyVars>>

\* forward_viewer_rfb in takeover mode: the human's input goes to the browser.
SendInput(s) ==
  /\ sess[s].viewer = "open" /\ MayConnect(s) /\ sess[s].mode = "takeover"
  /\ Became(s, "free", "input")
  /\ UNCHANGED <<proxyVars, sess, term, revoke, active, lifeVars, policyVars>>

\* The browser took it; its socket has a timeout.
InputSent(s) ==
  /\ Became(s, "input", "free")
  /\ UNCHANGED <<proxyVars, sess, term, revoke, active, lifeVars, policyVars>>

\* run_while_active: the browser's screen goes to the viewer.
SendScreen(s) ==
  /\ sess[s].viewer = "open" /\ MayConnect(s)
  /\ Became(s, "free", "output")
  /\ UNCHANGED <<proxyVars, sess, term, revoke, active, lifeVars, policyVars>>

\* The viewer took it, or its socket was closed.
ScreenSent(s) ==
  /\ Became(s, "output", "free")
  /\ UNCHANGED <<proxyVars, sess, term, revoke, active, lifeVars, policyVars>>

-----------------------------------------------------------------------------
(* Giving it back without ending the session: release_to_observe.            *)

\* The marker goes, and with it the session's input: whoever reads the mode to
\* forward does so under the action_lock.
Released(s) ==
  /\ marker' = FALSE /\ inherited' = FALSE
  /\ sess' = [sess EXCEPT ![s].mode = "observe"]
  /\ UNCHANGED eligible

\* 409 for an inherited marker this session has not taken.  Without a marker
\* there is nothing to save.
Observe(s) ==
  /\ MayConnect(s) /\ sess[s].mode = "takeover" /\ LifecycleFree
  /\ inherited => sess[s].confirmed
  /\ IF marker
     THEN Became(s, "free", "observing") /\ UNCHANGED <<marker, sess, lifeVars>>
     ELSE op[s] = "free" /\ Released(s) /\ UNCHANGED op
  /\ UNCHANGED <<req, term, revoke, active, policyVars>>

\* The browser's state was saved, or there is no live browser.
Observed(s) ==
  /\ Became(s, "observing", "free")
  /\ Released(s)
  /\ UNCHANGED <<req, term, revoke, active, policyVars>>

\* 502: takeover remains locked.
ObserveFails(s) ==
  /\ Became(s, "observing", "free")
  /\ UNCHANGED <<proxyVars, sess, term, revoke, active, lifeVars, policyVars>>

-----------------------------------------------------------------------------
(* Ending: _begin_terminal and _finish_terminal.                             *)

\* Mutant: a retry keeps the state as its target.
TargetOfRetry(s, explicit) ==
  IF sess[s].state = "recovery_required" /\ ~explicit THEN sess[s].state
  ELSE IF explicit THEN "ended" ELSE "expired"

Target(s, explicit) == IF explicit THEN "ended" ELSE "expired"

BeginTerminal(s, explicit) ==
  /\ sess[s].state \in {"active", "revoking", "recovery_required"}
  /\ EndWaits => revoke[s] = "no"
  /\ sess' = [sess EXCEPT ![s].state = "ending", ![s].target = Target(s, explicit)]
  /\ term' = [term EXCEPT ![s] = "closing"]
  /\ UNCHANGED <<proxyVars, op, revoke, active, lifeVars, policyVars>>

End(s) == BeginTerminal(s, TRUE)

\* The expiry timer, or the reaper, which leaves a viewer its time to repair.
\* (The reaper's backoff between two tries is time, and left out.)
Expire(s) ==
  /\ \/ sess[s].late
     \/ sess[s].state = "recovery_required" /\ sess[s].viewer # "open"
  /\ BeginTerminal(s, FALSE)

\* Mutant: the sockets are closed under the action_lock.
CloseUnderLock(s) ==
  /\ term[s] = "closing" /\ op[s] = "free"
  /\ term' = [term EXCEPT ![s] = "draining"]
  /\ sess' = [sess EXCEPT ![s].viewer = IF @ = "open" THEN "none" ELSE @]
  /\ UNCHANGED <<proxyVars, op, revoke, active, lifeVars, policyVars>>

\* Interrupt blocked socket I/O before waiting for its action.
Close(s) ==
  /\ term[s] = "closing"
  /\ term' = [term EXCEPT ![s] = "draining"]
  /\ sess' = [sess EXCEPT ![s].viewer = IF @ = "open" THEN "none" ELSE @]
  /\ UNCHANGED <<proxyVars, op, revoke, active, lifeVars, policyVars>>

\* 502: the session and its marker wait for another End.
Recovery(s) ==
  /\ sess' = [sess EXCEPT ![s].state = "recovery_required"]
  /\ term' = [term EXCEPT ![s] = "none"]
  /\ UNCHANGED <<proxyVars, revoke, active, lifeVars, policyVars>>

CloseFails(s) ==
  /\ term[s] = "closing" /\ sess[s].viewer = "open"
  /\ Recovery(s)
  /\ UNCHANGED op

\* The admitted action is over: transition() notes an explicit End.
Transition(s) ==
  /\ term[s] = "draining" /\ LifecycleFree
  /\ Became(s, "free", "finish")
  /\ eligible' = IF sess[s].target = "ended" /\ sess[s].confirmed THEN s ELSE eligible
  /\ UNCHANGED <<proxyVars, sess, term, revoke, active, inherited, policyVars>>

\* checkpoint_then_release, when there is nothing to save or it was saved.
Unlock(s) ==
  /\ marker' = FALSE /\ inherited' = FALSE
  /\ op' = [op EXCEPT ![s] = "free"]
  /\ term' = [term EXCEPT ![s] = "released"]

\* finish(): an inherited marker is released only by an explicit End of a
\* session that took it; the eligibility is used up even if the save fails.
Finish(s) ==
  /\ op[s] = "finish" /\ LifecycleFree
  /\ \/ /\ inherited /\ (sess[s].target # "ended" \/ eligible = NoSession)
        /\ op' = [op EXCEPT ![s] = "free"]
        /\ term' = [term EXCEPT ![s] = "retained"]
        /\ UNCHANGED <<marker, lifeVars>>
     \/ /\ inherited => sess[s].target = "ended" /\ eligible # NoSession
        /\ eligible' = IF inherited THEN NoSession ELSE eligible
        /\ IF marker THEN /\ op' = [op EXCEPT ![s] = "storing"]
                          /\ UNCHANGED <<marker, inherited, term>>
                     ELSE Unlock(s)
  /\ UNCHANGED <<req, sess, revoke, active, policyVars>>

Stored(s) ==
  /\ op[s] = "storing"
  /\ Unlock(s)
  /\ UNCHANGED <<req, sess, revoke, active, eligible, policyVars>>

\* Mutant: the marker goes although the save failed.
StoreLost(s) ==
  /\ Became(s, "storing", "free")
  /\ marker' = FALSE
  /\ sess' = [sess EXCEPT ![s].state = "recovery_required"]
  /\ term' = [term EXCEPT ![s] = "none"]
  /\ UNCHANGED <<req, revoke, active, lifeVars, policyVars>>

StoreFails(s) ==
  /\ Became(s, "storing", "free")
  /\ Recovery(s)

\* The owner may be replaced.
Finalize(s) ==
  /\ term[s] \in {"retained", "released"}
  /\ term' = [term EXCEPT ![s] = "none"]
  /\ sess' = [sess EXCEPT ![s] = Over(s, sess[s].target)]
  /\ active' = IF active = s THEN NoSession ELSE active
  /\ UNCHANGED <<proxyVars, op, revoke, lifeVars, policyVars>>

\* _prune_terminal_locked forgets an old session; the index's entry, if it still
\* names the session, then finds nothing.
Prune(s) ==
  /\ sess[s].state \in Terminal
  /\ term[s] = "none" /\ revoke[s] = "no"
  /\ sess' = [sess EXCEPT ![s] = Unused]
  /\ active' = IF active = s THEN NoSession ELSE active
  /\ UNCHANGED <<proxyVars, op, term, revoke, lifeVars, policyVars>>

-----------------------------------------------------------------------------
(* Revocation: replace_principals.                                           *)

Reload(G) ==
  LET affected == {s \in Sessions : /\ sess[s].state \in {"active", "recovery_required"}
                                    /\ sess[s].owner \notin G}
  IN /\ grants' = G
     /\ sess' = [s \in Sessions |->
                   IF s \in affected THEN [sess[s] EXCEPT !.state = "revoking"] ELSE sess[s]]
     /\ revoke' = [s \in Sessions |-> IF s \in affected THEN "waiting" ELSE revoke[s]]
     /\ UNCHANGED <<proxyVars, op, term, active, lifeVars, minting>>

\* Mutant: the revoked session keeps the workspace.
RevokeKeeping(s) ==
  /\ revoke[s] = "waiting"
  /\ Became(s, "free", "revoking")
  /\ sess' = [sess EXCEPT ![s] = Over(s, "revoked")]
  /\ revoke' = [revoke EXCEPT ![s] = "fencing"]
  /\ UNCHANGED <<proxyVars, term, active, lifeVars, policyVars>>

\* Under the action_lock: close the viewer and give the workspace up.
Revoke(s) ==
  /\ revoke[s] = "waiting"
  /\ Became(s, "free", "revoking")
  /\ sess' = [sess EXCEPT ![s] = Over(s, "revoked")]
  /\ revoke' = [revoke EXCEPT ![s] = "fencing"]
  /\ active' = IF active = s THEN NoSession ELSE active
  /\ UNCHANGED <<proxyVars, term, lifeVars, policyVars>>

\* Mutant: an earlier End's eligibility survives.
RetainForgettingEligible(s) ==
  /\ revoke[s] = "fencing" /\ LifecycleFree
  /\ inherited' = TRUE
  /\ revoke' = [revoke EXCEPT ![s] = "no"]
  /\ Became(s, "revoking", "free")
  /\ UNCHANGED <<proxyVars, sess, term, active, eligible, policyVars>>

\* retain_after_policy_revocation
Retain(s) ==
  /\ revoke[s] = "fencing" /\ LifecycleFree
  /\ inherited' = TRUE /\ eligible' = NoSession
  /\ revoke' = [revoke EXCEPT ![s] = "no"]
  /\ Became(s, "revoking", "free")
  /\ UNCHANGED <<proxyVars, sess, term, active, policyVars>>

\* The broker dies and comes back: handles are in memory, the marker is not.
Restart ==
  /\ sess' = [s \in Sessions |-> Unused]
  /\ op' = [s \in Sessions |-> "free"]
  /\ term' = [s \in Sessions |-> "none"]
  /\ revoke' = [s \in Sessions |-> "no"]
  /\ active' = NoSession /\ minting' = {}
  /\ inherited' = marker /\ eligible' = NoSession
  /\ UNCHANGED <<proxyVars, grants>>

-----------------------------------------------------------------------------
Init ==
  /\ marker \in BOOLEAN /\ inherited = marker
  /\ req = [r \in Requests |-> "idle"]
  /\ sess = [s \in Sessions |-> Unused]
  /\ op = [s \in Sessions |-> "free"]
  /\ term = [s \in Sessions |-> "none"]
  /\ revoke = [s \in Sessions |-> "no"]
  /\ active = NoSession /\ eligible = NoSession
  /\ grants = Users /\ minting = {}

\* What people do, and time.
Ask(s) ==
  \/ Pass(s) \/ Visit(s) \/ Button(s) \/ Connect(s) \/ Attach(s) \/ Detach(s)
  \/ SendInput(s) \/ SendScreen(s) \/ Observe(s) \/ End(s) \/ Expire(s) \/ Prune(s)

\* What a holder of the action_lock does next.
Act(s) ==
  \/ Drain(s) \/ DrainFails(s) \/ Confirm(s) \/ InputSent(s)
  \/ Observed(s) \/ ObserveFails(s) \/ Finish(s) \/ Stored(s) \/ StoreFails(s)

\* The thread of a terminal cleanup.
Clean(s) == Close(s) \/ Transition(s) \/ Finalize(s)

Withdraw(s) == Revoke(s) \/ Retain(s)

Next ==
  \/ \E r \in Requests : ProxyStep(r)
  \/ \E u \in Users : Authorize(u) \/ Mint(u)
  \/ \E s \in Sessions : Ask(s) \/ Act(s) \/ ScreenSent(s)
                          \/ Clean(s) \/ CloseFails(s) \/ Withdraw(s)
  \/ \E G \in SUBSET Users : Reload(G)
  \/ Restart

Spec == Init /\ [][Next]_handoffVars

\* Threads run, the proxy's requests and the checkpoint end, the socket to the
\* browser has a timeout.  The viewer's socket has none: sending it the screen
\* is only sure to end once that socket is closed.
Fairness ==
  /\ \A r \in Requests : WF_handoffVars(ProxyStep(r) /\ req[r] \in {"gate", "shared", "forwarding"})
  /\ \A s \in Sessions :
       /\ WF_handoffVars(Act(s))
       /\ WF_handoffVars(Clean(s))
       /\ WF_handoffVars(Withdraw(s))
       /\ WF_handoffVars(sess[s].viewer # "open" /\ ScreenSent(s))

FairSpec == Spec /\ Fairness

-----------------------------------------------------------------------------
\* While a human's input is on its way to the browser, no automation request is:
\* whatever happened to the session since its takeover.
HumanAlone ==
  (\E s \in Sessions : op[s] = "input") => \A r \in Requests : req[r] # "forwarding"

\* The sessions keep the fence of RestLock: every change of marker and flock is
\* a takeover, a release or a departure as described there, and a human drives
\* only between them.
KeepsFence == Fence!RestSpec

\* "One owner per agent": the workspace's owner is the one session that is not
\* over, and a session that is over does not stand in the way of a new one.
OneOwner ==
  \A s \in Sessions : (sess[s].state \notin Terminal \cup {"unused"}) <=> active = s

\* An inherited marker (of a dead broker or of a revoked session) is released only
\* by a session that took the fence itself, and not by its expiry.
FreshRelease ==
  [][ marker /\ ~marker' /\ inherited =>
        \E s \in Sessions :
          /\ op[s] \in {"observing", "storing"} /\ sess[s].confirmed
          /\ op[s] = "storing" => sess[s].target = "ended" ]_handoffVars

\* An End that began comes to a result, even with a viewer that stopped reading.
EndCompletes ==
  \A s \in Sessions : (sess[s].state = "ending") ~> (sess[s].state # "ending")

\* "Revocation deliberately does not invoke terminal checkpoint/unlock: a
\* withdrawn grant is never authority to release the automation fence."
RevokedKeepsFence ==
  [][ \A s \in Sessions :
        op[s] \in {"finish", "storing"} /\ marker /\ ~marker' /\ op'[s] = "free"
          => revoke[s] = "no" /\ sess[s].state # "revoked" ]_handoffVars
=============================================================================
