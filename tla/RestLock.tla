------------------------------ MODULE RestLock ------------------------------
(***************************************************************************)
(* The fence between an agent's browser automation and a human who takes     *)
(* the browser over: a marker file and an flock on its directory.            *)
(* sidecars/rest-lock-proxy/lock_proxy.py forwards automation requests, each *)
(* in a thread of its own; take_automation_lock and checkpoint_then_release  *)
(* of sidecars/browser-broker change hands.  The two are separate processes: *)
(* they share only the directory.                                            *)
(***************************************************************************)
EXTENDS Integers

CONSTANTS Requests  \* bound: automation requests handled at once

VARIABLES
  marker,  \* the lock file exists
  req,     \* request -> where its handler thread is
  hold,    \* the broker's exclusive flock
  control  \* a human drives the browser

restVars == <<marker, req, hold, control>>

RestTypeOK ==
  /\ marker \in BOOLEAN
  /\ req \in [Requests -> {"idle", "body", "gate", "shared", "forwarding"}]
  /\ hold \in {"none", "waiting", "held"}
  /\ control \in BOOLEAN

\* A handler that holds the shared flock.
Shared == {r \in Requests : req[r] \in {"shared", "forwarding"}}

HandlerMoves(r, from, to) ==
  /\ req[r] = from
  /\ req' = [req EXCEPT ![r] = to]
  /\ UNCHANGED <<marker, hold, control>>

-----------------------------------------------------------------------------
(* The proxy: _handle.                                                       *)

\* Mutant: the marker is only looked at under the flock.
ArriveUnchecked(r) == HandlerMoves(r, "idle", "body")

\* No marker yet: read the body.  (With a marker the answer is 423.)
Arrive(r) == ~marker /\ HandlerMoves(r, "idle", "body")

ReadBody(r) == HandlerMoves(r, "body", "gate")

\* A bad length or framing, or a body that does not arrive in time.
RefuseBody(r) == HandlerMoves(r, "body", "idle")

\* LOCK_SH waits while the broker holds LOCK_EX.
Gate(r) == hold # "held" /\ HandlerMoves(r, "gate", "shared")

\* 503: the directory cannot be opened or locked.
GateFails(r) == HandlerMoves(r, "gate", "idle")

\* Mutant: the marker is not looked at again under the flock.
RecheckNothing(r) == HandlerMoves(r, "shared", "forwarding")

\* The marker may have appeared since the request arrived.
Recheck(r) == HandlerMoves(r, "shared", IF marker THEN "idle" ELSE "forwarding")

\* The browser answered, failed or timed out; closing the directory unlocks it.
Forwarded(r) == HandlerMoves(r, "forwarding", "idle")

-----------------------------------------------------------------------------
(* The broker: take_automation_lock, checkpoint_then_release.                *)

Touch ==
  /\ hold = "none"
  /\ marker' = TRUE /\ hold' = "waiting"
  /\ UNCHANGED <<req, control>>

\* LOCK_EX is granted when no admitted request is left.
Drain ==
  /\ hold = "waiting" /\ Shared = {}
  /\ hold' = "held"
  /\ UNCHANGED <<marker, req, control>>

\* The descriptor is closed and the takeover acknowledged.
Acknowledge ==
  /\ hold = "held"
  /\ hold' = "none" /\ control' = TRUE
  /\ UNCHANGED <<marker, req>>

\* The flock fails (503): the marker stays.
DrainFails ==
  /\ hold = "waiting"
  /\ hold' = "none"
  /\ UNCHANGED <<marker, req, control>>

\* unlink: automation may go on.
Release ==
  /\ hold = "none"
  /\ marker' = FALSE /\ control' = FALSE
  /\ UNCHANGED <<req, hold>>

\* The human's session is over, but its marker is retained; or the broker dies,
\* and the kernel drops its flock.
Leave ==
  /\ control' = FALSE /\ hold' \in {hold, "none"}
  /\ UNCHANGED <<marker, req>>

-----------------------------------------------------------------------------
RestInit ==
  /\ marker \in BOOLEAN  \* a marker may be left by an earlier broker
  /\ req = [r \in Requests |-> "idle"]
  /\ hold = "none" /\ control = FALSE

\* A handler that has its request's body.
Handle(r) == Gate(r) \/ GateFails(r) \/ Recheck(r) \/ Forwarded(r)

Proxy(r) == Arrive(r) \/ ReadBody(r) \/ RefuseBody(r) \/ Handle(r)

Takeover == Touch \/ Drain \/ Acknowledge \/ DrainFails \/ Release \/ Leave

RestNext == Takeover \/ \E r \in Requests : Proxy(r)

RestSpec == RestInit /\ [][RestNext]_restVars

\* Handler threads run, and the browser's answer is bounded by a timeout; the
\* kernel grants a lock that is free.  Requests may keep coming, or never send
\* their body.
RestFairness == WF_restVars(Drain) /\ \A r \in Requests : WF_restVars(Handle(r))

RestFairSpec == RestSpec /\ RestFairness

-----------------------------------------------------------------------------
\* No automation request is being forwarded to the browser while a human drives
\* it: "a takeover waits for every admitted request to finish" and a body
\* buffered before the marker is never forwarded after it.
NoOverlap == control => \A r \in Requests : req[r] # "forwarding"

\* Automation does not starve a takeover: the exclusive flock, which is granted
\* only in a moment without shared holders, is granted or fails.
Drains == (hold = "waiting") ~> (hold # "waiting")

\* The inductive invariant behind NoOverlap: the marker is up from before the
\* drain until the release, and at the drain nobody is inside.
LockInv ==
  /\ RestTypeOK
  /\ hold # "none" \/ control => marker
  /\ hold = "held" => Shared = {}
  /\ NoOverlap
=============================================================================
