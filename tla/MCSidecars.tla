----------------------------- MODULE MCSidecars -----------------------------
(***************************************************************************)
(* The sidecars' two small components that share no state, in one run: a     *)
(* behaviour moves the speech server's lane or the browser's automation lock. *)
(***************************************************************************)
EXTENDS WorkLane, RestLock

VARIABLES on \* the component that moves

sidecarVars == <<on, laneVars, restVars>>

\* The step is this component's and leaves the other alone.
Only(name) ==
  /\ on = name /\ on' = on
  /\ name # "lane" => UNCHANGED laneVars
  /\ name # "rest" => UNCHANGED restVars

SidecarInit ==
  /\ on \in {"lane", "rest"}
  /\ Init
  /\ RestInit /\ (on # "rest" => ~marker)

SidecarNext == (Only("lane") /\ Next) \/ (Only("rest") /\ RestNext)

\* What the components' own fairness asks, of the one that moves.
SidecarSpec ==
  /\ SidecarInit /\ [][SidecarNext]_sidecarVars
  /\ \A w \in Workers : /\ WF_sidecarVars(Only("lane") /\ Work(w))
                        /\ WF_sidecarVars(Only("lane") /\ Stall(w))
  /\ WF_sidecarVars(Only("lane") /\ (DrainOne \/ Drained \/ Joined))
  /\ WF_sidecarVars(Only("rest") /\ Drain)
  /\ \A r \in Requests : WF_sidecarVars(Only("rest") /\ Handle(r))
=============================================================================
