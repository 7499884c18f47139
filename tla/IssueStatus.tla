---------------------------- MODULE IssueStatus ----------------------------
(***************************************************************************)
(* What the outbox promises about the workflow state of a Linear issue,      *)
(* whatever is lost, repeated, crashes or is re-tracked on the way: every    *)
(* queued status write takes effect at most once, and an issue never moves   *)
(* from the state of a newer write back to that of an older one.             *)
(***************************************************************************)
EXTENDS Integers

CONSTANTS
  Issues,  \* Linear issues
  Writes   \* status writes, in the order they were queued

VARIABLES
  shown,   \* issue -> the write whose state it shows, 0 before the first
  effects  \* write -> how often it took effect

Init ==
  /\ shown = [i \in Issues |-> 0]
  /\ effects = [w \in Writes |-> 0]

Apply(i, w) ==
  /\ effects[w] = 0
  /\ w > shown[i]
  /\ effects' = [effects EXCEPT ![w] = 1]
  /\ shown' = [shown EXCEPT ![i] = w]

Next == \E i \in Issues, w \in Writes : Apply(i, w)

Spec == Init /\ [][Next]_<<shown, effects>>
=============================================================================
