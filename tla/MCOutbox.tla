----------------------------- MODULE MCOutbox -----------------------------
(* Small instances of Outbox.  Issues are interchangeable: no action or      *)
(* property names one.                                                       *)
EXTENDS Outbox, TLC

Symmetry == Permutations(Issues)

\* What the rows of one behaviour are: statuses that replace one another, or
\* closeouts (which never say In Progress) with their comments and history.
StatusesOrComments ==
  \/ \A r \in DOMAIN row : row[r].kind = "status"
  \/ \A r \in DOMAIN row :
       row[r].kind = "history" \/ (row[r].kind # "status" /\ row[r].intent # InProgress)
=============================================================================
