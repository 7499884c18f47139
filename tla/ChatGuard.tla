------------------------------- MODULE ChatGuard -------------------------------
(***************************************************************************)
(* guard.py: a chat turn that was asked for Linear-tracked work gets a     *)
(* short inspection allowance; after it only coordination tools run until  *)
(* the turn starts tracked work.  The hooks of all turns run concurrently  *)
(* on one guard: a turn arms in two separately locked sections, is         *)
(* superseded by a newer turn of its session, forgotten at its end, and    *)
(* dropped when the table is full or the turn is old.                      *)
(*                                                                         *)
(* A hook normally names its turn; one that does not is taken for the turn *)
(* that its session armed last.  Coordination tools never reach the table. *)
(***************************************************************************)
EXTENDS Naturals, FiniteSets

CONSTANTS
    ChatTurns,  \* turns
    SessionOf,  \* [ChatTurns -> sessions]
    Asked,   \* sets of turns: those whose message asks for tracked work
    Named,      \* the hooks name their turn
    MaxTurns,   \* bound of the table (MAX_TURNS)
    GraceCalls, \* tool calls of the allowance (GRACE_TOOL_CALLS)
    MaxToolCalls    \* bound: tool calls of one turn

ASSUME GuardAssumption ==
    /\ "none" \notin ChatTurns /\ \A requests \in Asked : requests \subseteq ChatTurns
    /\ MaxTurns \in Nat \ {0} /\ GraceCalls \in Nat /\ MaxToolCalls \in Nat

VARIABLES
    turns,      \* [ChatTurns -> what the turn has done]
    armed,      \* [ChatTurns -> when it was armed, 0 if not in the table] (_turns)
    armings,    \* how often a turn was armed so far
    latest,     \* [sessions -> the turn armed last, or none] (_latest)
    asking      \* the turns whose message asks for tracked work

guardVars == <<turns, armed, armings, latest, asking>>

Sessions == {SessionOf[t] : t \in ChatTurns}
None == "none"

NotBegun == [phase |-> "none", ran |-> 0, used |-> 0, old |-> FALSE,
             reachable |-> TRUE, newest |-> FALSE, started |-> FALSE, dropped |-> FALSE, blocked |-> FALSE]

GuardIdle(requests) ==
    /\ turns = [t \in ChatTurns |-> NotBegun]
    /\ armed = [t \in ChatTurns |-> 0] /\ armings = 0 /\ latest = [s \in Sessions |-> None]
    /\ asking = requests
GuardInit == \E requests \in Asked : GuardIdle(requests)

Table == {t \in ChatTurns : armed[t] # 0}
Armed(t) == t \in Table
Without(gone) == [t \in ChatTurns |-> IF t \in gone THEN 0 ELSE armed[t]]
Unlisted(l, gone) == [s \in Sessions |-> IF l[s] \in gone THEN None ELSE l[s]]

(* The first section of pre_llm_call: the session's armed turn is dropped. *)
Supersedes(t) ==
    /\ armed' = Without({latest[SessionOf[t]]})
    /\ latest' = [latest EXCEPT ![SessionOf[t]] = None]

Begins(t) ==
    /\ turns[t].phase = "none"
    /\ Supersedes(t)
    /\ turns' = [u \in ChatTurns |->
                    IF u = t THEN [turns[u] EXCEPT !.phase = IF t \in asking THEN "arming" ELSE "open",
                                                   !.newest = TRUE]
                    ELSE [turns[u] EXCEPT !.newest = @ /\ SessionOf[u] # SessionOf[t]]]
    /\ UNCHANGED <<armings, asking>>

(* The second section: old turns and then the oldest ones make room.       *)
Young == {t \in Table : ~turns[t].old}
Pruned == {t \in Young : Cardinality({u \in Young : armed[u] > armed[t]}) < MaxTurns - 1}

Arms(t) ==
    /\ turns[t].phase = "arming"
    /\ LET gone == Table \ Pruned
       IN  /\ armed' = [Without(gone) EXCEPT ![t] = armings + 1]
           /\ latest' = [Unlisted(latest, gone) EXCEPT ![SessionOf[t]] = t]
           /\ turns' = [u \in ChatTurns |->
                           IF u = t THEN [turns[u] EXCEPT !.phase = "open"]
                           ELSE [turns[u] EXCEPT !.dropped = @ \/ u \in gone]]
    /\ armings' = armings + 1
    /\ UNCHANGED asking

(* The turn's platform cannot reach the linear tool: it is not armed.      *)
Unreachable(t) ==
    /\ turns[t].phase = "arming"
    /\ turns' = [turns EXCEPT ![t].phase = "open", ![t].reachable = FALSE]
    /\ UNCHANGED <<armed, armings, latest, asking>>

(* The armed turn that a hook of t is about, or none.                      *)
FoundLatest(t) ==
    LET u == latest[SessionOf[t]]
    IN  IF u # None /\ Armed(u) THEN u ELSE None
Found(t) ==
    LET u == IF Named THEN t ELSE latest[SessionOf[t]]
    IN  IF u # None /\ Armed(u) THEN u ELSE None

Within(u) == turns[u].used < GraceCalls

(* The calls of a turn that was asked are counted.                         *)
Ran(t) == IF t \in asking THEN [turns EXCEPT ![t].ran = @ + 1] ELSE turns

(* A tool call that is not coordination: pre_tool_call counts or blocks.   *)
Calls(t) ==
    /\ turns[t].phase = "open" /\ turns[t].ran < MaxToolCalls
    /\ LET u == Found(t)
       IN  turns' =
             IF u = None THEN Ran(t)
             ELSE IF Within(u) THEN [Ran(t) EXCEPT ![u].used = @ + 1]
             ELSE [turns EXCEPT ![t].blocked = TRUE]
    /\ UNCHANGED <<armed, armings, latest, asking>>

(* _forget: the turn, and the session's entry only when it is this turn's. *)
Forget(u) ==
    /\ armed' = Without({u})
    /\ latest' = Unlisted(latest, {u})
    /\ UNCHANGED armings

(* post_tool_call of a linear call that started or bound tracked work.     *)
StartsWork(t) ==
    /\ turns[t].phase = "open" /\ ~turns[t].started
    /\ turns' = [turns EXCEPT ![t].started = TRUE]
    /\ Forget(Found(t))
    /\ UNCHANGED asking

(* post_llm_call; an interrupted turn never gets there, and its calls and  *)
(* those after the end may still arrive.                                   *)
EndsTurn(t) ==
    /\ turns[t].phase = "open"
    /\ turns' = [turns EXCEPT ![t].phase = "over"]
    /\ Forget(Found(t))
    /\ UNCHANGED asking

(* The time of the allowance (GRACE_SECONDS) counts from its first call.   *)
GraceRunsOut(t) ==
    /\ Armed(t) /\ turns[t].used \in 1..(GraceCalls - 1)
    /\ turns' = [turns EXCEPT ![t].used = GraceCalls]
    /\ UNCHANGED <<armed, armings, latest, asking>>

TurnAges(t) ==
    /\ Armed(t) /\ ~turns[t].old
    /\ turns' = [turns EXCEPT ![t].old = TRUE]
    /\ UNCHANGED <<armed, armings, latest, asking>>

GuardNext == \E t \in ChatTurns :
    \/ Begins(t) \/ Arms(t) \/ Unreachable(t)
    \/ Calls(t) \/ StartsWork(t) \/ EndsTurn(t) \/ GraceRunsOut(t) \/ TurnAges(t)

GuardSpec == GuardInit /\ [][GuardNext]_guardVars
-----------------------------------------------------------------------------
GuardTypeOK ==
    /\ armed \in [ChatTurns -> Nat] /\ latest \in [Sessions -> ChatTurns \cup {None}]
    /\ \A t \in ChatTurns : turns[t].phase \in {"none", "arming", "open", "over"}
                            /\ turns[t].ran \in 0..MaxToolCalls /\ turns[t].used \in 0..GraceCalls

(* The allowance holds (guard.py:3): whatever the hooks of other turns do  *)
(* meanwhile, a turn that was asked for tracked work and has not started   *)
(* it runs no more tools than its allowance, while it is its session's     *)
(* newest turn and neither crowded out nor too old.                        *)
AllowanceHolds ==
    \A t \in asking :
        turns[t].newest /\ turns[t].reachable /\ ~turns[t].started /\ ~turns[t].dropped
            => turns[t].ran <= GraceCalls

(* Nobody is blocked for another's request: only a turn that was asked is  *)
(* blocked, and a session's entry names one of its own armed turns.        *)
BlockedWereAsked ==
    /\ \A t \in ChatTurns : turns[t].blocked => t \in asking /\ turns[t].reachable
    /\ \A s \in Sessions : latest[s] # None => Armed(latest[s]) /\ SessionOf[latest[s]] = s

(* The table is bounded, also by turns that never end.                     *)
TableBounded == Cardinality(Table) <= MaxTurns

(* What guard.py keeps under its one lock for the hooks of all threads.      *)
GuardSound == GuardTypeOK /\ AllowanceHolds /\ BlockedWereAsked /\ TableBounded
=============================================================================
