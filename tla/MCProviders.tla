----------------------------- MODULE MCProviders -----------------------------
(***************************************************************************)
(* The model providers' components on small instances.  They share nothing,  *)
(* so one behaviour moves one of them.                                       *)
(***************************************************************************)
EXTENDS ClaudeAcp, AcpPrompt, AcpStream, NativeCall, Relay, CacheMarks

VARIABLE on \* the component that moves

\* Conversations: a first turn, a later turn, and a turn within a tool loop,
\* with the texts native may add to or after the last one.
Block(kind, text) == [kind |-> kind, text |-> text, mark |-> FALSE]
Lists(S, n) == UNION {[1..k -> S] : k \in 1..n}
Native == [role |-> "system", blocks |-> <<Block("text", "native")>>]
User(b) == [role |-> "user", blocks |-> b]
Reply(b) == [role |-> "assistant", blocks |-> b]
SentBlocks == {Block("text", t) : t \in {"host", "longer", "native"}}
              \cup {Block("result", t) : t \in {"host", "longer"}}
ReplyBlocks == {Block("thinking", "host"), Block("use", "host")}
Question == User(<<Block("text", "host"), Block("text", "host")>>)
Result == Block("result", "host")
Turns ==
  {<<User(b)>> : b \in Lists(SentBlocks, 2)}
  \cup {<<Question, Reply(a), User(b)>> : a \in Lists(ReplyBlocks, 2), b \in Lists(SentBlocks, 2)}
  \cup {<<Question, Reply(a), User(<<Result>>), Reply(<<Block("use", "host")>>), User(<<Result>> \o b)>> :
          a \in Lists(ReplyBlocks, 2), b \in {<<>>} \cup Lists(SentBlocks, 1)}
  \cup {<<Question, Reply(a), User(b), Native>> : a \in Lists(ReplyBlocks, 1), b \in Lists(SentBlocks, 2)}

otherVars(name) ==
  /\ name # "acp" => UNCHANGED acpVars
  /\ name # "prompt" => UNCHANGED promptVars
  /\ name # "stream" => UNCHANGED streamVars
  /\ name # "native" => UNCHANGED nativeVars
  /\ name # "relay" => UNCHANGED relayVars
  /\ name # "marks" => UNCHANGED marksVars

Init ==
  /\ on \in {"acp", "prompt", "stream", "native", "relay", "marks"}
  /\ AcpInit /\ PromptInit /\ StreamInit /\ NativeInit /\ RelayInit
  /\ IF on = "marks" THEN MarksInit ELSE MarksIdle

\* The step is this component's and leaves the others alone.
Only(name) == on = name /\ on' = on /\ otherVars(name)

Next ==
  \/ Only("acp") /\ AcpNext
  \/ Only("prompt") /\ PromptNext
  \/ Only("stream") /\ StreamNext
  \/ Only("native") /\ NativeNext
  \/ Only("relay") /\ RelayNext
  \/ Only("marks") /\ MarksNext

vars == <<on, acpVars, promptVars, streamVars, nativeVars, relayVars, marksVars>>

Spec ==
  /\ Init /\ [][Next]_vars
  /\ AcpFairness /\ NativeFairness /\ RelayFairness

\* An answer that reaches the host is whole: the calls were really asked for, the
\* stream was not cut, the relayed message ended, no launcher left a child to go
\* on with it, and the cache marks did not change its prompt (AcpPrompt,
\* AcpStream, Relay, NativeCall, CacheMarks).
AnswersWhole ==
  /\ PromptTypeOK /\ CallsProven
  /\ StreamTypeOK /\ StreamComplete
  /\ RelayTypeOK /\ OneWholeAnswer
  /\ NativeTypeOK /\ OwnedLeavesNoOrphans
  /\ on = "marks" => MarksTypeOK /\ MarksSound

\* The subscription provider comes to rest: closing ends every native process,
\* and an abort every relay (NativeCall, Relay).
DirectSettles == CloseEndsNatives /\ AbortEnds
=============================================================================
