------------------------------ MODULE AcpPrompt ------------------------------
(***************************************************************************)
(* plugins/model-providers/claude-acp: one prompt.  _run speaks JSON-RPC to  *)
(* the adapter, which may send any event at any time; the tool bridge, a     *)
(* process of the client's own that Claude reaches over MCP, records every   *)
(* call it serves (tool_bridge_mcp.py).  An adapter's word that a tool was   *)
(* called counts only when the bridge's next record says the same.           *)
(***************************************************************************)
EXTENDS Integers, Sequences, FiniteSets

CONSTANTS
  Ids,         \* toolCallIds
  Names,       \* tools of the caller
  Args,        \* arguments the schemas admit
  MaxCaptures, \* bound: calls the bridge serves in one prompt
  MaxTools     \* _MAX_TOOLS

ASSUME PromptAssumption == MaxCaptures \in Nat /\ MaxTools \in Nat

NoInput == [name |-> "none", args |-> "none"]
Inputs == [name : Names, args : Args]

VARIABLES
  stage,       \* the request _run waits for, or "idle"
  advertised,  \* tools the bridge serves
  requirement, \* what tool_choice requires: "none", "any" or a name
  log,         \* calls the bridge has recorded, in order
  taken,       \* records the client has matched
  pending,     \* toolCallId -> input announced and not completed
  captured,    \* calls accepted, in order
  answer       \* what the caller was told

promptVars == <<stage, advertised, requirement, log, taken, pending, captured, answer>>

NoPending == [i \in Ids |-> NoInput]

PromptTypeOK ==
  /\ stage \in {"idle", "initialize", "new", "model", "prompt"}
  /\ advertised \subseteq Names /\ requirement \in {"none", "any"} \cup Names
  /\ log \in Seq(Inputs) /\ Len(log) <= MaxCaptures /\ taken \in 0..MaxCaptures
  /\ pending \in [Ids -> Inputs \cup {NoInput}]
  /\ captured \in Seq([id : Ids, input : Inputs])
  /\ answer \in {"none", "failed", "text", "calls"}

PromptInit ==
  /\ stage = "idle" /\ advertised = {} /\ requirement = "none"
  /\ log = <<>> /\ taken = 0 /\ pending = NoPending /\ captured = <<>> /\ answer = "none"

-----------------------------------------------------------------------------
(* The tools the bridge serves: select_bridge_tools.                         *)

\* tool_choice "none" serves nothing, a named choice only that tool; "required"
\* and a named choice are refused, before anything starts, without such a tool.
Choices(tools) ==
  {[serve |-> tools, require |-> "none"], [serve |-> {}, require |-> "none"]}
  \cup {[serve |-> tools, require |-> "any"] : n \in tools}
  \cup {[serve |-> {n}, require |-> n] : n \in tools}

Begin ==
  /\ stage = "idle" /\ stage' = "initialize" /\ answer' = "none"
  /\ \E tools \in SUBSET Names : \E choice \in Choices(tools) :
       advertised' = choice.serve /\ requirement' = choice.require
  /\ log' = <<>> /\ taken' = 0 /\ pending' = NoPending /\ captured' = <<>>

-----------------------------------------------------------------------------
(* The handshake.                                                            *)

Reaches(from, to) ==
  /\ stage = from /\ stage' = to
  /\ UNCHANGED <<advertised, requirement, log, taken, pending, captured, answer>>

Initialized == Reaches("initialize", "new")

\* The session's own model suits, or one of those it offers must be set first.
SessionMade == Reaches("new", "prompt") \/ Reaches("new", "model")

\* set_config_option must report the model that was asked for.
ModelAcknowledged == Reaches("model", "prompt")

-----------------------------------------------------------------------------
(* How _run ends.  _complete then holds the calls against the requirement.   *)

Ends(result) ==
  /\ stage' = "idle" /\ answer' = result
  /\ UNCHANGED <<advertised, requirement, log, taken, pending, captured>>

Fails == Ends("failed")

RequirementMet ==
  /\ requirement # "none" => captured # <<>>
  /\ requirement \in Names =>
       \A k \in 1..Len(captured) : captured[k].input.name = requirement

Completes ==
  Ends(IF ~RequirementMet THEN "failed" ELSE IF captured = <<>> THEN "text" ELSE "calls")

\* Cancelled, late, a frame that is malformed, oversized, an error or of another
\* session, a permission request or a tool event outside the prompt.
Breaks == stage # "idle" /\ Fails

\* session/prompt is answered; or the cancelled adapter goes on for longer than
\* the drain that the first captured call allows it.
Answered == stage = "prompt" /\ Completes
DrainEnds == stage = "prompt" /\ captured # <<>> /\ Completes

\* The adapter exits: the caller gets what was captured, unless the reader's
\* "closed its output stream" is seen before the exit.
AdapterExits ==
  \/ stage = "prompt" /\ captured # <<>> /\ Completes
  \/ stage # "idle" /\ Fails

-----------------------------------------------------------------------------
(* Tool calls.                                                               *)

\* The bridge serves a valid call: the record leaves before the response does.
\* (Any other message is answered with a result or an error and leaves none.)
BridgeServes(input) ==
  /\ stage = "prompt" /\ Len(log) < MaxCaptures
  /\ input.name \in advertised
  /\ log' = Append(log, input)
  /\ UNCHANGED <<stage, advertised, requirement, taken, pending, captured, answer>>

\* Mutant: any record the client has not matched yet will do.
ProvenByAny(input) == \E k \in (taken + 1)..Len(log) : log[k] = input

\* The next record of the bridge, waited for at most a second, is this call.
Proven(input) == taken < Len(log) /\ log[taken + 1] = input

Done(id) == \E k \in 1..Len(captured) : captured[k].id = id

\* status "completed": the announced input must be the bridge's next record.
\* The first one cancels the rest of the prompt.
Accept(id, input) ==
  IF Proven(input) /\ Len(captured) < MaxTools
  THEN /\ taken' = taken + 1
       /\ captured' = Append(captured, [id |-> id, input |-> input])
       /\ pending' = [pending EXCEPT ![id] = NoInput]
       /\ UNCHANGED <<stage, advertised, requirement, log, answer>>
  ELSE Fails

Announce(id, input) ==
  /\ pending' = [pending EXCEPT ![id] = input]
  /\ UNCHANGED <<stage, advertised, requirement, log, taken, captured, answer>>

\* An event of a tool of the bridge, as far as both kinds share its checks.
EventRefused(id, name) == Done(id) \/ name \notin advertised

\* A tool_call announces an id once.
ToolCall(id, input, completed) ==
  /\ stage = "prompt"
  /\ IF EventRefused(id, input.name) \/ pending[id] # NoInput
     THEN Fails
     ELSE IF completed THEN Accept(id, input) ELSE Announce(id, input)

\* A tool_call_update may replace the arguments, never the tool.
ToolCallUpdate(id, input, completed) ==
  /\ stage = "prompt"
  /\ IF EventRefused(id, input.name) \/ pending[id].name # input.name
     THEN Fails
     ELSE IF completed THEN Accept(id, input) ELSE Announce(id, input)

PromptNext ==
  \/ Begin \/ Initialized \/ SessionMade \/ ModelAcknowledged
  \/ Breaks \/ Answered \/ DrainEnds \/ AdapterExits
  \/ \E input \in Inputs :
       \/ BridgeServes(input)
       \/ \E id \in Ids, completed \in BOOLEAN :
            ToolCall(id, input, completed) \/ ToolCallUpdate(id, input, completed)

PromptSpec == PromptInit /\ [][PromptNext]_promptVars

-----------------------------------------------------------------------------

\* The calls a prompt hands to the host are the calls the bridge served, in the
\* order it served them and each once, whatever the adapter claims: what the
\* host executes was asked for through the tool it advertised.
CallsProven ==
  /\ Len(captured) <= Len(log)
  /\ \A k \in 1..Len(captured) : captured[k].input = log[k]
  /\ \A j, k \in 1..Len(captured) : captured[j].id = captured[k].id => j = k
=============================================================================
