-------------------------------- MODULE Relay --------------------------------
(***************************************************************************)
(* plugins/claude-subscription-directsdk/admission.py: the relay a native    *)
(* process reaches instead of Anthropic.  It admits one POST, once; one      *)
(* server thread handles native's connections in turn; abort() comes from    *)
(* any thread and must wake whatever socket that thread is blocked on.       *)
(* Capture keeps the answer that passes through.                             *)
(***************************************************************************)
EXTENDS Integers, Sequences

CONSTANTS
  MaxPosts, \* bound: requests native makes
  MaxBlocks \* bound: content blocks of an answer

ASSUME RelayAssumption == MaxPosts \in Nat /\ MaxBlocks \in Nat

VARIABLES
  hand,      \* where the server thread is
  used,      \* the one admission is consumed
  aborted,   \* gate.cancelled
  known,     \* the handler's sockets registered with the gate: native's, upstream's
  woken,     \* those abort() has shut down
  posts,     \* requests native has made
  sends,     \* requests that went upstream
  gzipped,   \* the current send is compressed
  latched,   \* the module's gzip latch
  blocks,    \* those streamed: "text", "open" and "parsed" tool calls, the "cut"
             \* and, out of the answer again, the "dropped"
  complete   \* message_stop seen, with a stop reason and no open arguments

relayVars == <<hand, used, aborted, known, woken, posts, sends, gzipped, latched, blocks, complete>>

RelayTypeOK ==
  /\ hand \in {"idle", "setup", "read", "connect", "send", "resend", "relay", "closed"}
  /\ {used, aborted, gzipped, latched, complete} \subseteq BOOLEAN
  /\ known \subseteq {"native", "upstream"} /\ woken \subseteq known
  /\ posts \in 0..MaxPosts /\ sends \in 0..2
  /\ blocks \in Seq({"text", "open", "parsed", "cut", "dropped"})

RelayInit ==
  /\ hand = "idle" /\ used = FALSE /\ aborted = FALSE /\ known = {} /\ woken = {}
  /\ posts = 0 /\ sends = 0 /\ gzipped = FALSE /\ latched = FALSE
  /\ blocks = <<>> /\ complete = FALSE

-----------------------------------------------------------------------------
(* The server thread.                                                        *)

Moves(from, to) == hand = from /\ hand' = to

\* Handler.setup registers native's socket, and closes it at once after abort.
RelayAccept ==
  /\ posts < MaxPosts /\ posts' = posts + 1 /\ Moves("idle", "setup")
  /\ known' = {"native"} /\ woken' = IF aborted THEN {"native"} ELSE {}
  /\ UNCHANGED <<used, aborted, sends, gzipped, latched, blocks, complete>>

\* finish(): the handler is done with its sockets.
RelayFinish ==
  /\ hand' = "idle" /\ known' = {} /\ woken' = {}

\* Another path, an Origin, or HERMES_MODEL_ADMISSION_CONSUMED.
Deny ==
  /\ hand = "setup" /\ RelayFinish
  /\ UNCHANGED <<used, aborted, posts, sends, gzipped, latched, blocks, complete>>

Admit ==
  /\ Moves("setup", "read") /\ ~aborted /\ ~used /\ used' = TRUE
  /\ UNCHANGED <<aborted, known, woken, posts, sends, gzipped, latched, blocks, complete>>

\* The body is read and rewritten; or native's socket gives nothing more.
Read ==
  /\ hand = "read"
  /\ \/ Moves("read", "connect") /\ UNCHANGED <<known, woken>>
     \/ RelayFinish
  /\ UNCHANGED <<used, aborted, posts, sends, gzipped, latched, blocks, complete>>

\* Mutant: the upstream socket is registered without a look at the abort.
ConnectUnchecked ==
  /\ hand = "connect"
  /\ \/ /\ hand' = "send" /\ known' = known \cup {"upstream"}
        /\ gzipped' \in (IF latched \/ sends = 1 THEN {FALSE} ELSE BOOLEAN) /\ UNCHANGED woken
     \/ RelayFinish /\ UNCHANGED gzipped
  /\ UNCHANGED <<used, aborted, posts, sends, latched, blocks, complete>>

\* connect() has a timeout of its own; the socket is registered under the lock
\* unless the gate was aborted meanwhile.
Connect ==
  /\ hand = "connect"
  /\ \/ /\ ~aborted /\ hand' = "send" /\ known' = known \cup {"upstream"}
        /\ gzipped' \in (IF latched \/ sends = 1 THEN {FALSE} ELSE BOOLEAN) /\ UNCHANGED woken
     \/ RelayFinish /\ UNCHANGED gzipped
  /\ UNCHANGED <<used, aborted, posts, sends, latched, blocks, complete>>

\* The request goes out and an answer begins; or the socket fails.
Send ==
  /\ hand = "send" /\ sends' = sends + 1
  /\ hand' \in (IF gzipped THEN {"relay", "resend"} ELSE {"relay"})
  /\ latched' = (latched \/ hand' = "resend")
  /\ UNCHANGED <<used, aborted, known, woken, posts, gzipped, blocks, complete>>

\* The compressed body was rejected as such: let go of the socket and connect
\* again to send it plain, unless the gate was aborted.
Resend ==
  /\ hand = "resend"
  /\ IF aborted THEN RelayFinish
     ELSE hand' = "connect" /\ known' = known \ {"upstream"} /\ woken' = woken \ {"upstream"}
  /\ UNCHANGED <<used, aborted, posts, sends, gzipped, latched, blocks, complete>>

\* Any failure, silence for UPSTREAM_IDLE_SECONDS, or the end of the answer.
RelayEnds ==
  /\ hand \in {"send", "relay"} /\ RelayFinish
  /\ UNCHANGED <<used, aborted, posts, sends, gzipped, latched, blocks, complete>>

-----------------------------------------------------------------------------
(* Capture: the events of an answer, in the order the API streams them.      *)

Captures(b, c) ==
  /\ hand = "relay" /\ ~complete /\ blocks' = b /\ complete' = c
  /\ UNCHANGED <<hand, used, aborted, known, woken, posts, sends, gzipped, latched>>

NoOpenBlock == blocks # <<>> => blocks[Len(blocks)] # "open"

BlockStart ==
  /\ NoOpenBlock /\ Len(blocks) < MaxBlocks
  /\ \E kind \in {"text", "open"} : Captures(Append(blocks, kind), FALSE)

\* content_block_stop parses the arguments; what does not parse is kept apart.
BlockStop ==
  /\ ~NoOpenBlock
  /\ \E kind \in {"parsed", "cut"} : Captures([blocks EXCEPT ![Len(blocks)] = kind], FALSE)

\* Mutant: arguments that do not parse become an empty object.
BlockStopGuesses == ~NoOpenBlock /\ Captures([blocks EXCEPT ![Len(blocks)] = "parsed"], FALSE)

\* Mutant: a reply cut off inside a tool call counts as whole, the call kept.
MessageStopKeeps == Captures(blocks, TRUE)

\* message_stop drops the calls that were cut; open arguments are no answer.
MessageStop ==
  Captures([k \in DOMAIN blocks |-> IF blocks[k] = "cut" THEN "dropped" ELSE blocks[k]],
           NoOpenBlock)

-----------------------------------------------------------------------------
(* Other threads.                                                            *)

\* abort(): every registered socket is shut down, which wakes its reader.
RelayAbort ==
  /\ ~aborted /\ aborted' = TRUE /\ woken' = known
  /\ UNCHANGED <<hand, used, known, posts, sends, gzipped, latched, blocks, complete>>

\* close(): abort, then wait for the server thread.
RelayClose ==
  /\ aborted /\ Moves("idle", "closed")
  /\ UNCHANGED <<used, aborted, known, woken, posts, sends, gzipped, latched, blocks, complete>>

\* The relay of the next request; the latch is the module's.
NextRelay ==
  /\ Moves("closed", "idle") /\ used' = FALSE /\ aborted' = FALSE /\ posts' = 0 /\ sends' = 0
  /\ gzipped' = FALSE /\ blocks' = <<>> /\ complete' = FALSE
  /\ UNCHANGED <<known, woken, latched>>

RelayNext ==
  \/ RelayAccept \/ Deny \/ Admit \/ Read \/ Connect \/ Send \/ Resend \/ RelayEnds
  \/ BlockStart \/ BlockStop \/ MessageStop
  \/ RelayAbort \/ RelayClose \/ NextRelay

\* A blocked socket call returns once its socket is shut down, connect() within
\* its timeout; nothing makes native or Anthropic speak.
RelayFairness ==
  /\ WF_relayVars(hand = "setup" /\ "native" \in woken /\ Deny)
  /\ WF_relayVars(hand = "read" /\ "native" \in woken /\ Read)
  /\ WF_relayVars(Connect)
  /\ WF_relayVars(Resend)
  /\ WF_relayVars("upstream" \in woken /\ RelayEnds)
  /\ WF_relayVars(RelayClose)

RelaySpec == RelayInit /\ [][RelayNext]_relayVars /\ RelayFairness

-----------------------------------------------------------------------------

\* An aborted relay gets its server thread back, whatever the thread waits for:
\* an abort during the connect, or between the two sends, is not lost.
AbortEnds == aborted ~> hand = "closed"

\* Native gets one admission, sent upstream again only when its compressed form
\* was refused, and an answer taken for complete has only tool calls whose
\* arguments arrived whole.
OneWholeAnswer ==
  /\ sends > 1 => latched
  /\ complete => \A k \in 1..Len(blocks) : blocks[k] \in {"text", "parsed", "dropped"}
=============================================================================
