------------------------------ MODULE AcpStream ------------------------------
(***************************************************************************)
(* LiveStream of plugins/model-providers/claude-acp/client.py: a producer    *)
(* thread puts chunks into a bounded queue and then says it has finished; a  *)
(* consumer polls the queue, looks whether the producer has finished, and    *)
(* looks at the queue again, without a lock.                                 *)
(***************************************************************************)
EXTENDS Integers

CONSTANTS
  QueueSize, \* the queue's maxsize
  MaxChunks  \* bound: chunks published before the last one

ASSUME StreamAssumption == QueueSize \in Nat /\ MaxChunks \in Nat

VARIABLES
  chunks,    \* chunks in the queue
  published, \* chunks put while the prompt runs
  producer,  \* "running", "last" while it puts the rest, "finished"
  outcome,   \* "none", "whole" once the last chunk is put, or "error"
  consumer,  \* where __next__ is, or how the stream ended for the consumer
  told       \* the consumer has seen the error

streamVars == <<chunks, published, producer, outcome, consumer, told>>

StreamTypeOK ==
  /\ chunks \in 0..QueueSize /\ published \in 0..MaxChunks
  /\ producer \in {"running", "last", "finished"}
  /\ outcome \in {"none", "whole", "error"}
  /\ consumer \in {"reading", "empty", "finished", "ended", "closed"}
  /\ told \in BOOLEAN

StreamInit ==
  /\ chunks = 0 /\ published = 0 /\ producer = "running" /\ outcome = "none"
  /\ consumer = "reading" /\ told = FALSE

\* A chunk of text or thought, when the queue has room.
Publish ==
  /\ producer = "running" /\ chunks < QueueSize /\ published < MaxChunks
  /\ chunks' = chunks + 1 /\ published' = published + 1
  /\ UNCHANGED <<producer, outcome, consumer, told>>

\* complete() returns: the tool calls, what was not published yet and the usage
\* remain to be put.
Completed ==
  /\ producer = "running" /\ producer' = "last"
  /\ UNCHANGED <<chunks, published, outcome, consumer, told>>

PutLast ==
  /\ producer = "last" /\ outcome = "none" /\ chunks < QueueSize
  /\ chunks' = chunks + 1 /\ outcome' = "whole"
  /\ UNCHANGED <<published, producer, consumer, told>>

Finish ==
  /\ outcome = "whole" /\ producer = "last" /\ producer' = "finished"
  /\ UNCHANGED <<chunks, published, outcome, consumer, told>>

\* complete() raises, the stream was closed, or the consumer lets the deadline
\* pass: the error is kept unless nobody listens any more.
ProducerFails ==
  /\ producer # "finished" /\ outcome = "none"
  /\ producer' = "finished"
  /\ outcome' = IF consumer = "closed" THEN "none" ELSE "error"
  /\ UNCHANGED <<chunks, published, consumer, told>>

Consumes(from, to) ==
  /\ consumer = from /\ consumer' = to
  /\ UNCHANGED <<published, producer, outcome>>

Get ==
  /\ chunks > 0 /\ Consumes("reading", "reading")
  /\ chunks' = chunks - 1 /\ UNCHANGED told

SeesEmpty == chunks = 0 /\ Consumes("reading", "empty") /\ UNCHANGED <<chunks, told>>

LooksFinished ==
  /\ Consumes("empty", IF producer = "finished" THEN "finished" ELSE "reading")
  /\ UNCHANGED <<chunks, told>>

\* Mutant: the timed get's Empty is trusted.
LooksNoMore ==
  /\ IF outcome = "error" /\ ~told THEN Consumes("finished", "reading") /\ told' = TRUE
     ELSE Consumes("finished", "ended") /\ UNCHANGED told
  /\ UNCHANGED chunks

\* Once the producer has finished nothing more is put: look again, then raise
\* the error once, then stop.
LooksAgain ==
  /\ IF chunks > 0 THEN Consumes("finished", "reading") /\ UNCHANGED told
     ELSE IF outcome = "error" /\ ~told THEN Consumes("finished", "reading") /\ told' = TRUE
     ELSE Consumes("finished", "ended") /\ UNCHANGED told
  /\ UNCHANGED chunks

Close ==
  /\ consumer \notin {"ended", "closed"}
  /\ Consumes(consumer, "closed") /\ UNCHANGED <<chunks, told>>

\* The next stream.
Reopen ==
  /\ consumer \in {"ended", "closed"} /\ producer = "finished"
  /\ chunks' = 0 /\ published' = 0 /\ producer' = "running" /\ outcome' = "none"
  /\ consumer' = "reading" /\ told' = FALSE

StreamNext ==
  \/ Publish \/ Completed \/ PutLast \/ Finish \/ ProducerFails
  \/ Get \/ SeesEmpty \/ LooksFinished \/ LooksAgain \/ Close \/ Reopen

StreamSpec == StreamInit /\ [][StreamNext]_streamVars

-----------------------------------------------------------------------------

\* A consumer that reaches the end of a stream has every chunk of a whole
\* answer, or has been given the error: a last put that races with an empty
\* poll is not lost and a failure does not look like an end.
StreamComplete ==
  consumer = "ended" => chunks = 0 /\ (outcome = "whole" \/ told)
=============================================================================
