------------------------------ MODULE Answers ------------------------------
(***************************************************************************)
(* plugins/linear native_input.py LinearAdapter._answer: a reply in one      *)
(* Agent Session decides a question Core is waiting on, or becomes ordinary  *)
(* input, and never both.                                                    *)
(*                                                                           *)
(* A reply may be routed by the adapter of before a reconnect and by the one *)
(* of after it, which share the Store and take turns on one loop; each       *)
(* routing gives way at three reads: Core's receipts, Linear's chronology    *)
(* and, before them, nothing.  Core retires a question of its own accord     *)
(* (timeout, button) on another thread.                                      *)
(***************************************************************************)
EXTENDS Naturals, FiniteSets, Sequences

CONSTANTS
  Questions,  \* Core requests that are displayed in the session
  AskKinds,   \* what the questions may be
  Dialogues,  \* what the replies may say, and how many deaths and failed reads happen
  Replies,    \* activities of the person in the session
  Adapters,
  Reaches     \* reply -> the adapters it is delivered to

VARIABLES
  asks,     \* question -> "clarify" or "approval"
  says,     \* reply -> what its text is
  said,      \* questions and replies in the order Linear recorded them
  shown,    \* question -> how far its publication has got
  waiting,  \* questions Core still waits on
  decision, \* question -> the reply that decided it and how
  answered, \* question -> the reply the Store records for it
  routing,  \* adapter, reply -> where _answer is and what it has read
  cache,    \* adapter -> replies it remembers as answers and as ordinary
  routed,   \* reply -> the Store's disposition of it
  inputs,   \* replies handed to Core as input
  receipts, \* replies Core has committed
  mishaps   \* deaths and failed reads that may still happen

answersVars == <<asks, says, said, shown, waiting, decision, answered, routing, cache, routed,
                 inputs, receipts, mishaps>>

NoReply == "nobody"
CoreItself == "elsewhere"   \* Core's own timeout or another client's button
Unread == [at |-> "none", published |-> {}, answered |-> [q \in Questions |-> NoReply], chosen |-> {}]

(* The texts of a reply: a displayed option of one question, words that      *)
(* decide any question, a selection out of range, and anything else; "none"  *)
(* is a reply the person does not write.                                     *)
Texts == [kind : {"pick"}, of : Questions] \cup [kind : {"yes", "typo", "chat", "none"}, of : {NoReply}]

ASSUME AnswersAssumption ==
  /\ NoReply \notin Replies /\ CoreItself \notin Replies /\ Questions \cap Replies = {}
  /\ AskKinds \subseteq [Questions -> {"clarify", "approval"}]
  /\ Dialogues \subseteq [says : [Replies -> Texts], mishaps : Nat]

AnswersTypeOK ==
  /\ asks \in [Questions -> {"clarify", "approval"}]
  /\ says \in [Replies -> Texts]
  /\ \A i \in 1..Len(said) : said[i] \in Questions \cup Replies
  /\ shown \in [Questions -> {"no", "attempted", "yes"}]
  /\ waiting \subseteq Questions
  /\ decision \in [Questions -> [by : Replies \cup {NoReply, CoreItself}, value : BOOLEAN]]
  /\ answered \in [Questions -> Replies \cup {NoReply}]
  /\ \A a \in Adapters, r \in Replies :
       /\ routing[a][r].at \in {"none", "receipt", "verify", "decide", "answer", "ordinary"}
       /\ routing[a][r].chosen \subseteq Questions /\ routing[a][r].published \subseteq Questions
  /\ cache \in [Adapters -> [answers : SUBSET Replies, ordinary : SUBSET Replies]]
  /\ routed \in [Replies -> {"none", "reserved", "ordinary"}]
  /\ inputs \subseteq Replies /\ receipts \subseteq inputs
  /\ mishaps \in Nat

AnswersIdle(kinds, dialogue) ==
  /\ asks = kinds /\ says = dialogue.says
  /\ said = <<>> /\ shown = [q \in Questions |-> "no"] /\ waiting = {}
  /\ decision = [q \in Questions |-> [by |-> NoReply, value |-> FALSE]]
  /\ answered = [q \in Questions |-> NoReply]
  /\ routing = [a \in Adapters |-> [r \in Replies |-> Unread]]
  /\ cache = [a \in Adapters |-> [answers |-> {}, ordinary |-> {}]]
  /\ routed = [r \in Replies |-> "none"]
  /\ inputs = {} /\ receipts = {} /\ mishaps = dialogue.mishaps

AnswersInit == \E kinds \in AskKinds, dialogue \in Dialogues : AnswersIdle(kinds, dialogue)

Recorded(x) == \E i \in 1..Len(said) : said[i] = x
Precedes(x, y) == \E i, j \in 1..Len(said) : i < j /\ said[i] = x /\ said[j] = y

-----------------------------------------------------------------------------
(* Core and Linear *)

CoreAsks(q) ==
  /\ shown[q] = "no" /\ q \notin waiting /\ decision[q].by = NoReply
  /\ shown' = [shown EXCEPT ![q] = "attempted"] /\ waiting' = waiting \cup {q}
  /\ UNCHANGED <<asks, says, said, decision, answered, routing, cache, routed, inputs, receipts, mishaps>>

Lands(q) ==
  /\ shown[q] = "attempted"
  /\ shown' = [shown EXCEPT ![q] = "yes"] /\ said' = Append(said, q)
  /\ UNCHANGED <<asks, says, waiting, decision, answered, routing, cache, routed, inputs, receipts, mishaps>>

Replied(r) ==
  /\ says[r].kind # "none" /\ ~Recorded(r) /\ said' = Append(said, r)
  /\ UNCHANGED <<asks, says, shown, waiting, decision, answered, routing, cache, routed, inputs,
                 receipts, mishaps>>

(* Core resolves a waiter only while it waits: the caller's critical section *)
(* is clarify._lock or the approval queue's.                                 *)
Resolved(q, r, value) ==
  /\ waiting' = waiting \ {q}
  /\ decision' = [decision EXCEPT ![q] = [by |-> r, value |-> value]]

CoreRetires(q) ==
  /\ q \in waiting /\ Resolved(q, CoreItself, FALSE)
  /\ UNCHANGED <<asks, says, said, shown, answered, routing, cache, routed, inputs, receipts, mishaps>>

CommitsReply(r) ==
  /\ r \in inputs \ receipts /\ receipts' = receipts \cup {r}
  /\ UNCHANGED <<asks, says, said, shown, waiting, decision, answered, routing, cache, routed, inputs, mishaps>>

-----------------------------------------------------------------------------
(* One adapter routes one reply *)

(* conversation_questions: published questions and those whose delivery is   *)
(* uncertain, with the answers recorded so far.                              *)
conversation_questions == {q \in Questions : shown[q] # "no"}

RoutesTo(a, r, where) == routing' = [routing EXCEPT ![a][r] = where]
Ends(a, r, how) == RoutesTo(a, r, [Unread EXCEPT !.at = how])
Remembers(a, r, how) ==
  cache' = IF how = "ordinary" THEN [cache EXCEPT ![a].ordinary = @ \cup {r}]
           ELSE [cache EXCEPT ![a].answers = @ \cup {r}]

(* first_value: the first disposition stays. *)
FirstRouting(r, how) == IF routed[r] = "none" THEN how ELSE routed[r]

(* The end of a routing: an answer needs no more; ordinary input goes to Core. *)
Hands(r, how) == inputs' = IF how = "ordinary" THEN inputs \cup {r} ELSE inputs
Settles(a, r, how) == Ends(a, r, how) /\ Hands(r, how)
Routing(how) == IF how = "reserved" THEN "answer" ELSE "ordinary"

StartsRouting(a, r) ==
  /\ Recorded(r) /\ a \in Reaches[r] /\ routing[a][r].at = "none"
  /\ \/ /\ r \in cache[a].answers /\ Settles(a, r, "answer") /\ UNCHANGED routed
     \/ /\ r \in cache[a].ordinary /\ Settles(a, r, "ordinary") /\ UNCHANGED routed
     \/ /\ r \notin cache[a].answers \cup cache[a].ordinary
        /\ \/ /\ routed[r] # "none" /\ Settles(a, r, Routing(routed[r])) /\ UNCHANGED routed
           \/ /\ routed[r] = "none" /\ conversation_questions = {}
              /\ routed' = [routed EXCEPT ![r] = "ordinary"] /\ Settles(a, r, "ordinary")
           \/ /\ routed[r] = "none" /\ conversation_questions # {}
              /\ RoutesTo(a, r, [at |-> "receipt", published |-> conversation_questions,
                             answered |-> answered, chosen |-> {}])
              /\ UNCHANGED <<routed, inputs>>
  /\ UNCHANGED <<asks, says, said, shown, waiting, decision, answered, cache, receipts, mishaps>>

Mishap == mishaps > 0 /\ mishaps' = mishaps - 1

(* Core already holds this reply as input: it is not a new answer. *)
HasReceipt(a, r) ==
  /\ routing[a][r].at = "receipt" /\ r \in receipts
  /\ LET how == FirstRouting(r, "ordinary") IN
       /\ routed' = [routed EXCEPT ![r] = how]
       /\ Remembers(a, r, Routing(how)) /\ Settles(a, r, Routing(how))
  /\ UNCHANGED <<asks, says, said, shown, waiting, decision, answered, receipts, mishaps>>

(* The published questions Core still waits on, narrowed to the one the text *)
(* selects; free text that could mean two of them chooses none.              *)
Chosen(r, published) ==
  LET open == published \cap waiting
      picked == {q \in open : says[r].kind = "pick" /\ says[r].of = q}
  IN IF picked # {} THEN picked
     ELSE IF says[r].kind = "pick" \/ Cardinality(open) # 1 THEN {} ELSE open

NoReceipt(a, r) ==
  /\ routing[a][r].at = "receipt" /\ r \notin receipts
  /\ RoutesTo(a, r, [routing[a][r] EXCEPT !.at = "verify", !.chosen = Chosen(r, routing[a][r].published)])
  /\ UNCHANGED <<asks, says, said, shown, waiting, decision, answered, cache, routed, inputs, receipts, mishaps>>

(* _question_precedes_answer: the reply was written after the question was   *)
(* shown, and no other question stood between them unanswered.               *)
(* A bug: any question the person could see is taken for the one answered. *)
ShownAtAll(w, q, r) == Precedes(q, r)

ShownFirst(w, q, r) ==
  /\ Precedes(q, r)
  /\ \/ says[r].kind = "pick"
     \/ \A p \in w.published \ {q} :
          \/ w.answered[p] # NoReply /\ Precedes(p, w.answered[p]) /\ Precedes(w.answered[p], r)
          \/ ~Precedes(p, r)
          \/ Precedes(p, q)

(* The chronology of an activity Linear does not show cannot be read. *)
Readable(w, r) == w.chosen = {} \/ \A q \in (IF says[r].kind = "pick" THEN w.chosen ELSE w.published) : Recorded(q)

Verifies(a, r) ==
  LET w == routing[a][r] IN
  /\ w.at = "verify" /\ Readable(w, r)
  /\ RoutesTo(a, r, [w EXCEPT !.at = "decide", !.chosen = {q \in @ : ShownFirst(w, q, r)}])
  /\ UNCHANGED <<asks, says, said, shown, waiting, decision, answered, cache, routed, inputs, receipts, mishaps>>

(* A read fails: the reply stays with the inbox and is routed again. *)
RoutingFails(a, r) ==
  /\ routing[a][r].at \in {"receipt", "verify"} /\ Ends(a, r, "none") /\ Mishap
  /\ UNCHANGED <<asks, says, said, shown, waiting, decision, answered, cache, routed, inputs, receipts>>

(* Under the relay lock: somebody else has routed the reply meanwhile. *)
RoutedMeanwhile(a, r) ==
  /\ routing[a][r].at = "decide"
  /\ \/ r \in cache[a].answers \cup cache[a].ordinary
     \/ routed[r] # "none"
  /\ LET how == IF r \in cache[a].answers THEN "answer"
                ELSE IF r \in cache[a].ordinary THEN "ordinary" ELSE Routing(routed[r])
     IN Remembers(a, r, how) /\ Settles(a, r, how)
  /\ UNCHANGED <<asks, says, said, shown, waiting, decision, answered, routed, receipts, mishaps>>

(* _resolve_answer: what the reply does to the one question it is about.     *)
Outcome(q, r) ==
  IF says[r].kind \in {"pick", "yes"} THEN "decides"
  ELSE IF asks[q] # "clarify" THEN "ordinary"
  ELSE IF says[r].kind = "typo" THEN "refused" ELSE "cancels"

(* A bug: the decision is taken without the reservation of the reply. *)
UnroutedHere(a, r) == r \notin cache[a].answers \cup cache[a].ordinary

Unrouted(a, r) == r \notin cache[a].answers \cup cache[a].ordinary /\ routed[r] = "none"

(* Reserves the reply, then lets Core decide; what did not consume the reply *)
(* gives the reservation up for ordinary input.                              *)
Decides(a, r) ==
  /\ routing[a][r].at = "decide" /\ Unrouted(a, r)
  /\ LET about == {q \in routing[a][r].chosen : q \in waiting}
         result == IF about = {} THEN "ordinary" ELSE Outcome(CHOOSE q \in about : TRUE, r)
         how == IF result \in {"decides", "refused"} THEN "answer" ELSE "ordinary"
     IN /\ routed' = [routed EXCEPT ![r] = IF how = "answer" THEN "reserved" ELSE "ordinary"]
        /\ Remembers(a, r, how) /\ Settles(a, r, how)
        /\ IF result \in {"decides", "cancels"}
           THEN \E q \in about : /\ Resolved(q, r, result = "decides")
                                 /\ answered' = [answered EXCEPT ![q] = r]
           ELSE UNCHANGED <<waiting, decision, answered>>
  /\ UNCHANGED <<asks, says, said, shown, receipts, mishaps>>

(* The process dies: Core's waiters and every adapter's memory go with it.   *)
GatewayDies ==
  /\ Mishap
  /\ waiting' = {} /\ routing' = [a \in Adapters |-> [r \in Replies |-> Unread]]
  /\ cache' = [a \in Adapters |-> [answers |-> {}, ordinary |-> {}]]
  /\ inputs' = receipts

DiesBetweenSteps ==
  /\ GatewayDies /\ UNCHANGED <<asks, says, said, shown, decision, answered, routed, receipts>>

(* It dies with the reply reserved, before or after Core has decided and     *)
(* before the Store records the answer.                                      *)
DiesDeciding(a, r) ==
  /\ routing[a][r].at = "decide" /\ Unrouted(a, r) /\ GatewayDies
  /\ routed' = [routed EXCEPT ![r] = "reserved"]
  /\ \/ UNCHANGED decision
     \/ \E q \in routing[a][r].chosen \cap waiting :
          Outcome(q, r) = "decides" /\ decision' = [decision EXCEPT ![q] = [by |-> r, value |-> TRUE]]
  /\ UNCHANGED <<asks, says, said, shown, answered, receipts>>

AnswersNext ==
  \/ \E q \in Questions : CoreAsks(q) \/ Lands(q) \/ CoreRetires(q)
  \/ \E r \in Replies : Replied(r) \/ CommitsReply(r)
  \/ \E a \in Adapters, r \in Replies :
       \/ StartsRouting(a, r) \/ HasReceipt(a, r) \/ NoReceipt(a, r) \/ Verifies(a, r)
       \/ RoutingFails(a, r) \/ RoutedMeanwhile(a, r) \/ Decides(a, r) \/ DiesDeciding(a, r)
  \/ DiesBetweenSteps

AnswersSpec == AnswersInit /\ [][AnswersNext]_answersVars
-----------------------------------------------------------------------------
DecidedBy(r) == {q \in Questions : decision[q].by = r}

(* A reply that decided a question is not also conversation input, and it    *)
(* decided one question only, whichever adapters routed it and however often.*)
(* Core's receipts, the Store's reservation and the adapters' caches have to *)
(* agree for it (native_input.py _answer).                                   *)
AnswersOnce == \A r \in Replies :
  /\ \A q \in DecidedBy(r) : decision[q].value => r \notin inputs
  /\ Cardinality(DecidedBy(r)) <= 1

(* Free text decides only a question that was on screen when it was written, *)
(* with no later question between them that a person had not yet answered.   *)
AnswersWhatWasSeen == \A r \in Replies : \A q \in DecidedBy(r) :
  /\ Precedes(q, r)
  /\ says[r].kind # "pick" => \A p \in Questions \ {q} :
       Precedes(p, r) /\ ~Precedes(p, q) =>
         \E b \in Replies : decision[p].by = b /\ Precedes(p, b) /\ Precedes(b, r)

\* A reply decides one question, once, and the one it was about, or is input.
AnswersSound == AnswersTypeOK /\ AnswersOnce /\ AnswersWhatWasSeen
=============================================================================
