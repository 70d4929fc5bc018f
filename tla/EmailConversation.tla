-------------------------- MODULE EmailConversation --------------------------
(***************************************************************************)
(* The life of one intake conversation: the commands of                    *)
(* ops/email-intake/service.mjs after the conversation is opened, with     *)
(* handlingTransition of model.mjs and the operation keys and effect keys  *)
(* of repository.mjs.                                                      *)
(*                                                                         *)
(* Commands come from three actors in any order: the agent's control plane *)
(* (handle), a trusted human in the intake thread (promote, close) and the *)
(* queue adapter (fail, retry); every command may be repeated.             *)
(***************************************************************************)
EXTENDS Integers

CONSTANTS
  Command,     \* ids of commands: operation keys
  Code,        \* failure codes
  Destination, \* channels a promotion may name and the registry knows
  Nil         \* no wake, no promotion, no failure

ASSUME ConversationAssumption == Nil \notin Code /\ Nil \notin Destination

Opened   == {"recorded", "working", "awaiting_promotion", "rejected"}
Handling == {"working", "answered", "clarify", "act", "scheduled"}
State    == Opened \cup Handling \cup {"promoted", "closed", "retrying", "dead_letter"}

VARIABLES
  state,      \* processing state
  wake,       \* a durable wake is on record
  promotion,  \* destination of the one promotion, or Nil
  failure,    \* code, attempts and the state to resume, or Nil
  thread,     \* the intake thread is linked
  effects,    \* effects enqueued: kind, and what tells two of the kind apart
  done,       \* operation keys already used
  opened      \* history: the state the conversation was opened in

lvars == <<state, wake, promotion, failure, thread, effects, done, opened>>

NoFailure == [code |-> Nil, attempts |-> 0, resume |-> Nil]

Effects == {"work"} \X Destination \cup {"question"} \X Command \cup {"fault"} \X Code

ConversationTyped ==
  /\ state \in State
  /\ wake \in BOOLEAN
  /\ promotion \in Destination \cup {Nil}
  /\ \/ failure = NoFailure
     \/ failure \in [code : Code, attempts : Nat \ {0}, resume : State]
  /\ thread \in BOOLEAN
  /\ effects \subseteq Effects
  /\ done \subseteq Command
  /\ opened \in Opened

\* receive: what classify makes of the first mail.
ConversationInit ==
  /\ state \in Opened
  /\ wake = FALSE
  /\ promotion = Nil
  /\ failure = NoFailure
  /\ thread = FALSE
  /\ effects = {}
  /\ done = {}
  /\ opened = state

\* A command changes the conversation once: a repetition of its operation key
\* returns the result on record.
Once(id) == id \notin done /\ done' = done \cup {id} /\ UNCHANGED opened

\* The dispatcher confirms the root; it can be linked again only to the same thread.
LinkIntakeThread ==
  /\ thread' = TRUE
  /\ UNCHANGED <<state, wake, promotion, failure, effects, done, opened>>

Become(s, w) == state' = s /\ wake' = w

\* handle: the control plane reports the progress of quick handling.
HandleConversation(id) ==
  /\ Once(id)
  /\ state \in Handling
  /\ \/ \E s \in {"answered", "clarify", "act", "working"} : Become(s, FALSE)
     \/ Become("scheduled", TRUE)
  /\ UNCHANGED <<promotion, failure, thread, effects>>

\* The states a human may promote from.
Promotable == state \in Handling \cup {"awaiting_promotion"}

\* promote: a human names the channel the work moves to.
Promote(id, d) ==
  /\ thread /\ Once(id)
  /\ promotion = Nil /\ Promotable
  /\ promotion' = d
  /\ effects' = effects \cup {<<"work", d>>}
  /\ Become("promoted", FALSE)
  /\ UNCHANGED <<failure, thread>>

\* No name, an unknown name or the intake channel itself: ask.
AskDestination(id) ==
  /\ thread /\ Once(id)
  /\ promotion = Nil /\ Promotable
  /\ effects' = effects \cup {<<"question", id>>}
  /\ Become("awaiting_promotion", FALSE)
  /\ UNCHANGED <<promotion, failure, thread>>

\* One durable work intent per conversation.
PromoteAgain(id) ==
  /\ thread /\ Once(id)
  /\ promotion # Nil
  /\ UNCHANGED <<state, wake, promotion, failure, thread, effects>>

\* close: a human closes the record.
Close(id) ==
  /\ thread /\ Once(id)
  /\ Become("closed", FALSE)
  /\ UNCHANGED <<promotion, failure, thread, effects>>

\* Mutant: every attempt fixes the state to resume.
FailedLast(code) ==
  [code |-> code, attempts |-> failure.attempts + 1, resume |-> state]

\* The failure record of one more attempt; the first one fixes the state to resume.
Failed(code) ==
  [code |-> code, attempts |-> failure.attempts + 1,
   resume |-> IF failure = NoFailure THEN state ELSE failure.resume]

\* fail, with retries left.
FailOnce(id, code) ==
  /\ Once(id)
  /\ state # "dead_letter"
  /\ failure' = Failed(code)
  /\ state' = "retrying"
  /\ UNCHANGED <<wake, promotion, thread, effects>>

\* fail, exhausted: the one fault of the conversation must carry the same code.
FailForGood(id, code) ==
  /\ Once(id)
  /\ state # "dead_letter"
  /\ \A c \in Code : <<"fault", c>> \in effects => c = code
  /\ effects' = effects \cup {<<"fault", code>>}
  /\ failure' = Failed(code)
  /\ state' = "dead_letter"
  /\ UNCHANGED <<wake, promotion, thread>>

FailAgain(id) ==
  /\ Once(id)
  /\ state = "dead_letter"
  /\ UNCHANGED <<state, wake, promotion, failure, thread, effects>>

\* retry: back to where the failure says.
Retry(id) ==
  /\ Once(id)
  /\ state = "retrying"
  /\ state' = failure.resume
  /\ failure' = NoFailure
  /\ UNCHANGED <<wake, promotion, thread, effects>>

Step(id) ==
  \/ HandleConversation(id) \/ AskDestination(id) \/ PromoteAgain(id) \/ Close(id)
  \/ FailAgain(id) \/ Retry(id)
  \/ \E d \in Destination : Promote(id, d)
  \/ \E code \in Code : FailOnce(id, code) \/ FailForGood(id, code)

ConversationNext == LinkIntakeThread \/ \E id \in Command : Step(id)

ConversationSpec == ConversationInit /\ [][ConversationNext]_lvars

-----------------------------------------------------------------------------
\* The work of a conversation is enqueued once, for the one destination a human
\* named, and never without one (service.mjs:125, :136).
WorkIsPromotion == \A d \in Destination : <<"work", d>> \in effects <=> promotion = d

\* A conversation that is being retried, or was given up, says what to resume:
\* never a state of failure (service.mjs:154-165).
FailureCanResume ==
  state \in {"retrying", "dead_letter"} =>
    failure # NoFailure /\ failure.resume \notin {"retrying", "dead_letter"}

\* A fault is on the outbox for every conversation given up, one in its lifetime.
GivenUpIsReported ==
  /\ state = "dead_letter" => \E c \in Code : <<"fault", c>> \in effects
  /\ \A c, d \in Code : {<<"fault", c>>, <<"fault", d>>} \subseteq effects => c = d

\* Only a human takes a conversation out of the dead letters (service.mjs:141-166).
DeadLetterIsFinal == [][state = "dead_letter" /\ state' # state => state' = "closed"]_lvars

\* Automated mail and recorded domain operations never reach quick handling, a
\* promotion or a wake, along no sequence of failures, retries and commands.
RejectedNeverWorks ==
  opened \in {"rejected", "recorded"} =>
    state \notin Handling \cup {"awaiting_promotion", "promoted"} /\ promotion = Nil /\ ~wake
=============================================================================
