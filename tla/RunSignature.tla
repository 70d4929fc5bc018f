---------------------------- MODULE RunSignature ----------------------------
(***************************************************************************)
(* The run-signature plugin's marks on delivered replies: what the hooks   *)
(* of model calls teach it about the model of a session, and the reactions *)
(* that a hook of a sent message adds in order, one strip at a time per    *)
(* message.                                                                *)
(*                                                                         *)
(* One agent. Slack may report a message to several hooks. A provenance is *)
(* reduced to its model, or "blank" when no event named one; "think"       *)
(* stands for every tile after the model's.                                *)
(***************************************************************************)
EXTENDS Sequences, FiniteSets, Naturals

CONSTANTS Hook, Message, Session, Model, None,
  Untiled,      \* models without a tile
  MessageOf,    \* the message a hook is called for
  SessionOf,    \* the session a message is sent from
  ModelsOf,     \* the models a session is run with
  MaxEvents     \* model events handled at once

Prov == Model \cup {"blank"}

ASSUME SignatureAssumption ==
  /\ MessageOf \in [Hook -> Message] /\ SessionOf \in [Message -> Session]
  /\ ModelsOf \in [Session -> SUBSET Model] /\ MaxEvents \in Nat
  /\ None \notin Session \cup Hook \cup Prov

VARIABLES
  stored,    \* the model in the session store
  ran,       \* the models that a session's calls used (history)
  noting,    \* handlers of model events between their read and their write
  live,      \* bySession
  recent,    \* byAgent
  hook,      \* a message_sent handler: position, provenance, whether it knew the session,
             \* the tiles it has left to add, and what it waits for
  tail,      \* the keyed queue: the last strip of a message
  strip,     \* the reactions of a message, in the order Slack shows
  faults     \* hooks that journaled why they left a message unsigned

mvars == <<stored, ran, noting, live, recent>>
hvars == <<hook, tail, strip, faults>>
svars == <<mvars, hvars>>

Fresh == [pc |-> "idle", prov |-> None, knew |-> FALSE, left |-> <<>>, prior |-> None, before |-> None]

SignatureInit ==
  /\ stored = [s \in Session |-> None] /\ ran = [s \in Session |-> {}]
  /\ noting = {} /\ live = [s \in Session |-> None] /\ recent = None
  /\ hook = [h \in Hook |-> Fresh]
  /\ tail = [m \in Message |-> None] /\ strip = [m \in Message |-> <<>>] /\ faults = {}

-----------------------------------------------------------------------------
(* What is learnt of a session *)

\* The model follows the event; an event that names none leaves it as it was.
MergeProvenance(prior, next) ==
  IF next # "blank" THEN next ELSE IF prior # None THEN prior ELSE "blank"

\* An event of a model call: what is known is read, and then the session store is asked.
ModelEvent(s, x) ==
  /\ Cardinality(noting) < MaxEvents
  /\ ran' = [ran EXCEPT ![s] = @ \cup ({x} \ {"blank"})]
  /\ noting' = noting \cup {[session |-> s, prior |-> live[s], next |-> x]}
  /\ UNCHANGED <<stored, live, recent, hvars>>

Learn(s, p) ==
  /\ live' = [live EXCEPT ![s] = p]
  /\ recent' = IF p = "blank" THEN recent ELSE p

RememberProvenance(e) ==
  /\ noting' = noting \ {e}
  /\ Learn(e.session, MergeProvenance(e.prior, e.next))
  /\ UNCHANGED <<stored, ran, hvars>>

\* The gateway stores the model of a run; switch_model takes it away until the next run.
SessionStored(s) ==
  /\ \E x \in ran[s] : stored' = [stored EXCEPT ![s] = x]
  /\ UNCHANGED <<ran, noting, live, recent, hvars>>

ApplySessionSelection(s) ==
  /\ ran[s] # {} /\ stored' = [stored EXCEPT ![s] = None]
  /\ UNCHANGED <<ran, noting, live, recent, hvars>>

Learning ==
  \/ \E s \in Session : \/ \E x \in ModelsOf[s] \cup {"blank"} : ModelEvent(s, x)
                        \/ SessionStored(s) \/ ApplySessionSelection(s)
  \/ \E e \in noting : RememberProvenance(e)

-----------------------------------------------------------------------------
(* A message was sent *)

At(h, pc) == hook[h].pc = pc
Goes(h, pc) == hook' = [hook EXCEPT ![h].pc = pc]
SessionOfHook(h) == SessionOf[MessageOf[h]]

Ends(h) == hook' = [hook EXCEPT ![h] = [Fresh EXCEPT !.pc = "done"]]

Journal(h) == faults' = faults \cup {h} /\ Ends(h) /\ UNCHANGED <<tail, strip>>

Attribute(h, p) ==
  /\ hook' = [hook EXCEPT ![h].pc = "thinking", ![h].prov = p]
  /\ UNCHANGED <<tail, strip, faults>>

\* The last resort is the agent's most recent run.
AgentLastRun(h) == IF recent # None THEN Attribute(h, recent) ELSE Journal(h)

\* Mutant: the agent's last run is asked before the session.
LookupByAgent(h) ==
  /\ At(h, "idle")
  /\ IF recent # None
     THEN /\ hook' = [hook EXCEPT ![h].pc = "thinking", ![h].prov = recent,
                                  ![h].knew = live[SessionOfHook(h)] # None]
          /\ UNCHANGED <<tail, strip, faults>>
     ELSE Goes(h, "store") /\ UNCHANGED <<tail, strip, faults>>
  /\ UNCHANGED mvars

\* A sent message is reported. The token of its account is there, or the message stays unsigned; what is
\* known of the session comes first. A report without a session is left to the last resort.
Lookup(h) ==
  /\ At(h, "idle")
  /\ LET s == SessionOfHook(h) IN
     \/ Journal(h)
     \/ /\ live[s] # None
        /\ hook' = [hook EXCEPT ![h].pc = "thinking", ![h].prov = live[s], ![h].knew = TRUE]
        /\ UNCHANGED <<tail, strip, faults>>
     \/ live[s] = None /\ Goes(h, "store") /\ UNCHANGED <<tail, strip, faults>>
     \/ AgentLastRun(h)
  /\ UNCHANGED mvars

\* The session store answers, has no model, or cannot be read.
LoadSessionProvenance(h) ==
  /\ At(h, "store")
  /\ LET s == SessionOfHook(h) IN
     \/ /\ stored[s] # None
        /\ hook' = [hook EXCEPT ![h].pc = "remember", ![h].prior = live[s], ![h].prov = stored[s]]
        /\ UNCHANGED <<tail, strip, faults>>
     \/ AgentLastRun(h)
  /\ UNCHANGED mvars

RememberStored(h) ==
  /\ At(h, "remember") /\ Goes(h, "thinking")
  /\ Learn(SessionOfHook(h), MergeProvenance(hook[h].prior, hook[h].prov))
  /\ UNCHANGED <<stored, ran, noting, tail, strip, faults>>

\* With a model tile the strip is queued behind the last one of the message. The further tiles are
\* those the session store or the configuration can name.
BuildRunReactionNames(p) == {<<p>>, <<p, "think">>}
HasModelTile(p) == p \in Model \ Untiled

Queue(h) ==
  /\ At(h, "thinking")
  /\ LET m == MessageOf[h] IN
     \/ ~HasModelTile(hook[h].prov) /\ Journal(h)
     \/ /\ HasModelTile(hook[h].prov)
        /\ \E tiles \in BuildRunReactionNames(hook[h].prov) :
             hook' = [hook EXCEPT ![h].pc = "queued", ![h].before = tail[m], ![h].left = tiles]
        /\ tail' = [tail EXCEPT ![m] = h]
        /\ UNCHANGED <<strip, faults>>
  /\ UNCHANGED mvars

Shows(m, x) == \E i \in DOMAIN strip[m] : strip[m][i] = x
WithTile(m, x) == IF Shows(m, x) THEN strip ELSE [strip EXCEPT ![m] = Append(@, x)]
Turn(h) ==
  \/ At(h, "adding")
  \/ At(h, "queued") /\ (hook[h].before # None => At(hook[h].before, "done"))

\* Mutant: the queue forgets a message when any of its strips ends.
LeaveAny(h) == tail' = [tail EXCEPT ![MessageOf[h]] = None]

\* The queue forgets a message once its last strip has ended.
Leave(h) == tail' = [m \in Message |-> IF tail[m] = h THEN None ELSE tail[m]]

\* One reaction after the other, when the strips before have ended. already_reacted is the wanted
\* state; any other error, after the retries of a rate limit, ends the strip.
AddReaction(h) ==
  /\ Turn(h)
  /\ LET with == WithTile(MessageOf[h], Head(hook[h].left)) IN
     \/ /\ strip' = with /\ Len(hook[h].left) > 1
        /\ hook' = [hook EXCEPT ![h].pc = "adding", ![h].left = Tail(@)]
        /\ UNCHANGED <<tail, faults>>
     \/ /\ strip' = with /\ Len(hook[h].left) = 1
        /\ Ends(h) /\ Leave(h) /\ UNCHANGED faults
     \/ /\ strip' \in {strip, with} /\ faults' = faults \cup {h}
        /\ Ends(h) /\ Leave(h)
  /\ UNCHANGED mvars

Signing ==
  \E h \in Hook : \/ Lookup(h) \/ LoadSessionProvenance(h) \/ RememberStored(h)
                  \/ Queue(h) \/ AddReaction(h)

-----------------------------------------------------------------------------
\* The gateway restarts and with it every map and handler.
PluginRestarts ==
  /\ noting' = {} /\ live' = [s \in Session |-> None] /\ recent' = None
  /\ hook' = [h \in Hook |-> IF hook[h].pc \in {"idle", "done"} THEN hook[h] ELSE [Fresh EXCEPT !.pc = "lost"]]
  /\ tail' = [m \in Message |-> None]
  /\ UNCHANGED <<stored, ran, strip, faults>>

SignatureNext == Learning \/ Signing \/ PluginRestarts

SignatureSpec == SignatureInit /\ [][SignatureNext]_svars

-----------------------------------------------------------------------------
(* Properties *)

\* Two strips of one message are never written at the same time, however many hooks report it
\* (plugin-runtime.mjs:126-138).
OneStripAtATime ==
  \A h, g \in Hook : MessageOf[h] = MessageOf[g] /\ At(h, "adding") /\ At(g, "adding") => h = g

\* What the plugin knows of a session is what the session ran, so that a message is signed with another
\* session's model only if nothing was known of its own (plugin-runtime.mjs:328-331).
SignedByItsSession ==
  /\ \A h \in Hook : hook[h].knew => hook[h].prov \in ran[SessionOfHook(h)] \cup {"blank"}
  /\ \A s \in Session : live[s] # None => live[s] \in ran[s] \cup {"blank"}
=============================================================================
