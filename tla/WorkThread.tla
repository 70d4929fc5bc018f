----------------------------- MODULE WorkThread -----------------------------
(***************************************************************************)
(* start_work_thread: a title posted as a root, the brief as its first     *)
(* reply, and a session that gets the brief. The plugin's own hook of sent *)
(* messages sees both posts and must leave them unsigned; the tool tells   *)
(* it by the text, before it sends. Posts may have equal texts: calls with *)
(* one title, a brief that repeats it, a model that answers with it.       *)
(***************************************************************************)
EXTENDS Naturals

CONSTANTS
  Call,
  Reply,   \* answers of models
  TextOf   \* the text of a post, trimmed

Part == {"root", "brief"}
Posting == Call \X Part
Root(c) == <<c, "root">>
Brief(c) == <<c, "brief">>
Outgoing == Posting \cup Reply

ASSUME RepliesAreNotPosted == Reply \cap Posting = {}

VARIABLES
  tool,      \* position of a call
  sent,      \* posts handed to the adapter
  shown,     \* posts that Slack shows
  expected,  \* workThreadPosts: texts
  seen,      \* posts whose hook was called
  signing,   \* posts whose hook is about to sign
  signed,    \* posts with tiles
  started,   \* calls whose session has its brief
  overtaken  \* history: posts that were out when the hook of another post with their text was called

wvars == <<tool, sent, shown, expected, seen, signing, signed, started, overtaken>>

WorkInit ==
  /\ tool = [c \in Call |-> "idle"]
  /\ sent = {} /\ shown = {} /\ expected = {} /\ started = {} /\ overtaken = {}
  /\ seen = {} /\ signing = {} /\ signed = {}

\* Mutant: the hooks are told of the text only when the answer is there.
SendThenTell(p) ==
  /\ sent' = sent \cup {p}
  /\ expected' = expected \cup {TextOf[q] : q \in {r \in Posting : r[1] = p[1] /\ r \in shown}}

\* The hooks are told of the text, and then the post goes out, with no await in between.
Send(p) == expected' = expected \cup {TextOf[p]} /\ sent' = sent \cup {p}

ToolGoes(c, from, to) == tool[c] = from /\ tool' = [tool EXCEPT ![c] = to]

\* The token and the channel are found.
PostRoot(c) ==
  /\ ToolGoes(c, "idle", "root") /\ Send(Root(c))
  /\ UNCHANGED <<shown, seen, signing, signed, started, overtaken>>

\* The answer names the message: it is in Slack.
PostBrief(c) ==
  /\ Root(c) \in shown
  /\ ToolGoes(c, "root", "brief") /\ Send(Brief(c))
  /\ UNCHANGED <<shown, seen, signing, signed, started, overtaken>>

BriefPosted(c) ==
  /\ Brief(c) \in shown
  /\ ToolGoes(c, "brief", "clear")
  /\ UNCHANGED <<sent, shown, expected, seen, signing, signed, started, overtaken>>

\* Reactions of the account on the root are taken off; a failure is only logged.
ClearScaffold(c) ==
  /\ ToolGoes(c, "clear", "session")
  /\ signed' \in {signed, signed \ {Root(c)}}
  /\ UNCHANGED <<sent, shown, expected, seen, signing, started, overtaken>>

\* A run sets the level of thinking, the session gets its label, and a second run gets the brief.
CreateWorkSession(c) ==
  /\ ToolGoes(c, "session", "run")
  /\ UNCHANGED <<sent, shown, expected, seen, signing, signed, started, overtaken>>

StartWork(c) ==
  /\ ToolGoes(c, "run", "answered")
  /\ started' = started \cup {c}
  /\ UNCHANGED <<sent, shown, expected, seen, signing, signed, overtaken>>

\* Any call fails, and with it the tool; the run may have begun.
ToolFails(c) ==
  /\ \E s \in {"root", "brief", "session", "run"} :
       /\ ToolGoes(c, s, "failed")
       /\ started' \in IF s = "run" THEN {started, started \cup {c}} ELSE {started}
  /\ UNCHANGED <<sent, shown, expected, seen, signing, signed, overtaken>>

\* A model answers, in whatever words.
ModelReplies(r) ==
  /\ r \notin sent /\ sent' = sent \cup {r}
  /\ UNCHANGED <<tool, shown, expected, seen, signing, signed, started, overtaken>>

\* A post arrives, also after its sender gave up.
Lands(p) ==
  /\ p \in sent \ shown /\ shown' = shown \cup {p}
  /\ UNCHANGED <<tool, sent, expected, seen, signing, signed, started, overtaken>>

\* message_sent: a text that is expected is taken for the tool's, whichever post it is of, and is expected
\* no longer.
MessageSent(p) ==
  /\ p \in shown \ seen /\ seen' = seen \cup {p}
  /\ IF TextOf[p] \in expected
     THEN expected' = expected \ {TextOf[p]} /\ UNCHANGED signing
     ELSE signing' = signing \cup {p} /\ UNCHANGED expected
  /\ overtaken' = overtaken \cup {q \in sent \ (seen \cup {p}) : TextOf[q] = TextOf[p]}
  /\ UNCHANGED <<tool, sent, shown, signed, started>>

Sign(p) ==
  /\ p \in signing /\ signing' = signing \ {p}
  /\ signed' = signed \cup {p}
  /\ UNCHANGED <<tool, sent, shown, expected, seen, started, overtaken>>

\* The gateway restarts: calls and expectations are gone, and so are the reports of what has landed. What
\* has not may still come out of the delivery queue.
ToolRestarts ==
  /\ tool' = [c \in Call |-> IF tool[c] \in {"idle", "answered", "failed"} THEN tool[c] ELSE "lost"]
  /\ expected' = {} /\ signing' = {} /\ seen' = seen \cup shown
  /\ UNCHANGED <<sent, shown, signed, started, overtaken>>

WorkNext ==
  \/ \E c \in Call : \/ PostRoot(c) \/ PostBrief(c) \/ BriefPosted(c) \/ ClearScaffold(c)
                     \/ CreateWorkSession(c) \/ StartWork(c) \/ ToolFails(c)
  \/ \E r \in Reply : ModelReplies(r)
  \/ \E p \in Outgoing : Lands(p) \/ MessageSent(p) \/ Sign(p)
  \/ ToolRestarts

WorkSpec == WorkInit /\ [][WorkNext]_wvars

-----------------------------------------------------------------------------
\* A post of the tool is signed as a model's, be it for a moment, only when its call was cut short, or when
\* another post with the same text was sent too and its hook came first: one text is expected once, however
\* many posts carry it (plugin-runtime.mjs:346-347, work-thread-tool.mjs:109). Posts that Slack showed late,
\* failed calls and restarts do not do it by themselves.
ScaffoldIsUnsigned == \A p \in signed \cap Posting : tool[p[1]] \in {"failed", "lost"} \/ p \in overtaken

=============================================================================
