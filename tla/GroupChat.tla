----------------------------- MODULE GroupChat -----------------------------
(***************************************************************************)
(* Turns of a tenant's group chat in the orchestrator: building the team     *)
(* from the catalog (agents_repo.py, groupchat.py), running it (run.py), the *)
(* workbench in front of each agent's tools (mcp_workbench.py) and mcp_svc   *)
(* behind it (server.py), while callers edit the catalog.                    *)
(*                                                                          *)
(* The conversation itself is AutoGen's: a selector picks who speaks, the    *)
(* speaker's model answers with a text or with tool calls, the calls of one  *)
(* answer run concurrently, and their results make one message of the        *)
(* speaker.  The termination condition is evaluated on the caller's input    *)
(* and on every message.  What models say is any of what they may say.       *)
(***************************************************************************)
EXTENDS Catalog

CONSTANTS
    Chats,        \* calls of the Chat RPC
    MaxMessages,  \* settings.chat.max_messages
    Planner,      \* the participant that only a planner call has
    Nobody        \* the speaker before the first message

ASSUME ChatAssumption ==
    /\ Planner \notin Agents /\ Nobody \notin Agents /\ Planner # Nobody
    /\ MaxMessages \in Nat /\ MaxMessages > 2

VARIABLES
    chat,         \* each call's state
    held,         \* history: the names that the catalog has called mutating
                  \* at every moment since a chat without approval arrived
    executed,     \* history: the names of tools that mcp_svc ran for the chat
    withheld      \* history: whether a call was refused for approval or
                  \* answered that it needs one

chatVars == <<chat, held, executed, withheld>>
vars == <<tool, agent, updates, writes, chat, held, executed, withheld>>

NoTools == [a \in Agents |-> {}]

\* What a chat awaits: its request ("idle"), the SELECTs for the grants and
\* for the tools, the selector and the speaker's model ("turn"), the tools
\* that the speaker called ("calls").
Chat == [pc : {"idle", "grants", "tools", "turn", "calls", "ended"},
         approved : BOOLEAN,
         planning : BOOLEAN,              \* a system-role message in the input
         team : SUBSET Agents,
         user : BOOLEAN,                  \* a participant is called "user"
         grants : [Agents -> SUBSET Tools],
         allowed : [Agents -> SUBSET Names],   \* AgentToolWorkbench._allowed
         mutating : [Agents -> SUBSET Names],  \* AgentToolWorkbench._mutating
         pending : SUBSET Agents,         \* with a non-empty pending_approvals
         speaker : Agents \cup {Planner, Nobody},
         messages : 0 .. MaxMessages,     \* seen by MaxMessageTermination
         calls : SUBSET Names,            \* forwarded to mcp_svc, unanswered
         outcome : {"none", "stop", "requires_approval", "error"}]

NewChat == [pc |-> "idle", approved |-> FALSE, planning |-> FALSE,
            team |-> {}, user |-> FALSE, grants |-> NoTools,
            allowed |-> NoTools, mutating |-> NoTools, pending |-> {},
            speaker |-> Nobody, messages |-> 0, calls |-> {}, outcome |-> "none"]

Init ==
    /\ CatalogInit
    /\ chat = [c \in Chats |-> NewChat]
    /\ held = [c \in Chats |-> {}]
    /\ executed = [c \in Chats |-> {}]
    /\ withheld = [c \in Chats |-> FALSE]

----------------------------------------------------------------------------
(* list_agents_for_tenant: three SELECTs, each of what is committed then.     *)
(* The first one reads the names too; `user` says what it finds.              *)

ReadAgents(c, approved, planning, user) ==
    /\ chat[c].pc = "idle"
    /\ LET team == {a \in Agents : agent[a].exists} IN
       chat' = [chat EXCEPT ![c] =
         [@ EXCEPT !.approved = approved, !.planning = planning, !.team = team,
                   !.user = user,
                   !.pc = IF team = {} THEN "ended" ELSE "grants",
                   !.outcome = IF team = {} THEN "error" ELSE "none"]]
    /\ held' = [held EXCEPT ![c] = IF approved THEN {} ELSE MutatingNames]
    /\ UNCHANGED <<executed, withheld>>

ReadGrants(c) ==
    /\ chat[c].pc = "grants"
    /\ chat' = [chat EXCEPT ![c] =
         [@ EXCEPT !.pc = "tools",
                   !.grants = [a \in Agents |->
                      IF a \in chat[c].team THEN agent[a].links ELSE {}]]]
    /\ UNCHANGED <<held, executed, withheld>>

\* The names of those of the granted tools that the last SELECT finds.
NamesOf_Granted(tools) == {tool[t].name : t \in tools}
NamesOf(tools) == {tool[t].name : t \in tools \cap Existing}
MutatingOf(tools) == NamesOf({t \in tools : tool[t].mutating})

----------------------------------------------------------------------------
(* Termination: evaluated on the input and on each message.                  *)

Input(planning) == IF planning THEN 2 ELSE 1

Capped_Never(n) == FALSE
Capped(n) == n >= MaxMessages

\* TextMessageTermination, one for each agent: the input of an execution call
\* is a text of "user".
InputAnswers_Unscoped(c) == ~c.planning
InputAnswers(c) == ~c.planning /\ c.user

\* finish_reason: an approval_sink that is not empty overrides the stop.  The
\* team and its workbenches go with the session.
Closed(c, outcome) ==
    [NewChat EXCEPT !.pc = "ended", !.outcome = outcome,
                    !.approved = c.approved, !.planning = c.planning,
                    !.user = c.user, !.speaker = c.speaker]

Ended_LastSpeaker(c) ==
    Closed(c, IF c.speaker \in c.pending THEN "requires_approval" ELSE "stop")
Ended(c) == Closed(c, IF c.pending # {} THEN "requires_approval" ELSE "stop")

\* The chat c after one more message; `final` says that a condition other than
\* the cap ends it.
Said(c, final) ==
    LET d == [c EXCEPT !.messages = IF @ < MaxMessages THEN @ + 1 ELSE @] IN
    IF final \/ Capped(d.messages) THEN Ended(d) ELSE [d EXCEPT !.pc = "turn"]

\* The third SELECT, build_group_chat and the start of the team.  Capped is
\* not yet true of the input.
ReadTools(c) ==
    /\ chat[c].pc = "tools"
    /\ LET d == [chat[c] EXCEPT
                   !.pc = "turn", !.messages = Input(chat[c].planning),
                   !.grants = NoTools,
                   !.allowed = [a \in Agents |-> NamesOf(chat[c].grants[a])],
                   !.mutating = [a \in Agents |-> MutatingOf(chat[c].grants[a])]]
       IN chat' = [chat EXCEPT ![c] = IF InputAnswers(d) THEN Ended(d) ELSE d]
    /\ UNCHANGED <<held, executed, withheld>>

----------------------------------------------------------------------------
(* A turn.  A planner call gives its first turn to the planner, and no other  *)
(* call has one; a lone agent speaks always; otherwise the model selects.     *)

Speakers_ByModel(c) == IF c.planning THEN c.team \cup {Planner} ELSE c.team
Speakers(c) == IF c.planning THEN {Planner} ELSE c.team

\* A text: it ends an execution call, and the planner's ends a planner call.
\* So would the planner's tool calls, all of which are errors.
Text(c, s) ==
    /\ chat[c].pc = "turn" /\ s \in Speakers(chat[c])
    /\ chat' = [chat EXCEPT ![c] =
         Said([@ EXCEPT !.speaker = s], ~@.planning \/ s = Planner)]
    /\ UNCHANGED <<held, executed, withheld>>

\* call_tool, up to its first await, of every call of the model's answer.  A
\* name that is not granted is an error; a mutating one is refused and recorded
\* unless the turn is approved; the rest go to mcp_svc.
Refused(c, a) == IF c.approved THEN {} ELSE c.mutating[a]

\* pending_approvals.append, of the workbench of agent a.
Noted(c, a, found) == IF found THEN c.pending \cup {a} ELSE c.pending

ToolCalls(c, a, names) ==
    /\ chat[c].pc = "turn" /\ a \in Speakers(chat[c]) \ {Planner}
    /\ LET mine == names \cap chat[c].allowed[a]
           refused == mine \cap Refused(chat[c], a) IN
       /\ chat' = [chat EXCEPT ![c] =
            [@ EXCEPT !.pc = "calls", !.speaker = a, !.calls = mine \ refused,
                      !.pending = Noted(chat[c], a, refused # {})]]
       /\ withheld' = [withheld EXCEPT ![c] = @ \/ refused # {}]
    /\ UNCHANGED <<held, executed>>

\* mcp_svc finds no such tool, has no handler for it, or the call fails.
ToolError(c, n) ==
    /\ n \in chat[c].calls
    /\ chat' = [chat EXCEPT ![c].calls = @ \ {n}]
    /\ UNCHANGED <<held, executed, withheld>>

\* mcp_svc finds the tool by its name and runs its handler; `marked` says
\* that the result contains APPROVAL_REQUIRED.
RunTool(c, n, marked) ==
    /\ n \in chat[c].calls /\ Named(n) # {}
    /\ executed' = [executed EXCEPT ![c] = @ \cup {n}]
    /\ chat' = [chat EXCEPT ![c] =
         [@ EXCEPT !.calls = chat[c].calls \ {n},
                   !.pending = Noted(chat[c], chat[c].speaker, marked)]]
    /\ withheld' = [withheld EXCEPT ![c] = @ \/ marked]
    /\ UNCHANGED held

\* All calls are answered: the summary of the results is the turn's message.
Summary(c) ==
    /\ chat[c].pc = "calls" /\ chat[c].calls = {}
    /\ chat' = [chat EXCEPT ![c] = Said(@, FALSE)]
    /\ UNCHANGED <<held, executed, withheld>>

\* A SELECT, the selector's or the speaker's model fails: the RPC is aborted.
Fail(c) ==
    /\ chat[c].pc \in {"grants", "tools", "turn"}
    /\ chat' = [chat EXCEPT ![c] = Closed(@, "error")]
    /\ UNCHANGED <<held, executed, withheld>>

----------------------------------------------------------------------------
Proceed(c) ==
    \/ ReadGrants(c) \/ ReadTools(c) \/ Summary(c) \/ Fail(c)
    \/ \E s \in Agents \cup {Planner} : Text(c, s)
    \/ \E a \in Agents, names \in SUBSET Names \ {{}} : ToolCalls(c, a, names)
    \/ \E n \in Names : ToolError(c, n) \/ \E marked \in BOOLEAN : RunTool(c, n, marked)

ChatNext ==
    \E c \in Chats :
      \/ \E approved, planning, user \in BOOLEAN :
           ReadAgents(c, approved, planning, user)
      \/ Proceed(c)

\* An edit of the catalog, and what it leaves of `held`.
Edit ==
    /\ CatalogNext
    /\ held' = [c \in Chats |-> held[c] \cap MutatingNames']
    /\ UNCHANGED <<chat, executed, withheld>>

Next == (ChatNext /\ UNCHANGED catalogVars) \/ Edit

Spec == Init /\ [][Next]_vars

\* The models and mcp_svc answer or fail.
Fairness == \A c \in Chats : WF_vars(Proceed(c) /\ UNCHANGED catalogVars)

----------------------------------------------------------------------------
TypeOK ==
    /\ CatalogTypeOK
    /\ chat \in [Chats -> Chat]
    /\ held \in [Chats -> SUBSET Names]
    /\ executed \in [Chats -> SUBSET Names]
    /\ withheld \in [Chats -> BOOLEAN]

\* A chat that is not approved runs no tool that the catalog has called
\* mutating ever since the chat arrived (models.py:56-58, mcp_workbench.py:161),
\* whatever is renamed, deleted or granted meanwhile.
GateOfRecord ==
    \A c \in Chats : executed[c] \cap held[c] = {}

\* A planner call runs no tool, and what ends it is the planner's message: the
\* plan is not overwritten by a later speaker (groupchat.py:81-98, 247-252).
PlanIsPlanners ==
    \A c \in Chats : chat[c].planning /\ chat[c].outcome \in {"stop", "requires_approval"} =>
        chat[c].speaker = Planner /\ executed[c] = {}

\* A chat does not end before anyone has spoken, unless an agent is called
\* "user" (groupchat.py:126-129).
SomebodySpeaks ==
    \A c \in Chats : chat[c].outcome = "stop" /\ ~chat[c].user => chat[c].speaker # Nobody

\* Every chat that has arrived ends: no conversation goes on past the message
\* cap (groupchat.py:116-134).
ChatEnds == \A c \in Chats : chat[c].pc # "idle" ~> chat[c].pc = "ended"

StatusOf(c) == CASE c.pc = "idle" -> "absent" [] c.pc = "ended" -> c.outcome
                 [] OTHER -> "open"

RequestOf(c) == [approved |-> c.approved, planning |-> c.planning]

Lifecycle == INSTANCE ChatLifecycle WITH
    status <- [c \in Chats |-> StatusOf(chat[c])],
    request <- [c \in Chats |-> RequestOf(chat[c])],
    ran <- executed

\* Whoever speaks when, job_svc is told the truth: a chat pauses exactly if a
\* call was withheld in it, by whichever agent and in whichever turn; no tool
\* runs in a planner call, of which the runner reads no finish_reason, or after
\* the reply; and the gate holds nothing back in an approved chat (run.py:88-93,
\* mcp_workbench.py:161-175, runner.py:174-181).
ImplementsChatLifecycle == Lifecycle!Spec
=============================================================================
