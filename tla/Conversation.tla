---------------------------- MODULE Conversation ----------------------------
(***************************************************************************)
(* What is said in the group chats of one job: the plan and then its steps   *)
(* (runner.py), the requests that the orchestrator's model client makes of   *)
(* a conversation (model_client.py), the gateway that screens them           *)
(* (guardrails.py, servicer.py), its providers (provider.py,                 *)
(* provider_zen.py), and the results of tools (ToolHandlers).                *)
(*                                                                          *)
(* Every step is a step of GroupChat with the texts added.  A request and    *)
(* its answer are one step: the chat waits for it, and the chats of a job    *)
(* follow one another.  The lengths of the model's own texts, and whether    *)
(* several texts together are too long, are left out.                        *)
(***************************************************************************)
EXTENDS GroupChat, ToolHandlers, SequencesExt

CONSTANTS
    Selector,     \* the client of the selector's own model
    Missing       \* no plan, no result of a call, no id of one

ASSUME ConversationAssumption ==
    /\ Selector \notin Agents \cup {Planner, Nobody}
    /\ IsFiniteSet(Names) /\ IsFiniteSet(Agents)
    /\ Missing \notin Nat \X Names /\ \A text \in Texts : text # Missing

VARIABLES
    provider,     \* main.py's choice of the provider's class
    prompt,       \* the job's instructions
    plan,         \* progress["plan"], its steps as one text
    thread,       \* each chat's messages
    chosen,       \* the speaker that the selector has named for the turn
    told,         \* history: what has reached the model, of all chats
    tokens,       \* _total_usage of each client of a chat
    billed,       \* history: what the provider has reported for a chat
    reply         \* what the Chat RPC has returned

convVars == <<provider, prompt, plan, thread, chosen, told, tokens, billed, reply>>

Clients == Agents \cup {Planner, Selector}
NoTokens == [p \in Clients |-> 0]

\* A message of the chat: a text of the caller, or the tool calls of an agent,
\* the arguments of all of them as one text, and their results so far.
Entry == [by : Agents \cup {Nobody},
          text : Texts,
          calls : Seq(Names),
          args : Texts,
          results : [Names -> {Missing} \cup Texts]]

NoResults == [n \in Names |-> Missing]
CallerSays(text) == [by |-> Nobody, text |-> text, calls |-> <<>>, args |-> {},
                     results |-> NoResults]

\* Of the Chat RPC.
Codes == {"none", "OK", "FAILED_PRECONDITION", "UNAVAILABLE", "DEADLINE_EXCEEDED",
          "RESOURCE_EXHAUSTED", "INTERNAL"}

\* "malformed": the provider answers 400; "refused": another 4xx than 400 and 429
\* (the key, the model, the size of the request); "throttled": 429; "oversized":
\* a message that the channel to the gateway does not carry.
Faults == {"catalog", "input", "malformed", "refused", "throttled", "down", "garbled",
           "unparsable", "slow", "oversized"}

NoReply == [code |-> "none", fault |-> "none", tokens |-> 0]

ConvInit ==
    /\ Init
    /\ provider \in {"openai", "zen"}
    /\ prompt \in Outside
    /\ plan = Missing
    /\ thread = [c \in Chats |-> <<>>]
    /\ chosen = [c \in Chats |-> Nobody]
    /\ told = {}
    /\ tokens = [c \in Chats |-> NoTokens]
    /\ billed = [c \in Chats |-> 0]
    /\ reply = [c \in Chats |-> NoReply]

----------------------------------------------------------------------------
(* The request for the next answer: a sequence of groups of wire messages,   *)
(* one group for each message of the participant's model context.           *)

Message(role, text) == [role |-> role, text |-> text, calls |-> <<>>, args |-> {}, id |-> Missing]

\* An AssistantMessage of calls carries no text; the results follow it, each
\* with the id of its call.
Id(i, name) == <<i, name>>
CallsMessage(th, i) ==
    [Message("assistant", {}) EXCEPT
       !.calls = [k \in 1 .. Len(th[i].calls) |-> Id(i, th[i].calls[k])],
       !.args = th[i].args]
ResultMessages_First(th, i) ==
    <<[Message("tool", th[i].results[th[i].calls[1]]) EXCEPT !.id = Id(i, th[i].calls[1])]>>
ResultMessages(th, i) ==
    [k \in 1 .. Len(th[i].calls) |->
       [Message("tool", th[i].results[th[i].calls[k]]) EXCEPT !.id = Id(i, th[i].calls[k])]]

\* What others see of a message: a text, or a ToolCallSummaryMessage, which is
\* the results one after the other.
Content(e) == IF e.by = Nobody THEN e.text ELSE UNION {e.results[n] : n \in Range(e.calls)}

\* An agent's own calls are calls; whatever others wrote is a user's message.
Group(p, th, i) ==
    IF th[i].by = p THEN <<CallsMessage(th, i)>> \o ResultMessages(th, i)
    ELSE <<Message("user", Content(th[i]))>>

\* The instructions are the tenant's: a blocked term in them is its own choice,
\* and they may hold an identifier.
Instructions == Message("system", {"pii"})

AgentRequest(p, th) ==
    <<<<Instructions>>>> \o [i \in 1 .. Len(th) |-> Group(p, th, i)]

\* The prompt of the selector is one message, with the history in it.
SelectorRequest(th) ==
    <<<<Message("user", UNION {Content(th[i]) : i \in 1 .. Len(th)})>>>>

Request(p, th) == IF p = Selector THEN SelectorRequest(th) ELSE AgentRequest(p, th)

Messages(request) == UNION {Range(request[g]) : g \in 1 .. Len(request)}

----------------------------------------------------------------------------
(* The gateway: screen_and_sanitize.  The roles are all known ones, and the   *)
(* first message is never empty.                                             *)

ScreenedRoles_User == {"user"}
ScreenedRoles == {"user", "tool"}

Passes(request) ==
    \A m \in Messages(request) :
      /\ "long" \notin m.text
      /\ m.role \in ScreenedRoles => m.text \cap {"term", "own"} = {}

\* Only the texts are redacted; arguments of calls go as they are.
Redacted_Caller(m) ==
    IF m.role \in {"user", "system"} THEN [m EXCEPT !.text = @ \ {"pii"}] ELSE m
Redacted(m) == [m EXCEPT !.text = @ \ {"pii"}]

Forwarded(request) == {Redacted(m) : m \in Messages(request)}
Learnt(request) == UNION {m.text \cup m.args : m \in Forwarded(request)}

\* The provider's input: chat-completion messages as they are, or the items of
\* the Responses API, where every call of a message is an item of its own.
Item(m) ==
    IF provider = "zen" /\ m.calls # <<>>
    THEN [i \in 1 .. Len(m.calls) |-> [m EXCEPT !.calls = <<m.calls[i]>>]]
    ELSE <<m>>
Items(request) == FlattenSeq([i \in 1 .. Len(FlattenSeq(request)) |-> Item(FlattenSeq(request)[i])])

\* What the model may write after reading `learnt`.
Answers(learnt) == SUBSET ((learnt \cap {"pii", "term", "foreign", "fetched"}) \cup {"own"})

----------------------------------------------------------------------------
(* Errors, from the provider to the caller of the orchestrator.               *)

\* What the guardrails or the provider raises.  OpenAI's client makes an error of
\* its own of a 400 alone, and provider.py tells no other one apart; zen's takes
\* every 4xx for a fault of the request.
Raised(fault) ==
    CASE fault = "input" -> "GuardrailRejected"
      [] fault = "malformed" -> "ValidationError"
      [] fault \in {"refused", "throttled"} /\ provider = "zen" -> "ValidationError"
      [] fault = "unparsable" /\ provider = "zen" -> "JSONDecodeError"
      [] OTHER -> "ProviderError"

\* _STATUS_BY_ERROR; the deadline and the limits of a message are the channel's.
GatewayCode_Inverted(fault) ==
    CASE fault = "slow" -> "DEADLINE_EXCEEDED"
      [] fault = "oversized" -> "RESOURCE_EXHAUSTED"
      [] fault \notin {"slow", "oversized"} /\ Raised(fault) = "GuardrailRejected" ->
            "INVALID_ARGUMENT"
      [] OTHER -> "UNAVAILABLE"
GatewayCode(fault) ==
    CASE fault = "slow" -> "DEADLINE_EXCEEDED"
      [] fault = "oversized" -> "RESOURCE_EXHAUSTED"
      [] fault \notin {"slow", "oversized"} /\ Raised(fault) = "ProviderError" -> "UNAVAILABLE"
      [] Raised(fault) \in {"GuardrailRejected", "ValidationError"} -> "INVALID_ARGUMENT"
      [] OTHER -> "INTERNAL"

\* _handle_errors of the orchestrator.  AutoGen may hand the error on as one
\* of its own, and then it is any other exception.
Retryable == {"UNAVAILABLE", "DEADLINE_EXCEEDED", "RESOURCE_EXHAUSTED"}
ChatCode_AnyUpstream(fault, wrapped) ==
    IF fault # "catalog" /\ ~wrapped THEN GatewayCode(fault) ELSE "INTERNAL"
ChatCode(fault, wrapped) ==
    IF fault # "catalog" /\ GatewayCode(fault) \in Retryable /\ ~wrapped
    THEN GatewayCode(fault) ELSE "INTERNAL"

----------------------------------------------------------------------------
(* An answered request, of client p, which is one token.                      *)

Ask(c, p) ==
    LET request == Request(p, thread[c]) IN
    /\ Passes(request)
    /\ told' = told \cup Learnt(request)
    /\ billed' = [billed EXCEPT ![c] = @ + 1]

Used(c, p) == [tokens EXCEPT ![c][p] = @ + 1]

\* run.py: the sum over the clients of the session.
TotalUsage_Participants(used) == SumFunctionOnSet(used, Clients \ {Selector})
TotalUsage(used) == SumFunctionOnSet(used, Clients)

\* The chat goes on after its message, or it ends and its session is gone.
Return(c, used) ==
    \/ /\ chat'[c].pc # "ended"
       /\ tokens' = used /\ UNCHANGED <<thread, reply>>
    \/ /\ chat'[c].pc = "ended"
       /\ reply' = [reply EXCEPT ![c] =
            [code |-> "OK", fault |-> "none", tokens |-> TotalUsage(used[c])]]
       /\ thread' = [thread EXCEPT ![c] = <<>>]
       /\ tokens' = [tokens EXCEPT ![c] = NoTokens]

\* A selector's model is asked where there is a choice.
Selects(c) == ~chat[c].planning /\ Cardinality(chat[c].team) > 1
Turn(c, s) == chat[c].pc = "turn" /\ (Selects(c) => chosen[c] = s)

----------------------------------------------------------------------------
(* Steps of a chat                                                           *)

\* The runner calls for a plan, and for its steps once it has one.
Open(c, approved) ==
    /\ \A d \in Chats : chat[d].pc \in {"idle", "ended"}
    /\ ReadAgents(c, approved, plan = Missing, FALSE)
    /\ thread' = IF chat'[c].pc = "ended" THEN thread ELSE [thread EXCEPT ![c] =
         IF plan = Missing THEN <<CallerSays({}), CallerSays(prompt)>>
         ELSE <<CallerSays(plan)>>]
    /\ reply' = IF chat'[c].pc = "ended"
                THEN [reply EXCEPT ![c] = [NoReply EXCEPT !.code = "FAILED_PRECONDITION",
                                                          !.fault = "catalog"]]
                ELSE reply
    /\ UNCHANGED <<provider, prompt, plan, chosen, told, tokens, billed>>

Build(c) ==
    /\ ReadGrants(c) \/ ReadTools(c)
    /\ UNCHANGED convVars

\* The selector's model names the speaker.
Choose(c, s) ==
    /\ chat[c].pc = "turn" /\ Selects(c) /\ chosen[c] = Nobody
    /\ s \in chat[c].team
    /\ Ask(c, Selector)
    /\ chosen' = [chosen EXCEPT ![c] = s]
    /\ tokens' = Used(c, Selector)
    /\ UNCHANGED <<vars, provider, prompt, plan, thread, reply>>

\* A text.  A planner's is the plan, unless nothing is left of it (_parse_plan).
Say(c, s, blank) ==
    /\ Turn(c, s) /\ Text(c, s) /\ Ask(c, s)
    /\ Return(c, Used(c, s))
    /\ \E text \in Answers(Learnt(Request(s, thread[c]))) :
         plan' = IF chat[c].planning /\ ~blank THEN text ELSE plan
    /\ chosen' = [chosen EXCEPT ![c] = Nobody]
    /\ UNCHANGED <<provider, prompt>>

\* list_tools: the granted tools that the catalog lists, which is none of them
\* when the listing fails; no tools, no calls.
Offered(c, a) == {n \in chat[c].allowed[a] : Named(n) # {}}

Orders(names) == {s \in [1 .. Cardinality(names) -> names] : Range(s) = names}

\* Calls of the model's answer.  A name that is not granted, or refused, is
\* answered by the workbench, in words that hold none of the marks.
Call(c, a, names) ==
    /\ Turn(c, a) /\ ToolCalls(c, a, names) /\ Ask(c, a)
    /\ Offered(c, a) # {}
    /\ \E args \in Answers(Learnt(Request(a, thread[c]))), order \in Orders(names) :
         thread' = [thread EXCEPT ![c] = Append(@,
           [by |-> a, text |-> {}, calls |-> order, args |-> args,
            results |-> [n \in Names |-> IF n \in names \ chat'[c].calls THEN {} ELSE Missing]])]
    /\ chosen' = [chosen EXCEPT ![c] = Nobody]
    /\ tokens' = Used(c, a)
    /\ UNCHANGED <<provider, prompt, plan, reply>>

\* The result of one call, in whatever order they come.
Result(c, n, text) ==
    /\ thread' = [thread EXCEPT ![c][Len(thread[c])].results[n] = text]
    /\ UNCHANGED <<provider, prompt, plan, chosen, told, tokens, billed, reply>>

CallFails(c, n) == ToolError(c, n) /\ Result(c, n, {})

CallRuns(c, n, marked) ==
    /\ RunTool(c, n, marked)
    /\ \E text \in Results(n, thread[c][Len(thread[c])].args) : Result(c, n, text)

Summarise(c) ==
    /\ Summary(c) /\ Return(c, tokens)
    /\ UNCHANGED <<provider, prompt, plan, chosen, told, billed>>

\* A SELECT fails, or a request for an answer: the guardrails refuse it, as they
\* may for several texts together that are too long, or the provider does, its
\* answer is lost, or the request is too large to be sent.
Asked(c) == IF Selects(c) /\ chosen[c] = Nobody THEN {Selector}
            ELSE IF Selects(c) THEN {chosen[c]} ELSE Speakers(chat[c])

Abort(c, fault, wrapped) ==
    /\ (fault = "catalog") = (chat[c].pc # "turn")
    /\ \E p \in Asked(c) :
         LET request == Request(p, thread[c])
             passes == fault \notin {"catalog", "input", "oversized"} /\ Passes(request) IN
         /\ fault \in {"malformed", "refused", "throttled", "garbled", "unparsable"} => passes
         /\ told' = IF passes THEN told \cup Learnt(request) ELSE told
    /\ Fail(c)
    /\ reply' = [reply EXCEPT ![c] =
         [code |-> ChatCode(fault, wrapped), fault |-> fault, tokens |-> 0]]
    /\ thread' = [thread EXCEPT ![c] = <<>>]
    /\ tokens' = [tokens EXCEPT ![c] = NoTokens]
    /\ chosen' = [chosen EXCEPT ![c] = Nobody]
    /\ UNCHANGED <<provider, prompt, plan, billed>>

ConvNext ==
    /\ UNCHANGED catalogVars
    /\ \E c \in Chats :
         \/ \E approved \in BOOLEAN : Open(c, approved)
         \/ Build(c) \/ Summarise(c)
         \/ \E s \in Agents : Choose(c, s)
         \/ \E s \in Agents \cup {Planner}, blank \in BOOLEAN : Say(c, s, blank)
         \/ \E a \in Agents, names \in SUBSET Names \ {{}} : Call(c, a, names)
         \/ \E n \in Names : CallFails(c, n) \/ \E marked \in BOOLEAN : CallRuns(c, n, marked)
         \/ \E fault \in Faults, wrapped \in BOOLEAN : Abort(c, fault, wrapped)

ConvSpec == ConvInit /\ [][ConvNext]_<<vars, convVars>>

----------------------------------------------------------------------------
ConvTypeOK ==
    /\ provider \in {"openai", "zen"}
    /\ prompt \in Texts
    /\ plan \in {Missing} \cup Texts
    /\ thread \in [Chats -> Seq(Entry)]
    /\ chosen \in [Chats -> Agents \cup {Nobody}]
    /\ told \in Texts
    /\ tokens \in [Chats -> [Clients -> Nat]]
    /\ billed \in [Chats -> Nat]
    /\ reply \in [Chats -> [code : Codes, fault : Faults \cup {"none"}, tokens : Nat]]

\* No identifier reaches the model, in a text or in the arguments of calls that
\* a later request repeats unredacted, through however many chats of the job
\* (guardrails.py:19-24, 69-80).
NoIdentifierLeaves == "pii" \notin told

\* A blocked term that a caller or a tool wrote never reaches the model: not as
\* input, not as a result in the caller's own context or in that of the others,
\* not in the selector's prompt, not in a later chat (guardrails.py:41-48).
NoBlockedReachesModel == "term" \notin told

\* No table that a query names, wherever in it, brings the rows of another tenant
\* to the model (handlers.py:269-281): of several references none is left out.
TablesAreScoped == "foreign" \notin told

\* handlers.py:226-230: the caller's query is rewritten "so no shape of SELECT the
\* caller writes (join, subquery, aggregate, ...) can see another tenant's rows".
\* The rewriting is of table references; a function that reads rows is none.
RowsAreScoped == told \cap {"foreign", "fetched"} = {}

\* Every call has one result, which follows it with nothing but calls and
\* results between, and every result has its call before it.
WellFormed(items) ==
    LET Places == 1 .. Len(items)
        Of(id) == {j \in Places : items[j].id = id}
        InTurn(j) == items[j].calls # <<>> \/ items[j].role = "tool" IN
    /\ \A i \in Places : \A id \in Range(items[i].calls) :
         \E j \in Places : Of(id) = {j} /\ i < j /\ \A k \in i .. j : InTurn(k)
    /\ \A j \in Places : items[j].id # Missing =>
         \E i \in 1 .. j - 1 : items[j].id \in Range(items[i].calls)

\* What is sent of a chat between turns is well-formed for either provider
\* (model_client.py:14-19, provider_zen.py:55-63), whether its calls were run,
\* failed, were refused or were not permitted.
CallsAnswered ==
    \A c \in Chats : chat[c].pc = "turn" =>
        \A p \in chat[c].team \cup {Selector} :
            WellFormed(Items(Request(p, thread[c])))

\* A chat that ends with an answer reports every token that the provider
\* reported for it, those of the selector's calls too (run.py:84-86).
UsageAddsUp ==
    \A c \in Chats : reply[c].code = "OK" => reply[c].tokens = billed[c]

\* A rejection that the gateway knows for one of the request (the guardrails', a
\* 400, with zen any 4xx but 429) or of the catalog never reads as retryable,
\* through the codes of two services (servicer.py:20-24 of the gateway, 29-59 of
\* the orchestrator).
Rejected(fault) ==
    \/ fault \in {"catalog", "input", "malformed"}
    \/ fault = "refused" /\ provider = "zen"
RejectionIsFinal ==
    \A c \in Chats : Rejected(reply[c].fault) => reply[c].code \notin Retryable

\* provider.py:109-112: what is left beside a 400 is "Connectivity, rate limiting,
\* or a provider-side (5xx) failure -- genuinely retryable upstream trouble", and
\* reads as retryable at the caller.  A request refused for its key, its model or
\* its size is none of these.
RetryableIsUpstream ==
    \A c \in Chats : reply[c].code = "UNAVAILABLE" =>
        reply[c].fault \in {"throttled", "down", "garbled", "unparsable"}

\* guardrails.py:41-44: matching is scoped to user and tool messages "so the
\* model's own prior turns (assistant/system content) can't trip it".  The steps
\* of a plan are the planner's turn, and the runner sends them as the user's
\* (runner.py:203-205).
OwnWordsPass ==
    \A c \in Chats : chat[c].pc = "turn" =>
        \A p \in Asked(c) : \A m \in Messages(Request(p, thread[c])) :
            m.role = "user" /\ "term" \notin m.text => "own" \notin m.text
=============================================================================
