------------------------- MODULE ConversationProofs -------------------------
(***************************************************************************)
(* Proofs about Conversation, for any number of agents, tools, chats and     *)
(* messages: that it is a GroupChat, whose theorems it inherits; what never  *)
(* reaches the model; that the tokens of a chat add up; and that every       *)
(* request shows each call with its one result.                              *)
(***************************************************************************)
EXTENDS Conversation, GroupChatProofs, FoldProofs, FiniteSetTheorems, SequenceTheorems

----------------------------------------------------------------------------
(* The inductive invariant.  The model has only its own words, and the rows   *)
(* that a function of a query has fetched: what it writes, in a plan or in   *)
(* arguments, is therefore of no other mark; and a result that a later       *)
(* request repeats is there.                                                 *)

Domestic == SUBSET (Marks \ {"foreign"})
ModelWords == SUBSET {"own", "fetched"}

SafeEntry == [by : Agents \cup {Nobody},
              text : Domestic,
              calls : Seq(Names),
              args : ModelWords,
              results : [Names -> {Missing} \cup Domestic]]

\* Only the calls of the last message of a chat may await a result.
Awaited(c, i) ==
    IF chat[c].pc = "calls" /\ i = Len(thread[c]) THEN chat[c].calls ELSE {}
Complete(c) ==
    \A i \in 1 .. Len(thread[c]) : \A k \in 1 .. Len(thread[c][i].calls) :
        LET e == thread[c][i] IN
        e.results[e.calls[k]] = Missing => e.calls[k] \in Awaited(c, i)

OwnInv ==
    /\ prompt \in Domestic
    /\ plan \in {Missing} \cup ModelWords
    /\ thread \in [Chats -> Seq(SafeEntry)]
    /\ told \in ModelWords
    /\ \A c \in Chats : Complete(c)

----------------------------------------------------------------------------
(* Requests                                                                  *)

\* Whatever a request holds, the roles that are not screened hold at most
\* identifiers, and the arguments at most the model's own words.
SafeMessage(m) ==
    /\ m.text \in Domestic /\ m.args \in ModelWords
    /\ m.role \in ScreenedRoles \/ m.text \subseteq {"pii"}

\* A field of a message that EXCEPT does not name is as it was.
LEMMA MessageFields ==
    ASSUME NEW role, NEW text
    PROVE  /\ Message(role, text).role = role
           /\ Message(role, text).text = text
           /\ Message(role, text).args = {}
BY DEF Message

\* The groups of a participant's own calls, and of what others wrote, are safe
\* when every result is there.
LEMMA GroupSafe ==
    ASSUME OwnInv, NEW c \in Chats, NEW p, NEW i \in 1 .. Len(thread[c]),
           chat[c].pc = "turn",
           NEW m \in Range(Group(p, thread[c], i))
    PROVE  SafeMessage(m)
<1> DEFINE th == thread[c]
           e == th[i]
<1>1. th \in Seq(SafeEntry) /\ e \in SafeEntry
  BY DEF OwnInv
<1>2. \A k \in 1 .. Len(e.calls) : e.results[e.calls[k]] \in Domestic
  <2>1. SUFFICES ASSUME NEW k \in 1 .. Len(e.calls)
                 PROVE  e.results[e.calls[k]] \in Domestic
    OBVIOUS
  <2>2. e.results[e.calls[k]] \in {Missing} \cup Domestic
    BY <1>1, <2>1 DEF SafeEntry
  <2>3. Awaited(c, i) = {}
    BY DEF Awaited
  <2>4. e.results[e.calls[k]] # Missing
    BY <2>1, <2>3 DEF OwnInv, Complete
  <2> QED BY <2>2, <2>4
<1>3. CASE th[i].by = p
  <2>1. Group(p, th, i) = <<CallsMessage(th, i)>> \o ResultMessages(th, i)
    BY <1>3 DEF Group
  <2>2. ResultMessages(th, i) \in Seq(Range(ResultMessages(th, i)))
    <3> DEFINE L == Len(e.calls)
               r == ResultMessages(th, i)
    <3>1. L \in Nat
      BY <1>1 DEF SafeEntry
    <3>2. r = [k \in 1 .. L |-> r[k]]
      BY DEF ResultMessages
    <3> HIDE DEF L, r
    <3>3. \A k \in 1 .. L : r[k] \in Range(r)
      BY <3>2 DEF Range
    <3>4. r \in [1 .. L -> Range(r)]
      BY <3>2, <3>3
    <3>5. r \in Seq(Range(r))
      BY <3>1, <3>4, SeqDef
    <3> QED BY <3>5 DEF r
  <2>3. m = CallsMessage(th, i) \/ m \in Range(ResultMessages(th, i))
    BY <2>1, <2>2 DEF Range
  <2>4. ASSUME m = CallsMessage(th, i) PROVE SafeMessage(m)
    BY <1>1, <2>4 DEF CallsMessage, Message, SafeMessage, SafeEntry, Domestic, ModelWords
  <2>5. ASSUME m \in Range(ResultMessages(th, i)) PROVE SafeMessage(m)
    <3>1. PICK k \in 1 .. Len(e.calls) :
            m = [Message("tool", e.results[e.calls[k]]) EXCEPT !.id = Id(i, e.calls[k])]
      BY <2>5 DEF ResultMessages, Range
    <3>2. m.role = "tool" /\ m.text = e.results[e.calls[k]] /\ m.args = {}
      BY <3>1 DEF Message
    <3> QED BY <1>2, <3>2 DEF SafeMessage, ScreenedRoles, ModelWords
  <2> QED BY <2>3, <2>4, <2>5
<1>4. CASE th[i].by # p
  <2>1. m = Message("user", Content(e))
    BY <1>4 DEF Group, Range
  <2>2. Content(e) \in Domestic
    <3>1. CASE e.by = Nobody
      BY <1>1, <3>1 DEF Content, SafeEntry
    <3>2. CASE e.by # Nobody
      <4>1. \A n \in Range(e.calls) : e.results[n] \in Domestic
        <5>1. e.calls \in Seq(Names)
          BY <1>1 DEF SafeEntry
        <5>2. DOMAIN e.calls = 1 .. Len(e.calls)
          BY <5>1
        <5> QED BY <1>2, <5>2 DEF Range
      <4> QED BY <3>2, <4>1 DEF Content, Domestic
    <3> QED BY <3>1, <3>2
  <2> QED BY <2>1, <2>2, MessageFields DEF SafeMessage, ScreenedRoles, ModelWords
<1> QED BY <1>3, <1>4

LEMMA RequestSafe ==
    ASSUME OwnInv, NEW c \in Chats, NEW p, chat[c].pc = "turn",
           NEW m \in Messages(Request(p, thread[c]))
    PROVE  SafeMessage(m)
<1> DEFINE th == thread[c]
<1>1. th \in Seq(SafeEntry) /\ Len(th) \in Nat
  BY DEF OwnInv
<1>2. CASE p = Selector
  <2> DEFINE text == UNION {Content(th[i]) : i \in 1 .. Len(th)}
             q == Message("user", text)
  <2>1. Request(p, th) = <<<<q>>>>
    BY <1>2 DEF Request, SelectorRequest
  <2>2. m = q
    <3> HIDE DEF q
    <3> QED BY <2>1 DEF Messages, Range
  <2>3. ASSUME NEW i \in 1 .. Len(th) PROVE Content(th[i]) \in Domestic
    <3>1. Group(Planner, th, i) = <<Message("user", Content(th[i]))>>
      <4>1. th[i].by # Planner
        <5>1. th[i] \in SafeEntry
          BY <1>1, <2>3
        <5>2. th[i].by \in Agents \cup {Nobody}
          BY <5>1 DEF SafeEntry
        <5> QED BY <5>2, ChatAssumption
      <4> QED BY <4>1 DEF Group
    <3>2. Message("user", Content(th[i])) \in Range(Group(Planner, th, i))
      BY <3>1 DEF Range
    <3>3. SafeMessage(Message("user", Content(th[i])))
      BY <2>3, <3>2, GroupSafe
    <3> QED BY <3>3, MessageFields DEF SafeMessage
  <2>4. text \in Domestic
    BY <2>3 DEF Domestic
  <2>5. q.role = "user" /\ q.text = text /\ q.args = {}
    BY MessageFields
  <2> HIDE DEF text, q
  <2> QED BY <2>2, <2>4, <2>5 DEF SafeMessage, ScreenedRoles, ModelWords
<1>3. CASE p # Selector
  <2> DEFINE groups == [i \in 1 .. Len(th) |-> Group(p, th, i)]
             req == Request(p, th)
  <2>1. req = <<<<Instructions>>>> \o groups
    BY <1>3 DEF Request, AgentRequest
  <2>2. groups \in Seq({Group(p, th, i) : i \in 1 .. Len(th)}) /\ Len(groups) = Len(th)
    <3>1. groups \in [1 .. Len(th) -> {Group(p, th, i) : i \in 1 .. Len(th)}]
      OBVIOUS
    <3> HIDE DEF groups
    <3> QED BY <1>1, <3>1, SeqDef
  <2>3. PICK g \in 1 .. Len(req) : m \in Range(req[g])
    BY DEF Messages
  <2>4. req[g] = <<Instructions>> \/ \E i \in 1 .. Len(th) : req[g] = Group(p, th, i)
    <3>1. \A i \in 1 .. Len(th) : groups[i] = Group(p, th, i)
      OBVIOUS
    <3> HIDE DEF groups, req
    <3>2. Len(req) = 1 + Len(th)
      BY <1>1, <2>1, <2>2
    <3>3. g = 1 \/ g - 1 \in 1 .. Len(th)
      BY <1>1, <2>3, <3>2
    <3>4. req[1] = <<Instructions>>
      BY <2>1, <2>2
    <3>5. g # 1 => req[g] = groups[g - 1]
      BY <1>1, <2>1, <2>2, <2>3, <3>2
    <3> QED BY <3>1, <3>3, <3>4, <3>5
  <2>5. CASE req[g] = <<Instructions>>
    <3>1. m = Instructions
      <4> HIDE DEF req
      <4> QED BY <2>3, <2>5 DEF Range
    <3> QED BY <3>1, MessageFields DEF Instructions, SafeMessage, Domestic, ModelWords, Marks
  <2>6. CASE \E i \in 1 .. Len(th) : req[g] = Group(p, th, i)
    <3>1. PICK i \in 1 .. Len(th) : m \in Range(Group(p, th, i))
      BY <2>3, <2>6
    <3> QED BY <3>1, GroupSafe
  <2> QED BY <2>4, <2>5, <2>6
<1> QED BY <1>2, <1>3

\* A request that passes the guardrails teaches the model nothing else.
LEMMA LearntIsOwn ==
    ASSUME OwnInv, NEW c \in Chats, NEW p, chat[c].pc = "turn",
           Passes(Request(p, thread[c]))
    PROVE  Learnt(Request(p, thread[c])) \in ModelWords
<1> DEFINE req == Request(p, thread[c])
<1>1. ASSUME NEW m \in Messages(req)
      PROVE  Redacted(m).text \cup Redacted(m).args \in ModelWords
  <2>1. SafeMessage(m)
    BY <1>1, RequestSafe
  <2>2. m.text \subseteq {"pii", "fetched"}
    BY <1>1, <2>1 DEF Passes, SafeMessage, Domestic, Marks
  <2>3. \E f : m = f
    OBVIOUS
  <2>4. Redacted(m).text \subseteq m.text \ {"pii"} /\ Redacted(m).args = m.args
    BY DEF Redacted
  <2> QED BY <2>1, <2>2, <2>4 DEF SafeMessage, ModelWords
<1> QED BY <1>1 DEF Learnt, Forwarded, ModelWords

\* What a tool answers is of the tenant, a function's rows, and of the arguments.
LEMMA ResultsDomestic ==
    ASSUME NEW n, NEW args \in ModelWords, NEW text \in Results(n, args)
    PROVE  text \in Domestic
<1>1. Outside \subseteq Domestic
  <2>1. {"pii", "term", "long"} \subseteq Marks \ {"foreign"}
    BY DEF Marks
  <2> QED BY <2>1 DEF Outside, Domestic
<1>2. {} \in Domestic
  BY DEF Domestic
<1>3. \A r \in HttpRequest : HttpResults(r) \subseteq Domestic
  BY <1>1, <1>2 DEF HttpResults, Written
<1>4. \A q \in Query : QueryResults(q) \subseteq Domestic
  <2>1. ASSUME NEW q \in Query, NEW rows \in Rows(q) PROVE rows \in Domestic
    <3>1. \A t \in Rewritten(q) : t.scoped
      BY DEF Rewritten
    <3>2. rows \in Outside \/ rows \subseteq {"pii", "fetched"}
      <4> DEFINE unscoped == IF \A t \in Rewritten(q) : t.scoped THEN {} ELSE {"foreign"}
                 read == IF q.reads THEN {"fetched"} ELSE {}
      <4>1. unscoped = {} /\ read \subseteq {"fetched"}
        BY <3>1
      <4>2. rows \in Outside \/ \E own \in SUBSET {"pii"}, more \in SUBSET (unscoped \cup read) :
                                  rows = own \cup more
        BY DEF Rows
      <4> QED BY <4>1, <4>2
    <3> QED BY <1>1, <3>2 DEF Domestic, Marks
  <2> QED BY <1>2, <2>1 DEF QueryResults
<1>5. n \in DOMAIN Brought /\ Brought[n] \subseteq Domestic
  <2>1. n \in DOMAIN Brought
    BY DEF Results
  <2>2. n = "http_request" \/ n = "query_database"
    BY <2>1 DEF Brought
  <2>3. Brought["http_request"] \subseteq Domestic
    BY <1>3 DEF Brought
  <2>4. Brought["query_database"] \subseteq Domestic
    BY <1>4 DEF Brought
  <2> QED BY <2>1, <2>2, <2>3, <2>4
<1>6. PICK brought \in Brought[n], quoted \in SUBSET args : text = brought \cup quoted
  BY <1>5 DEF Results
<1> QED BY <1>5, <1>6 DEF Domestic, ModelWords, Marks

----------------------------------------------------------------------------
(* The composition is a GroupChat.                                           *)

LEMMA StepIsChatStep == ConvNext => [Next]_vars
<1> SUFFICES ASSUME ConvNext PROVE [Next]_vars
  OBVIOUS
<1>1. PICK c \in Chats :
         \/ \E approved \in BOOLEAN : Open(c, approved)
         \/ Build(c) \/ Summarise(c)
         \/ \E s \in Agents : Choose(c, s)
         \/ \E s \in Agents \cup {Planner}, blank \in BOOLEAN : Say(c, s, blank)
         \/ \E a \in Agents, names \in SUBSET Names \ {{}} : Call(c, a, names)
         \/ \E n \in Names : CallFails(c, n) \/ \E marked \in BOOLEAN : CallRuns(c, n, marked)
         \/ \E fault \in Faults, wrapped \in BOOLEAN : Abort(c, fault, wrapped)
  BY DEF ConvNext
<1>2. UNCHANGED catalogVars
  BY DEF ConvNext
<1>3. CASE \E s \in Agents : Choose(c, s)
  BY <1>3 DEF Choose
<1>4. CASE \E approved \in BOOLEAN : Open(c, approved)
  <2>1. PICK approved \in BOOLEAN : ReadAgents(c, approved, plan = Missing, FALSE)
    BY <1>4 DEF Open
  <2>2. \E planning \in BOOLEAN : ReadAgents(c, approved, planning, FALSE)
    <3>1. CASE plan = Missing
      <4>1. (plan = Missing) = TRUE
        BY <3>1
      <4> QED BY <2>1, <4>1
    <3>2. CASE plan # Missing
      <4>1. (plan = Missing) = FALSE
        BY <3>2
      <4> QED BY <2>1, <4>1
    <3> QED BY <3>1, <3>2
  <2> QED BY <1>2, <2>2 DEF Next, ChatNext
<1>5. CASE Build(c) \/ Summarise(c)
  BY <1>2, <1>5 DEF Build, Summarise, Next, ChatNext, Proceed
<1>6. CASE \E s \in Agents \cup {Planner}, blank \in BOOLEAN : Say(c, s, blank)
  BY <1>2, <1>6 DEF Say, Next, ChatNext, Proceed
<1>7. CASE \E a \in Agents, names \in SUBSET Names \ {{}} : Call(c, a, names)
  BY <1>2, <1>7 DEF Call, Next, ChatNext, Proceed
<1>8. CASE \E n \in Names : CallFails(c, n) \/ \E marked \in BOOLEAN : CallRuns(c, n, marked)
  BY <1>2, <1>8 DEF CallFails, CallRuns, Next, ChatNext, Proceed
<1>9. CASE \E fault \in Faults, wrapped \in BOOLEAN : Abort(c, fault, wrapped)
  BY <1>2, <1>9 DEF Abort, Next, ChatNext, Proceed
<1> QED BY <1>1, <1>3, <1>4, <1>5, <1>6, <1>7, <1>8, <1>9

\* Whatever is proved of the group chats holds of the job's conversation.
THEOREM ConversationIsGroupChat == ConvSpec => Spec
<1>1. ConvInit => Init
  BY DEF ConvInit
<1>2. [ConvNext]_<<vars, convVars>> => [Next]_vars
  BY StepIsChatStep
<1> QED BY <1>1, <1>2, PTL DEF ConvSpec, Spec

----------------------------------------------------------------------------
(* Steps                                                                     *)

\* A chat that awaits no result keeps its messages complete, wherever it goes.
LEMMA StaysComplete ==
    ASSUME NEW c \in Chats, Complete(c), thread'[c] = thread[c],
           chat[c].pc # "calls" \/ chat[c].calls = {}
    PROVE  Complete(c)'
BY DEF Complete, Awaited

LEMMA EmptyComplete ==
    ASSUME NEW c \in Chats, thread'[c] = <<>>
    PROVE  Complete(c)'
BY DEF Complete

LEMMA OthersComplete ==
    ASSUME NEW c \in Chats, Complete(c), thread'[c] = thread[c], chat'[c] = chat[c]
    PROVE  Complete(c)'
BY DEF Complete, Awaited

\* The texts that come in from the caller.
LEMMA CallerSafe ==
    ASSUME NEW text \in Domestic
    PROVE  CallerSays(text) \in SafeEntry /\ CallerSays(text).calls = <<>>
<1>1. NoResults \in [Names -> {Missing} \cup Domestic]
  BY DEF NoResults
<1>2. <<>> \in Seq(Names) /\ {} \in ModelWords
  BY DEF ModelWords
<1> QED BY <1>1, <1>2 DEF CallerSays, SafeEntry

LEMMA OwnAnswers ==
    ASSUME NEW learnt \in ModelWords
    PROVE  Answers(learnt) \subseteq ModelWords
BY DEF Answers, ModelWords

LEMMA OwnIsDomestic == ModelWords \subseteq Domestic
BY DEF ModelWords, Domestic, Marks

LEMMA OpenKeeps ==
    ASSUME OwnInv, TypeOK, NEW c \in Chats, NEW approved \in BOOLEAN, Open(c, approved)
    PROVE  OwnInv'
<1>1. {} \in Domestic
  BY DEF Domestic
<1>2. plan # Missing => plan \in Domestic
  BY OwnIsDomestic DEF OwnInv
<1> DEFINE heard == IF plan = Missing THEN <<CallerSays({}), CallerSays(prompt)>>
                    ELSE <<CallerSays(plan)>>
<1>3. heard \in Seq(SafeEntry) /\ \A i \in 1 .. Len(heard) : heard[i].calls = <<>>
  <2>1. CASE plan = Missing
    BY <1>1, <2>1, CallerSafe DEF OwnInv
  <2>2. CASE plan # Missing
    BY <1>2, <2>2, CallerSafe
  <2> QED BY <2>1, <2>2
<1> HIDE DEF heard
<1>4. thread' = thread \/ thread' = [thread EXCEPT ![c] = heard]
  BY DEF Open, heard
<1>5. chat[c].pc = "idle" /\ \A d \in Chats : d # c => chat'[d] = chat[d]
  BY DEF Open, ReadAgents, TypeOK
<1>6. thread' \in [Chats -> Seq(SafeEntry)]
  BY <1>3, <1>4 DEF OwnInv
<1>7. ASSUME NEW d \in Chats PROVE Complete(d)'
  <2>1. CASE d # c
    BY <1>4, <1>5, <2>1, OthersComplete DEF OwnInv
  <2>2. CASE d = c /\ thread' = thread
    BY <1>5, <2>2, StaysComplete DEF OwnInv
  <2>3. CASE d = c /\ thread'[c] = heard
    <3>1. \A i \in 1 .. Len(heard) : Len(heard[i].calls) = 0
      BY <1>3
    <3> QED BY <2>3, <3>1 DEF Complete
  <2> QED BY <1>4, <2>1, <2>2, <2>3 DEF OwnInv
<1> QED BY <1>6, <1>7 DEF Open, OwnInv

LEMMA BuildKeeps ==
    ASSUME OwnInv, TypeOK, NEW c \in Chats, Build(c)
    PROVE  OwnInv'
<1>1. chat[c].pc \in {"grants", "tools"} /\ \A d \in Chats : d # c => chat'[d] = chat[d]
  BY DEF Build, ReadGrants, ReadTools, TypeOK
<1>2. UNCHANGED <<prompt, plan, thread, told>>
  BY DEF Build, convVars
<1>3. ASSUME NEW d \in Chats PROVE Complete(d)'
  BY <1>1, <1>2, OthersComplete, StaysComplete DEF OwnInv
<1> QED BY <1>2, <1>3 DEF OwnInv

LEMMA ChooseKeeps ==
    ASSUME OwnInv, NEW c \in Chats, NEW s \in Agents, Choose(c, s)
    PROVE  OwnInv'
<1>1. Learnt(Request(Selector, thread[c])) \in ModelWords
  BY LearntIsOwn DEF Choose, Ask
<1>2. told' \in ModelWords
  BY <1>1 DEF Choose, Ask, OwnInv, ModelWords
<1>3. UNCHANGED <<prompt, plan, thread, chat>>
  BY DEF Choose, vars
<1>4. ASSUME NEW d \in Chats PROVE Complete(d)'
  BY <1>3, OthersComplete DEF OwnInv
<1> QED BY <1>2, <1>3, <1>4 DEF OwnInv

LEMMA ClearedThread ==
    ASSUME OwnInv, NEW c \in Chats
    PROVE  [thread EXCEPT ![c] = <<>>] \in [Chats -> Seq(SafeEntry)]
<1>1. ASSUME NEW t \in Seq(SafeEntry)
      PROVE  [thread EXCEPT ![c] = t] \in [Chats -> Seq(SafeEntry)]
  BY DEF OwnInv
<1>2. <<>> \in Seq(SafeEntry)
  BY EmptySeq
<1> QED BY <1>1, <1>2, Zenon

\* The message that ends a chat takes its thread along.
LEMMA ReturnKeeps ==
    ASSUME OwnInv, NEW c \in Chats, NEW used, Return(c, used),
           chat[c].pc # "calls" \/ chat[c].calls = {},
           \A d \in Chats : d # c => chat'[d] = chat[d]
    PROVE  /\ thread' \in [Chats -> Seq(SafeEntry)]
           /\ \A d \in Chats : Complete(d)'
<1>1. thread' = thread \/ thread' = [thread EXCEPT ![c] = <<>>]
  BY DEF Return
<1>2. thread' \in [Chats -> Seq(SafeEntry)]
  BY <1>1, ClearedThread DEF OwnInv
<1>3. ASSUME NEW d \in Chats PROVE Complete(d)'
  BY <1>1, OthersComplete, StaysComplete, EmptyComplete DEF OwnInv
<1> QED BY <1>2, <1>3

LEMMA SayKeeps ==
    ASSUME OwnInv, TypeOK, NEW c \in Chats, NEW s \in Agents \cup {Planner},
           NEW blank \in BOOLEAN, Say(c, s, blank)
    PROVE  OwnInv'
<1>1. chat[c].pc = "turn" /\ \A d \in Chats : d # c => chat'[d] = chat[d]
  BY DEF Say, Text, TypeOK
<1>2. Learnt(Request(s, thread[c])) \in ModelWords
  BY <1>1, LearntIsOwn DEF Say, Ask
<1>3. told' \in ModelWords
  BY <1>2 DEF Say, Ask, OwnInv, ModelWords
<1>4. plan' \in {Missing} \cup ModelWords
  BY <1>2, OwnAnswers DEF Say, OwnInv
<1>5. thread' \in [Chats -> Seq(SafeEntry)] /\ \A d \in Chats : Complete(d)'
  BY <1>1, ReturnKeeps DEF Say
<1> QED BY <1>3, <1>4, <1>5 DEF Say, OwnInv

LEMMA SummariseKeeps ==
    ASSUME OwnInv, TypeOK, NEW c \in Chats, Summarise(c)
    PROVE  OwnInv'
<1>1. chat[c].calls = {} /\ \A d \in Chats : d # c => chat'[d] = chat[d]
  BY DEF Summarise, Summary, TypeOK
<1>2. thread' \in [Chats -> Seq(SafeEntry)] /\ \A d \in Chats : Complete(d)'
  BY <1>1, ReturnKeeps DEF Summarise
<1> QED BY <1>2 DEF Summarise, OwnInv

LEMMA AbortKeeps ==
    ASSUME OwnInv, TypeOK, NEW c \in Chats, NEW fault \in Faults, NEW wrapped \in BOOLEAN,
           Abort(c, fault, wrapped)
    PROVE  OwnInv'
<1>1. \A d \in Chats : d # c => chat'[d] = chat[d]
  BY DEF Abort, Fail, TypeOK
<1>2. told' \in ModelWords
  <2>1. PICK p \in Asked(c) :
           told' = told \/ (/\ fault \notin {"catalog", "input", "oversized"}
                            /\ Passes(Request(p, thread[c]))
                            /\ told' = told \cup Learnt(Request(p, thread[c])))
    BY DEF Abort
  <2>2. fault # "catalog" => chat[c].pc = "turn"
    BY DEF Abort
  <2>3. CASE told' = told
    BY <2>3 DEF OwnInv
  <2>4. CASE told' # told
    <3>1. Learnt(Request(p, thread[c])) \in ModelWords
      BY <2>1, <2>2, <2>4, LearntIsOwn
    <3> QED BY <2>1, <3>1 DEF OwnInv, ModelWords
  <2> QED BY <2>3, <2>4
<1>3. thread' = [thread EXCEPT ![c] = <<>>]
  BY DEF Abort
<1>4. thread' \in [Chats -> Seq(SafeEntry)]
  BY <1>3, ClearedThread
<1>5. ASSUME NEW d \in Chats PROVE Complete(d)'
  BY <1>1, <1>3, OthersComplete, EmptyComplete DEF OwnInv
<1> QED BY <1>2, <1>4, <1>5 DEF Abort, OwnInv

\* The calls of an answer, of which those that nobody runs are answered.
LEMMA CallKeeps ==
    ASSUME OwnInv, TypeOK, NEW c \in Chats, NEW a \in Agents,
           NEW names \in SUBSET Names, Call(c, a, names)
    PROVE  OwnInv'
<1>1. /\ chat[c].pc = "turn" /\ chat'[c].pc = "calls"
      /\ \A d \in Chats : d # c => chat'[d] = chat[d]
  BY DEF Call, ToolCalls, TypeOK
<1>2. Learnt(Request(a, thread[c])) \in ModelWords
  BY <1>1, LearntIsOwn DEF Call, Ask
<1>3. told' \in ModelWords
  BY <1>2 DEF Call, Ask, OwnInv, ModelWords
<1> DEFINE entry(args, order) ==
             [by |-> a, text |-> {}, calls |-> order, args |-> args,
              results |-> [n \in Names |-> IF n \in names \ chat'[c].calls THEN {} ELSE Missing]]
<1>4. PICK args \in Answers(Learnt(Request(a, thread[c]))), order \in Orders(names) :
         thread' = [thread EXCEPT ![c] = Append(thread[c], entry(args, order))]
  BY DEF Call
<1> DEFINE e == entry(args, order)
<1>5. order \in Seq(Names) /\ \A k \in 1 .. Len(order) : order[k] \in names
  <2>1. Cardinality(names) \in Nat
    BY ConversationAssumption, FS_Subset, FS_CardinalityType
  <2>2. order \in [1 .. Cardinality(names) -> names]
    BY <1>4 DEF Orders
  <2>3. order \in Seq(names)
    BY <2>1, <2>2, SeqDef
  <2> QED BY <2>3
<1>6. e \in SafeEntry
  <2>1. args \in ModelWords
    BY <1>2, <1>4, OwnAnswers
  <2>2. {} \in Domestic
    BY DEF Domestic
  <2>3. e.results \in [Names -> {Missing} \cup Domestic]
    BY <2>2
  <2> QED BY <1>5, <2>1, <2>2, <2>3 DEF SafeEntry
<1>7. \A k \in 1 .. Len(e.calls) :
         e.results[e.calls[k]] = Missing => e.calls[k] \in chat'[c].calls
  <2>1. \A n \in names : n \notin chat'[c].calls => e.results[n] = {}
    OBVIOUS
  <2>2. {} # Missing
    BY ConversationAssumption DEF Texts
  <2> QED BY <1>5, <2>1, <2>2
<1> HIDE DEF e
<1>8. thread' = [thread EXCEPT ![c] = Append(thread[c], e)]
  BY <1>4 DEF e
<1>9. thread[c] \in Seq(SafeEntry)
  BY DEF OwnInv
<1>10. thread' \in [Chats -> Seq(SafeEntry)]
  BY <1>6, <1>8, <1>9 DEF OwnInv
<1>11. Complete(c)'
  <2>1. thread'[c] = Append(thread[c], e) /\ Len(thread'[c]) = Len(thread[c]) + 1
    BY <1>6, <1>8, <1>9 DEF OwnInv
  <2>2. ASSUME NEW i \in 1 .. Len(thread'[c]), NEW k \in 1 .. Len(thread'[c][i].calls),
               thread'[c][i].results[thread'[c][i].calls[k]] = Missing
        PROVE  thread'[c][i].calls[k] \in Awaited(c, i)'
    <3>1. CASE i = Len(thread'[c])
      <4>1. thread'[c][i] = e
        BY <1>6, <1>9, <2>1, <3>1
      <4>2. thread'[c][i].calls[k] \in chat'[c].calls
        BY <1>7, <2>2, <4>1
      <4> QED BY <1>1, <3>1, <4>2 DEF Awaited
    <3>2. CASE i # Len(thread'[c])
      <4>1. i \in 1 .. Len(thread[c]) /\ thread'[c][i] = thread[c][i]
        BY <1>6, <1>9, <2>1, <3>2
      <4>2. Awaited(c, i) = {}
        BY <1>1 DEF Awaited
      <4> QED BY <2>2, <4>1, <4>2 DEF OwnInv, Complete
    <3> QED BY <3>1, <3>2
  <2> QED BY <2>2 DEF Complete
<1>12. ASSUME NEW d \in Chats PROVE Complete(d)'
  BY <1>1, <1>8, <1>11, OthersComplete DEF OwnInv
<1> QED BY <1>3, <1>10, <1>12 DEF Call, OwnInv

\* One result, whoever answers the call.
LEMMA ResultKeeps ==
    ASSUME OwnInv, TypeOK, NEW c \in Chats, NEW n \in Names, NEW text \in Domestic,
           Result(c, n, text),
           chat'[c].pc = chat[c].pc, chat'[c].calls = chat[c].calls \ {n},
           \A d \in Chats : d # c => chat'[d] = chat[d]
    PROVE  OwnInv'
<1> DEFINE th == thread[c]
           last == Len(th)
           e == [th[last] EXCEPT !.results = [th[last].results EXCEPT ![n] = text]]
           new == [th EXCEPT ![last] = e]
<1>1. thread' = [thread EXCEPT ![c] = new]
  BY DEF Result
<1>2. th \in Seq(SafeEntry) /\ last \in Nat
  BY DEF OwnInv
<1>3. last > 0 => th[last] \in SafeEntry
  BY <1>2
<1>4. last > 0 => e \in SafeEntry /\ e.calls = th[last].calls
  BY <1>3 DEF SafeEntry
<1>5. new \in Seq(SafeEntry) /\ Len(new) = last
  <2>1. th \in [1 .. last -> SafeEntry]
    BY <1>2
  <2>2. last \in 1 .. last => e \in SafeEntry
    BY <1>2, <1>4
  <2>3. new \in [1 .. last -> SafeEntry]
    <3> HIDE DEF e, th, last
    <3> QED BY <2>1, <2>2
  <2> HIDE DEF new
  <2>4. new \in Seq(SafeEntry)
    BY <1>2, <2>3, SeqDef
  <2> QED BY <1>2, <2>3, <2>4, LenProperties
<1>6. thread' \in [Chats -> Seq(SafeEntry)] /\ thread'[c] = new
  <2> HIDE DEF new
  <2> QED BY <1>1, <1>5 DEF OwnInv
<1>7. text # Missing
  BY ConversationAssumption DEF Domestic, Texts
<1>8. Complete(c)'
  <2>1. ASSUME NEW i \in 1 .. last, NEW k \in 1 .. Len(new[i].calls),
               new[i].results[new[i].calls[k]] = Missing
        PROVE  new[i].calls[k] \in Awaited(c, i)'
    <3>1. CASE i # last
      <4>1. new[i] = th[i]
        BY <1>2, <3>1
      <4>2. th[i].calls[k] \in Awaited(c, i)
        BY <2>1, <4>1 DEF OwnInv, Complete
      <4> QED BY <3>1, <4>2 DEF Awaited
    <3>2. CASE i = last
      <4>1. new[i] = e /\ last > 0
        BY <1>2, <3>2
      <4>2. e.calls[k] \in Names
        BY <1>4, <2>1, <4>1 DEF SafeEntry
      <4>3. e.calls[k] # n /\ th[last].results[e.calls[k]] = Missing
        BY <1>3, <1>7, <2>1, <4>1, <4>2 DEF SafeEntry
      <4>4. th[last].calls[k] \in Awaited(c, last)
        BY <1>4, <2>1, <3>2, <4>1, <4>3 DEF OwnInv, Complete
      <4>5. th[last].calls[k] # n
        BY <1>4, <4>1, <4>3
      <4>6. th[last].calls[k] \in chat'[c].calls /\ chat'[c].pc = "calls"
        BY <4>4, <4>5 DEF Awaited
      <4>7. i = Len(thread'[c])
        BY <1>5, <1>6, <3>2
      <4> QED BY <1>4, <4>1, <4>6, <4>7 DEF Awaited
    <3> QED BY <3>1, <3>2
  <2> HIDE DEF new
  <2> QED BY <1>5, <1>6, <2>1 DEF Complete
<1>9. ASSUME NEW d \in Chats PROVE Complete(d)'
  <2> HIDE DEF new
  <2> QED BY <1>1, <1>8, OthersComplete DEF OwnInv
<1> QED BY <1>6, <1>9 DEF Result, OwnInv

LEMMA FailsKeeps ==
    ASSUME OwnInv, TypeOK, NEW c \in Chats, NEW n \in Names, CallFails(c, n)
    PROVE  OwnInv'
<1>1. /\ chat'[c].pc = chat[c].pc /\ chat'[c].calls = chat[c].calls \ {n}
      /\ \A d \in Chats : d # c => chat'[d] = chat[d]
  BY DEF CallFails, ToolError, TypeOK, Chat
<1>2. {} \in Domestic
  BY DEF Domestic
<1>3. Result(c, n, {})
  BY DEF CallFails
<1> QED BY <1>1, <1>2, <1>3, ResultKeeps

----------------------------------------------------------------------------
(* A chat that awaits results has the message of their calls.                *)

Heard(c) == chat[c].calls # {} => Len(thread[c]) > 0
HeardInv == \A c \in Chats : Heard(c)

LEMMA StaysHeard ==
    ASSUME NEW c \in Chats, Heard(c),
           \/ chat'[c].calls = {}
           \/ chat'[c].calls \subseteq chat[c].calls /\ Len(thread'[c]) = Len(thread[c])
    PROVE  Heard(c)'
BY DEF Heard

\* What becomes of a chat after one more message: its calls stay, or go with it.
LEMMA SaidCalls ==
    ASSUME NEW d, NEW final, d \in Chat
    PROVE  \/ Said(d, final).pc = "turn" /\ Said(d, final).calls = d.calls
           \/ Said(d, final).pc = "ended" /\ Said(d, final).calls = {}
<1> DEFINE e == [d EXCEPT !.messages = IF @ < MaxMessages THEN @ + 1 ELSE @]
<1>1. e.calls = d.calls /\ [e EXCEPT !.pc = "turn"].calls = d.calls
      /\ [e EXCEPT !.pc = "turn"].pc = "turn"
  BY DEF Chat
<1>2. Said(d, final) = Ended(e) \/ Said(d, final) = [e EXCEPT !.pc = "turn"]
  BY DEF Said
<1>3. Ended(e).pc = "ended" /\ Ended(e).calls = {}
  BY DEF Ended, Closed, NewChat
<1> HIDE DEF e
<1> QED BY <1>1, <1>2, <1>3

LEMMA ReturnHeard ==
    ASSUME OwnInv, HeardInv, NEW c \in Chats, NEW used, Return(c, used), NEW d \in Chat,
           NEW final, chat'[c] = Said(d, final), d.calls = chat[c].calls
    PROVE  Heard(c)'
<1>1. CASE chat'[c].pc = "ended"
  <2>1. chat'[c].calls = {}
    BY <1>1, SaidCalls
  <2> QED BY <2>1 DEF Heard
<1>2. CASE chat'[c].pc # "ended"
  <2>1. chat'[c].calls = chat[c].calls
    BY <1>2, SaidCalls
  <2>2. thread' = thread
    BY <1>2 DEF Return
  <2> QED BY <2>1, <2>2 DEF Heard, HeardInv
<1> QED BY <1>1, <1>2

LEMMA HeardKept ==
    ASSUME OwnInv, HeardInv, TypeOK, ConvNext
    PROVE  HeardInv'
<1>1. PICK c \in Chats :
         \/ \E approved \in BOOLEAN : Open(c, approved)
         \/ Build(c) \/ Summarise(c)
         \/ \E s \in Agents : Choose(c, s)
         \/ \E s \in Agents \cup {Planner}, blank \in BOOLEAN : Say(c, s, blank)
         \/ \E a \in Agents, names \in SUBSET Names \ {{}} : Call(c, a, names)
         \/ \E n \in Names : CallFails(c, n) \/ \E marked \in BOOLEAN : CallRuns(c, n, marked)
         \/ \E fault \in Faults, wrapped \in BOOLEAN : Abort(c, fault, wrapped)
  BY DEF ConvNext
<1>2. SUFFICES /\ \A d \in Chats : d # c => chat'[d] = chat[d] /\ thread'[d] = thread[d]
               /\ Heard(c)'
  <2>1. ASSUME NEW d \in Chats PROVE Heard(d)'
    BY <1>2 DEF Heard, HeardInv
  <2> QED BY <2>1 DEF HeardInv
<1>3. thread[c] \in Seq(SafeEntry) /\ chat[c] \in Chat /\ Len(thread[c]) \in Nat
  BY DEF OwnInv, TypeOK
<1>4. ASSUME NEW approved \in BOOLEAN, Open(c, approved)
      PROVE  /\ \A d \in Chats : d # c => chat'[d] = chat[d] /\ thread'[d] = thread[d]
             /\ Heard(c)'
  <2>1. chat'[c].calls = chat[c].calls /\ \A d \in Chats : d # c => chat'[d] = chat[d]
    BY <1>3, <1>4 DEF Open, ReadAgents, TypeOK, Chat
  <2> DEFINE heard == IF plan = Missing THEN <<CallerSays({}), CallerSays(prompt)>>
                      ELSE <<CallerSays(plan)>>
  <2>2. thread' = thread \/ thread' = [thread EXCEPT ![c] = heard]
    BY <1>4 DEF Open
  <2>3. Len(heard) > 0
    OBVIOUS
  <2> HIDE DEF heard
  <2>4. thread'[c] = thread[c] \/ thread'[c] = heard
    BY <2>2 DEF OwnInv
  <2>5. \A d \in Chats : d # c => thread'[d] = thread[d]
    BY <2>2 DEF OwnInv
  <2> QED BY <2>1, <2>3, <2>4, <2>5 DEF Heard, HeardInv
<1>5. ASSUME Build(c)
      PROVE  /\ \A d \in Chats : d # c => chat'[d] = chat[d] /\ thread'[d] = thread[d]
             /\ Heard(c)'
  <2>1. thread' = thread /\ \A d \in Chats : d # c => chat'[d] = chat[d]
    BY <1>5 DEF Build, ReadGrants, ReadTools, convVars, TypeOK
  <2>2. CASE ReadGrants(c)
    <3>1. chat'[c].calls = chat[c].calls
      BY <1>3, <2>2 DEF ReadGrants, TypeOK, Chat
    <3> QED BY <2>1, <3>1 DEF Heard, HeardInv
  <2>3. CASE ReadTools(c)
    <3> DEFINE d == [chat[c] EXCEPT
                   !.pc = "turn", !.messages = Input(chat[c].planning),
                   !.grants = NoTools,
                   !.allowed = [a \in Agents |-> NamesOf(chat[c].grants[a])],
                   !.mutating = [a \in Agents |-> MutatingOf(chat[c].grants[a])]]
    <3>1. chat'[c] = Ended(d) \/ chat'[c] = d
      BY <2>3 DEF ReadTools, TypeOK
    <3>2. d.calls = chat[c].calls
      BY <1>3 DEF Chat
    <3>3. Ended(d).calls = {}
      BY DEF Ended, Closed, NewChat
    <3> HIDE DEF d
    <3> QED BY <2>1, <3>1, <3>2, <3>3 DEF Heard, HeardInv
  <2> QED BY <1>5, <2>1, <2>2, <2>3 DEF Build
<1>6. ASSUME Summarise(c)
      PROVE  /\ \A d \in Chats : d # c => chat'[d] = chat[d] /\ thread'[d] = thread[d]
             /\ Heard(c)'
  <2>1. chat' = [chat EXCEPT ![c] = Said(chat[c], FALSE)] /\ Return(c, tokens)
    BY <1>6 DEF Summarise, Summary
  <2>2. Heard(c)'
    BY <1>3, <2>1, ReturnHeard DEF TypeOK
  <2> QED BY <2>1, <2>2 DEF Return, TypeOK, OwnInv
<1>7. ASSUME NEW s \in Agents, Choose(c, s)
      PROVE  /\ \A d \in Chats : d # c => chat'[d] = chat[d] /\ thread'[d] = thread[d]
             /\ Heard(c)'
  BY <1>7 DEF Choose, vars, Heard, HeardInv
<1>8. ASSUME NEW s \in Agents \cup {Planner}, NEW blank \in BOOLEAN, Say(c, s, blank)
      PROVE  /\ \A d \in Chats : d # c => chat'[d] = chat[d] /\ thread'[d] = thread[d]
             /\ Heard(c)'
  <2> DEFINE d == [chat[c] EXCEPT !.speaker = s]
             final == ~chat[c].planning \/ s = Planner
  <2>1. chat' = [chat EXCEPT ![c] = Said(d, final)] /\ Return(c, Used(c, s))
    BY <1>8 DEF Say, Text
  <2>2. d \in Chat /\ d.calls = chat[c].calls
    BY <1>3 DEF Chat
  <2> HIDE DEF d, final
  <2>3. Heard(c)'
    BY <2>1, <2>2, ReturnHeard DEF TypeOK
  <2> QED BY <2>1, <2>3 DEF Return, TypeOK, OwnInv
<1>9. ASSUME NEW a \in Agents, NEW names \in SUBSET Names, Call(c, a, names)
      PROVE  /\ \A d \in Chats : d # c => chat'[d] = chat[d] /\ thread'[d] = thread[d]
             /\ Heard(c)'
  <2>1. \A d \in Chats : d # c => chat'[d] = chat[d]
    BY <1>9 DEF Call, ToolCalls, TypeOK
  <2>2. PICK e : thread' = [thread EXCEPT ![c] = Append(thread[c], e)]
    BY <1>9 DEF Call
  <2>3. Len(thread'[c]) = Len(thread[c]) + 1
    BY <1>3, <2>2 DEF OwnInv
  <2> QED BY <1>3, <2>1, <2>2, <2>3 DEF OwnInv, Heard
<1>10. ASSUME NEW n \in Names, CallFails(c, n) \/ \E marked \in BOOLEAN : CallRuns(c, n, marked)
      PROVE  /\ \A d \in Chats : d # c => chat'[d] = chat[d] /\ thread'[d] = thread[d]
             /\ Heard(c)'
  <2>1. /\ chat'[c].calls \subseteq chat[c].calls
        /\ \A d \in Chats : d # c => chat'[d] = chat[d]
    <3>1. CASE ToolError(c, n)
      BY <1>3, <3>1 DEF ToolError, TypeOK, Chat
    <3>2. ASSUME NEW marked \in BOOLEAN, RunTool(c, n, marked)
          PROVE  /\ chat'[c].calls \subseteq chat[c].calls
                 /\ \A d \in Chats : d # c => chat'[d] = chat[d]
      BY <1>3, <3>2 DEF RunTool, TypeOK, Chat
    <3> QED BY <1>10, <3>1, <3>2 DEF CallFails, CallRuns
  <2>2. PICK text : Result(c, n, text)
    BY <1>10 DEF CallFails, CallRuns
  <2>3. Len(thread'[c]) = Len(thread[c]) /\ \A d \in Chats : d # c => thread'[d] = thread[d]
    BY <1>3, <2>2 DEF Result, OwnInv
  <2> QED BY <2>1, <2>3, StaysHeard DEF HeardInv
<1>11. ASSUME NEW fault \in Faults, NEW wrapped \in BOOLEAN, Abort(c, fault, wrapped)
      PROVE  /\ \A d \in Chats : d # c => chat'[d] = chat[d] /\ thread'[d] = thread[d]
             /\ Heard(c)'
  <2>1. chat' = [chat EXCEPT ![c] = Closed(chat[c], "error")]
    BY <1>11 DEF Abort, Fail
  <2>2. Closed(chat[c], "error").calls = {}
    BY DEF Closed, NewChat
  <2>3. chat'[c].calls = {}
    BY <2>1, <2>2 DEF TypeOK
  <2> QED BY <1>11, <2>1, <2>3 DEF Abort, TypeOK, OwnInv, Heard
<1> QED BY <1>1, <1>4, <1>5, <1>6, <1>7, <1>8, <1>9, <1>10, <1>11

LEMMA RunsKeeps ==
    ASSUME OwnInv, HeardInv, TypeOK, NEW c \in Chats, NEW n \in Names,
           NEW marked \in BOOLEAN, CallRuns(c, n, marked)
    PROVE  OwnInv'
<1>1. /\ chat'[c].pc = chat[c].pc /\ chat'[c].calls = chat[c].calls \ {n}
      /\ \A d \in Chats : d # c => chat'[d] = chat[d]
  BY DEF CallRuns, RunTool, TypeOK, Chat
<1> DEFINE last == Len(thread[c])
<1>2. thread[c][last].args \in ModelWords
  <2>1. n \in chat[c].calls
    BY DEF CallRuns, RunTool
  <2>2. last > 0
    BY <2>1 DEF HeardInv, Heard
  <2>3. thread[c] \in Seq(SafeEntry)
    BY DEF OwnInv
  <2>4. thread[c][last] \in SafeEntry
    BY <2>2, <2>3
  <2> QED BY <2>4 DEF SafeEntry
<1>3. PICK text \in Results(n, thread[c][last].args) : Result(c, n, text)
  BY DEF CallRuns
<1>4. text \in Domestic
  BY <1>2, <1>3, ResultsDomestic
<1> QED BY <1>1, <1>3, <1>4, ResultKeeps

----------------------------------------------------------------------------
(* Every behaviour                                                           *)

LEMMA OwnInit == ConvInit => OwnInv /\ HeardInv
<1> SUFFICES ASSUME ConvInit PROVE OwnInv /\ HeardInv
  OBVIOUS
<1>1. prompt \in Domestic
  <2>1. {"pii", "term", "long"} \subseteq Marks \ {"foreign"}
    BY DEF Marks
  <2> QED BY <2>1 DEF ConvInit, Outside, Domestic
<1>2. thread = [c \in Chats |-> <<>>] /\ chat = [c \in Chats |-> NewChat]
  BY DEF ConvInit, Init
<1>3. thread \in [Chats -> Seq(SafeEntry)]
  BY <1>2, EmptySeq
<1>4. \A c \in Chats : Complete(c)
  BY <1>2 DEF Complete
<1>5. HeardInv
  BY <1>2 DEF HeardInv, Heard, NewChat
<1> QED BY <1>1, <1>3, <1>4, <1>5 DEF ConvInit, OwnInv, ModelWords

LEMMA OwnStep == OwnInv /\ HeardInv /\ TypeOK /\ [ConvNext]_<<vars, convVars>>
                   => OwnInv' /\ HeardInv'
<1> SUFFICES ASSUME OwnInv, HeardInv, TypeOK, [ConvNext]_<<vars, convVars>>
             PROVE  OwnInv' /\ HeardInv'
  OBVIOUS
<1>1. CASE ConvNext
  <2>1. HeardInv'
    BY <1>1, HeardKept
  <2>2. PICK c \in Chats :
         \/ \E approved \in BOOLEAN : Open(c, approved)
         \/ Build(c) \/ Summarise(c)
         \/ \E s \in Agents : Choose(c, s)
         \/ \E s \in Agents \cup {Planner}, blank \in BOOLEAN : Say(c, s, blank)
         \/ \E a \in Agents, names \in SUBSET Names \ {{}} : Call(c, a, names)
         \/ \E n \in Names : CallFails(c, n) \/ \E marked \in BOOLEAN : CallRuns(c, n, marked)
         \/ \E fault \in Faults, wrapped \in BOOLEAN : Abort(c, fault, wrapped)
    BY <1>1 DEF ConvNext
  <2>3. OwnInv'
    BY <2>2, OpenKeeps, BuildKeeps, ChooseKeeps, SayKeeps, SummariseKeeps, CallKeeps,
       FailsKeeps, RunsKeeps, AbortKeeps
  <2> QED BY <2>1, <2>3
<1>2. CASE UNCHANGED <<vars, convVars>>
  <2>1. UNCHANGED <<chat, prompt, plan, thread, told>>
    BY <1>2 DEF vars, convVars
  <2>2. HeardInv'
    BY <2>1 DEF HeardInv, Heard
  <2>3. ASSUME NEW d \in Chats PROVE Complete(d)'
    BY <2>1, OthersComplete DEF OwnInv
  <2> QED BY <2>1, <2>2, <2>3 DEF OwnInv
<1> QED BY <1>1, <1>2

LEMMA OwnAlways == ConvSpec => [](OwnInv /\ HeardInv)
<1>1. ConvInit => OwnInv /\ HeardInv
  BY OwnInit
<1>2. OwnInv /\ HeardInv /\ TypeOK /\ [ConvNext]_<<vars, convVars>> => (OwnInv /\ HeardInv)'
  BY OwnStep
<1>3. ConvSpec => []TypeOK
  BY ConversationIsGroupChat, TypeCorrect, PTL
<1> QED BY <1>1, <1>2, <1>3, PTL DEF ConvSpec

\* No identifier of a person reaches the model: not in a text, which the gateway
\* redacts, nor in the arguments of calls, which it does not (guardrails.py:69-80).
THEOREM IdentifiersStay == ConvSpec => []NoIdentifierLeaves
<1>1. OwnInv => NoIdentifierLeaves
  BY DEF OwnInv, ModelWords, NoIdentifierLeaves
<1> QED BY <1>1, OwnAlways, PTL

\* No blocked term of a caller or of a tool reaches the model, in whichever role
\* and chat it is repeated (guardrails.py:41-48).
THEOREM BlockedStays == ConvSpec => []NoBlockedReachesModel
<1>1. OwnInv => NoBlockedReachesModel
  BY DEF OwnInv, ModelWords, NoBlockedReachesModel
<1> QED BY <1>1, OwnAlways, PTL

\* Whatever tables the model's query refers to, and wherever in it, none of them
\* brings it rows of another tenant (handlers.py:269-281).  It says nothing of
\* what a function reads by itself.
THEOREM TablesAreTenants == ConvSpec => []TablesAreScoped
<1>1. OwnInv => TablesAreScoped
  BY DEF OwnInv, ModelWords, TablesAreScoped
<1> QED BY <1>1, OwnAlways, PTL

\* The gate of the workbench holds in the job's conversation, whatever the model
\* reads and writes (mcp_workbench.py:161).
THEOREM ConversationIsGated == ConvSpec => []GateOfRecord
BY ConversationIsGroupChat, GateHolds, PTL

\* And its replies are what the runner takes them for (run.py:88-93).
THEOREM ConversationIsChatLifecycle == ConvSpec => ImplementsChatLifecycle
BY ConversationIsGroupChat, Refinement, PTL

----------------------------------------------------------------------------
(* Errors                                                                    *)

ReplyInv ==
    /\ \E R : reply \in [Chats -> R]
    /\ RejectionIsFinal

\* What a rejection becomes.
LEMMA RejectionFaults ==
    ASSUME NEW fault \in Faults, NEW wrapped, Rejected(fault)
    PROVE  ChatCode(fault, wrapped) \notin Retryable
<1>1. "INTERNAL" \notin Retryable /\ "INVALID_ARGUMENT" \notin Retryable
  BY DEF Retryable
<1>2. CASE fault = "catalog"
  BY <1>1, <1>2 DEF ChatCode
<1>3. CASE fault # "catalog"
  <2>1. Raised(fault) \in {"GuardrailRejected", "ValidationError"}
    BY <1>3 DEF Rejected, Raised
  <2>2. fault \notin {"slow", "oversized"}
    BY DEF Rejected
  <2>3. GatewayCode(fault) = "INVALID_ARGUMENT"
    BY <2>1, <2>2 DEF GatewayCode
  <2> QED BY <1>1, <2>3 DEF ChatCode
<1> QED BY <1>2, <1>3

LEMMA ReplyStep == ReplyInv /\ [ConvNext]_<<vars, convVars>> => ReplyInv'
<1> SUFFICES ASSUME ReplyInv, [ConvNext]_<<vars, convVars>> PROVE ReplyInv'
  OBVIOUS
<1>1. PICK R : reply \in [Chats -> R]
  BY DEF ReplyInv
<1>0. provider' = provider
  <2>1. ASSUME NEW c \in Chats, NEW x, Open(c, x) PROVE provider' = provider
    BY <2>1 DEF Open
  <2>2. ASSUME NEW c \in Chats, Build(c) \/ Summarise(c) PROVE provider' = provider
    BY <2>2 DEF Build, Summarise, convVars
  <2>3. ASSUME NEW c \in Chats, NEW s, Choose(c, s) PROVE provider' = provider
    BY <2>3 DEF Choose
  <2>4. ASSUME NEW c \in Chats, NEW s, NEW x, Say(c, s, x) PROVE provider' = provider
    BY <2>4 DEF Say
  <2>5. ASSUME NEW c \in Chats, NEW s, NEW x, Call(c, s, x) PROVE provider' = provider
    BY <2>5 DEF Call
  <2>6. ASSUME NEW c \in Chats, NEW n, NEW text, Result(c, n, text)
        PROVE  provider' = provider
    BY <2>6 DEF Result
  <2>7. ASSUME NEW c \in Chats, NEW n, NEW x, CallFails(c, n) \/ CallRuns(c, n, x)
        PROVE  provider' = provider
    BY <2>6, <2>7 DEF CallFails, CallRuns
  <2>8. ASSUME NEW c \in Chats, NEW x, NEW y, Abort(c, x, y) PROVE provider' = provider
    BY <2>8 DEF Abort
  <2> QED BY <2>1, <2>2, <2>3, <2>4, <2>5, <2>7, <2>8 DEF ConvNext, convVars
\* A reply of the Chat RPC that is not retryable, or no rejection.
<1> DEFINE Fine(r) == Rejected(r.fault) => r.code \notin Retryable
<1>2. ASSUME NEW c \in Chats, NEW r, Fine(r), reply' = [reply EXCEPT ![c] = r]
      PROVE  ReplyInv'
  <2>1. reply' \in [Chats -> R \cup {r}]
    BY <1>1, <1>2
  <2>2. \A d \in Chats : reply'[d] = IF d = c THEN r ELSE reply[d]
    BY <1>1, <1>2
  <2>3. \A d \in Chats : Fine(reply'[d])
    BY <1>1, <1>2, <2>2 DEF ReplyInv, RejectionIsFinal
  <2> QED BY <1>0, <2>1, <2>3 DEF ReplyInv, RejectionIsFinal, Rejected
<1>3. ASSUME reply' = reply PROVE ReplyInv'
  BY <1>0, <1>3 DEF ReplyInv, RejectionIsFinal, Rejected
<1>4. ASSUME NEW c \in Chats, NEW used, Return(c, used) PROVE ReplyInv'
  <2>1. CASE reply' = reply
    BY <1>3, <2>1
  <2>2. CASE reply' = [reply EXCEPT ![c] =
               [code |-> "OK", fault |-> "none", tokens |-> TotalUsage(used[c])]]
    <3> DEFINE r == [code |-> "OK", fault |-> "none", tokens |-> TotalUsage(used[c])]
    <3>1. Fine(r)
      BY DEF Rejected, Retryable
    <3> HIDE DEF Fine, r
    <3>2. reply' = [reply EXCEPT ![c] = r]
      BY <2>2 DEF r
    <3> QED BY <1>2, <3>1, <3>2
  <2> QED BY <1>4, <2>1, <2>2 DEF Return
<1>5. CASE ConvNext
  <2>1. PICK c \in Chats :
         \/ \E approved \in BOOLEAN : Open(c, approved)
         \/ Build(c) \/ Summarise(c)
         \/ \E s \in Agents : Choose(c, s)
         \/ \E s \in Agents \cup {Planner}, blank \in BOOLEAN : Say(c, s, blank)
         \/ \E a \in Agents, names \in SUBSET Names \ {{}} : Call(c, a, names)
         \/ \E n \in Names : CallFails(c, n) \/ \E marked \in BOOLEAN : CallRuns(c, n, marked)
         \/ \E fault \in Faults, wrapped \in BOOLEAN : Abort(c, fault, wrapped)
    BY <1>5 DEF ConvNext
  <2>2. CASE \E approved \in BOOLEAN : Open(c, approved)
    <3> DEFINE r == [NoReply EXCEPT !.code = "FAILED_PRECONDITION", !.fault = "catalog"]
    <3>1. Fine(r)
      BY DEF NoReply, Retryable
    <3> HIDE DEF Fine, r
    <3>2. reply' = reply \/ reply' = [reply EXCEPT ![c] = r]
      BY <2>2 DEF Open, r
    <3> QED BY <1>2, <1>3, <3>1, <3>2
  <2>3. CASE Build(c) \/ \E s \in Agents : Choose(c, s)
    BY <1>3, <2>3 DEF Build, Choose, convVars
  <2>4. CASE Summarise(c) \/ \E s \in Agents \cup {Planner}, blank \in BOOLEAN : Say(c, s, blank)
    <3> PICK used : Return(c, used)
      BY <2>4 DEF Summarise, Say
    <3> QED BY <1>4
  <2>5. CASE \E a \in Agents, names \in SUBSET Names \ {{}} : Call(c, a, names)
    BY <1>3, <2>5 DEF Call
  <2>6. CASE \E n \in Names : CallFails(c, n) \/ \E marked \in BOOLEAN : CallRuns(c, n, marked)
    <3> PICK n, text : Result(c, n, text)
      BY <2>6 DEF CallFails, CallRuns
    <3> QED BY <1>3 DEF Result
  <2>7. CASE \E fault \in Faults, wrapped \in BOOLEAN : Abort(c, fault, wrapped)
    <3>1. PICK fault \in Faults, wrapped \in BOOLEAN : Abort(c, fault, wrapped)
      BY <2>7
    <3> DEFINE r == [code |-> ChatCode(fault, wrapped), fault |-> fault, tokens |-> 0]
    <3>2. Fine(r)
      BY RejectionFaults
    <3> HIDE DEF Fine, r
    <3>3. reply' = [reply EXCEPT ![c] = r]
      BY <3>1 DEF Abort, r
    <3> QED BY <1>2, <3>2, <3>3
  <2> QED BY <2>1, <2>2, <2>3, <2>4, <2>5, <2>6, <2>7
<1>6. CASE UNCHANGED <<vars, convVars>>
  BY <1>3, <1>6 DEF convVars
<1> QED BY <1>5, <1>6

\* What the guardrails refused, what a provider refused with an error that the
\* gateway knows for one of the request, and what the catalog failed, never ends a
\* Chat in a code that reads as retryable (servicer.py:29-59 of the orchestrator).
THEOREM RejectionsAreFinal == ConvSpec => []RejectionIsFinal
<1>1. ConvInit => ReplyInv
  <2> SUFFICES ASSUME ConvInit PROVE ReplyInv
    OBVIOUS
  <2>1. reply = [c \in Chats |-> NoReply]
    BY DEF ConvInit
  <2>2. reply \in [Chats -> {NoReply}]
    BY <2>1
  <2>3. NoReply.code \notin Retryable
    BY DEF NoReply, Retryable
  <2> QED BY <2>1, <2>2, <2>3 DEF ReplyInv, RejectionIsFinal
<1>2. ReplyInv => RejectionIsFinal
  BY DEF ReplyInv
<1> QED BY <1>1, <1>2, ReplyStep, PTL DEF ConvSpec

----------------------------------------------------------------------------
(* Usage.  The clients of a chat have counted what the provider has reported *)
(* for it as long as the session is there, and the answer is made of their   *)
(* counts.                                                                   *)

Replies == [code : Codes, fault : Faults \cup {"none"}, tokens : Nat]

Counted(c) ==
    /\ chat[c].pc # "ended" => reply[c].code # "OK" /\ billed[c] = TotalUsage(tokens[c])
    /\ reply[c].code = "OK" => reply[c].tokens = billed[c]

UsageInv ==
    /\ tokens \in [Chats -> [Clients -> Nat]]
    /\ billed \in [Chats -> Nat]
    /\ reply \in [Chats -> Replies]
    /\ \A c \in Chats : Counted(c)

LEMMA ClientsFinite == IsFiniteSet(Clients)
<1>1. IsFiniteSet({Planner, Selector})
  <2>1. IsFiniteSet({Planner}) /\ {Planner, Selector} = {Planner} \cup {Selector}
    BY FS_Singleton
  <2> QED BY <2>1, FS_AddElement
<1> QED BY <1>1, ConversationAssumption, FS_Union DEF Clients

LEMMA NoUsage == NoTokens \in [Clients -> Nat] /\ TotalUsage(NoTokens) = 0
  BY ClientsFinite, SumOfNothing DEF NoTokens, TotalUsage

LEMMA UsageType ==
    ASSUME NEW f \in [Clients -> Nat]
    PROVE  TotalUsage(f) \in Nat
<1>1. PICK p : p \in Clients
  BY DEF Clients
<1> QED BY <1>1, ClientsFinite, SumOfOneMore DEF TotalUsage

\* A chat whose clients and answer are f, n and r after a step.
Fits(c, f, n, r) ==
    /\ f \in [Clients -> Nat] /\ n \in Nat /\ r \in Replies
    /\ chat'[c].pc # "ended" => r.code # "OK" /\ n = TotalUsage(f)
    /\ r.code = "OK" => r.tokens = n

LEMMA OneChatCounts ==
    ASSUME UsageInv, NEW c \in Chats, \A d \in Chats : d # c => chat'[d] = chat[d],
           NEW f, NEW n, NEW r, Fits(c, f, n, r),
           tokens' = [tokens EXCEPT ![c] = f], billed' = [billed EXCEPT ![c] = n],
           reply' = [reply EXCEPT ![c] = r]
    PROVE  UsageInv'
<1>1. /\ tokens' \in [Chats -> [Clients -> Nat]] /\ billed' \in [Chats -> Nat]
      /\ reply' \in [Chats -> Replies]
  BY DEF UsageInv, Fits
<1>2. tokens'[c] = f /\ billed'[c] = n /\ reply'[c] = r
  BY DEF UsageInv
<1>3. ASSUME NEW d \in Chats PROVE Counted(d)'
  <2>1. CASE d = c
    BY <1>2, <2>1 DEF Counted, Fits
  <2>2. CASE d # c
    <3>1. UNCHANGED <<tokens[d], billed[d], reply[d], chat[d]>>
      BY <2>2 DEF UsageInv
    <3> QED BY <3>1 DEF UsageInv, Counted
  <2> QED BY <2>1, <2>2
<1> QED BY <1>1, <1>3 DEF UsageInv

\* A request that is answered is counted on both sides.
LEMMA AskCounts ==
    ASSUME UsageInv, NEW c \in Chats, chat[c].pc # "ended", NEW p \in Clients, Ask(c, p)
    PROVE  LET f == [tokens[c] EXCEPT ![p] = @ + 1] IN
           /\ Used(c, p) = [tokens EXCEPT ![c] = f] /\ f \in [Clients -> Nat]
           /\ billed' = [billed EXCEPT ![c] = billed[c] + 1]
           /\ billed[c] + 1 = TotalUsage(f) /\ billed[c] + 1 \in Nat
<1> DEFINE f == [tokens[c] EXCEPT ![p] = @ + 1]
<1>1. tokens[c] \in [Clients -> Nat] /\ billed[c] \in Nat /\ billed[c] = TotalUsage(tokens[c])
  BY DEF UsageInv, Counted
<1>2. TotalUsage(f) = TotalUsage(tokens[c]) + 1
  BY <1>1, ClientsFinite, SumOfOneMore DEF TotalUsage
<1>3. f \in [Clients -> Nat]
  BY <1>1
<1>4. Used(c, p) = [tokens EXCEPT ![c] = f]
  BY DEF UsageInv, Used
<1>5. billed' = [billed EXCEPT ![c] = billed[c] + 1]
  BY DEF Ask, UsageInv
<1> QED BY <1>1, <1>2, <1>3, <1>4, <1>5

\* Nothing that is counted changes.
LEMMA NothingCounts ==
    ASSUME UsageInv, UNCHANGED <<tokens, billed, reply>>,
           \A d \in Chats : chat[d].pc = "ended" => chat'[d].pc = "ended"
    PROVE  UsageInv'
  BY DEF UsageInv, Counted

\* The answer of a chat that ends holds the total.
LEMMA ReturnCounts ==
    ASSUME UsageInv, NEW c \in Chats, \A d \in Chats : d # c => chat'[d] = chat[d],
           chat[c].pc # "ended", NEW f \in [Clients -> Nat], NEW n \in Nat,
           n = TotalUsage(f), billed' = [billed EXCEPT ![c] = n],
           Return(c, [tokens EXCEPT ![c] = f])
    PROVE  UsageInv'
<1>1. reply[c] \in Replies /\ reply[c].code # "OK" /\ tokens[c] \in [Clients -> Nat]
  BY DEF UsageInv, Counted
<1>2. CASE /\ chat'[c].pc # "ended" /\ tokens' = [tokens EXCEPT ![c] = f]
           /\ UNCHANGED reply
  <2>1. reply' = [reply EXCEPT ![c] = reply[c]]
    BY <1>2 DEF UsageInv
  <2>2. Fits(c, f, n, reply[c])
    BY <1>1, <1>2 DEF Fits
  <2> QED BY <1>2, <2>1, <2>2, OneChatCounts
<1>3. CASE /\ chat'[c].pc = "ended" /\ tokens' = [tokens EXCEPT ![c] = NoTokens]
           /\ reply' = [reply EXCEPT ![c] =
                [code |-> "OK", fault |-> "none",
                 tokens |-> TotalUsage([tokens EXCEPT ![c] = f][c])]]
  <2> DEFINE r == [code |-> "OK", fault |-> "none", tokens |-> n]
  <2>1. [tokens EXCEPT ![c] = f][c] = f
    BY DEF UsageInv
  <2>2. reply' = [reply EXCEPT ![c] = r]
    BY <1>3, <2>1
  <2>3. r \in Replies /\ r.tokens = n
    BY DEF Replies, Codes
  <2> HIDE DEF r
  <2>4. Fits(c, NoTokens, n, r)
    BY <1>3, <2>3, NoUsage DEF Fits
  <2> QED BY <1>3, <2>2, <2>4, OneChatCounts
<1> QED BY <1>2, <1>3 DEF Return

LEMMA OpenCounts ==
    ASSUME UsageInv, TypeOK, NEW c \in Chats, NEW approved \in BOOLEAN, Open(c, approved)
    PROVE  UsageInv'
<1>1. /\ chat[c].pc = "idle" /\ UNCHANGED <<tokens, billed>>
      /\ \A d \in Chats : d # c => chat'[d] = chat[d]
  BY DEF Open, ReadAgents, TypeOK
<1>2. CASE UNCHANGED reply
  <2>1. \A d \in Chats : chat[d].pc = "ended" => chat'[d].pc = "ended"
    BY <1>1
  <2> QED BY <1>1, <1>2, <2>1, NothingCounts
<1>3. CASE chat'[c].pc = "ended"
  <2> DEFINE r == [NoReply EXCEPT !.code = "FAILED_PRECONDITION", !.fault = "catalog"]
  <2>1. r \in Replies /\ r.code # "OK"
    BY DEF NoReply, Replies, Codes, Faults
  <2>2. reply' = [reply EXCEPT ![c] = r]
    BY <1>3 DEF Open
  <2> HIDE DEF r
  <2>3. Fits(c, tokens[c], billed[c], r)
    BY <1>3, <2>1 DEF Fits, UsageInv
  <2>4. tokens' = [tokens EXCEPT ![c] = tokens[c]] /\ billed' = [billed EXCEPT ![c] = billed[c]]
    BY <1>1 DEF UsageInv
  <2> QED BY <1>1, <2>2, <2>3, <2>4, OneChatCounts
<1> QED BY <1>2, <1>3 DEF Open

LEMMA BuildCounts ==
    ASSUME UsageInv, TypeOK, NEW c \in Chats, Build(c)
    PROVE  UsageInv'
<1>1. /\ chat[c].pc \in {"grants", "tools"} /\ UNCHANGED <<tokens, billed, reply>>
      /\ \A d \in Chats : d # c => chat'[d] = chat[d]
  BY DEF Build, ReadGrants, ReadTools, convVars, TypeOK
<1>2. \A d \in Chats : chat[d].pc = "ended" => chat'[d].pc = "ended"
  BY <1>1
<1> QED BY <1>1, <1>2, NothingCounts

\* An answered request after which the chat goes on.
LEMMA AskedCounts ==
    ASSUME UsageInv, NEW c \in Chats, NEW p \in Clients, Ask(c, p), tokens' = Used(c, p),
           UNCHANGED reply, chat[c].pc # "ended",
           \A d \in Chats : d # c => chat'[d] = chat[d]
    PROVE  UsageInv'
<1> DEFINE f == [tokens[c] EXCEPT ![p] = @ + 1]
           n == billed[c] + 1
<1>1. /\ tokens' = [tokens EXCEPT ![c] = f] /\ f \in [Clients -> Nat]
      /\ billed' = [billed EXCEPT ![c] = n] /\ n = TotalUsage(f) /\ n \in Nat
  BY AskCounts
<1>2. reply' = [reply EXCEPT ![c] = reply[c]] /\ reply[c] \in Replies /\ reply[c].code # "OK"
  BY DEF UsageInv, Counted
<1> HIDE DEF f, n
<1>3. Fits(c, f, n, reply[c])
  BY <1>1, <1>2 DEF Fits
<1> QED BY <1>1, <1>2, <1>3, OneChatCounts

LEMMA ChooseCounts ==
    ASSUME UsageInv, NEW c \in Chats, NEW s \in Agents, Choose(c, s)
    PROVE  UsageInv'
<1>1. Selector \in Clients
  BY DEF Clients
<1>2. chat[c].pc = "turn" /\ chat' = chat
  BY DEF Choose, vars
<1> QED BY <1>1, <1>2, AskedCounts DEF Choose

LEMMA CallCounts ==
    ASSUME UsageInv, TypeOK, NEW c \in Chats, NEW a \in Agents, NEW names, Call(c, a, names)
    PROVE  UsageInv'
<1>1. a \in Clients
  BY DEF Clients
<1>2. chat[c].pc = "turn" /\ \A d \in Chats : d # c => chat'[d] = chat[d]
  BY DEF Call, ToolCalls, TypeOK
<1> QED BY <1>1, <1>2, AskedCounts DEF Call

LEMMA SayCounts ==
    ASSUME UsageInv, TypeOK, NEW c \in Chats, NEW s \in Agents \cup {Planner}, NEW blank,
           Say(c, s, blank)
    PROVE  UsageInv'
<1> DEFINE f == [tokens[c] EXCEPT ![s] = @ + 1]
           n == billed[c] + 1
<1>1. s \in Clients
  BY DEF Clients
<1>2. chat[c].pc = "turn" /\ \A d \in Chats : d # c => chat'[d] = chat[d]
  BY DEF Say, Text, TypeOK
<1>3. /\ Used(c, s) = [tokens EXCEPT ![c] = f] /\ f \in [Clients -> Nat]
      /\ billed' = [billed EXCEPT ![c] = n] /\ n = TotalUsage(f) /\ n \in Nat
  BY <1>1, <1>2, AskCounts DEF Say
<1> HIDE DEF f, n
<1>4. Return(c, [tokens EXCEPT ![c] = f])
  BY <1>3 DEF Say
<1> QED BY <1>2, <1>3, <1>4, ReturnCounts

LEMMA SummariseCounts ==
    ASSUME UsageInv, TypeOK, NEW c \in Chats, Summarise(c)
    PROVE  UsageInv'
<1> DEFINE f == tokens[c]
           n == billed[c]
<1>1. chat[c].pc = "calls" /\ \A d \in Chats : d # c => chat'[d] = chat[d]
  BY DEF Summarise, Summary, TypeOK
<1>2. f \in [Clients -> Nat] /\ n \in Nat /\ n = TotalUsage(f)
  BY <1>1 DEF UsageInv, Counted
<1>3. tokens = [tokens EXCEPT ![c] = f] /\ billed' = [billed EXCEPT ![c] = n]
  BY DEF UsageInv, Summarise
<1> HIDE DEF f, n
<1>4. Return(c, [tokens EXCEPT ![c] = f])
  BY <1>3 DEF Summarise
<1> QED BY <1>1, <1>2, <1>3, <1>4, ReturnCounts

LEMMA ResultCounts ==
    ASSUME UsageInv, TypeOK, NEW c \in Chats, NEW n \in Names,
           CallFails(c, n) \/ \E marked \in BOOLEAN : CallRuns(c, n, marked)
    PROVE  UsageInv'
<1>1. UNCHANGED <<tokens, billed, reply>>
  BY DEF CallFails, CallRuns, Result
<1>2. ASSUME NEW d \in Chats PROVE chat'[d].pc = chat[d].pc
  <2>1. chat \in [Chats -> Chat] /\ chat[c] \in Chat
    BY DEF TypeOK
  <2>2. CASE CallFails(c, n)
    <3>1. chat' = [chat EXCEPT ![c].calls = @ \ {n}]
      BY <2>2 DEF CallFails, ToolError
    <3> QED BY <2>1, <3>1 DEF Chat
  <2>3. ASSUME NEW marked \in BOOLEAN, CallRuns(c, n, marked)
        PROVE  chat'[d].pc = chat[d].pc
    <3> DEFINE r == [chat[c] EXCEPT !.calls = chat[c].calls \ {n},
                                    !.pending = Noted(chat[c], chat[c].speaker, marked)]
    <3>1. chat' = [chat EXCEPT ![c] = r]
      BY <2>3 DEF CallRuns, RunTool
    <3>2. r.pc = chat[c].pc
      BY <2>1 DEF Chat
    <3> HIDE DEF r
    <3> QED BY <2>1, <3>1, <3>2
  <2> QED BY <2>2, <2>3
<1> QED BY <1>1, <1>2, NothingCounts

LEMMA AbortCounts ==
    ASSUME UsageInv, TypeOK, NEW c \in Chats, NEW fault \in Faults, NEW wrapped \in BOOLEAN,
           Abort(c, fault, wrapped)
    PROVE  UsageInv'
<1> DEFINE r == [code |-> ChatCode(fault, wrapped), fault |-> fault, tokens |-> 0]
<1>1. \A d \in Chats : d # c => chat'[d] = chat[d]
  BY DEF Abort, Fail, TypeOK
<1>2. chat'[c].pc = "ended"
  <2>1. chat'[c] = Closed(chat[c], "error") /\ NewChat.pc = "idle"
    BY DEF Abort, Fail, TypeOK, NewChat
  <2> QED BY <2>1 DEF Closed, NewChat
<1>3. ChatCode(fault, wrapped) \in Codes \ {"OK"}
  BY DEF ChatCode, Retryable, Codes
<1>4. r \in Replies /\ r.code # "OK"
  BY <1>3 DEF Replies
<1>5. /\ reply' = [reply EXCEPT ![c] = r] /\ tokens' = [tokens EXCEPT ![c] = NoTokens]
      /\ billed' = [billed EXCEPT ![c] = billed[c]] /\ billed[c] \in Nat
  BY DEF Abort, UsageInv
<1> HIDE DEF r
<1>6. Fits(c, NoTokens, billed[c], r)
  BY <1>2, <1>4, <1>5, NoUsage DEF Fits
<1> QED BY <1>1, <1>5, <1>6, OneChatCounts

LEMMA UsageStep == UsageInv /\ TypeOK /\ [ConvNext]_<<vars, convVars>> => UsageInv'
<1> SUFFICES ASSUME UsageInv, TypeOK, [ConvNext]_<<vars, convVars>> PROVE UsageInv'
  OBVIOUS
<1>1. CASE ConvNext
  <2>1. PICK c \in Chats :
         \/ \E approved \in BOOLEAN : Open(c, approved)
         \/ Build(c) \/ Summarise(c)
         \/ \E s \in Agents : Choose(c, s)
         \/ \E s \in Agents \cup {Planner}, blank \in BOOLEAN : Say(c, s, blank)
         \/ \E a \in Agents, names \in SUBSET Names \ {{}} : Call(c, a, names)
         \/ \E n \in Names : CallFails(c, n) \/ \E marked \in BOOLEAN : CallRuns(c, n, marked)
         \/ \E fault \in Faults, wrapped \in BOOLEAN : Abort(c, fault, wrapped)
    BY <1>1 DEF ConvNext
  <2> QED BY <2>1, OpenCounts, BuildCounts, SummariseCounts, ChooseCounts, SayCounts,
             CallCounts, ResultCounts, AbortCounts
<1>2. CASE UNCHANGED <<vars, convVars>>
  <2>1. UNCHANGED <<chat, tokens, billed, reply>>
    BY <1>2 DEF vars, convVars
  <2> QED BY <2>1, NothingCounts
<1> QED BY <1>1, <1>2

LEMMA UsageInit == ConvInit => UsageInv
<1> SUFFICES ASSUME ConvInit PROVE UsageInv
  OBVIOUS
<1>1. /\ tokens = [c \in Chats |-> NoTokens] /\ billed = [c \in Chats |-> 0]
      /\ reply = [c \in Chats |-> NoReply]
  BY DEF ConvInit
<1>2. NoReply \in Replies /\ NoReply.code # "OK"
  BY DEF NoReply, Replies, Codes
<1>3. \A c \in Chats : Counted(c)
  BY <1>1, <1>2, NoUsage DEF Counted
<1> QED BY <1>1, <1>2, <1>3, NoUsage DEF UsageInv

LEMMA UsageAlways == ConvSpec => []UsageInv
<1>1. ConvSpec => []TypeOK
  BY ConversationIsGroupChat, TypeCorrect, PTL
<1> QED BY <1>1, UsageInit, UsageStep, PTL DEF ConvSpec

\* A chat that ends with an answer reports every token that the provider has
\* reported for it, those of the selector's calls too (run.py:84-86).
THEOREM UsageReported == ConvSpec => []UsageAddsUp
<1>1. UsageInv => UsageAddsUp
  BY DEF UsageInv, Counted, UsageAddsUp
<1> QED BY <1>1, UsageAlways, PTL

----------------------------------------------------------------------------
(* Types                                                                     *)

ChoiceInv == provider \in {"openai", "zen"} /\ chosen \in [Chats -> Agents \cup {Nobody}]

LEMMA ChoiceStep == ChoiceInv /\ [ConvNext]_<<vars, convVars>> => ChoiceInv'
<1> SUFFICES ASSUME ChoiceInv, [ConvNext]_<<vars, convVars>> PROVE ChoiceInv'
  OBVIOUS
<1>1. ASSUME UNCHANGED provider, NEW c \in Chats, NEW s \in Agents \cup {Nobody},
             chosen' = [chosen EXCEPT ![c] = s]
      PROVE  ChoiceInv'
  BY <1>1 DEF ChoiceInv
<1>2. ASSUME UNCHANGED <<provider, chosen>> PROVE ChoiceInv'
  BY <1>2 DEF ChoiceInv
<1>3. CASE ConvNext
  <2>1. PICK c \in Chats :
         \/ \E approved \in BOOLEAN : Open(c, approved)
         \/ Build(c) \/ Summarise(c)
         \/ \E s \in Agents : Choose(c, s)
         \/ \E s \in Agents \cup {Planner}, blank \in BOOLEAN : Say(c, s, blank)
         \/ \E a \in Agents, names \in SUBSET Names \ {{}} : Call(c, a, names)
         \/ \E n \in Names : CallFails(c, n) \/ \E marked \in BOOLEAN : CallRuns(c, n, marked)
         \/ \E fault \in Faults, wrapped \in BOOLEAN : Abort(c, fault, wrapped)
    BY <1>3 DEF ConvNext
  <2>2. CASE \E approved \in BOOLEAN : Open(c, approved)
    BY <1>2, <2>2 DEF Open
  <2>3. CASE Build(c) \/ Summarise(c)
    BY <1>2, <2>3 DEF Build, Summarise, convVars
  <2>4. CASE \E s \in Agents : Choose(c, s)
    BY <1>1, <2>4 DEF Choose
  <2>5. CASE \E s \in Agents \cup {Planner}, blank \in BOOLEAN : Say(c, s, blank)
    BY <1>1, <2>5 DEF Say
  <2>6. CASE \E a \in Agents, names \in SUBSET Names \ {{}} : Call(c, a, names)
    BY <1>1, <2>6 DEF Call
  <2>7. CASE \E n \in Names : CallFails(c, n) \/ \E marked \in BOOLEAN : CallRuns(c, n, marked)
    BY <1>2, <2>7 DEF CallFails, CallRuns, Result
  <2>8. CASE \E fault \in Faults, wrapped \in BOOLEAN : Abort(c, fault, wrapped)
    BY <1>1, <2>8 DEF Abort
  <2> QED BY <2>1, <2>2, <2>3, <2>4, <2>5, <2>6, <2>7, <2>8
<1>4. CASE UNCHANGED <<vars, convVars>>
  BY <1>2, <1>4 DEF convVars
<1> QED BY <1>3, <1>4

\* Threads, plans, replies and counts have the types of the messages they stand
\* for.
THEOREM ConvTypeCorrect == ConvSpec => []ConvTypeOK
<1>1. ConvInit => ChoiceInv
  BY DEF ConvInit, ChoiceInv
<1>2. OwnInv /\ UsageInv /\ ChoiceInv => ConvTypeOK
  <2> SUFFICES ASSUME OwnInv, UsageInv, ChoiceInv PROVE ConvTypeOK
    OBVIOUS
  <2>1. Domestic \subseteq Texts /\ ModelWords \subseteq Texts
    BY DEF Domestic, ModelWords, Texts, Marks
  <2>2. prompt \in Texts /\ plan \in {Missing} \cup Texts /\ told \in Texts
    BY <2>1 DEF OwnInv
  <2>3. SafeEntry \subseteq Entry
    BY <2>1 DEF SafeEntry, Entry
  <2>4. ASSUME NEW c \in Chats PROVE thread[c] \in Seq(Entry)
    <3>1. thread[c] \in Seq(SafeEntry)
      BY DEF OwnInv
    <3> HIDE DEF SafeEntry, Entry
    <3> QED BY <2>3, <3>1
  <2>5. thread \in [Chats -> Seq(Entry)]
    BY <2>4 DEF OwnInv
  <2> QED BY <2>2, <2>5 DEF UsageInv, ChoiceInv, Replies, ConvTypeOK
<1> QED BY <1>1, <1>2, OwnAlways, UsageAlways, ChoiceStep, PTL DEF ConvSpec
----------------------------------------------------------------------------
(* Calls and their results, in what is sent.                                 *)

\* A message on the wire, whatever its text.
IsWire(m) ==
    /\ "calls" \in DOMAIN m
    /\ m.calls \in Seq(Nat \X Names)
    /\ m.calls # <<>> => m.id = Missing

Within(items, j) == items[j].calls # <<>> \/ items[j].role = "tool"

\* The one result of the call id that item i makes, and the call of a result.
Answered(items, i, id) ==
    \E j \in 1 .. Len(items) :
      /\ items[j].id = id /\ i < j
      /\ \A k \in 1 .. Len(items) : items[k].id = id => k = j
      /\ \A k \in i .. j : Within(items, k)
Called(items, j) == \E i \in 1 .. j - 1 : items[j].id \in Range(items[i].calls)

LEMMA WellFormedIs ==
    ASSUME NEW items
    PROVE  WellFormed(items) <=>
             /\ \A i \in 1 .. Len(items) : \A id \in Range(items[i].calls) : Answered(items, i, id)
             /\ \A j \in 1 .. Len(items) : items[j].id # Missing => Called(items, j)
<1> DEFINE Shown(i, id) ==
             \E j \in 1 .. Len(items) :
               /\ {k \in 1 .. Len(items) : items[k].id = id} = {j}
               /\ i < j /\ \A k \in i .. j : items[k].calls # <<>> \/ items[k].role = "tool"
<1>1. WellFormed(items) <=>
        /\ \A i \in 1 .. Len(items) : \A id \in Range(items[i].calls) : Shown(i, id)
        /\ \A j \in 1 .. Len(items) : items[j].id # Missing =>
             \E i \in 1 .. j - 1 : items[j].id \in Range(items[i].calls)
  BY Zenon DEF WellFormed
<1>2. ASSUME NEW i, NEW id
      PROVE  Answered(items, i, id) <=> Shown(i, id)
  <2>1. ASSUME NEW j \in 1 .. Len(items)
        PROVE  {k \in 1 .. Len(items) : items[k].id = id} = {j} <=>
                 items[j].id = id /\ \A k \in 1 .. Len(items) : items[k].id = id => k = j
    OBVIOUS
  <2> QED BY <2>1 DEF Answered, Within
<1> HIDE DEF Shown
<1> QED BY <1>1, <1>2, Zenon DEF Called

\* The items that the provider makes of one message.
IsBlock(e, m) ==
    /\ e \in Seq(Range(e)) /\ Len(e) \in Nat \ {0}
    /\ m.calls = <<>> => Len(e) = 1
    /\ \A x \in 1 .. Len(e) :
         /\ e[x].id = m.id /\ e[x].role = m.role
         /\ m.calls # <<>> => e[x].calls # <<>>
         /\ Range(e[x].calls) \subseteq Range(m.calls)
    /\ \A id \in Range(m.calls) : \E x \in 1 .. Len(e) : id \in Range(e[x].calls)

LEMMA ItemFacts ==
    ASSUME NEW m, IsWire(m) PROVE IsBlock(Item(m), m)
<1>1. /\ m.calls \in Seq(Nat \X Names) /\ Len(m.calls) \in Nat
      /\ DOMAIN m.calls = 1 .. Len(m.calls)
  BY DEF IsWire
<1>2. CASE ~(provider = "zen" /\ m.calls # <<>>)
  <2>1. Item(m) = <<m>>
    BY <1>2 DEF Item
  <2>2. Len(<<m>>) = 1 /\ <<m>>[1] = m /\ <<m>> \in Seq({m}) /\ Range(<<m>>) = {m}
    BY DEF Range
  <2> DEFINE e == Item(m)
  <2>3. Len(e) = 1 /\ e[1] = m /\ e \in Seq(Range(e))
    BY <2>1, <2>2
  <2> HIDE DEF e
  <2>4. IsBlock(e, m)
    BY <2>3 DEF IsBlock
  <2> QED BY <2>4 DEF e
<1>3. CASE provider = "zen" /\ m.calls # <<>>
  <2> DEFINE L == Len(m.calls)
             part(i) == [m EXCEPT !.calls = <<m.calls[i]>>]
             s == [i \in 1 .. L |-> part(i)]
  <2>1. Item(m) = s
    BY <1>3 DEF Item
  <2>2. L \in Nat \ {0}
    BY <1>1, <1>3
  <2>3. ASSUME NEW i \in 1 .. L
        PROVE  /\ part(i).id = m.id /\ part(i).role = m.role
               /\ part(i).calls = <<m.calls[i]>> /\ <<m.calls[i]>> # <<>>
               /\ Range(<<m.calls[i]>>) = {m.calls[i]}
               /\ m.calls[i] \in Range(m.calls)
    <3>1. "calls" \in DOMAIN m
      BY DEF IsWire
    <3>2. /\ part(i).id = m.id /\ part(i).role = m.role
          /\ part(i).calls = <<m.calls[i]>>
      BY <3>1
    <3>3. Range(<<m.calls[i]>>) = {m.calls[i]} /\ <<m.calls[i]>> # <<>>
      BY DEF Range
    <3>4. m.calls[i] \in Range(m.calls)
      BY <1>1 DEF Range
    <3> QED BY <3>2, <3>3, <3>4
  <2> HIDE DEF part
  <2>4. \A i \in 1 .. L : s[i] = part(i)
    OBVIOUS
  <2>5. s \in Seq(Range(s)) /\ Len(s) = L
    <3>1. DOMAIN s = 1 .. L /\ \A i \in 1 .. L : s[i] \in Range(s)
      BY DEF Range
    <3>2. s \in [1 .. L -> Range(s)]
      BY <3>1
    <3> HIDE DEF s, L
    <3> QED BY <2>2, <3>2, SeqDef, LenProperties
  <2> HIDE DEF s
  <2>6. \A id \in Range(m.calls) : \E i \in 1 .. L : id = m.calls[i]
    BY <1>1 DEF Range
  <2> HIDE DEF L
  <2>7. \A i \in 1 .. L : /\ s[i].id = m.id /\ s[i].role = m.role
                         /\ s[i].calls # <<>> /\ Range(s[i].calls) = {m.calls[i]}
                         /\ m.calls[i] \in Range(m.calls)
    BY <2>3, <2>4
  <2>8. \A id \in Range(m.calls) : \E x \in 1 .. L : id \in Range(s[x].calls)
    BY <2>6, <2>7
  <2> DEFINE I == Item(m)
  <2>9. I = s /\ I \in Seq(Range(I)) /\ Len(I) = L
    BY <2>1, <2>5
  <2>10. \A x \in 1 .. Len(I) :
           /\ I[x].id = m.id /\ I[x].role = m.role
           /\ I[x].calls # <<>>
           /\ Range(I[x].calls) \subseteq Range(m.calls)
    BY <2>7, <2>9
  <2>11. \A id \in Range(m.calls) : \E x \in 1 .. Len(I) : id \in Range(I[x].calls)
    BY <2>8, <2>9
  <2> HIDE DEF I
  <2>12. Len(I) \in Nat \ {0}
    BY <2>2, <2>9
  <2>13. IsBlock(I, m)
    BY <1>3, <2>9, <2>10, <2>11, <2>12 DEF IsBlock
  <2> QED BY <2>13 DEF I
<1> QED BY <1>2, <1>3

\* The provider's items of a well-formed request are well-formed: the blocks of
\* its messages follow one another, and that of a result is one item.
LEMMA ItemsWellFormed ==
    ASSUME NEW M, Len(M) \in Nat \ {0}, \A i \in 1 .. Len(M) : IsWire(M[i]), WellFormed(M)
    PROVE  WellFormed(FlattenSeq([i \in 1 .. Len(M) |-> Item(M[i])]))
<1> DEFINE n == Len(M)
           s == [i \in 1 .. n |-> Item(M[i])]
           f == FlattenSeq(s)
           R == UNION {Range(Item(M[i])) : i \in 1 .. n}
<1>0. /\ \A i \in 1 .. n : \A id \in Range(M[i].calls) : Answered(M, i, id)
      /\ \A j \in 1 .. n : M[j].id # Missing => Called(M, j)
  BY WellFormedIs
<1>1. n \in Nat /\ n # 0
  OBVIOUS
<1>2. ASSUME NEW i \in 1 .. n
      PROVE  /\ s[i] = Item(M[i]) /\ IsBlock(s[i], M[i])
             /\ M[i].id # Missing => Len(s[i]) = 1
             /\ \A id \in Range(M[i].calls) : id # Missing
  <2> DEFINE m == M[i]
  <2>1. IsWire(m)
    OBVIOUS
  <2>2. s[i] = Item(m)
    OBVIOUS
  <2> HIDE DEF s
  <2>3. m.id # Missing => m.calls = <<>>
    BY <2>1 DEF IsWire
  <2>4. ASSUME NEW id \in Range(m.calls) PROVE id # Missing
    <3>1. m.calls \in Seq(Nat \X Names)
      BY <2>1 DEF IsWire
    <3>2. id \in Nat \X Names
      BY <3>1 DEF Range
    <3> QED BY <3>2, ConversationAssumption
  <2> DEFINE e == s[i]
  <2>5. e = Item(m)
    BY <2>2
  <2> HIDE DEF m, e
  <2>6. IsBlock(e, m)
    BY <2>1, <2>5, ItemFacts
  <2>7. m.id # Missing => Len(e) = 1
    BY <2>3, <2>6 DEF IsBlock
  <2> QED BY <2>4, <2>5, <2>6, <2>7 DEF e, m
<1>3. Len(s) = n /\ s \in Seq(Seq(R))
  <2>1. ASSUME NEW i \in 1 .. n PROVE s[i] \in Seq(R)
    <3> DEFINE e == s[i]
    <3>1. e \in Seq(Range(e)) /\ e = Item(M[i])
      BY <1>2 DEF IsBlock
    <3>2. Range(e) \subseteq R
      BY <3>1
    <3> HIDE DEF e, R
    <3>3. e \in Seq(R)
      BY <3>1, <3>2
    <3> QED BY <3>3 DEF e
  <2>2. DOMAIN s = 1 .. n
    OBVIOUS
  <2>3. s \in [1 .. n -> Seq(R)]
    BY <2>1
  <2> HIDE DEF s, R
  <2> QED BY <1>1, <2>3, SeqDef, LenProperties
<1> HIDE DEF s, R
<1>4. PICK at : Places(at, s, f)
  BY <1>1, <1>3, FlattenPlaces
<1> HIDE DEF n, f
<1> DEFINE size(i) == Len(s[i])
           place(i, x) == at[i] + x
\* Each item is one of the block of a message, and like it.
<1>5. ASSUME NEW i \in 1 .. n, NEW x \in 1 .. size(i)
      PROVE  /\ place(i, x) \in 1 .. Len(f)
             /\ f[place(i, x)].id = M[i].id /\ f[place(i, x)].role = M[i].role
             /\ M[i].calls # <<>> => f[place(i, x)].calls # <<>>
             /\ Range(f[place(i, x)].calls) \subseteq Range(M[i].calls)
             /\ f[place(i, x)] = s[i][x]
  <2> DEFINE e == s[i]
             m == M[i]
             p == place(i, x)
  <2>1. p \in 1 .. Len(f) /\ f[p] = e[x]
    BY <1>3, <1>4 DEF Places
  <2>2. IsBlock(e, m) /\ x \in 1 .. Len(e)
    BY <1>2
  <2>3. size(i) = Len(e)
    OBVIOUS
  <2> HIDE DEF e, m, p, size
  <2>4. /\ e[x].id = m.id /\ e[x].role = m.role
        /\ m.calls # <<>> => e[x].calls # <<>>
        /\ Range(e[x].calls) \subseteq Range(m.calls)
    BY <2>2 DEF IsBlock
  <2>5. /\ f[p].id = m.id /\ f[p].role = m.role
        /\ m.calls # <<>> => f[p].calls # <<>>
        /\ Range(f[p].calls) \subseteq Range(m.calls)
    BY <2>1, <2>4
  <2> QED BY <2>1, <2>5 DEF e, m, p
<1>6. ASSUME NEW q \in 1 .. Len(f)
      PROVE  \E i \in 1 .. n : \E x \in 1 .. size(i) : q = place(i, x)
  BY <1>3, <1>4 DEF Places
<1>7. ASSUME NEW i \in 1 .. n, M[i].id # Missing
      PROVE  1 \in 1 .. size(i) /\ \A x \in 1 .. size(i) : x = 1
  <2>1. size(i) = 1
    BY <1>2, <1>7
  <2> HIDE DEF size
  <2> QED BY <2>1
<1>8. ASSUME NEW i \in 1 .. n, NEW id \in Range(M[i].calls)
      PROVE  id # Missing /\ \E x \in 1 .. size(i) : id \in Range(f[place(i, x)].calls)
  <2> DEFINE e == s[i]
             m == M[i]
  <2>0. IsBlock(e, m) /\ id \in Range(m.calls)
    BY <1>2
  <2> HIDE DEF e, m
  <2>1. PICK x \in 1 .. size(i) : id \in Range(s[i][x].calls)
    <3>1. \E x \in 1 .. Len(e) : id \in Range(e[x].calls)
      BY <2>0 DEF IsBlock
    <3> QED BY <3>1 DEF e
  <2>2. f[place(i, x)] = s[i][x]
    BY <1>5
  <2> HIDE DEF size, place
  <2> QED BY <1>2, <2>1, <2>2
\* A block before another.
<1>9. ASSUME NEW i \in 1 .. n, NEW j \in 1 .. n, i < j,
             NEW x \in 1 .. size(i), NEW y \in 1 .. size(j)
      PROVE  place(i, x) < place(j, y)
  BY <1>3, <1>4, <1>9, BlocksInOrder
<1> HIDE DEF size, place
<1>10. ASSUME NEW i \in 1 .. n, NEW x \in 1 .. size(i), Within(M, i)
       PROVE  Within(f, place(i, x))
  BY <1>5, <1>10 DEF Within
<1>11. ASSUME NEW q \in 1 .. Len(f), NEW id \in Range(f[q].calls)
       PROVE  Answered(f, q, id)
  <2>1. PICK i \in 1 .. n : \E x \in 1 .. size(i) : q = place(i, x)
    BY <1>6
  <2>2. PICK x \in 1 .. size(i) : q = place(i, x)
    BY <2>1
  <2>3. id \in Range(M[i].calls) /\ id # Missing
    <3>1. Range(f[q].calls) \subseteq Range(M[i].calls)
      BY <1>5, <2>2
    <3>2. id \in Range(M[i].calls)
      BY <3>1
    <3> QED BY <1>8, <3>2
  <2>4. PICK j \in 1 .. n : /\ M[j].id = id /\ i < j
                            /\ \A k \in 1 .. n : M[k].id = id => k = j
                            /\ \A k \in i .. j : Within(M, k)
    BY <1>0, <2>3 DEF Answered, n
  <2>5. 1 \in 1 .. size(j) /\ \A y \in 1 .. size(j) : y = 1
    BY <1>7, <2>3, <2>4
  <2> DEFINE r == place(j, 1)
  <2>6. r \in 1 .. Len(f) /\ f[r].id = id
    BY <1>5, <2>4, <2>5
  <2>7. q < r
    BY <1>9, <2>2, <2>4, <2>5
  <2>8. ASSUME NEW k \in 1 .. Len(f), f[k].id = id PROVE k = r
    <3>1. PICK l \in 1 .. n : \E y \in 1 .. size(l) : k = place(l, y)
      BY <1>6
    <3>2. PICK y \in 1 .. size(l) : k = place(l, y)
      BY <3>1
    <3>3. M[l].id = id
      BY <1>5, <2>8, <3>2
    <3>4. l = j
      BY <2>4, <3>3
    <3> QED BY <2>5, <3>2, <3>4
  <2>9. ASSUME NEW k \in q .. r PROVE Within(f, k)
    <3>1. k \in 1 .. Len(f) /\ ~(k < q) /\ ~(r < k)
      BY <2>6
    <3>2. PICK l \in 1 .. n : \E y \in 1 .. size(l) : k = place(l, y)
      BY <1>6, <3>1
    <3>3. PICK y \in 1 .. size(l) : k = place(l, y)
      BY <3>2
    <3>4. ~(l < i)
      BY <1>9, <2>2, <3>1, <3>3
    <3>5. ~(j < l)
      BY <1>9, <2>5, <3>1, <3>3
    <3>6. l \in i .. j
      BY <1>1, <3>4, <3>5
    <3> QED BY <1>10, <2>4, <3>3, <3>6
  <2> HIDE DEF r
  <2> QED BY <2>6, <2>7, <2>8, <2>9 DEF Answered
<1>12. ASSUME NEW q \in 1 .. Len(f), f[q].id # Missing
       PROVE  Called(f, q)
  <2>1. PICK j \in 1 .. n : \E y \in 1 .. size(j) : q = place(j, y)
    BY <1>6
  <2>2. PICK y \in 1 .. size(j) : q = place(j, y)
    BY <2>1
  <2>3. f[q].id = M[j].id
    BY <1>5, <2>2
  <2>4. PICK i \in 1 .. j - 1 : M[j].id \in Range(M[i].calls)
    BY <1>0, <1>12, <2>3 DEF Called
  <2>5. i \in 1 .. n /\ i < j
    BY <1>1, <2>4
  <2>6. PICK x \in 1 .. size(i) : M[j].id \in Range(f[place(i, x)].calls)
    BY <1>8, <2>4, <2>5
  <2> DEFINE p == place(i, x)
  <2>7. p < q /\ p \in 1 .. Len(f)
    BY <1>5, <1>9, <2>2, <2>5
  <2>8. f[q].id \in Range(f[p].calls)
    BY <2>3, <2>6
  <2> HIDE DEF p
  <2>9. p \in 1 .. q - 1
    BY <2>7
  <2> QED BY <2>8, <2>9 DEF Called
<1>13. WellFormed(f)
  BY <1>11, <1>12, WellFormedIs
<1> QED BY <1>13 DEF f, s, n

\* A group of messages that answers its own calls, all of whose ids have the
\* same first component.
IsGroup(g, n) ==
    /\ g \in Seq(Range(g)) /\ Len(g) \in Nat \ {0}
    /\ \A x \in 1 .. Len(g) : IsWire(g[x])
    /\ \A x \in 1 .. Len(g) : \A id \in Range(g[x].calls) : id[1] = n /\ Answered(g, x, id)
    /\ \A x \in 1 .. Len(g) : g[x].id # Missing => g[x].id[1] = n /\ Called(g, x)

LEMMA GroupsWellFormed ==
    ASSUME NEW S, NEW G \in Seq(S), Len(G) # 0,
           \A i \in 1 .. Len(G) : IsGroup(G[i], i - 1)
    PROVE  LET M == FlattenSeq(G) IN
           /\ Len(M) \in Nat \ {0} /\ WellFormed(M)
           /\ \A q \in 1 .. Len(M) : IsWire(M[q])
<1> DEFINE n == Len(G)
           f == FlattenSeq(G)
           R == UNION {Range(G[i]) : i \in 1 .. n}
<1>1. n \in Nat /\ n # 0 /\ 1 \in 1 .. n
  OBVIOUS
<1>2. ASSUME NEW i \in 1 .. n PROVE IsGroup(G[i], i - 1)
  OBVIOUS
<1>3. Len(G) = n /\ G \in Seq(Seq(R))
  <2>1. ASSUME NEW i \in 1 .. n PROVE G[i] \in Seq(R)
    <3> DEFINE e == G[i]
    <3>1. e \in Seq(Range(e))
      BY <1>2 DEF IsGroup
    <3>2. Range(e) \subseteq R
      OBVIOUS
    <3> HIDE DEF e, R
    <3>3. e \in Seq(R)
      BY <3>1, <3>2
    <3> QED BY <3>3 DEF e
  <2>2. G \in [1 .. n -> S]
    BY LenProperties
  <2>3. G \in [1 .. n -> Seq(R)]
    BY <2>1, <2>2
  <2> HIDE DEF n, R
  <2> QED BY <1>1, <2>3, SeqDef DEF n
<1> HIDE DEF R
<1>4. f \in Seq(R) /\ \E at : Places(at, G, f)
  BY <1>1, <1>3, FlattenPlaces
<1>5. PICK at : Places(at, G, f)
  BY <1>4
<1> HIDE DEF f
<1> DEFINE size(i) == Len(G[i])
           place(i, x) == at[i] + x
<1>6. ASSUME NEW i \in 1 .. n, NEW x \in 1 .. size(i)
      PROVE  place(i, x) \in 1 .. Len(f) /\ f[place(i, x)] = G[i][x]
  BY <1>5 DEF Places
<1>7. ASSUME NEW q \in 1 .. Len(f)
      PROVE  \E i \in 1 .. n : \E x \in 1 .. size(i) : q = place(i, x)
  BY <1>5 DEF Places
<1>8. ASSUME NEW i \in 1 .. n, NEW j \in 1 .. n, i < j,
             NEW x \in 1 .. size(i), NEW y \in 1 .. size(j)
      PROVE  place(i, x) < place(j, y)
  BY <1>3, <1>5, <1>8, BlocksInOrder
<1>9. ASSUME NEW i \in 1 .. n, NEW x \in 1 .. size(i), NEW y \in 1 .. size(i)
      PROVE  place(i, x) < place(i, y) <=> x < y
  <2> DEFINE b == at[i]
  <2>1. b \in Nat
    <3>1. at \in [1 .. n + 1 -> Nat]
      BY <1>5 DEF Places
    <3>2. i \in 1 .. n + 1
      BY <1>1
    <3> QED BY <3>1, <3>2
  <2>2. x \in Int /\ y \in Int
    BY <1>2 DEF IsGroup
  <2> HIDE DEF b
  <2>3. b + x < b + y <=> x < y
    BY <2>1, <2>2
  <2> QED BY <2>3 DEF b
<1> HIDE DEF n
<1>10. ASSUME NEW i \in 1 .. n
       PROVE  /\ size(i) \in Nat \ {0}
              /\ \A x \in 1 .. size(i) : IsWire(G[i][x])
  BY <1>2 DEF IsGroup
<1>11. ASSUME NEW i \in 1 .. n, NEW x \in 1 .. size(i), NEW id \in Range(G[i][x].calls)
       PROVE  id # Missing /\ id[1] = i - 1 /\ Answered(G[i], x, id)
  <2> DEFINE g == G[i]
  <2>1. IsGroup(g, i - 1) /\ x \in 1 .. Len(g) /\ id \in Range(g[x].calls)
    BY <1>2
  <2>2. size(i) = Len(g)
    OBVIOUS
  <2> HIDE DEF g, size
  <2>3. id[1] = i - 1 /\ Answered(g, x, id)
    BY <2>1 DEF IsGroup
  <2>4. id # Missing
    <3>1. IsWire(g[x])
      BY <2>1 DEF IsGroup
    <3>2. g[x].calls \in Seq(Nat \X Names)
      BY <3>1 DEF IsWire
    <3>3. id \in Nat \X Names
      BY <2>1, <3>2 DEF Range
    <3> QED BY <3>3, ConversationAssumption
  <2> QED BY <2>3, <2>4 DEF g
<1>12. ASSUME NEW i \in 1 .. n, NEW x \in 1 .. size(i), G[i][x].id # Missing
       PROVE  /\ G[i][x].id[1] = i - 1
              /\ \E y \in 1 .. x - 1 : G[i][x].id \in Range(G[i][y].calls)
  <2> DEFINE g == G[i]
  <2>1. IsGroup(g, i - 1) /\ x \in 1 .. Len(g) /\ g[x].id # Missing
    BY <1>2, <1>12
  <2> HIDE DEF g
  <2>2. g[x].id[1] = i - 1 /\ Called(g, x)
    BY <2>1 DEF IsGroup
  <2> QED BY <2>2 DEF Called, g
<1> HIDE DEF size, place
<1>13. ASSUME NEW q \in 1 .. Len(f), NEW id \in Range(f[q].calls)
       PROVE  Answered(f, q, id)
  <2>1. PICK i \in 1 .. n : \E x \in 1 .. size(i) : q = place(i, x)
    BY <1>7
  <2>2. PICK x \in 1 .. size(i) : q = place(i, x)
    BY <2>1
  <2>3. id \in Range(G[i][x].calls)
    BY <1>6, <2>2
  <2>4. id # Missing /\ id[1] = i - 1 /\ Answered(G[i], x, id)
    BY <1>11, <2>3
  <2>5. PICK y \in 1 .. size(i) : /\ G[i][y].id = id /\ x < y
                                  /\ \A k \in 1 .. size(i) : G[i][k].id = id => k = y
                                  /\ \A k \in x .. y : Within(G[i], k)
    BY <2>4 DEF Answered, size
  <2> DEFINE r == place(i, y)
  <2>6. r \in 1 .. Len(f) /\ f[r].id = id
    BY <1>6, <2>5
  <2>7. q < r
    BY <1>9, <2>2, <2>5
  <2>8. ASSUME NEW k \in 1 .. Len(f), f[k].id = id PROVE k = r
    <3>1. PICK l \in 1 .. n : \E w \in 1 .. size(l) : k = place(l, w)
      BY <1>7
    <3>2. PICK w \in 1 .. size(l) : k = place(l, w)
      BY <3>1
    <3>3. G[l][w].id = id
      BY <1>6, <2>8, <3>2
    <3>4. id[1] = l - 1
      BY <1>12, <2>4, <3>3
    <3>5. l = i
      BY <1>1, <2>4, <3>4
    <3> QED BY <2>5, <3>2, <3>3, <3>5
  <2>9. ASSUME NEW k \in q .. r PROVE Within(f, k)
    <3>1. k \in 1 .. Len(f) /\ ~(k < q) /\ ~(r < k)
      BY <2>6
    <3>2. PICK l \in 1 .. n : \E w \in 1 .. size(l) : k = place(l, w)
      BY <1>7, <3>1
    <3>3. PICK w \in 1 .. size(l) : k = place(l, w)
      BY <3>2
    <3>4. ~(l < i)
      BY <1>8, <2>2, <3>1, <3>3
    <3>5. ~(i < l)
      BY <1>8, <2>5, <3>1, <3>3
    <3>6. l = i
      BY <1>1, <3>4, <3>5
    <3>7. w \in 1 .. size(i) /\ k = place(i, w)
      BY <3>3, <3>6
    <3>8. ~(w < x) /\ ~(y < w)
      BY <1>9, <2>2, <2>5, <3>1, <3>7
    <3>9. w \in x .. y
      BY <1>10, <3>7, <3>8
    <3> QED BY <1>6, <2>5, <3>7, <3>9 DEF Within
  <2> HIDE DEF r
  <2> QED BY <2>6, <2>7, <2>8, <2>9 DEF Answered
<1>14. ASSUME NEW q \in 1 .. Len(f), f[q].id # Missing
       PROVE  Called(f, q)
  <2>1. PICK i \in 1 .. n : \E x \in 1 .. size(i) : q = place(i, x)
    BY <1>7
  <2>2. PICK x \in 1 .. size(i) : q = place(i, x)
    BY <2>1
  <2>3. f[q] = G[i][x]
    BY <1>6, <2>2
  <2>4. PICK y \in 1 .. x - 1 : G[i][x].id \in Range(G[i][y].calls)
    BY <1>12, <1>14, <2>3
  <2>5. y \in 1 .. size(i) /\ y < x
    <3>1. size(i) \in Nat
      BY <1>10
    <3> QED BY <2>2, <2>4, <3>1
  <2> DEFINE p == place(i, y)
  <2>6. p < q /\ p \in 1 .. Len(f) /\ f[p] = G[i][y]
    BY <1>6, <1>9, <2>2, <2>5
  <2> HIDE DEF p
  <2>7. p \in 1 .. q - 1
    BY <2>6
  <2> QED BY <2>3, <2>4, <2>6, <2>7 DEF Called
<1>15. WellFormed(f)
  BY <1>13, <1>14, WellFormedIs
<1>16. ASSUME NEW q \in 1 .. Len(f) PROVE IsWire(f[q])
  BY <1>6, <1>7, <1>10
<1>17. Len(f) \in Nat \ {0}
  <2>1. 1 \in 1 .. size(1)
    BY <1>1, <1>10
  <2>2. 1 .. Len(f) # {} /\ Len(f) \in Nat
    BY <1>1, <1>4, <1>6, <2>1
  <2> QED BY <2>2
<1> QED BY <1>15, <1>16, <1>17 DEF f

LEMMA PlainGroup ==
    ASSUME NEW role, NEW text, NEW n
    PROVE  IsGroup(<<Message(role, text)>>, n)
<1> DEFINE m == Message(role, text)
           g == <<m>>
<1>1. /\ "calls" \in DOMAIN m
      /\ m.calls = <<>> /\ m.id = Missing
  BY DEF Message
<1> HIDE DEF m
<1>2. IsWire(m)
  BY <1>1 DEF IsWire
<1>3. Len(g) = 1 /\ g[1] = m /\ g \in Seq(Range(g))
  BY DEF Range
<1> HIDE DEF g
<1>4. Range(m.calls) = {}
  BY <1>1 DEF Range
<1>5. IsGroup(g, n)
  BY <1>1, <1>2, <1>3, <1>4 DEF IsGroup
<1> QED BY <1>5 DEF g, m

\* No name is called twice in one message.
Distinct(names) == \A j, k \in 1 .. Len(names) : names[j] = names[k] => j = k

LEMMA CallsGroup ==
    ASSUME NEW th, NEW i \in Nat, th[i].calls \in Seq(Names), Distinct(th[i].calls)
    PROVE  IsGroup(<<CallsMessage(th, i)>> \o ResultMessages(th, i), i)
<1> DEFINE names == th[i].calls
           L == Len(names)
           ids == [k \in 1 .. L |-> Id(i, names[k])]
           m == CallsMessage(th, i)
           a == <<m>>
           b == ResultMessages(th, i)
           g == a \o b
<1>1. L \in Nat /\ \A k \in 1 .. L : names[k] \in Names
  OBVIOUS
<1>2. "calls" \in DOMAIN m /\ m.calls = ids /\ m.id = Missing
  <2>1. ASSUME NEW c, NEW d
        PROVE  LET e == [Message("assistant", {}) EXCEPT !.calls = c, !.args = d] IN
               "calls" \in DOMAIN e /\ e.calls = c /\ e.id = Missing
    BY DEF Message
  <2>2. m = [Message("assistant", {}) EXCEPT !.calls = ids, !.args = th[i].args]
    BY Zenon DEF CallsMessage
  <2> HIDE DEF m, ids
  <2> QED BY <2>1, <2>2
<1>3. ASSUME NEW k \in 1 .. L
      PROVE  /\ "calls" \in DOMAIN b[k]
             /\ b[k].role = "tool" /\ b[k].calls = <<>> /\ b[k].id = <<i, names[k]>>
  BY DEF ResultMessages, Message, Id
<1>4. DOMAIN b = 1 .. L
  BY DEF ResultMessages
<1>5. \A k \in 1 .. L : ids[k] = <<i, names[k]>> /\ <<i, names[k]>> \in Nat \X Names
  BY <1>1 DEF Id
<1>6. ids \in Seq(Nat \X Names) /\ Len(ids) = L /\ Range(ids) = {<<i, names[k]>> : k \in 1 .. L}
  <2>1. DOMAIN ids = 1 .. L
    OBVIOUS
  <2>2. ids \in [1 .. L -> Nat \X Names]
    BY <1>5
  <2>3. Range(ids) = {<<i, names[k]>> : k \in 1 .. L}
    <3>1. Range(ids) = {ids[k] : k \in 1 .. L}
      BY <2>1 DEF Range
    <3> HIDE DEF ids
    <3> QED BY <1>5, <3>1
  <2> HIDE DEF L, ids
  <2> QED BY <1>1, <2>2, <2>3, SeqDef, LenProperties
<1> HIDE DEF m, b, L, ids
<1>7. IsWire(m)
  <2>1. m.calls \in Seq(Nat \X Names)
    BY <1>2, <1>6
  <2> QED BY <1>2, <2>1 DEF IsWire
<1>8. ASSUME NEW k \in 1 .. L PROVE IsWire(b[k])
  <2> DEFINE d == b[k]
  <2>1. "calls" \in DOMAIN d /\ d.calls = <<>>
    BY <1>3
  <2> HIDE DEF d
  <2>2. IsWire(d)
    BY <2>1 DEF IsWire
  <2> QED BY <2>2 DEF d
<1> DEFINE S == {m} \cup Range(b)
<1>9. /\ a \in Seq(S) /\ Len(a) = 1 /\ a[1] = m
      /\ b \in Seq(S) /\ Len(b) = L
  <2>1. \A k \in 1 .. L : b[k] \in Range(b)
    BY <1>4 DEF Range
  <2>2. b \in [1 .. L -> S]
    <3>1. b = [k \in 1 .. L |-> b[k]]
      BY <1>4 DEF b, ResultMessages, L
    <3> QED BY <2>1, <3>1
  <2> QED BY <1>1, <2>2, SeqDef, LenProperties
<1> HIDE DEF a, S
<1>10. /\ Len(g) = L + 1 /\ g \in Seq(S)
       /\ g[1] = m /\ \A k \in 1 .. L : g[k + 1] = b[k]
  <2>1. /\ Len(g) = 1 + L /\ g \in Seq(S)
        /\ \A k \in 1 .. 1 : g[k] = a[k]
        /\ \A k \in 1 .. L : g[1 + k] = b[k]
    <3>1. g = a \o b
      OBVIOUS
    <3>2. a \in Seq(S) /\ b \in Seq(S)
      BY <1>9
    <3> HIDE DEF g
    <3>3. /\ g \in Seq(S) /\ Len(g) = Len(a) + Len(b)
          /\ \A k \in 1 .. Len(a) : g[k] = a[k]
          /\ \A k \in 1 .. Len(b) : g[Len(a) + k] = b[k]
      BY <3>1, <3>2, Joined
    <3> QED BY <1>9, <3>3
  <2> HIDE DEF g
  <2> QED BY <1>1, <1>9, <2>1
<1> HIDE DEF g
<1>11. g \in Seq(Range(g)) /\ Len(g) \in Nat \ {0}
  <2>1. g \in [1 .. L + 1 -> S]
    BY <1>10, LenProperties
  <2>2. g \in [1 .. L + 1 -> Range(g)]
    BY <2>1 DEF Range
  <2>3. L + 1 \in Nat \ {0}
    BY <1>1
  <2> QED BY <1>10, <2>2, <2>3, SeqDef
<1>12. \A x \in 1 .. Len(g) : x = 1 \/ \E k \in 1 .. L : x = k + 1
  <2>1. ASSUME NEW x \in 1 .. L + 1, x # 1 PROVE x - 1 \in 1 .. L /\ x = (x - 1) + 1
    BY <1>1, <2>1
  <2> QED BY <1>10, <2>1
<1>13. ASSUME NEW x \in 1 .. Len(g) PROVE IsWire(g[x])
  BY <1>7, <1>8, <1>10, <1>12
<1>14. ASSUME NEW x \in 1 .. Len(g), NEW id \in Range(g[x].calls)
       PROVE  id[1] = i /\ Answered(g, x, id)
  <2>1. x = 1
    <3>1. ASSUME NEW k \in 1 .. L, x = k + 1 PROVE Range(g[x].calls) = {}
      <4>1. g[x].calls = <<>>
        BY <1>3, <1>10, <3>1
      <4>2. Range(<<>>) = {}
        BY DEF Range
      <4> QED BY <4>1, <4>2
    <3> QED BY <1>12, <3>1
  <2>2. PICK k \in 1 .. L : id = <<i, names[k]>>
    BY <1>2, <1>6, <1>10, <2>1
  <2> DEFINE r == k + 1
  <2>3. r \in 1 .. Len(g) /\ x < r /\ g[r] = b[k]
    BY <1>1, <1>10, <2>1
  <2>4. g[r].id = id
    BY <1>3, <2>2, <2>3
  <2>5. ASSUME NEW y \in 1 .. Len(g), g[y].id = id PROVE y = r
    <3>1. y # 1
      <4>1. id # Missing
        BY <1>5, <2>2, ConversationAssumption
      <4> QED BY <1>2, <1>10, <2>5, <4>1
    <3>2. PICK l \in 1 .. L : y = l + 1
      BY <1>12, <3>1
    <3>3. <<i, names[l]>> = <<i, names[k]>>
      BY <1>3, <1>10, <2>2, <2>5, <3>2
    <3>4. l = k
      BY <3>3 DEF Distinct, L
    <3> QED BY <3>2, <3>4
  <2>6. ASSUME NEW y \in x .. r PROVE Within(g, y)
    <3>1. y \in 1 .. Len(g)
      BY <2>3
    <3>2. CASE y = 1
      <4>1. g[y].calls = ids /\ ids # <<>>
        BY <1>1, <1>2, <1>6, <1>10, <3>2
      <4> QED BY <4>1 DEF Within
    <3>3. ASSUME NEW l \in 1 .. L, y = l + 1 PROVE Within(g, y)
      BY <1>3, <1>10, <3>3 DEF Within
    <3> QED BY <1>12, <3>1, <3>2, <3>3
  <2> HIDE DEF r
  <2>7. Answered(g, x, id)
    BY <2>3, <2>4, <2>5, <2>6 DEF Answered
  <2> QED BY <2>2, <2>7
<1>15. ASSUME NEW x \in 1 .. Len(g), g[x].id # Missing
       PROVE  g[x].id[1] = i /\ Called(g, x)
  <2>1. x # 1
    BY <1>2, <1>10, <1>15
  <2>2. PICK k \in 1 .. L : x = k + 1
    BY <1>12, <2>1
  <2>3. g[x].id = <<i, names[k]>>
    BY <1>3, <1>10, <2>2
  <2>4. 1 \in 1 .. x - 1 /\ g[1].calls = ids
    BY <1>1, <1>2, <1>10, <2>2
  <2>5. g[x].id \in Range(g[1].calls)
    BY <1>6, <2>3, <2>4
  <2> QED BY <2>3, <2>4, <2>5 DEF Called
<1>16. IsGroup(g, i)
  BY <1>11, <1>13, <1>14, <1>15 DEF IsGroup
<1> QED BY <1>16 DEF g, a, b, m

\* What a participant, or the selector, would be asked about a thread.
LEMMA RequestWellFormed ==
    ASSUME NEW p, NEW th \in Seq(Entry), \A i \in 1 .. Len(th) : Distinct(th[i].calls)
    PROVE  WellFormed(Items(Request(p, th)))
<1> DEFINE G == Request(p, th)
           M == FlattenSeq(G)
<1>1. \E S : G \in Seq(S) /\ Len(G) # 0 /\ \A j \in 1 .. Len(G) : IsGroup(G[j], j - 1)
  <2>1. CASE p = Selector
    <3> DEFINE g == <<Message("user", UNION {Content(th[i]) : i \in 1 .. Len(th)})>>
    <3>1. G = <<g>>
      BY <2>1 DEF Request, SelectorRequest
    <3>2. IsGroup(g, 0)
      BY PlainGroup
    <3> HIDE DEF g, G
    <3>3. G \in Seq({g}) /\ Len(G) = 1 /\ G[1] = g
      BY <3>1
    <3> QED BY <3>2, <3>3
  <2>2. CASE p # Selector
    <3> DEFINE n == Len(th)
               a == <<<<Instructions>>>>
               b == [i \in 1 .. n |-> Group(p, th, i)]
    <3>1. G = a \o b
      BY <2>2 DEF Request, AgentRequest
    <3>2. n \in Nat
      OBVIOUS
    <3>3. ASSUME NEW i \in 1 .. n PROVE IsGroup(b[i], i)
      <4>1. b[i] = Group(p, th, i)
        OBVIOUS
      <4> DEFINE text == Content(th[i])
      <4>2. CASE th[i].by # p
        <5>1. b[i] = <<Message("user", text)>>
          BY <4>1, <4>2 DEF Group
        <5> HIDE DEF text, b
        <5> QED BY <5>1, PlainGroup
      <4>3. CASE th[i].by = p
        <5>1. b[i] = <<CallsMessage(th, i)>> \o ResultMessages(th, i)
          BY <4>1, <4>3 DEF Group
        <5>2. i \in Nat /\ th[i].calls \in Seq(Names) /\ Distinct(th[i].calls)
          <6>1. th[i] \in Entry
            OBVIOUS
          <6> QED BY <3>2, <6>1 DEF Entry
        <5>3. IsGroup(<<CallsMessage(th, i)>> \o ResultMessages(th, i), i)
          BY <5>2, CallsGroup
        <5> HIDE DEF b
        <5> QED BY <5>1, <5>3
      <4> QED BY <4>2, <4>3
    <3>4. IsGroup(<<Instructions>>, 0)
      BY PlainGroup DEF Instructions
    <3> DEFINE S == {<<Instructions>>} \cup {Group(p, th, i) : i \in 1 .. n}
    <3>5. a \in Seq(S) /\ Len(a) = 1 /\ a[1] = <<Instructions>>
      OBVIOUS
    <3>6. b \in Seq(S) /\ Len(b) = n
      <4>1. b \in [1 .. n -> S]
        OBVIOUS
      <4> HIDE DEF b, n, S
      <4> QED BY <3>2, <4>1, SeqDef, LenProperties
    <3> HIDE DEF G, a, b, S
    <3>7. /\ G \in Seq(S) /\ Len(G) = Len(a) + Len(b)
          /\ \A k \in 1 .. Len(a) : G[k] = a[k]
          /\ \A k \in 1 .. Len(b) : G[Len(a) + k] = b[k]
      <4>1. a \in Seq(S) /\ b \in Seq(S)
        BY <3>5, <3>6
      <4> QED BY <3>1, <4>1, Joined
    <3> HIDE DEF n
    <3>8. Len(G) = n + 1 /\ G[1] = <<Instructions>> /\ \A k \in 1 .. n : G[k + 1] = b[k]
      BY <3>2, <3>5, <3>6, <3>7
    <3>9. ASSUME NEW j \in 1 .. Len(G) PROVE IsGroup(G[j], j - 1)
      <4>1. CASE j = 1
        <5>1. j - 1 = 0
          BY <4>1
        <5> QED BY <3>4, <3>8, <4>1, <5>1
      <4>2. CASE j # 1
        <5> DEFINE i == j - 1
        <5>1. i \in 1 .. n /\ j = i + 1
          BY <3>2, <3>8, <4>2
        <5> HIDE DEF i
        <5>2. G[j] = b[i]
          BY <3>8, <5>1
        <5>3. IsGroup(b[i], i)
          BY <3>3, <5>1
        <5>4. IsGroup(G[j], i)
          BY <5>2, <5>3
        <5> QED BY <5>4 DEF i
      <4> QED BY <4>1, <4>2
    <3>10. Len(G) # 0
      BY <3>2, <3>8
    <3> QED BY <3>7, <3>9, <3>10
  <2> QED BY <2>1, <2>2
<1> HIDE DEF G
<1>2. /\ Len(M) \in Nat \ {0} /\ WellFormed(M)
      /\ \A q \in 1 .. Len(M) : IsWire(M[q])
  <2>1. PICK S : G \in Seq(S) /\ Len(G) # 0 /\ \A j \in 1 .. Len(G) : IsGroup(G[j], j - 1)
    BY <1>1
  <2> QED BY <2>1, GroupsWellFormed
<1> HIDE DEF M
<1>3. WellFormed(FlattenSeq([i \in 1 .. Len(M) |-> Item(M[i])]))
  BY <1>2, ItemsWellFormed
<1>4. Items(G) = FlattenSeq([i \in 1 .. Len(M) |-> Item(M[i])])
  BY DEF Items, M
<1>5. WellFormed(Items(G))
  BY <1>3, <1>4
<1> QED BY <1>5 DEF G

\* No message of a thread calls a name twice.
Once(c) == \A i \in 1 .. Len(thread[c]) : Distinct(thread[c][i].calls)
OnceInv == \A c \in Chats : Once(c)

LEMMA OrderDistinct ==
    ASSUME NEW names \in SUBSET Names, NEW order \in Orders(names)
    PROVE  Distinct(order)
<1> DEFINE n == Cardinality(names)
<1>1. IsFiniteSet(names) /\ n \in Nat
  BY ConversationAssumption, FS_Subset, FS_CardinalityType
<1>2. order \in [1 .. n -> names] /\ Range(order) = names
  BY DEF Orders
<1> HIDE DEF n
<1>3. IsFiniteSet(1 .. n) /\ Cardinality(1 .. n) = n
  BY <1>1, FS_Interval
<1>4. order \in Surjection(1 .. n, names)
  BY <1>2 DEF Surjection, Range
<1>5. order \in Injection(1 .. n, names)
  BY <1>3, <1>4, FS_SurjSameCardinalityImpliesInj DEF n
<1>6. Len(order) = n
  BY <1>1, <1>2
<1> QED BY <1>2, <1>5, <1>6 DEF Injection, IsInjective, Distinct

LEMMA OneThread ==
    ASSUME OwnInv, OnceInv, NEW c \in Chats, NEW new,
           thread' = [thread EXCEPT ![c] = new],
           \A i \in 1 .. Len(new) : Distinct(new[i].calls)
    PROVE  OnceInv'
<1>1. thread'[c] = new /\ \A d \in Chats : d # c => thread'[d] = thread[d]
  BY DEF OwnInv
<1> QED BY <1>1 DEF OnceInv, Once

\* A text of the caller calls nothing.
LEMMA CallerOnce == \A text : Distinct(CallerSays(text).calls)
  BY DEF CallerSays, Distinct

LEMMA EmptiedOnce ==
    ASSUME OwnInv, OnceInv, NEW c \in Chats, thread' = [thread EXCEPT ![c] = <<>>]
    PROVE  OnceInv'
<1> DEFINE new == <<>>
<1>1. \A i \in 1 .. Len(new) : Distinct(new[i].calls)
  OBVIOUS
<1> HIDE DEF new
<1> QED BY <1>1, OneThread DEF new

LEMMA OpenOnce ==
    ASSUME OwnInv, OnceInv, NEW c \in Chats, NEW approved, Open(c, approved)
    PROVE  OnceInv'
<1>1. CASE chat'[c].pc = "ended"
  BY <1>1 DEF Open, OnceInv, Once
<1>2. CASE chat'[c].pc # "ended"
  <2> DEFINE new == IF plan = Missing THEN <<CallerSays({}), CallerSays(prompt)>>
                    ELSE <<CallerSays(plan)>>
  <2>1. thread' = [thread EXCEPT ![c] = new]
    BY <1>2 DEF Open
  <2>2. \A i \in 1 .. Len(new) : \E text : new[i] = CallerSays(text)
    OBVIOUS
  <2>3. \A i \in 1 .. Len(new) : Distinct(new[i].calls)
    <3> HIDE DEF new
    <3> QED BY <2>2, CallerOnce
  <2> HIDE DEF new
  <2> QED BY <2>1, <2>3, OneThread
<1> QED BY <1>1, <1>2

LEMMA CallOnce ==
    ASSUME OwnInv, OnceInv, NEW c \in Chats, NEW a \in Agents, NEW names \in SUBSET Names,
           Call(c, a, names)
    PROVE  OnceInv'
<1> DEFINE entry(args, order) ==
             [by |-> a, text |-> {}, calls |-> order, args |-> args,
              results |-> [n \in Names |-> IF n \in names \ chat'[c].calls THEN {} ELSE Missing]]
           th == thread[c]
<1>1. PICK args \in Answers(Learnt(Request(a, th))), order \in Orders(names) :
         thread' = [thread EXCEPT ![c] = Append(th, entry(args, order))]
  BY DEF Call
<1> DEFINE e == entry(args, order)
           new == Append(th, e)
<1>2. e.calls = order /\ Distinct(e.calls)
  BY OrderDistinct
<1>3. th \in Seq(SafeEntry)
  BY DEF OwnInv
<1>4. \A i \in 1 .. Len(th) : Distinct(th[i].calls)
  BY DEF OnceInv, Once
<1>5. thread' = [thread EXCEPT ![c] = new]
  BY <1>1
<1> HIDE DEF e, th
<1>6. Len(new) = Len(th) + 1 /\ \A i \in 1 .. Len(new) : new[i] = IF i <= Len(th) THEN th[i] ELSE e
  BY <1>3
<1> HIDE DEF new
<1>7. \A i \in 1 .. Len(new) : Distinct(new[i].calls)
  <2>1. ASSUME NEW i \in 1 .. Len(new), i <= Len(th) PROVE i \in 1 .. Len(th)
    BY <1>3, <2>1
  <2> QED BY <1>2, <1>4, <1>6, <2>1
<1> QED BY <1>5, <1>7, OneThread

LEMMA ResultOnce ==
    ASSUME OwnInv, OnceInv, NEW c \in Chats, NEW n, NEW text, Result(c, n, text)
    PROVE  OnceInv'
<1> DEFINE th == thread[c]
           last == Len(th)
           e == [th[last] EXCEPT !.results = [th[last].results EXCEPT ![n] = text]]
           new == [th EXCEPT ![last] = e]
<1>1. thread' = [thread EXCEPT ![c] = new]
  BY DEF Result
<1>2. th \in Seq(SafeEntry) /\ last \in Nat
  BY DEF OwnInv
<1>3. \A i \in 1 .. last : Distinct(th[i].calls)
  BY DEF OnceInv, Once
<1>4. last > 0 => e.calls = th[last].calls
  <2>1. last > 0 => th[last] \in SafeEntry
    BY <1>2
  <2> QED BY <2>1 DEF SafeEntry
<1>5. /\ Len(new) = last
      /\ \A i \in 1 .. last : new[i] = IF i = last THEN e ELSE th[i]
  <2>1. DOMAIN th = 1 .. last
    BY <1>2
  <2> HIDE DEF e, th, last
  <2>2. DOMAIN new = 1 .. last /\ \A i \in 1 .. last : new[i] = IF i = last THEN e ELSE th[i]
    BY <2>1
  <2>3. new \in [1 .. last -> Range(new)]
    BY <2>1, <2>2 DEF Range
  <2>4. Len(new) = last
    <3> HIDE DEF new
    <3> QED BY <1>2, <2>3
  <2> QED BY <2>2, <2>4
<1> HIDE DEF new, e, th, last
<1>6. \A i \in 1 .. Len(new) : Distinct(new[i].calls)
  <2>1. ASSUME NEW i \in 1 .. last PROVE Distinct(new[i].calls)
    <3>1. CASE i = last
      BY <1>2, <1>3, <1>4, <1>5, <3>1
    <3>2. CASE i # last
      BY <1>3, <1>5, <3>2
    <3> QED BY <3>1, <3>2
  <2> QED BY <1>5, <2>1
<1> QED BY <1>1, <1>6, OneThread

LEMMA OnceStep == OwnInv /\ OnceInv /\ [ConvNext]_<<vars, convVars>> => OnceInv'
<1> SUFFICES ASSUME OwnInv, OnceInv, [ConvNext]_<<vars, convVars>> PROVE OnceInv'
  OBVIOUS
<1>1. ASSUME UNCHANGED thread PROVE OnceInv'
  BY <1>1 DEF OnceInv, Once
<1>2. ASSUME NEW c \in Chats, NEW used, Return(c, used) PROVE OnceInv'
  BY <1>1, <1>2, EmptiedOnce DEF Return
<1>3. CASE ConvNext
  <2>1. PICK c \in Chats :
         \/ \E approved \in BOOLEAN : Open(c, approved)
         \/ Build(c) \/ Summarise(c)
         \/ \E s \in Agents : Choose(c, s)
         \/ \E s \in Agents \cup {Planner}, blank \in BOOLEAN : Say(c, s, blank)
         \/ \E a \in Agents, names \in SUBSET Names \ {{}} : Call(c, a, names)
         \/ \E n \in Names : CallFails(c, n) \/ \E marked \in BOOLEAN : CallRuns(c, n, marked)
         \/ \E fault \in Faults, wrapped \in BOOLEAN : Abort(c, fault, wrapped)
    BY <1>3 DEF ConvNext
  <2>2. CASE \E approved \in BOOLEAN : Open(c, approved)
    BY <2>2, OpenOnce
  <2>3. CASE Build(c) \/ \E s \in Agents : Choose(c, s)
    BY <1>1, <2>3 DEF Build, Choose, convVars
  <2>4. CASE Summarise(c) \/ \E s \in Agents \cup {Planner}, blank \in BOOLEAN : Say(c, s, blank)
    BY <1>2, <2>4 DEF Summarise, Say
  <2>5. CASE \E a \in Agents, names \in SUBSET Names \ {{}} : Call(c, a, names)
    BY <2>5, CallOnce
  <2>6. CASE \E n \in Names : CallFails(c, n) \/ \E marked \in BOOLEAN : CallRuns(c, n, marked)
    BY <2>6, ResultOnce DEF CallFails, CallRuns
  <2>7. CASE \E fault \in Faults, wrapped \in BOOLEAN : Abort(c, fault, wrapped)
    BY <2>7, EmptiedOnce DEF Abort
  <2> QED BY <2>1, <2>2, <2>3, <2>4, <2>5, <2>6, <2>7
<1>4. CASE UNCHANGED <<vars, convVars>>
  BY <1>1, <1>4 DEF convVars
<1> QED BY <1>3, <1>4

\* Whatever the model calls, in however many turns, every later request shows
\* each call with its one result, in the form of either provider
\* (model_client.py:14-19, provider_zen.py:55-63).
THEOREM EveryCallIsAnswered == ConvSpec => []CallsAnswered
<1>1. ConvInit => OnceInv
  <2> SUFFICES ASSUME ConvInit, NEW c \in Chats PROVE Once(c)
    BY DEF OnceInv
  <2>1. thread[c] = <<>>
    BY DEF ConvInit
  <2> QED BY <2>1 DEF Once
<1>2. OnceInv /\ ConvTypeOK => CallsAnswered
  <2> SUFFICES ASSUME OnceInv, ConvTypeOK, NEW c \in Chats, NEW p
               PROVE  WellFormed(Items(Request(p, thread[c])))
    BY DEF CallsAnswered
  <2> DEFINE th == thread[c]
  <2>1. th \in Seq(Entry) /\ \A i \in 1 .. Len(th) : Distinct(th[i].calls)
    BY DEF ConvTypeOK, OnceInv, Once
  <2> HIDE DEF th
  <2>2. WellFormed(Items(Request(p, th)))
    BY <2>1, RequestWellFormed
  <2> QED BY <2>2 DEF th
<1> QED BY <1>1, <1>2, OwnAlways, OnceStep, ConvTypeCorrect, PTL DEF ConvSpec
=============================================================================
