-------------------------- MODULE GroupChatProofs --------------------------
(***************************************************************************)
(* What holds of the catalog and of the group chats for any agents, tools   *)
(* and names, any number of chats, edits and messages; and that a chat is,   *)
(* for its caller, one of ChatLifecycle.                                     *)
(***************************************************************************)
EXTENDS GroupChat, FoldProofs, FiniteSetTheorems, TLAPS

\* An UpdateAgent in flight has the agent's row to itself, has found all of
\* its grants and is going to insert no other than it was asked for.
UpdatesLocked ==
    /\ \A u, v \in updates : u.agent = v.agent => u = v
    /\ \A u \in updates :
         /\ agent[u.agent].exists
         /\ agent[u.agent].links \subseteq u.gone
         /\ u.new \subseteq u.wanted

CatalogInv ==
    /\ CatalogTypeOK
    /\ UniqueNames
    /\ UpdatesLocked
    /\ GrantsMatchUpdate

\* What holds of a chat ch with its history: h the names held, e those
\* executed, w whether a call was withheld.  Named after what each part is for.
Untouched(ch, e, w) ==      \* until the team is built
    ch.pc \in {"idle", "grants", "tools"} =>
        /\ ch.calls = {} /\ ch.pending = {} /\ ch.speaker = Nobody
        /\ e = {} /\ ~w
Gate(ch, h, e, w) ==        \* what is held is gated, and never runs
    /\ ch.approved => h = {} /\ (w => e # {})
    /\ ch.pc \in {"turn", "calls"} =>
         \A a \in Agents : ch.allowed[a] \cap h \subseteq ch.mutating[a]
    /\ ch.calls \cap h = {}
    /\ e \cap h = {}
Recorded(ch, w) ==          \* what is withheld is pending until it is reported
    /\ ch.pc # "ended" => (w <=> ch.pending # {})
    /\ ch.outcome = "stop" => ~w
    /\ ch.outcome = "requires_approval" => w
    /\ ch.pc # "ended" => ch.outcome = "none"
Planned(ch, e, w) ==        \* a planner call makes no calls
    /\ ch.planning => ch.calls = {} /\ e = {} /\ ~w /\ ch.pc # "calls"
    /\ ch.planning /\ ch.outcome \in {"stop", "requires_approval"} =>
         ch.speaker = Planner
Spoken(ch) ==
    /\ ch.pc # "calls" => ch.calls = {}
    /\ ch.pc = "calls" => ch.speaker \in Agents
    /\ ch.outcome = "stop" /\ ~ch.user => ch.speaker # Nobody

Good(ch, h, e, w) ==
    /\ Untouched(ch, e, w) /\ Gate(ch, h, e, w) /\ Recorded(ch, w)
    /\ Planned(ch, e, w) /\ Spoken(ch)

ChatInv ==
    \A c \in Chats :
      /\ held[c] \subseteq MutatingNames
      /\ Good(chat[c], held[c], executed[c], withheld[c])

IInv == TypeOK /\ CatalogInv /\ ChatInv

-----------------------------------------------------------------------------
(* The catalog                                                              *)

LEMMA NewAgentType ==
    ASSUME NEW w \in SUBSET Tools
    PROVE  NewAgent(w) \in Agent /\ NewAgent(w).links \subseteq NewAgent(w).wanted
BY DEF NewAgent, Agent

LEMMA CatalogStart == CatalogInit => CatalogInv
<1> SUFFICES ASSUME CatalogInit PROVE CatalogInv
  OBVIOUS
<1>1. tool \in [Tools -> Tool] /\ UniqueNames
  BY DEF CatalogInit, Tool
<1>2. \A a \in Agents : agent[a] \in Agent /\ agent[a].links \subseteq agent[a].wanted
  <2> SUFFICES ASSUME NEW a \in Agents
               PROVE  agent[a] \in Agent /\ agent[a].links \subseteq agent[a].wanted
    OBVIOUS
  <2>1. agent[a] \in {NoAgent} \cup {NewAgent(w) : w \in ToolIds}
    BY DEF CatalogInit
  <2>2. CASE agent[a] = NoAgent
    BY <2>2 DEF NoAgent, Agent
  <2>3. CASE agent[a] \in {NewAgent(w) : w \in ToolIds}
    BY <2>3, NewAgentType DEF ToolIds
  <2> QED
    BY <2>1, <2>2, <2>3
<1>3. agent \in [Agents -> Agent]
  BY <1>2 DEF CatalogInit
<1> QED
  BY <1>1, <1>2, <1>3, CatalogAssumption
  DEF CatalogInit, CatalogInv, CatalogTypeOK, UpdatesLocked, GrantsMatchUpdate

\* One edit.  Only DeleteTool and CommitUpdate need the locks.
LEMMA CatalogStep ==
    ASSUME CatalogInv, CatalogNext
    PROVE  CatalogInv'
<1> USE CatalogAssumption DEF CatalogInv
<1>1. ASSUME Write PROVE writes' \in 0 .. MaxWrites
  BY <1>1 DEF Write, CatalogTypeOK
<1>2. ASSUME NEW t \in Tools, NEW n \in Names, NEW m \in BOOLEAN, Write,
             Named(n) \subseteq {t},
             tool' = [tool EXCEPT ![t] = [name |-> n, mutating |-> m]],
             UNCHANGED <<agent, updates>>
      PROVE  CatalogInv'
  <2>1. tool' \in [Tools -> Tool]
    BY <1>2 DEF CatalogTypeOK, Tool
  <2>2. UniqueNames'
    BY <1>2 DEF UniqueNames, Existing, Named, CatalogTypeOK, Tool
  <2> QED
    BY <1>1, <1>2, <2>1, <2>2 DEF CatalogTypeOK, UpdatesLocked, GrantsMatchUpdate
<1>3. ASSUME NEW t \in Tools, NEW n \in Names, NEW m \in BOOLEAN,
             CreateTool(t, n, m) \/ UpdateTool(t, n, m)
      PROVE  CatalogInv'
  BY <1>2, <1>3 DEF CreateTool, UpdateTool
<1>4. ASSUME NEW t \in Tools, DeleteTool(t) PROVE CatalogInv'
  <2> USE <1>4 DEF DeleteTool
  <2>1. tool' \in [Tools -> Tool]
    BY DEF CatalogTypeOK, Tool, NoTool
  <2>2. UniqueNames'
    BY DEF UniqueNames, Existing, CatalogTypeOK, NoTool
  <2>3. \A a \in Agents : /\ agent'[a].exists = agent[a].exists
                          /\ agent'[a].links = agent[a].links \ {t}
                          /\ agent'[a].wanted = agent[a].wanted
                          /\ agent'[a] \in Agent
    BY DEF CatalogTypeOK, Agent
  <2>4. agent' \in [Agents -> Agent]
    BY <2>3
  <2>5. UpdatesLocked'
    BY <2>3 DEF UpdatesLocked, CatalogTypeOK, Update
  <2>6. GrantsMatchUpdate'
    BY <2>3 DEF GrantsMatchUpdate
  <2> QED
    BY <1>1, <2>1, <2>2, <2>4, <2>5, <2>6 DEF CatalogTypeOK
<1>5. ASSUME NEW a \in Agents, NEW w \in ToolIds, CreateAgent(a, w)
      PROVE  CatalogInv'
  <2> USE <1>5 DEF CreateAgent
  <2>1. NewAgent(w) \in Agent /\ NewAgent(w).links \subseteq NewAgent(w).wanted
    BY NewAgentType DEF ToolIds
  <2>2. agent' \in [Agents -> Agent]
    BY <2>1 DEF CatalogTypeOK
  <2>3. UniqueNames'
    BY DEF UniqueNames, Existing
  <2>4. GrantsMatchUpdate'
    BY <2>1 DEF GrantsMatchUpdate, CatalogTypeOK
  <2>5. UpdatesLocked'
    BY DEF UpdatesLocked, CatalogTypeOK, Update
  <2> QED
    BY <1>1, <2>2, <2>3, <2>4, <2>5 DEF CatalogTypeOK
<1>6. ASSUME NEW a \in Agents, NEW w \in ToolIds, UpdateAgent(a, w)
      PROVE  CatalogInv'
  <2> USE <1>6 DEF UpdateAgent
  <2>1. agent[a].links \subseteq Tools
    BY DEF CatalogTypeOK, Agent
  <2>2. updates' \subseteq Update
    BY <2>1 DEF CatalogTypeOK, Update, ToolIds
  <2>3. UpdatesLocked'
    <3> DEFINE new == [agent |-> a, wanted |-> w, gone |-> agent[a].links,
                       new |-> w \cap Existing]
    <3>1. updates' = updates \cup {new} /\ agent' = agent
      OBVIOUS
    <3>2. /\ new.agent = a /\ new.new \subseteq new.wanted
          /\ agent[a].exists /\ agent[a].links \subseteq new.gone
      OBVIOUS
    <3>3. \A u \in updates : u.agent # a
      BY DEF Locked
    <3> HIDE DEF new
    <3> QED
      BY <3>1, <3>2, <3>3 DEF UpdatesLocked
  <2>4. writes' \in 0 .. MaxWrites
    BY <1>1
  <2>5. UniqueNames'
    BY DEF UniqueNames, Existing
  <2>6. GrantsMatchUpdate'
    BY DEF GrantsMatchUpdate
  <2> QED
    BY <2>2, <2>3, <2>4, <2>5, <2>6 DEF CatalogTypeOK
<1>7. ASSUME NEW u \in updates, CommitUpdate(u) PROVE CatalogInv'
  <2> USE <1>7 DEF CommitUpdate
  <2>1. u \in Update /\ u.agent \in Agents
    BY DEF CatalogTypeOK, Update
  <2> DEFINE new == [exists |-> TRUE, wanted |-> u.wanted,
                     links |-> (agent[u.agent].links \ u.gone) \cup u.new]
  <2>2. new \in Agent /\ new.exists /\ new.links \subseteq new.wanted
    BY <2>1 DEF UpdatesLocked, Agent, CatalogTypeOK, Update
  <2>3. agent' = [agent EXCEPT ![u.agent] = new]
    OBVIOUS
  <2> HIDE DEF new
  <2>4. agent' \in [Agents -> Agent]
    BY <2>1, <2>2, <2>3 DEF CatalogTypeOK
  <2>5. GrantsMatchUpdate'
    BY <2>1, <2>2, <2>3 DEF GrantsMatchUpdate, CatalogTypeOK
  <2>6. UpdatesLocked'
    BY <2>1, <2>3 DEF UpdatesLocked, CatalogTypeOK, Update
  <2> QED
    BY <2>4, <2>5, <2>6 DEF CatalogTypeOK, UniqueNames, Existing
<1>8. ASSUME NEW u \in updates, AbortUpdate(u) PROVE CatalogInv'
  BY <1>8 DEF AbortUpdate, CatalogTypeOK, UniqueNames, Existing, UpdatesLocked,
              GrantsMatchUpdate
<1>9. ASSUME NEW a \in Agents, DeleteAgent(a) PROVE CatalogInv'
  <2> USE <1>9 DEF DeleteAgent
  <2>1. agent' \in [Agents -> Agent]
    BY DEF CatalogTypeOK, NoAgent, Agent
  <2>2. GrantsMatchUpdate'
    BY DEF GrantsMatchUpdate, CatalogTypeOK, NoAgent
  <2>3. UpdatesLocked'
    BY DEF UpdatesLocked, Locked, CatalogTypeOK, Update
  <2> QED
    BY <1>1, <2>1, <2>2, <2>3 DEF CatalogTypeOK, UniqueNames, Existing
<1> QED
  BY <1>3, <1>4, <1>5, <1>6, <1>7, <1>8, <1>9 DEF CatalogNext

LEMMA CatalogKept ==
    ASSUME CatalogInv, UNCHANGED catalogVars
    PROVE  CatalogInv' /\ MutatingNames' = MutatingNames
BY DEF CatalogInv, CatalogTypeOK, UniqueNames, Existing, UpdatesLocked,
       GrantsMatchUpdate, catalogVars, MutatingNames

-----------------------------------------------------------------------------
(* The chats                                                                *)

LEMMA NamesAreNames ==
    ASSUME CatalogTypeOK
    PROVE  MutatingNames \subseteq Names
BY DEF CatalogTypeOK, MutatingNames, Existing, Tool

LEMMA NewChatType == NewChat \in Chat
BY ChatAssumption DEF NewChat, Chat, NoTools

Outcome == {"stop", "requires_approval", "error"}

\* What is left of a chat that has ended.
LEMMA ClosedType ==
    ASSUME NEW ch \in Chat, NEW out \in Outcome
    PROVE  /\ Closed(ch, out) \in Chat
           /\ Closed(ch, out).pc = "ended" /\ Closed(ch, out).outcome = out
           /\ Closed(ch, out).approved = ch.approved
           /\ Closed(ch, out).planning = ch.planning
           /\ Closed(ch, out).user = ch.user
           /\ Closed(ch, out).speaker = ch.speaker
           /\ Closed(ch, out).calls = {}
BY NewChatType DEF Closed, Chat, NewChat, Outcome

\* A chat may end with what is true of it.
LEMMA ClosedGood ==
    ASSUME NEW ch \in Chat, NEW h, NEW e, NEW w, Good(ch, h, e, w),
           NEW out \in Outcome,
           out = "stop" => ~w, out = "requires_approval" => w,
           ch.planning /\ out \in {"stop", "requires_approval"} => ch.speaker = Planner,
           out = "stop" /\ ~ch.user => ch.speaker # Nobody
    PROVE  Good(Closed(ch, out), h, e, w)
BY ClosedType DEF Good, Untouched, Gate, Recorded, Planned, Spoken

Reported(ch) == IF ch.pending # {} THEN "requires_approval" ELSE "stop"

\* One more message either leaves the next turn to be taken or ends the chat
\* with what it has to report.
LEMMA SaidCases ==
    ASSUME NEW ch \in Chat, NEW final \in BOOLEAN
    PROVE  \/ Said(ch, final) = Closed(ch, Reported(ch))
           \/ /\ ~final
              /\ \E n \in 0 .. MaxMessages :
                   Said(ch, final) = [ch EXCEPT !.messages = n, !.pc = "turn"]
<1> DEFINE n == IF ch.messages < MaxMessages THEN ch.messages + 1 ELSE ch.messages
           d == [ch EXCEPT !.messages = n]
<1>1. n \in 0 .. MaxMessages
  BY ChatAssumption DEF Chat
<1>2. d = [ch EXCEPT !.messages = IF @ < MaxMessages THEN @ + 1 ELSE @]
  BY DEF Chat
<1>3. Said(ch, final) = IF final \/ Capped(d.messages) THEN Ended(d)
                                                     ELSE [d EXCEPT !.pc = "turn"]
  BY <1>2 DEF Said
<1>4. Ended(d) = Closed(ch, Reported(ch))
  BY DEF Ended, Closed, Reported, Chat
<1>5. [d EXCEPT !.pc = "turn"] = [ch EXCEPT !.messages = n, !.pc = "turn"]
  BY DEF Chat
<1> QED
  BY <1>1, <1>3, <1>4, <1>5

\* What a speaker's message makes of a chat in a turn.
LEMMA SaidGood ==
    ASSUME NEW ch \in Chat, NEW h, NEW e, NEW w, Good(ch, h, e, w),
           ch.pc \in {"turn", "calls"}, ch.calls = {},
           ch.speaker \in Agents \cup {Planner},
           ch.planning => ch.speaker = Planner,
           NEW final \in BOOLEAN
    PROVE  Said(ch, final) \in Chat /\ Good(Said(ch, final), h, e, w)
<1>1. /\ Reported(ch) \in Outcome
      /\ Reported(ch) = "stop" => ~w
      /\ Reported(ch) = "requires_approval" => w
  BY DEF Reported, Outcome, Good, Recorded
<1>2. CASE Said(ch, final) = Closed(ch, Reported(ch))
  BY <1>1, <1>2, ClosedType, ClosedGood, ChatAssumption
<1>3. ASSUME NEW n \in 0 .. MaxMessages,
             Said(ch, final) = [ch EXCEPT !.messages = n, !.pc = "turn"]
      PROVE  Said(ch, final) \in Chat /\ Good(Said(ch, final), h, e, w)
  <2> DEFINE d == [ch EXCEPT !.messages = n, !.pc = "turn"]
  <2>1. d \in Chat
    BY DEF Chat
  <2>2. /\ d.pc = "turn" /\ d.calls = ch.calls /\ d.pending = ch.pending
        /\ d.speaker = ch.speaker /\ d.approved = ch.approved
        /\ d.planning = ch.planning /\ d.user = ch.user
        /\ d.allowed = ch.allowed /\ d.mutating = ch.mutating
        /\ d.outcome = ch.outcome
    BY DEF Chat
  <2> HIDE DEF d
  <2>3. Good(d, h, e, w)
    BY <2>2 DEF Good, Untouched, Gate, Recorded, Planned, Spoken
  <2> QED
    BY <1>3, <2>1, <2>3 DEF d
<1> QED
  BY <1>2, <1>3, SaidCases

\* A step of chat c that leaves the others and the catalog alone.
LEMMA ChatMoves ==
    ASSUME IInv, UNCHANGED catalogVars, NEW c \in Chats, NEW new \in Chat,
           chat' = [chat EXCEPT ![c] = new],
           held' \in [Chats -> SUBSET Names],
           executed' \in [Chats -> SUBSET Names],
           withheld' \in [Chats -> BOOLEAN],
           \A d \in Chats \ {c} : /\ held'[d] = held[d]
                                  /\ executed'[d] = executed[d]
                                  /\ withheld'[d] = withheld[d],
           held'[c] \subseteq MutatingNames,
           Good(new, held'[c], executed'[c], withheld'[c])
    PROVE  IInv'
<1>1. CatalogInv' /\ MutatingNames' = MutatingNames
  BY CatalogKept DEF IInv
<1>2. chat' \in [Chats -> Chat]
  BY DEF IInv, TypeOK
<1>3. TypeOK'
  BY <1>1, <1>2 DEF TypeOK, CatalogInv
<1>4. chat'[c] = new /\ \A d \in Chats \ {c} : chat'[d] = chat[d]
  BY DEF IInv, TypeOK
<1>5. ChatInv'
  <2> SUFFICES ASSUME NEW d \in Chats
               PROVE  /\ held'[d] \subseteq MutatingNames
                      /\ Good(chat'[d], held'[d], executed'[d], withheld'[d])
    BY <1>1 DEF ChatInv, Good, Untouched, Gate, Recorded, Planned, Spoken
  <2>1. CASE d = c
    BY <1>4, <2>1
  <2>2. CASE d # c
    BY <1>4, <2>2 DEF IInv, ChatInv
  <2> QED
    BY <2>1, <2>2
<1> QED
  BY <1>1, <1>3, <1>5 DEF IInv

\* The steps that change nothing but the record of the chat.
LEMMA RecordMoves ==
    ASSUME IInv, UNCHANGED catalogVars, NEW c \in Chats, NEW new \in Chat,
           Good(new, held[c], executed[c], withheld[c]),
           chat' = [chat EXCEPT ![c] = new],
           UNCHANGED <<held, executed, withheld>>
    PROVE  IInv'
<1>1. /\ held' \in [Chats -> SUBSET Names]
      /\ executed' \in [Chats -> SUBSET Names]
      /\ withheld' \in [Chats -> BOOLEAN]
  BY DEF IInv, TypeOK
<1>2. held'[c] \subseteq MutatingNames
  BY DEF IInv, ChatInv
<1>3. Good(new, held'[c], executed'[c], withheld'[c])
  OBVIOUS
<1> QED
  BY <1>1, <1>2, <1>3, ChatMoves

\* The first SELECT: nothing has happened, so any names may be held.
LEMMA ReadAgentsKeeps ==
    ASSUME IInv, UNCHANGED catalogVars, NEW c \in Chats,
           NEW approved \in BOOLEAN, NEW planning \in BOOLEAN, NEW user \in BOOLEAN,
           ReadAgents(c, approved, planning, user)
    PROVE  IInv'
<1> DEFINE team == {a \in Agents : agent[a].exists}
           new == [chat[c] EXCEPT !.approved = approved, !.planning = planning,
                     !.team = team, !.user = user,
                     !.pc = IF team = {} THEN "ended" ELSE "grants",
                     !.outcome = IF team = {} THEN "error" ELSE "none"]
           h == IF approved THEN {} ELSE MutatingNames
<1>1. chat[c] \in Chat /\ chat[c].pc = "idle"
  BY DEF IInv, TypeOK, ReadAgents
<1>2. /\ executed[c] = {} /\ executed[c] \in SUBSET Names
      /\ withheld[c] = FALSE
      /\ chat[c].calls = {} /\ chat[c].pending = {} /\ chat[c].speaker = Nobody
  BY <1>1 DEF IInv, TypeOK, ChatInv, Good, Untouched
<1>3. new \in Chat
  <2> DEFINE pc == IF team = {} THEN "ended" ELSE "grants"
             outcome == IF team = {} THEN "error" ELSE "none"
             asked == [chat[c] EXCEPT !.approved = approved, !.planning = planning,
                         !.team = team, !.user = user]
  <2>1. team \in SUBSET Agents
    OBVIOUS
  <2>2. /\ pc \in {"idle", "grants", "tools", "turn", "calls", "ended"}
        /\ outcome \in {"none", "stop", "requires_approval", "error"}
    OBVIOUS
  <2> HIDE DEF team, pc, outcome
  <2>3. asked \in Chat
    BY <1>1, <2>1, ZenonT(40) DEF Chat
  <2>4. [asked EXCEPT !.pc = pc, !.outcome = outcome] \in Chat
    <3> HIDE DEF asked
    <3> QED
      BY <2>2, <2>3, ZenonT(40) DEF Chat
  <2>5. new = [asked EXCEPT !.pc = pc, !.outcome = outcome]
    BY <1>1, ZenonT(40) DEF Chat, pc, outcome
  <2> QED
    BY <2>4, <2>5
<1>4. Good(new, h, executed[c], withheld[c])
  <2>1. /\ new.pc \in {"ended", "grants"} /\ new.outcome \in {"error", "none"}
        /\ new.pc # "ended" => new.outcome = "none"
        /\ new.calls = {} /\ new.pending = {} /\ new.speaker = Nobody
        /\ new.approved = approved
    BY <1>1, <1>2 DEF Chat
  <2> HIDE DEF new
  <2> QED
    BY <1>2, <2>1 DEF Good, Untouched, Gate, Recorded, Planned, Spoken
<1>5. /\ chat' = [chat EXCEPT ![c] = new] /\ held' = [held EXCEPT ![c] = h]
      /\ executed' = executed /\ withheld' = withheld
  BY DEF ReadAgents
<1>6. h \subseteq MutatingNames /\ h \subseteq Names
  BY NamesAreNames DEF IInv, TypeOK
<1> HIDE DEF new, h
<1>7. /\ held' \in [Chats -> SUBSET Names] /\ held'[c] = h
      /\ executed' \in [Chats -> SUBSET Names]
      /\ withheld' \in [Chats -> BOOLEAN]
      /\ \A d \in Chats \ {c} : held'[d] = held[d]
  BY <1>5, <1>6 DEF IInv, TypeOK
<1> QED
  BY <1>3, <1>4, <1>5, <1>6, <1>7, ChatMoves

LEMMA ReadGrantsKeeps ==
    ASSUME IInv, UNCHANGED catalogVars, NEW c \in Chats, ReadGrants(c)
    PROVE  IInv'
<1> DEFINE grants == [a \in Agents |->
                        IF a \in chat[c].team THEN agent[a].links ELSE {}]
           new == [chat[c] EXCEPT !.pc = "tools", !.grants = grants]
<1>1. chat[c] \in Chat /\ chat[c].pc = "grants"
  BY DEF IInv, TypeOK, ReadGrants
<1>2. grants \in [Agents -> SUBSET Tools]
  BY DEF IInv, TypeOK, CatalogTypeOK, Agent
<1>3. chat' = [chat EXCEPT ![c] = new]
  BY DEF ReadGrants
<1> HIDE DEF grants
<1>4. new \in Chat
  BY <1>1, <1>2 DEF Chat
<1>5. Good(new, held[c], executed[c], withheld[c])
  <2>1. /\ new.pc = "tools" /\ new.calls = chat[c].calls
        /\ new.pending = chat[c].pending /\ new.speaker = chat[c].speaker
        /\ new.approved = chat[c].approved /\ new.outcome = chat[c].outcome
        /\ new.planning = chat[c].planning /\ new.user = chat[c].user
    BY <1>1 DEF Chat
  <2> HIDE DEF new
  <2> QED
    BY <1>1, <2>1 DEF IInv, ChatInv, Good, Untouched, Gate, Recorded, Planned, Spoken
<1> QED
  BY <1>3, <1>4, <1>5, RecordMoves DEF ReadGrants

\* The heart of the gate: a granted tool whose name is held is one that the
\* last SELECT saw as mutating, because no two tools share a name.
LEMMA HeldIsGated ==
    ASSUME CatalogInv, NEW h \in SUBSET MutatingNames, NEW tools \in SUBSET Tools
    PROVE  /\ NamesOf(tools) \subseteq Names /\ MutatingOf(tools) \subseteq Names
           /\ NamesOf(tools) \cap h \subseteq MutatingOf(tools)
<1>1. \A t \in Existing : tool[t].name \in Names
  BY DEF CatalogInv, CatalogTypeOK, Existing, Tool
<1>2. ASSUME NEW n \in NamesOf(tools) \cap h PROVE n \in MutatingOf(tools)
  <2>1. PICK t \in tools \cap Existing : tool[t].name = n
    BY <1>2 DEF NamesOf
  <2>2. PICK u \in Existing : tool[u].mutating /\ tool[u].name = n
    BY <1>2 DEF MutatingNames
  <2>3. t = u
    BY <2>1, <2>2 DEF CatalogInv, UniqueNames
  <2> QED
    BY <2>1, <2>2, <2>3 DEF MutatingOf, NamesOf
<1> QED
  BY <1>1, <1>2 DEF NamesOf, MutatingOf

LEMMA ReadToolsKeeps ==
    ASSUME IInv, UNCHANGED catalogVars, NEW c \in Chats, ReadTools(c)
    PROVE  IInv'
<1> DEFINE allowed == [a \in Agents |-> NamesOf(chat[c].grants[a])]
           mutating == [a \in Agents |-> MutatingOf(chat[c].grants[a])]
           d == [chat[c] EXCEPT !.pc = "turn",
                   !.messages = Input(chat[c].planning), !.grants = NoTools,
                   !.allowed = allowed, !.mutating = mutating]
           new == IF InputAnswers(d) THEN Ended(d) ELSE d
<1>1. chat[c] \in Chat /\ chat[c].pc = "tools"
  BY DEF IInv, TypeOK, ReadTools
<1>2. /\ allowed \in [Agents -> SUBSET Names]
      /\ mutating \in [Agents -> SUBSET Names]
      /\ \A a \in Agents : allowed[a] \cap held[c] \subseteq mutating[a]
  <2>1. held[c] \in SUBSET MutatingNames
    BY DEF IInv, ChatInv
  <2>2. chat[c].grants \in [Agents -> SUBSET Tools]
    BY <1>1 DEF Chat
  <2>3. CatalogInv
    BY DEF IInv
  <2>4. ASSUME NEW a \in Agents
        PROVE  /\ allowed[a] \in SUBSET Names /\ mutating[a] \in SUBSET Names
               /\ allowed[a] \cap held[c] \subseteq mutating[a]
    <3> DEFINE g == chat[c].grants[a]
    <3>1. allowed[a] = NamesOf(g) /\ mutating[a] = MutatingOf(g)
      OBVIOUS
    <3>2. g \in SUBSET Tools
      BY <2>2
    <3> HIDE DEF g
    <3>3. /\ NamesOf(g) \subseteq Names /\ MutatingOf(g) \subseteq Names
          /\ NamesOf(g) \cap held[c] \subseteq MutatingOf(g)
      BY <2>1, <2>3, <3>2, HeldIsGated
    <3> QED
      BY <3>1, <3>3
  <2>5. allowed = [a \in Agents |-> allowed[a]] /\ mutating = [a \in Agents |-> mutating[a]]
    OBVIOUS
  <2> HIDE DEF allowed, mutating
  <2>6. allowed \in [Agents -> SUBSET Names]
    BY <2>4, <2>5
  <2>7. mutating \in [Agents -> SUBSET Names]
    BY <2>4, <2>5
  <2> QED
    BY <2>4, <2>6, <2>7
<1>3. chat' = [chat EXCEPT ![c] = new]
  BY DEF ReadTools
<1> HIDE DEF allowed, mutating
<1>4. Input(chat[c].planning) \in 0 .. MaxMessages /\ NoTools \in [Agents -> SUBSET Tools]
  BY ChatAssumption DEF Input, NoTools
<1>5. d \in Chat
  BY <1>1, <1>2, <1>4 DEF Chat
<1>6. /\ d.pc = "turn" /\ d.calls = chat[c].calls
      /\ d.pending = chat[c].pending /\ d.speaker = chat[c].speaker
      /\ d.approved = chat[c].approved /\ d.outcome = chat[c].outcome
      /\ d.planning = chat[c].planning /\ d.user = chat[c].user
      /\ d.allowed = allowed /\ d.mutating = mutating
  BY <1>1 DEF Chat
<1> HIDE DEF d
<1>7. Good(d, held[c], executed[c], withheld[c])
  BY <1>1, <1>2, <1>6 DEF IInv, ChatInv, Good, Untouched, Gate, Recorded, Planned, Spoken
<1>8. CASE InputAnswers(d)
  <2>1. Ended(d) = Closed(d, Reported(d)) /\ Reported(d) \in Outcome
    BY DEF Ended, Reported, Outcome
  <2>2. /\ d.user /\ ~d.planning /\ ~withheld[c]
        /\ Reported(d) = "stop"
    BY <1>8, <1>1, <1>6 DEF InputAnswers, Reported, IInv, ChatInv, Good, Untouched
  <2>3. Closed(d, Reported(d)) \in Chat
    BY <1>5, <2>1, ClosedType
  <2>4. Good(Closed(d, Reported(d)), held[c], executed[c], withheld[c])
    BY <1>5, <1>7, <2>1, <2>2, ClosedGood
  <2> QED
    BY <1>3, <1>8, <2>1, <2>3, <2>4, RecordMoves DEF ReadTools
<1>9. CASE ~InputAnswers(d)
  BY <1>3, <1>5, <1>7, <1>9, RecordMoves DEF ReadTools
<1> QED
  BY <1>8, <1>9

LEMMA TextKeeps ==
    ASSUME IInv, UNCHANGED catalogVars, NEW c \in Chats,
           NEW s \in Agents \cup {Planner}, Text(c, s)
    PROVE  IInv'
<1> DEFINE d == [chat[c] EXCEPT !.speaker = s]
           final == ~chat[c].planning \/ s = Planner
           new == Said(d, final)
<1>1. chat[c] \in Chat /\ chat[c].pc = "turn"
  BY DEF IInv, TypeOK, Text
<1>2. d \in Chat
  BY <1>1 DEF Chat
<1>3. /\ d.pc = "turn" /\ d.speaker = s /\ d.calls = chat[c].calls
      /\ d.pending = chat[c].pending /\ d.approved = chat[c].approved
      /\ d.outcome = chat[c].outcome /\ d.planning = chat[c].planning
      /\ d.user = chat[c].user /\ d.allowed = chat[c].allowed
      /\ d.mutating = chat[c].mutating
  BY <1>1 DEF Chat
<1>4. chat' = [chat EXCEPT ![c] = new]
  BY DEF Text
<1>5. chat[c].planning => s = Planner
  BY DEF Text, Speakers
<1>6. final \in BOOLEAN
  OBVIOUS
<1> HIDE DEF d, final
<1>7. Good(d, held[c], executed[c], withheld[c]) /\ d.calls = {}
  BY <1>1, <1>3 DEF IInv, ChatInv, Good, Untouched, Gate, Recorded, Planned, Spoken
<1>8. new \in Chat /\ Good(new, held[c], executed[c], withheld[c])
  BY <1>2, <1>3, <1>5, <1>6, <1>7, SaidGood
<1> HIDE DEF new
<1> QED
  BY <1>4, <1>8, RecordMoves DEF Text

\* A planner call has no speaker but the planner, who has no tools.
LEMMA ToolCallsKeeps ==
    ASSUME IInv, UNCHANGED catalogVars, NEW c \in Chats, NEW a \in Agents,
           NEW names \in SUBSET Names, ToolCalls(c, a, names)
    PROVE  IInv'
<1> DEFINE mine == names \cap chat[c].allowed[a]
           refused == mine \cap Refused(chat[c], a)
           pending == Noted(chat[c], a, refused # {})
           new == [chat[c] EXCEPT !.pc = "calls", !.speaker = a,
                     !.calls = mine \ refused,
                     !.pending = pending]
<1>1. chat[c] \in Chat /\ chat[c].pc = "turn"
  BY DEF IInv, TypeOK, ToolCalls
<1>2. /\ chat' = [chat EXCEPT ![c] = new]
      /\ withheld' = [withheld EXCEPT ![c] = withheld[c] \/ refused # {}]
      /\ held' = held /\ executed' = executed
  BY DEF ToolCalls
<1>3. ~chat[c].planning
  BY DEF ToolCalls, Speakers
<1>4. (mine \ refused) \cap held[c] = {} /\ (chat[c].approved => refused = {})
  BY <1>1 DEF IInv, ChatInv, Good, Gate, Refused
<1>5. mine \in SUBSET Names /\ pending \in SUBSET Agents
  BY <1>1 DEF Chat, Noted
<1>6. pending # {} <=> refused # {} \/ chat[c].pending # {}
  BY DEF Noted
<1>7. new \in Chat
  BY <1>1, <1>5 DEF Chat
<1>8. /\ new.pc = "calls" /\ new.speaker = a /\ new.calls = mine \ refused
      /\ new.pending = pending /\ new.approved = chat[c].approved
      /\ new.outcome = chat[c].outcome /\ new.planning = chat[c].planning
      /\ new.user = chat[c].user /\ new.allowed = chat[c].allowed
      /\ new.mutating = chat[c].mutating
  BY <1>1 DEF Chat
<1> HIDE DEF new, pending, refused, mine
<1>9. /\ withheld' \in [Chats -> BOOLEAN]
      /\ withheld'[c] <=> withheld[c] \/ refused # {}
      /\ \A d \in Chats \ {c} : withheld'[d] = withheld[d]
  BY <1>2 DEF IInv, TypeOK
<1>10. Good(new, held[c], executed[c], withheld'[c])
  BY <1>1, <1>3, <1>4, <1>6, <1>8, <1>9
  DEF IInv, ChatInv, Good, Untouched, Gate, Recorded, Planned, Spoken
<1>11. held[c] \subseteq MutatingNames
  BY DEF IInv, ChatInv
<1> QED
  BY <1>2, <1>7, <1>9, <1>10, <1>11, ChatMoves DEF IInv, TypeOK

LEMMA ToolErrorKeeps ==
    ASSUME IInv, UNCHANGED catalogVars, NEW c \in Chats, NEW n \in Names,
           ToolError(c, n)
    PROVE  IInv'
<1> DEFINE new == [chat[c] EXCEPT !.calls = @ \ {n}]
<1>1. chat[c] \in Chat /\ chat[c].calls # {}
  BY DEF IInv, TypeOK, ToolError
<1>2. new \in Chat
  BY <1>1 DEF Chat
<1>3. /\ new.calls = chat[c].calls \ {n} /\ new.pc = chat[c].pc
      /\ new.speaker = chat[c].speaker
      /\ new.pending = chat[c].pending /\ new.approved = chat[c].approved
      /\ new.outcome = chat[c].outcome /\ new.planning = chat[c].planning
      /\ new.user = chat[c].user /\ new.allowed = chat[c].allowed
      /\ new.mutating = chat[c].mutating
  BY <1>1 DEF Chat
<1>4. chat' = [chat EXCEPT ![c] = new]
  BY DEF ToolError, IInv, TypeOK
<1> HIDE DEF new
<1>5. Good(new, held[c], executed[c], withheld[c])
  BY <1>1, <1>3 DEF IInv, ChatInv, Good, Untouched, Gate, Recorded, Planned, Spoken
<1> QED
  BY <1>2, <1>4, <1>5, RecordMoves DEF ToolError

LEMMA RunToolKeeps ==
    ASSUME IInv, UNCHANGED catalogVars, NEW c \in Chats, NEW n \in Names,
           NEW marked \in BOOLEAN, RunTool(c, n, marked)
    PROVE  IInv'
<1> DEFINE pending == Noted(chat[c], chat[c].speaker, marked)
           new == [chat[c] EXCEPT !.calls = chat[c].calls \ {n}, !.pending = pending]
<1>1. chat[c] \in Chat /\ n \in chat[c].calls
  BY DEF IInv, TypeOK, RunTool
<1>2. /\ chat[c].pc = "calls" /\ chat[c].speaker \in Agents
      /\ ~chat[c].planning /\ n \notin held[c]
  BY <1>1 DEF IInv, ChatInv, Good, Spoken, Planned, Gate
<1>3. pending \in SUBSET Agents /\ (pending # {} <=> marked \/ chat[c].pending # {})
  BY <1>1, <1>2 DEF Chat, Noted
<1>4. /\ chat' = [chat EXCEPT ![c] = new]
      /\ executed' = [executed EXCEPT ![c] = @ \cup {n}]
      /\ withheld' = [withheld EXCEPT ![c] = withheld[c] \/ marked]
      /\ held' = held
  BY DEF RunTool
<1>5. new \in Chat
  BY <1>1, <1>3 DEF Chat
<1>6. /\ new.calls = chat[c].calls \ {n} /\ new.pc = chat[c].pc
      /\ new.speaker = chat[c].speaker
      /\ new.pending = pending /\ new.approved = chat[c].approved
      /\ new.outcome = chat[c].outcome /\ new.planning = chat[c].planning
      /\ new.user = chat[c].user /\ new.allowed = chat[c].allowed
      /\ new.mutating = chat[c].mutating
  BY <1>1 DEF Chat
<1> HIDE DEF new, pending
<1>7. /\ executed' \in [Chats -> SUBSET Names]
      /\ executed'[c] = executed[c] \cup {n}
      /\ withheld' \in [Chats -> BOOLEAN]
      /\ withheld'[c] <=> withheld[c] \/ marked
      /\ \A d \in Chats \ {c} : /\ executed'[d] = executed[d]
                                /\ withheld'[d] = withheld[d]
  BY <1>4 DEF IInv, TypeOK
<1>8. Good(new, held[c], executed'[c], withheld'[c])
  BY <1>2, <1>3, <1>6, <1>7
  DEF IInv, ChatInv, Good, Untouched, Gate, Recorded, Planned, Spoken
<1>9. held[c] \subseteq MutatingNames
  BY DEF IInv, ChatInv
<1> QED
  BY <1>4, <1>5, <1>7, <1>8, <1>9, ChatMoves DEF IInv, TypeOK

LEMMA SummaryKeeps ==
    ASSUME IInv, UNCHANGED catalogVars, NEW c \in Chats, Summary(c)
    PROVE  IInv'
<1> DEFINE new == Said(chat[c], FALSE)
<1>1. chat[c] \in Chat /\ chat[c].pc = "calls" /\ chat[c].calls = {}
  BY DEF IInv, TypeOK, Summary
<1>2. Good(chat[c], held[c], executed[c], withheld[c])
  BY DEF IInv, ChatInv
<1>3. chat[c].speaker \in Agents /\ ~chat[c].planning
  BY <1>1, <1>2 DEF Good, Spoken, Planned
<1>4. new \in Chat /\ Good(new, held[c], executed[c], withheld[c])
  BY <1>1, <1>2, <1>3, SaidGood
<1>5. chat' = [chat EXCEPT ![c] = new]
  BY DEF Summary
<1> HIDE DEF new
<1> QED
  BY <1>4, <1>5, RecordMoves DEF Summary

LEMMA FailKeeps ==
    ASSUME IInv, UNCHANGED catalogVars, NEW c \in Chats, Fail(c)
    PROVE  IInv'
<1> DEFINE new == Closed(chat[c], "error")
<1>1. chat[c] \in Chat /\ "error" \in Outcome
  BY DEF IInv, TypeOK, Outcome
<1>2. new \in Chat
  BY <1>1, ClosedType
<1>3. Good(new, held[c], executed[c], withheld[c])
  BY <1>1, ClosedGood DEF IInv, ChatInv
<1>4. chat' = [chat EXCEPT ![c] = new]
  BY DEF Fail
<1> HIDE DEF new
<1> QED
  BY <1>2, <1>3, <1>4, RecordMoves DEF Fail

\* An edit takes names out of what is held and puts none in.
LEMMA EditKeeps ==
    ASSUME IInv, Edit
    PROVE  IInv'
<1>1. CatalogInv'
  BY CatalogStep DEF IInv, Edit
<1>2. \A c \in Chats : held'[c] = held[c] \cap MutatingNames'
  BY DEF Edit
<1>3. held' \in [Chats -> SUBSET Names]
  BY <1>2 DEF Edit, IInv, TypeOK
<1>4. TypeOK'
  BY <1>1, <1>3 DEF IInv, TypeOK, CatalogInv, Edit
<1>5. ChatInv'
  <2> SUFFICES ASSUME NEW c \in Chats
               PROVE  /\ held'[c] \subseteq MutatingNames'
                      /\ Good(chat[c], held'[c], executed[c], withheld[c])
    BY DEF Edit, ChatInv, Good, Untouched, Gate, Recorded, Planned, Spoken
  <2>1. Good(chat[c], held[c], executed[c], withheld[c]) /\ held'[c] \subseteq held[c]
    BY <1>2 DEF IInv, ChatInv
  <2> QED
    BY <1>2, <2>1 DEF Good, Gate
<1> QED
  BY <1>1, <1>4, <1>5 DEF IInv

-----------------------------------------------------------------------------
LEMMA Initially == Init => IInv
<1> SUFFICES ASSUME Init PROVE IInv
  OBVIOUS
<1>1. CatalogInv
  BY CatalogStart DEF Init
<1>2. TypeOK
  BY <1>1, NewChatType DEF Init, TypeOK, CatalogInv
<1>3. ChatInv
  BY DEF Init, ChatInv, NewChat, Good, Untouched, Gate, Recorded, Planned, Spoken
<1> QED
  BY <1>1, <1>2, <1>3 DEF IInv

LEMMA Inductively == IInv /\ [Next]_vars => IInv'
<1> SUFFICES ASSUME IInv, [Next]_vars PROVE IInv'
  OBVIOUS
<1>1. CASE Edit
  BY <1>1, EditKeeps
<1>2. CASE UNCHANGED catalogVars /\ ChatNext
  <2> PICK c \in Chats :
        \/ \E approved, planning, user \in BOOLEAN :
             ReadAgents(c, approved, planning, user)
        \/ Proceed(c)
    BY <1>2 DEF ChatNext
  <2>1. CASE \E approved, planning, user \in BOOLEAN :
               ReadAgents(c, approved, planning, user)
    BY <1>2, <2>1, ReadAgentsKeeps
  <2>2. CASE ReadGrants(c) \/ ReadTools(c) \/ Summary(c) \/ Fail(c)
    BY <1>2, <2>2, ReadGrantsKeeps, ReadToolsKeeps, SummaryKeeps, FailKeeps
  <2>3. CASE \E s \in Agents \cup {Planner} : Text(c, s)
    BY <1>2, <2>3, TextKeeps
  <2>4. CASE \E a \in Agents, names \in SUBSET Names \ {{}} : ToolCalls(c, a, names)
    BY <1>2, <2>4, ToolCallsKeeps
  <2>5. CASE \E n \in Names : ToolError(c, n) \/ \E m \in BOOLEAN : RunTool(c, n, m)
    BY <1>2, <2>5, ToolErrorKeeps, RunToolKeeps
  <2> QED
    BY <2>1, <2>2, <2>3, <2>4, <2>5 DEF Proceed
<1>3. CASE UNCHANGED vars
  <2>1. UNCHANGED catalogVars /\ UNCHANGED <<chat, held, executed, withheld>>
    BY <1>3 DEF vars, catalogVars
  <2>2. CatalogInv' /\ MutatingNames' = MutatingNames
    BY <2>1, CatalogKept DEF IInv
  <2> QED
    BY <2>1, <2>2 DEF IInv, TypeOK, ChatInv, CatalogInv, Good, Untouched, Gate,
                      Recorded, Planned, Spoken
<1> QED
  BY <1>1, <1>2, <1>3 DEF Next

LEMMA Invariance == Spec => []IInv
BY Initially, Inductively, PTL DEF Spec

-----------------------------------------------------------------------------
(* What job_svc is told: GroupChat implements ChatLifecycle                  *)

Statuses == [c \in Chats |-> StatusOf(chat[c])]
Requests == [c \in Chats |-> RequestOf(chat[c])]

\* What a reply says of the calls that did not run.
ReplyOf(w) == IF w THEN "requires_approval" ELSE "stop"

\* The reply of a chat that has arrived and may end.
LEMMA ReportIsTrue ==
    ASSUME NEW ch, NEW h, NEW e, NEW w \in BOOLEAN, Good(ch, h, e, w),
           ch.pc # "ended"
    PROVE  Reported(ch) = ReplyOf(w)
BY DEF Good, Recorded, Reported, ReplyOf

\* A message leaves a chat open or closes it with that reply.
LEMMA SaidStatus ==
    ASSUME NEW ch \in Chat, NEW h, NEW e, NEW w \in BOOLEAN, Good(ch, h, e, w),
           ch.pc \in {"turn", "calls"}, NEW final \in BOOLEAN
    PROVE  /\ StatusOf(Said(ch, final)) \in {"open", ReplyOf(w)}
           /\ RequestOf(Said(ch, final)) = RequestOf(ch)
<1>1. Reported(ch) = ReplyOf(w) /\ Reported(ch) \in Outcome
  BY ReportIsTrue DEF Reported, Outcome
<1>2. CASE Said(ch, final) = Closed(ch, Reported(ch))
  BY <1>1, <1>2, ClosedType DEF StatusOf, RequestOf
<1>3. ASSUME NEW n \in 0 .. MaxMessages,
             Said(ch, final) = [ch EXCEPT !.messages = n, !.pc = "turn"]
      PROVE  /\ StatusOf(Said(ch, final)) = "open"
             /\ RequestOf(Said(ch, final)) = RequestOf(ch)
  <2> DEFINE d == [ch EXCEPT !.messages = n, !.pc = "turn"]
  <2>1. d.pc = "turn" /\ d.approved = ch.approved /\ d.planning = ch.planning
    BY DEF Chat
  <2> HIDE DEF d
  <2>2. StatusOf(d) = "open" /\ RequestOf(d) = RequestOf(ch)
    BY <2>1 DEF StatusOf, RequestOf
  <2> QED
    BY <1>3, <2>2 DEF d
<1> QED
  BY <1>2, <1>3, SaidCases

\* A step that only chat c takes, seen from its caller.
LEMMA StatusMoves ==
    ASSUME chat \in [Chats -> Chat], NEW c \in Chats, NEW new,
           chat' = [chat EXCEPT ![c] = new]
    PROVE  /\ Statuses' = [Statuses EXCEPT ![c] = StatusOf(new)]
           /\ Requests' = [Requests EXCEPT ![c] = RequestOf(new)]
           /\ Statuses[c] = StatusOf(chat[c]) /\ Requests[c] = RequestOf(chat[c])
           /\ StatusOf(new) = StatusOf(chat[c]) => Statuses' = Statuses
           /\ RequestOf(new) = RequestOf(chat[c]) => Requests' = Requests
<1>1. chat'[c] = new /\ \A d \in Chats \ {c} : chat'[d] = chat[d]
  OBVIOUS
<1>2. /\ Statuses[c] = StatusOf(chat[c])
      /\ Statuses' = [Statuses EXCEPT ![c] = StatusOf(new)]
  BY <1>1 DEF Statuses
<1>3. /\ Requests[c] = RequestOf(chat[c])
      /\ Requests' = [Requests EXCEPT ![c] = RequestOf(new)]
  BY <1>1 DEF Requests
<1>4. StatusOf(new) = StatusOf(chat[c]) => Statuses' = Statuses
  BY <1>2 DEF Statuses
<1>5. RequestOf(new) = RequestOf(chat[c]) => Requests' = Requests
  BY <1>3 DEF Requests
<1> QED
  BY <1>2, <1>3, <1>4, <1>5

\* Either the caller sees nothing of the step, or the chat ends with a reply.
LEMMA StepOrReply ==
    ASSUME IInv, NEW c \in Chats, NEW new,
           chat' = [chat EXCEPT ![c] = new],
           UNCHANGED <<executed, withheld>>,
           StatusOf(chat[c]) = "open",
           StatusOf(new) \in {"open", ReplyOf(withheld[c])},
           RequestOf(new) = RequestOf(chat[c])
    PROVE  Lifecycle!Reply(c) \/ UNCHANGED <<Statuses, Requests, executed, withheld>>
<1>1. /\ Statuses' = [Statuses EXCEPT ![c] = StatusOf(new)]
      /\ Requests' = [Requests EXCEPT ![c] = RequestOf(new)]
      /\ Statuses[c] = StatusOf(chat[c]) /\ Requests[c] = RequestOf(chat[c])
      /\ StatusOf(new) = StatusOf(chat[c]) => Statuses' = Statuses
      /\ RequestOf(new) = RequestOf(chat[c]) => Requests' = Requests
  <2>1. chat \in [Chats -> Chat]
    BY DEF IInv, TypeOK
  <2> QED
    BY <2>1, StatusMoves
<1>2. Requests' = Requests
  BY <1>1
<1>3. CASE StatusOf(new) = "open"
  BY <1>1, <1>2, <1>3
<1>4. CASE StatusOf(new) = ReplyOf(withheld[c])
  BY <1>1, <1>2, <1>4 DEF Lifecycle!Reply, Statuses, Requests, ReplyOf
<1> QED
  BY <1>3, <1>4

LEMMA ReadAgentsArrives ==
    ASSUME IInv, NEW c \in Chats,
           NEW approved \in BOOLEAN, NEW planning \in BOOLEAN, NEW user \in BOOLEAN,
           ReadAgents(c, approved, planning, user)
    PROVE  Lifecycle!Arrive(c)
<1> DEFINE team == {a \in Agents : agent[a].exists}
           new == [chat[c] EXCEPT !.approved = approved, !.planning = planning,
                     !.team = team, !.user = user,
                     !.pc = IF team = {} THEN "ended" ELSE "grants",
                     !.outcome = IF team = {} THEN "error" ELSE "none"]
           r == [approved |-> approved, planning |-> planning]
<1>1. chat[c] \in Chat /\ chat[c].pc = "idle"
  BY DEF IInv, TypeOK, ReadAgents
<1>2. /\ chat' = [chat EXCEPT ![c] = new]
      /\ executed' = executed /\ withheld' = withheld
  BY DEF ReadAgents
<1>3. StatusOf(new) \in {"open", "error"} /\ RequestOf(new) = r
  BY <1>1 DEF StatusOf, RequestOf, Chat
<1>4. r \in Lifecycle!Request
  BY DEF Lifecycle!Request
<1> HIDE DEF new, r
<1>5. StatusOf(chat[c]) = "absent" /\ chat \in [Chats -> Chat]
  BY <1>1 DEF IInv, TypeOK, StatusOf
<1>6. /\ Statuses' = [Statuses EXCEPT ![c] = StatusOf(new)]
      /\ Requests' = [Requests EXCEPT ![c] = r]
      /\ Statuses[c] = "absent"
  BY <1>2, <1>3, <1>5, StatusMoves
<1> QED
  BY <1>2, <1>3, <1>4, <1>6 DEF Lifecycle!Arrive, Statuses, Requests

LEMMA ReadGrantsUnseen ==
    ASSUME IInv, NEW c \in Chats, ReadGrants(c)
    PROVE  Lifecycle!Reply(c) \/ UNCHANGED <<Statuses, Requests, executed, withheld>>
<1> DEFINE grants == [a \in Agents |->
                        IF a \in chat[c].team THEN agent[a].links ELSE {}]
           new == [chat[c] EXCEPT !.pc = "tools", !.grants = grants]
<1>1. chat[c] \in Chat /\ chat[c].pc = "grants"
  BY DEF IInv, TypeOK, ReadGrants
<1>2. chat' = [chat EXCEPT ![c] = new] /\ UNCHANGED <<executed, withheld>>
  BY DEF ReadGrants
<1> HIDE DEF grants
<1>3. /\ new.pc = "tools" /\ new.approved = chat[c].approved
      /\ new.planning = chat[c].planning
  BY <1>1 DEF Chat
<1> HIDE DEF new
<1>4. /\ StatusOf(chat[c]) = "open" /\ StatusOf(new) = "open"
      /\ RequestOf(new) = RequestOf(chat[c])
  BY <1>1, <1>3 DEF StatusOf, RequestOf
<1> QED
  BY <1>2, <1>4, StepOrReply

LEMMA ReadToolsReplies ==
    ASSUME IInv, NEW c \in Chats, ReadTools(c)
    PROVE  Lifecycle!Reply(c) \/ UNCHANGED <<Statuses, Requests, executed, withheld>>
<1> DEFINE allowed == [a \in Agents |-> NamesOf(chat[c].grants[a])]
           mutating == [a \in Agents |-> MutatingOf(chat[c].grants[a])]
           d == [chat[c] EXCEPT !.pc = "turn",
                   !.messages = Input(chat[c].planning), !.grants = NoTools,
                   !.allowed = allowed, !.mutating = mutating]
           new == IF InputAnswers(d) THEN Ended(d) ELSE d
<1>1. /\ chat[c] \in Chat /\ chat[c].pc = "tools"
      /\ withheld[c] = FALSE /\ chat[c].pending = {}
  BY DEF IInv, TypeOK, ChatInv, Good, Untouched, ReadTools
<1>2. chat' = [chat EXCEPT ![c] = new] /\ UNCHANGED <<executed, withheld>>
  BY DEF ReadTools
<1> HIDE DEF allowed, mutating
<1>3. /\ d.pc = "turn" /\ d.pending = {} /\ d.approved = chat[c].approved
      /\ d.planning = chat[c].planning
  BY <1>1 DEF Chat
<1> HIDE DEF d
<1>4. /\ Ended(d).pc = "ended" /\ Ended(d).outcome = "stop"
      /\ Ended(d).approved = d.approved /\ Ended(d).planning = d.planning
  BY <1>3 DEF Ended, Closed, NewChat
<1>5. /\ StatusOf(chat[c]) = "open"
      /\ StatusOf(new) \in {"open", ReplyOf(withheld[c])}
      /\ RequestOf(new) = RequestOf(chat[c])
  BY <1>1, <1>3, <1>4 DEF StatusOf, RequestOf, ReplyOf
<1> HIDE DEF new
<1> QED
  BY <1>2, <1>5, StepOrReply

LEMMA TextReplies ==
    ASSUME IInv, NEW c \in Chats, NEW s \in Agents \cup {Planner}, Text(c, s)
    PROVE  Lifecycle!Reply(c) \/ UNCHANGED <<Statuses, Requests, executed, withheld>>
<1> DEFINE d == [chat[c] EXCEPT !.speaker = s]
           final == ~chat[c].planning \/ s = Planner
           new == Said(d, final)
<1>1. /\ chat[c] \in Chat /\ chat[c].pc = "turn"
      /\ Good(chat[c], held[c], executed[c], withheld[c])
      /\ withheld[c] \in BOOLEAN
  BY DEF IInv, TypeOK, ChatInv, Text
<1>2. d \in Chat
  BY <1>1 DEF Chat
<1>3. /\ d.pc = "turn" /\ d.speaker = s /\ d.calls = chat[c].calls
      /\ d.pending = chat[c].pending /\ d.approved = chat[c].approved
      /\ d.outcome = chat[c].outcome /\ d.planning = chat[c].planning
      /\ d.user = chat[c].user /\ d.allowed = chat[c].allowed
      /\ d.mutating = chat[c].mutating
  BY <1>1 DEF Chat
<1>4. chat' = [chat EXCEPT ![c] = new] /\ UNCHANGED <<executed, withheld>>
  BY DEF Text
<1>5. final \in BOOLEAN /\ s # Nobody
  BY ChatAssumption
<1> HIDE DEF d, final
<1>6. Good(d, held[c], executed[c], withheld[c])
  BY <1>1, <1>3, <1>5 DEF Good, Untouched, Gate, Recorded, Planned, Spoken
<1>7. /\ StatusOf(new) \in {"open", ReplyOf(withheld[c])}
      /\ RequestOf(new) = RequestOf(d)
  BY <1>1, <1>2, <1>3, <1>5, <1>6, SaidStatus
<1> HIDE DEF new
<1>8. StatusOf(chat[c]) = "open" /\ RequestOf(d) = RequestOf(chat[c])
  BY <1>1, <1>3 DEF StatusOf, RequestOf
<1> QED
  BY <1>4, <1>7, <1>8, StepOrReply

LEMMA SummaryReplies ==
    ASSUME IInv, NEW c \in Chats, Summary(c)
    PROVE  Lifecycle!Reply(c) \/ UNCHANGED <<Statuses, Requests, executed, withheld>>
<1> DEFINE new == Said(chat[c], FALSE)
<1>1. /\ chat[c] \in Chat /\ chat[c].pc = "calls"
      /\ Good(chat[c], held[c], executed[c], withheld[c])
      /\ withheld[c] \in BOOLEAN
  BY DEF IInv, TypeOK, ChatInv, Summary
<1>2. chat' = [chat EXCEPT ![c] = new] /\ UNCHANGED <<executed, withheld>>
  BY DEF Summary
<1>3. /\ StatusOf(new) \in {"open", ReplyOf(withheld[c])}
      /\ RequestOf(new) = RequestOf(chat[c])
  BY <1>1, SaidStatus
<1> HIDE DEF new
<1>4. StatusOf(chat[c]) = "open"
  BY <1>1 DEF StatusOf
<1> QED
  BY <1>2, <1>3, <1>4, StepOrReply

\* Nothing is refused in an approved chat, and nobody is in a planner call.
LEMMA ToolCallsWithhold ==
    ASSUME IInv, NEW c \in Chats, NEW a \in Agents, NEW names \in SUBSET Names,
           ToolCalls(c, a, names)
    PROVE  \/ Lifecycle!Withhold(c)
           \/ UNCHANGED <<Statuses, Requests, executed, withheld>>
<1> DEFINE mine == names \cap chat[c].allowed[a]
           refused == mine \cap Refused(chat[c], a)
           pending == Noted(chat[c], a, refused # {})
           new == [chat[c] EXCEPT !.pc = "calls", !.speaker = a,
                     !.calls = mine \ refused, !.pending = pending]
<1>1. chat[c] \in Chat /\ chat[c].pc = "turn" /\ ~chat[c].planning
  BY DEF IInv, TypeOK, ToolCalls, Speakers
<1>2. /\ chat' = [chat EXCEPT ![c] = new]
      /\ withheld' = [withheld EXCEPT ![c] = withheld[c] \/ refused # {}]
      /\ executed' = executed
  BY DEF ToolCalls
<1>3. refused # {} => ~chat[c].approved
  BY DEF Refused
<1> HIDE DEF refused, mine, pending
<1>4. /\ new.pc = "calls" /\ new.approved = chat[c].approved
      /\ new.planning = chat[c].planning
  BY <1>1 DEF Chat
<1> HIDE DEF new
<1>5. /\ StatusOf(chat[c]) = "open" /\ StatusOf(new) = "open"
      /\ RequestOf(new) = RequestOf(chat[c])
  BY <1>1, <1>4 DEF StatusOf, RequestOf
<1>6. UNCHANGED <<Statuses, Requests>> /\ Statuses[c] = "open"
  <2>1. chat \in [Chats -> Chat]
    BY DEF IInv, TypeOK
  <2> QED
    BY <1>2, <1>5, <2>1, StatusMoves
<1>7. CASE refused = {}
  <2>1. withheld \in [Chats -> BOOLEAN]
    BY DEF IInv, TypeOK
  <2>2. withheld[c] \in BOOLEAN
    BY <2>1
  <2>3. \A w \in BOOLEAN : (w \/ refused # {}) = w
    BY <1>7
  <2>4. withheld' = withheld
    BY <1>2, <2>1, <2>2, <2>3
  <2> QED
    BY <1>2, <1>6, <2>4
<1>8. CASE refused # {}
  <2>1. withheld' = [withheld EXCEPT ![c] = TRUE]
    BY <1>2, <1>8
  <2>2. Requests[c].planning = FALSE /\ Requests[c].approved = FALSE
    BY <1>1, <1>3, <1>8 DEF Requests, RequestOf, Chat
  <2> QED
    BY <1>2, <1>6, <2>1, <2>2 DEF Lifecycle!Withhold, Lifecycle!Works, Statuses, Requests
<1> QED
  BY <1>7, <1>8

LEMMA ToolErrorUnseen ==
    ASSUME IInv, NEW c \in Chats, NEW n \in Names, ToolError(c, n)
    PROVE  UNCHANGED <<Statuses, Requests, executed, withheld>>
<1> DEFINE new == [chat[c] EXCEPT !.calls = @ \ {n}]
<1>1. chat[c] \in Chat
  BY DEF IInv, TypeOK
<1>2. chat' = [chat EXCEPT ![c] = new] /\ UNCHANGED <<executed, withheld>>
  BY DEF ToolError, IInv, TypeOK
<1>3. /\ new.pc = chat[c].pc /\ new.approved = chat[c].approved
      /\ new.planning = chat[c].planning /\ new.outcome = chat[c].outcome
  BY <1>1 DEF Chat
<1> HIDE DEF new
<1>4. StatusOf(new) = StatusOf(chat[c]) /\ RequestOf(new) = RequestOf(chat[c])
  BY <1>3 DEF StatusOf, RequestOf
<1>5. chat \in [Chats -> Chat]
  BY DEF IInv, TypeOK
<1> QED
  BY <1>2, <1>4, <1>5, StatusMoves

\* A call that mcp_svc still has to answer is one of a chat that is open.
LEMMA RunToolRuns ==
    ASSUME IInv, NEW c \in Chats, NEW n \in Names, NEW marked \in BOOLEAN,
           RunTool(c, n, marked)
    PROVE  Lifecycle!Run(c, n)
<1> DEFINE pending == Noted(chat[c], chat[c].speaker, marked)
           new == [chat[c] EXCEPT !.calls = chat[c].calls \ {n}, !.pending = pending]
<1>1. /\ chat[c] \in Chat /\ chat[c].pc = "calls" /\ chat[c].planning = FALSE
  BY DEF IInv, TypeOK, ChatInv, Good, Spoken, Planned, RunTool, Chat
<1>2. /\ chat' = [chat EXCEPT ![c] = new]
      /\ executed' = [executed EXCEPT ![c] = @ \cup {n}]
      /\ withheld' = [withheld EXCEPT ![c] = @ \/ marked]
  BY DEF RunTool
<1> HIDE DEF pending
<1>3. /\ new.pc = "calls" /\ new.approved = chat[c].approved
      /\ new.planning = chat[c].planning
  BY <1>1 DEF Chat
<1> HIDE DEF new
<1>4. /\ StatusOf(chat[c]) = "open" /\ StatusOf(new) = "open"
      /\ RequestOf(new) = RequestOf(chat[c])
  BY <1>1, <1>3 DEF StatusOf, RequestOf
<1>5. UNCHANGED <<Statuses, Requests>> /\ Statuses[c] = "open"
  <2>1. chat \in [Chats -> Chat]
    BY DEF IInv, TypeOK
  <2> QED
    BY <1>2, <1>4, <2>1, StatusMoves
<1>6. Requests[c].planning = FALSE
  BY <1>1 DEF Requests, RequestOf
<1> QED
  BY <1>2, <1>5, <1>6 DEF Lifecycle!Run, Lifecycle!Works, Statuses, Requests

LEMMA FailAborts ==
    ASSUME IInv, NEW c \in Chats, Fail(c)
    PROVE  Lifecycle!Abort(c)
<1> DEFINE new == Closed(chat[c], "error")
<1>1. chat[c] \in Chat /\ StatusOf(chat[c]) = "open" /\ "error" \in Outcome
  BY DEF IInv, TypeOK, Fail, StatusOf, Outcome
<1>2. chat' = [chat EXCEPT ![c] = new] /\ UNCHANGED <<executed, withheld>>
  BY DEF Fail
<1>3. StatusOf(new) = "error" /\ RequestOf(new) = RequestOf(chat[c])
  BY <1>1, ClosedType DEF StatusOf, RequestOf
<1> HIDE DEF new
<1>4. /\ Statuses' = [Statuses EXCEPT ![c] = "error"] /\ Requests' = Requests
      /\ Statuses[c] = "open"
  <2>1. chat \in [Chats -> Chat]
    BY DEF IInv, TypeOK
  <2>2. /\ Statuses' = [Statuses EXCEPT ![c] = StatusOf(new)]
        /\ Statuses[c] = StatusOf(chat[c])
        /\ RequestOf(new) = RequestOf(chat[c]) => Requests' = Requests
    BY <1>2, <2>1, StatusMoves
  <2> QED
    BY <1>1, <1>3, <2>2
<1> QED
  BY <1>2, <1>4 DEF Lifecycle!Abort, Statuses, Requests

LEMMA LifecycleStep ==
    IInv /\ [Next]_vars => [Lifecycle!Next]_<<Statuses, Requests, executed, withheld>>
<1> SUFFICES ASSUME IInv, [Next]_vars
             PROVE  Lifecycle!Next \/ UNCHANGED <<Statuses, Requests, executed, withheld>>
  OBVIOUS
<1>1. CASE UNCHANGED <<chat, executed, withheld>>
  BY <1>1 DEF Statuses, Requests
<1>2. CASE ChatNext
  <2> PICK c \in Chats :
        \/ \E approved, planning, user \in BOOLEAN :
             ReadAgents(c, approved, planning, user)
        \/ Proceed(c)
    BY <1>2 DEF ChatNext
  <2>1. CASE \E approved, planning, user \in BOOLEAN :
               ReadAgents(c, approved, planning, user)
    BY <2>1, ReadAgentsArrives DEF Lifecycle!Next
  <2>2. CASE ReadGrants(c) \/ ReadTools(c) \/ Summary(c)
    BY <2>2, ReadGrantsUnseen, ReadToolsReplies, SummaryReplies DEF Lifecycle!Next
  <2>3. CASE Fail(c)
    BY <2>3, FailAborts DEF Lifecycle!Next
  <2>4. CASE \E s \in Agents \cup {Planner} : Text(c, s)
    BY <2>4, TextReplies DEF Lifecycle!Next
  <2>5. CASE \E a \in Agents, names \in SUBSET Names \ {{}} : ToolCalls(c, a, names)
    BY <2>5, ToolCallsWithhold DEF Lifecycle!Next
  <2>6. CASE \E n \in Names : ToolError(c, n) \/ \E m \in BOOLEAN : RunTool(c, n, m)
    BY <2>6, ToolErrorUnseen, RunToolRuns DEF Lifecycle!Next
  <2> QED
    BY <2>1, <2>2, <2>3, <2>4, <2>5, <2>6 DEF Proceed
<1> QED
  BY <1>1, <1>2 DEF Next, Edit, vars

\* A chat pauses exactly if a call was withheld in it, and between its arrival
\* and its reply runs tools for an execution call only (run.py:67-100,
\* mcp_workbench.py:144-175).
THEOREM Refinement == Spec => ImplementsChatLifecycle
<1>1. Init => Lifecycle!Init
  BY DEF Init, Lifecycle!Init, NewChat, StatusOf, RequestOf
<1>2. IInv /\ [Next]_vars => [Lifecycle!Next]_Lifecycle!chatLifecycleVars
  BY LifecycleStep DEF Lifecycle!chatLifecycleVars, Statuses, Requests
<1> QED
  BY <1>1, <1>2, Invariance, PTL DEF Spec, ImplementsChatLifecycle, Lifecycle!Spec

-----------------------------------------------------------------------------

\* Every variable keeps its type, whatever the models say and whoever edits.
THEOREM TypeCorrect == Spec => []TypeOK
BY Invariance, PTL DEF IInv

\* Concurrent updates of an agent leave it with the grants of one of them
\* (agents.py:79-127).
THEOREM GrantsMatch == Spec => []GrantsMatchUpdate
<1>1. IInv => GrantsMatchUpdate
  BY DEF IInv, CatalogInv
<1> QED
  BY <1>1, Invariance, PTL

\* No chat without approval runs a tool that has been mutating all the while
\* (mcp_workbench.py:151-175, agents_repo.py:41-62).
THEOREM GateHolds == Spec => []GateOfRecord
<1>1. IInv => GateOfRecord
  BY DEF IInv, ChatInv, Good, Gate, GateOfRecord
<1> QED
  BY <1>1, Invariance, PTL

\* What job_svc concludes from the reply of a chat (runner.py:203-231): a step that
\* is done had nothing withheld; one that pauses had, and if it was sent as
\* approved then by a tool that ran; and a plan, whose finish_reason the runner
\* does not read, never stands for a pause.
FinishReasonTold ==
    \A c \in Chats :
      /\ chat[c].outcome = "stop" => ~withheld[c]
      /\ chat[c].outcome = "requires_approval" =>
           /\ withheld[c] /\ ~chat[c].planning
           /\ chat[c].approved => executed[c] # {}

\* The finish_reason of every chat is what its caller takes it for (run.py:88-93,
\* groupchat.py:182-188).
THEOREM FinishReasons == Spec => []FinishReasonTold
<1>1. IInv => FinishReasonTold
  BY DEF IInv, ChatInv, Good, Gate, Recorded, Planned, FinishReasonTold
<1> QED
  BY <1>1, Invariance, PTL

\* The plan of a planner call is the planner's, and cost no tool call
\* (groupchat.py:81-98, 233-252).
THEOREM PlansArePlanners == Spec => []PlanIsPlanners
<1>1. IInv => PlanIsPlanners
  BY DEF IInv, ChatInv, Good, Planned, PlanIsPlanners
<1> QED
  BY <1>1, Invariance, PTL

\* No chat of agents other than "user" ends in silence (groupchat.py:116-134).
THEOREM Speech == Spec => []SomebodySpeaks
<1>1. IInv => SomebodySpeaks
  BY DEF IInv, ChatInv, Good, Spoken, SomebodySpeaks
<1> QED
  BY <1>1, Invariance, PTL

-----------------------------------------------------------------------------
(* A chat runs down                                                          *)

\* What is ahead of a chat before its first turn and after its last.
Ahead(pc) == CASE pc = "idle" -> 4 [] pc = "grants" -> 3 [] pc = "tools" -> 2
               [] pc = "ended" -> 0 [] OTHER -> 1

\* From chat ch to chat d there is progress: in what is ahead, else in the
\* messages that the cap leaves, else from the answer to its calls and from each
\* call to one less.
Nearer(ch, d) ==
    \/ Ahead(d.pc) < Ahead(ch.pc)
    \/ /\ Ahead(d.pc) = 1 /\ Ahead(ch.pc) = 1
       /\ \/ ch.messages < d.messages
          \/ /\ d.messages = ch.messages /\ d.pc = "calls"
             /\ \/ ch.pc = "turn"
                \/ ch.pc = "calls" /\ d.calls \subseteq ch.calls /\ d.calls # ch.calls

\* No step of a chat goes back or round: the catalog's edits leave it alone, and
\* what its models answer only decides how it advances.
Advance == \A c \in Chats : chat'[c] = chat[c] \/ Nearer(chat[c], chat'[c])

OnlyAdvances == [][Advance]_vars

LEMMA SaidAdvances ==
    ASSUME NEW ch \in Chat, NEW final \in BOOLEAN, ch.pc \in {"turn", "calls"}
    PROVE  Nearer(ch, Said(ch, final))
<1> DEFINE n == IF ch.messages < MaxMessages THEN ch.messages + 1 ELSE ch.messages
           d == [ch EXCEPT !.messages = n]
           new == [d EXCEPT !.pc = "turn"]
<1>1. /\ d = [ch EXCEPT !.messages = IF @ < MaxMessages THEN @ + 1 ELSE @]
      /\ d.messages = n /\ ch.messages \in 0 .. MaxMessages
  BY DEF Chat
<1>2. Said(ch, final) = IF final \/ Capped(n) THEN Ended(d) ELSE new
  BY <1>1 DEF Said
<1>3. Ended(d).pc = "ended"
  BY DEF Ended, Closed, NewChat
<1>4. new.pc = "turn" /\ new.messages = n
  BY DEF Chat
<1>5. ~Capped(n) => ch.messages < n
  BY <1>1, ChatAssumption DEF Capped
<1> HIDE DEF new, d, n
<1>6. n \in Nat
  BY <1>1, ChatAssumption DEF n
<1>7. CASE final \/ Capped(n)
  BY <1>2, <1>3, <1>7 DEF Nearer, Ahead
<1>8. CASE ~(final \/ Capped(n))
  BY <1>2, <1>4, <1>5, <1>8 DEF Nearer, Ahead
<1> QED
  BY <1>7, <1>8

\* One step of one chat.
LEMMA ChatAdvances ==
    ASSUME IInv, NEW c \in Chats, NEW new, chat' = [chat EXCEPT ![c] = new],
           Nearer(chat[c], new)
    PROVE  Advance
BY DEF Advance, IInv, TypeOK

LEMMA Advancing ==
    IInv /\ [Next]_vars => Advance
<1> SUFFICES ASSUME IInv, [Next]_vars
             PROVE  Advance
  OBVIOUS
<1>1. CASE UNCHANGED chat
  BY <1>1 DEF Advance
<1>2. ASSUME NEW c \in Chats, NEW approved \in BOOLEAN, NEW planning \in BOOLEAN,
             NEW user \in BOOLEAN, ReadAgents(c, approved, planning, user)
      PROVE  Advance
  <2> DEFINE team == {a \in Agents : agent[a].exists}
             new == [chat[c] EXCEPT !.approved = approved, !.planning = planning,
                       !.team = team, !.user = user,
                       !.pc = IF team = {} THEN "ended" ELSE "grants",
                       !.outcome = IF team = {} THEN "error" ELSE "none"]
  <2>1. chat[c].pc = "idle" /\ chat' = [chat EXCEPT ![c] = new]
    BY <1>2 DEF ReadAgents
  <2>2. new.pc \in {"ended", "grants"}
    BY DEF IInv, TypeOK, Chat
  <2> HIDE DEF new
  <2>3. Nearer(chat[c], new)
    BY <2>1, <2>2 DEF Nearer, Ahead
  <2> QED
    BY <2>1, <2>3, ChatAdvances
<1>3. ASSUME NEW c \in Chats, ReadGrants(c)
      PROVE  Advance
  <2> DEFINE grants == [a \in Agents |->
                          IF a \in chat[c].team THEN agent[a].links ELSE {}]
             new == [chat[c] EXCEPT !.pc = "tools", !.grants = grants]
  <2>1. chat[c].pc = "grants" /\ chat' = [chat EXCEPT ![c] = new]
    BY <1>3 DEF ReadGrants
  <2> HIDE DEF grants
  <2>2. new.pc = "tools"
    BY DEF IInv, TypeOK, Chat
  <2> HIDE DEF new
  <2>3. Nearer(chat[c], new)
    BY <2>1, <2>2 DEF Nearer, Ahead
  <2> QED
    BY <2>1, <2>3, ChatAdvances
<1>4. ASSUME NEW c \in Chats, ReadTools(c)
      PROVE  Advance
  <2> DEFINE allowed == [a \in Agents |-> NamesOf(chat[c].grants[a])]
             mutating == [a \in Agents |-> MutatingOf(chat[c].grants[a])]
             asked == [chat[c] EXCEPT !.pc = "turn",
                         !.messages = Input(chat[c].planning), !.grants = NoTools,
                         !.allowed = allowed, !.mutating = mutating]
             new == IF InputAnswers(asked) THEN Ended(asked) ELSE asked
  <2>1. chat[c].pc = "tools" /\ chat' = [chat EXCEPT ![c] = new]
    BY <1>4 DEF ReadTools
  <2> HIDE DEF allowed, mutating
  <2>2. asked.pc = "turn"
    BY DEF IInv, TypeOK, Chat
  <2> HIDE DEF asked
  <2>3. new.pc \in {"turn", "ended"}
    BY <2>2 DEF Ended, Closed, NewChat
  <2> HIDE DEF new
  <2>4. Nearer(chat[c], new)
    BY <2>1, <2>3 DEF Nearer, Ahead
  <2> QED
    BY <2>1, <2>4, ChatAdvances
<1>5. ASSUME NEW c \in Chats, NEW s \in Agents \cup {Planner}, Text(c, s)
      PROVE  Advance
  <2> DEFINE asked == [chat[c] EXCEPT !.speaker = s]
             final == ~chat[c].planning \/ s = Planner
             new == Said(asked, final)
  <2>1. chat[c] \in Chat /\ chat[c].pc = "turn" /\ chat' = [chat EXCEPT ![c] = new]
    BY <1>5 DEF Text, IInv, TypeOK
  <2>2. /\ asked \in Chat /\ asked.pc = "turn"
        /\ asked.messages = chat[c].messages /\ asked.calls = chat[c].calls
    BY <2>1 DEF Chat
  <2>3. final \in BOOLEAN
    OBVIOUS
  <2> HIDE DEF asked, final
  <2>4. Nearer(asked, new)
    BY <2>2, <2>3, SaidAdvances
  <2> HIDE DEF new
  <2>5. Nearer(chat[c], new)
    BY <2>1, <2>2, <2>4 DEF Nearer
  <2> QED
    BY <2>1, <2>5, ChatAdvances
<1>6. ASSUME NEW c \in Chats, NEW a \in Agents, NEW names, ToolCalls(c, a, names)
      PROVE  Advance
  <2> DEFINE mine == names \cap chat[c].allowed[a]
             refused == mine \cap Refused(chat[c], a)
             pending == Noted(chat[c], a, refused # {})
             new == [chat[c] EXCEPT !.pc = "calls", !.speaker = a,
                       !.calls = mine \ refused, !.pending = pending]
  <2>1. chat[c].pc = "turn" /\ chat' = [chat EXCEPT ![c] = new]
    BY <1>6 DEF ToolCalls
  <2> HIDE DEF mine, refused, pending
  <2>2. new.pc = "calls" /\ new.messages = chat[c].messages
    BY DEF IInv, TypeOK, Chat
  <2> HIDE DEF new
  <2>3. Nearer(chat[c], new)
    BY <2>1, <2>2 DEF Nearer, Ahead
  <2> QED
    BY <2>1, <2>3, ChatAdvances
\* An answer to a call.
<1>7. ASSUME NEW c \in Chats, NEW n \in chat[c].calls, NEW pending \in SUBSET Agents,
             chat' = [chat EXCEPT ![c] =
                        [chat[c] EXCEPT !.calls = @ \ {n}, !.pending = pending]]
      PROVE  Advance
  <2> DEFINE new == [chat[c] EXCEPT !.calls = @ \ {n}, !.pending = pending]
  <2>1. /\ chat[c].pc = "calls"
        /\ new.pc = "calls" /\ new.messages = chat[c].messages
        /\ new.calls = chat[c].calls \ {n}
    BY DEF IInv, TypeOK, ChatInv, Good, Spoken, Chat
  <2>2. chat' = [chat EXCEPT ![c] = new]
    BY <1>7
  <2> HIDE DEF new
  <2>3. Nearer(chat[c], new)
    BY <2>1 DEF Nearer, Ahead
  <2> QED
    BY <2>2, <2>3, ChatAdvances
<1>8. ASSUME NEW c \in Chats, NEW n, ToolError(c, n)
      PROVE  Advance
  <2>1. chat[c] \in Chat /\ n \in chat[c].calls
    BY <1>8 DEF ToolError, IInv, TypeOK
  <2>2. [chat[c] EXCEPT !.calls = @ \ {n}]
          = [chat[c] EXCEPT !.calls = @ \ {n}, !.pending = chat[c].pending]
    BY <2>1 DEF Chat
  <2>3. chat[c].pending \in SUBSET Agents
    BY <2>1 DEF Chat
  <2>4. chat' = [chat EXCEPT ![c] = [chat[c] EXCEPT !.calls = @ \ {n}]]
    BY <1>8 DEF ToolError, IInv, TypeOK
  <2> QED
    BY <1>7, <2>1, <2>2, <2>3, <2>4
<1>9. ASSUME NEW c \in Chats, NEW n, NEW marked, RunTool(c, n, marked)
      PROVE  Advance
  <2> DEFINE pending == Noted(chat[c], chat[c].speaker, marked)
  <2>1. chat[c] \in Chat /\ n \in chat[c].calls /\ chat[c].speaker \in Agents
    BY <1>9 DEF RunTool, IInv, TypeOK, ChatInv, Good, Spoken
  <2>2. pending \in SUBSET Agents
    BY <2>1 DEF Noted, Chat
  <2>3. chat' = [chat EXCEPT ![c] =
                   [chat[c] EXCEPT !.calls = @ \ {n}, !.pending = pending]]
    BY <1>9 DEF RunTool
  <2> HIDE DEF pending
  <2> QED
    BY <1>7, <2>1, <2>2, <2>3
<1>10. ASSUME NEW c \in Chats, Summary(c)
       PROVE  Advance
  <2>1. chat[c] \in Chat /\ chat[c].pc = "calls"
    BY <1>10 DEF Summary, IInv, TypeOK
  <2>2. Nearer(chat[c], Said(chat[c], FALSE))
    BY <2>1, SaidAdvances
  <2> QED
    BY <1>10, <2>2, ChatAdvances DEF Summary
<1>11. ASSUME NEW c \in Chats, Fail(c)
       PROVE  Advance
  <2> DEFINE new == Closed(chat[c], "error")
  <2>1. chat[c].pc \in {"grants", "tools", "turn"} /\ chat' = [chat EXCEPT ![c] = new]
    BY <1>11 DEF Fail
  <2>2. new.pc = "ended"
    BY DEF Closed, NewChat
  <2> HIDE DEF new
  <2>3. Nearer(chat[c], new)
    BY <2>1, <2>2 DEF Nearer, Ahead
  <2> QED
    BY <2>1, <2>3, ChatAdvances
<1>12. CASE ChatNext
  BY <1>2, <1>3, <1>4, <1>5, <1>6, <1>8, <1>9, <1>10, <1>11, <1>12 DEF ChatNext, Proceed
<1> QED
  BY <1>1, <1>12 DEF Next, Edit, vars

\* Nothing that a model answers keeps a chat from running down: it is what
\* ChatEnds needs beyond the fairness of its steps (groupchat.py:116-134).
THEOREM Advances == Spec => OnlyAdvances
<1>1. IInv /\ [Next]_vars => [Advance]_vars
  BY Advancing
<1> QED
  BY <1>1, Invariance, PTL DEF Spec, OnlyAdvances

\* Nothing goes on advancing for ever: of any chats whose calls are finitely many,
\* there is one that none of them is nearer than (groupchat.py:116-134).
THEOREM RunsOut ==
    ASSUME NEW T \in SUBSET Chat, T # {}, \A ch \in T : IsFiniteSet(ch.calls)
    PROVE  \E ch \in T : \A d \in T : ~Nearer(ch, d)
<1> DEFINE Stages == {Ahead(ch.pc) + 1 : ch \in T}
<1>1. \A ch \in T : Ahead(ch.pc) \in 0 .. 4
  BY DEF Ahead
<1>2. Stages \in SUBSET (1 .. 5) /\ Stages # {}
  BY <1>1
<1>3. PICK a \in Stages : \A b \in Stages : a <= b
  <2> HIDE DEF Stages
  <2> QED
    BY <1>2, LeastNumber
<1>4. PICK first \in T : Ahead(first.pc) + 1 = a
  BY <1>3
<1>5. \A d \in T : ~(Ahead(d.pc) < Ahead(first.pc))
  BY <1>1, <1>3, <1>4
<1>6. CASE Ahead(first.pc) # 1
  BY <1>5, <1>6 DEF Nearer
<1>7. CASE Ahead(first.pc) = 1
  <2> DEFINE T1 == {ch \in T : Ahead(ch.pc) = 1}
             Left(ch) == MaxMessages + 1 - ch.messages
             Lefts == {Left(ch) : ch \in T1}
  <2>1. \A ch \in T1 : ch.messages \in 0 .. MaxMessages
    BY DEF Chat
  <2>2. Lefts \in SUBSET (1 .. MaxMessages + 1) /\ Lefts # {} /\ MaxMessages + 1 \in Nat
    BY <1>7, <2>1, ChatAssumption
  <2>3. PICK b \in Lefts : \A k \in Lefts : b <= k
    <3> HIDE DEF Lefts
    <3> QED
      BY <2>2, LeastNumber
  <2>4. PICK last \in T1 : Left(last) = b
    BY <2>3
  <2>5. \A d \in T1 : d.messages <= last.messages
    <3> SUFFICES ASSUME NEW d \in T1 PROVE d.messages <= last.messages
      OBVIOUS
    <3>1. Left(last) <= Left(d)
      BY <2>3, <2>4
    <3>2. d.messages \in Nat /\ last.messages \in Nat
      BY <2>1
    <3> QED
      BY <3>1, <3>2, ChatAssumption
  <2> HIDE DEF Left, Lefts
  <2> DEFINE T2 == {ch \in T1 : ch.messages = last.messages}
             T3 == {ch \in T2 : ch.pc = "calls"}
  <2>6. \A ch \in T2, d \in T :
          Nearer(ch, d) => /\ d \in T3
                           /\ \/ ch.pc = "turn"
                              \/ /\ ch.pc = "calls"
                                 /\ d.calls \subseteq ch.calls /\ d.calls # ch.calls
    <3> SUFFICES ASSUME NEW ch \in T2, NEW d \in T, Nearer(ch, d)
                 PROVE  /\ d \in T3
                        /\ \/ ch.pc = "turn"
                           \/ /\ ch.pc = "calls"
                              /\ d.calls \subseteq ch.calls /\ d.calls # ch.calls
      OBVIOUS
    <3>1. ~(Ahead(d.pc) < Ahead(ch.pc))
      BY <1>5, <1>7
    <3>2. d \in T1
      BY <3>1 DEF Nearer
    <3>3. ~(ch.messages < d.messages)
      BY <2>1, <2>5, <3>2, ChatAssumption
    <3> QED
      BY <3>1, <3>2, <3>3 DEF Nearer
  <2>7. CASE T3 = {}
    BY <2>6, <2>7
  <2>8. CASE T3 # {}
    <3> DEFINE R == StrictSubsetOrdering(Names)
               S == {ch.calls : ch \in T3}
    <3>1. IsWellFoundedOn(R, FiniteSubsetsOf(Names))
      BY FS_StrictSubsetOrderingWellFounded
    <3>2. S \subseteq FiniteSubsetsOf(Names) /\ S # {}
      BY <2>8 DEF FiniteSubsetsOf, Chat
    <3>3. PICK few \in S : \A s \in S : <<s, few>> \notin R
      <4> HIDE DEF R, S
      <4> QED
        BY <3>1, <3>2, WFMin
    <3>4. PICK ch \in T3 : ch.calls = few
      BY <3>3
    <3>5. ASSUME NEW d \in T, Nearer(ch, d)
          PROVE  FALSE
      <4>1. d \in T3 /\ d.calls \subseteq few /\ d.calls # few
        BY <2>6, <3>4, <3>5
      <4>2. d.calls \in SUBSET Names /\ few \in SUBSET Names
        BY <3>4, <4>1 DEF Chat
      <4> QED
        BY <3>3, <4>1, <4>2 DEF StrictSubsetOrdering
    <3> QED
      BY <3>4, <3>5
  <2> QED
    BY <2>7, <2>8
<1> QED
  BY <1>6, <1>7
=============================================================================
