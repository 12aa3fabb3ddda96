------------------------------ MODULE Catalog ------------------------------
(***************************************************************************)
(* One tenant's agents and tools (services/agents.py, services/tools.py):   *)
(* the tables `tools`, `agents` and the grants between them, `agent_tools`. *)
(*                                                                          *)
(* ToolService's calls and the creation and deletion of an agent change     *)
(* their tables in one statement, or in statements that nobody else can     *)
(* come between.  UpdateAgent is the exception: it rewrites the row, deletes *)
(* the grants and then looks up the tools to grant, so its transaction is    *)
(* two steps, under the lock that the UPDATE of the row takes (the DELETE    *)
(* flushes it first).  A read that runs in between sees what was committed.  *)
(*                                                                          *)
(* The other columns of an agent (name, instructions, version) are left out. *)
(***************************************************************************)
EXTENDS Integers

CONSTANTS
    Agents,     \* ids of agents, a finite set standing for all uuids
    Tools,      \* ids of tools
    Names,      \* the names a tool may be given
    NoName,     \* the name of a tool that does not exist
    MaxWrites   \* bound: calls that change the catalog

ASSUME CatalogAssumption == NoName \notin Names /\ MaxWrites \in Nat

VARIABLES
    tool,       \* the `tools` table
    agent,      \* the `agents` table and the grants of each agent
    updates,    \* the UpdateAgent transactions in flight
    writes      \* what is left of MaxWrites

catalogVars == <<tool, agent, updates, writes>>

Tool == [name : Names \cup {NoName}, mutating : BOOLEAN]
NoTool == [name |-> NoName, mutating |-> FALSE]

\* The tool_ids of a CreateAgent or UpdateAgent; an empty list is refused.
ToolIds == SUBSET Tools \ {{}}

\* `wanted` is the tool_ids of the last CreateAgent or UpdateAgent that was
\* committed; no column holds it.
Agent == [exists : BOOLEAN, wanted : SUBSET Tools, links : SUBSET Tools]
NoAgent == [exists |-> FALSE, wanted |-> {}, links |-> {}]

Update == [agent : Agents, wanted : SUBSET Tools,
           gone : SUBSET Tools,    \* grants its DELETE has found
           new : SUBSET Tools]     \* grants it is going to insert

Existing == {t \in Tools : tool[t].name # NoName}
Named(n) == {t \in Existing : tool[t].name = n}
MutatingNames == {tool[t].name : t \in {u \in Existing : tool[u].mutating}}

NewAgent(wanted) ==
    [exists |-> TRUE, wanted |-> wanted, links |-> wanted \cap Existing]

UniqueNames ==
    \A t, u \in Existing : tool[t].name = tool[u].name => t = u

\* A catalog in which every tool exists and every agent that exists has been
\* granted some of them.
CatalogInit ==
    /\ tool \in [Tools -> [name : Names, mutating : BOOLEAN]]
    /\ UniqueNames
    /\ agent \in [Agents -> {NoAgent} \cup {NewAgent(w) : w \in ToolIds}]
    /\ updates = {}
    /\ writes = MaxWrites

Write == writes > 0 /\ writes' = writes - 1

----------------------------------------------------------------------------
(* ToolService.  A name that is taken raises ConflictError.                 *)

CreateTool(t, n, mutating) ==
    /\ Write
    /\ t \notin Existing /\ Named(n) = {}
    /\ tool' = [tool EXCEPT ![t] = [name |-> n, mutating |-> mutating]]
    /\ UNCHANGED <<agent, updates>>

UpdateTool_TakenName(t, n, mutating) ==
    /\ Write
    /\ t \in Existing
    /\ tool' = [tool EXCEPT ![t] = [name |-> n, mutating |-> mutating]]
    /\ UNCHANGED <<agent, updates>>

UpdateTool(t, n, mutating) ==
    /\ Write
    /\ t \in Existing /\ Named(n) \subseteq {t}
    /\ tool' = [tool EXCEPT ![t] = [name |-> n, mutating |-> mutating]]
    /\ UNCHANGED <<agent, updates>>

\* The grants of the tool go with it (ON DELETE CASCADE).  The cascade waits
\* for a transaction that has deleted one of them itself.
DeleteTool(t) ==
    /\ Write
    /\ t \in Existing
    /\ \A u \in updates : t \notin u.gone
    /\ tool' = [tool EXCEPT ![t] = NoTool]
    /\ agent' = [a \in Agents |-> [agent[a] EXCEPT !.links = @ \ {t}]]
    /\ UNCHANGED updates

----------------------------------------------------------------------------
(* AgentService                                                             *)

CreateAgent(a, wanted) ==
    /\ Write
    /\ ~agent[a].exists
    /\ agent' = [agent EXCEPT ![a] = NewAgent(wanted)]
    /\ UNCHANGED <<tool, updates>>

Locked(a) == \E u \in updates : u.agent = a

\* UPDATE agents, DELETE FROM agent_tools, SELECT FROM tools.
UpdateAgent_NoLock(a, wanted) ==
    /\ Write
    /\ agent[a].exists
    /\ updates' = updates \cup
         {[agent |-> a, wanted |-> wanted,
           gone |-> agent[a].links, new |-> wanted \cap Existing]}
    /\ UNCHANGED <<tool, agent>>

UpdateAgent(a, wanted) ==
    /\ Write
    /\ agent[a].exists /\ ~Locked(a)
    /\ updates' = updates \cup
         {[agent |-> a, wanted |-> wanted,
           gone |-> agent[a].links, new |-> wanted \cap Existing]}
    /\ UNCHANGED <<tool, agent>>

\* INSERT INTO agent_tools and COMMIT.  A tool deleted meanwhile fails the
\* foreign key, and the transaction with it.
CommitUpdate(u) ==
    /\ u.new \subseteq Existing
    /\ agent' = [agent EXCEPT ![u.agent] =
         [exists |-> TRUE, wanted |-> u.wanted,
          links |-> (@.links \ u.gone) \cup u.new]]
    /\ updates' = updates \ {u}
    /\ UNCHANGED <<tool, writes>>

AbortUpdate(u) ==
    /\ updates' = updates \ {u}
    /\ UNCHANGED <<tool, agent, writes>>

DeleteAgent(a) ==
    /\ Write
    /\ agent[a].exists /\ ~Locked(a)
    /\ agent' = [agent EXCEPT ![a] = NoAgent]
    /\ UNCHANGED <<tool, updates>>

CatalogNext ==
    \/ \E t \in Tools, n \in Names, m \in BOOLEAN :
         CreateTool(t, n, m) \/ UpdateTool(t, n, m)
    \/ \E t \in Tools : DeleteTool(t)
    \/ \E a \in Agents, wanted \in ToolIds :
         CreateAgent(a, wanted) \/ UpdateAgent(a, wanted)
    \/ \E u \in updates : CommitUpdate(u) \/ AbortUpdate(u)
    \/ \E a \in Agents : DeleteAgent(a)

----------------------------------------------------------------------------
CatalogTypeOK ==
    /\ tool \in [Tools -> Tool]
    /\ agent \in [Agents -> Agent]
    /\ updates \subseteq Update
    /\ writes \in 0 .. MaxWrites

\* An agent is granted only tools that the last committed CreateAgent or
\* UpdateAgent named (agents.py:79-102): two updates of an agent at once do
\* not leave it with the grants of both.
GrantsMatchUpdate == \A a \in Agents : agent[a].links \subseteq agent[a].wanted
=============================================================================
