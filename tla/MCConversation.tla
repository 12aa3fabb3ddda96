--------------------------- MODULE MCConversation ---------------------------
(***************************************************************************)
(* Conversation on a small instance: up to two agents, of which one has at   *)
(* most http_request, and a catalog that nobody edits.                       *)
(***************************************************************************)
EXTENDS Conversation

CONSTANTS HttpTool, QueryTool

MCInit ==
    /\ ConvInit
    /\ tool[HttpTool] = [name |-> "http_request", mutating |-> TRUE]
    /\ tool[QueryTool] = [name |-> "query_database", mutating |-> FALSE]
    /\ \A a \in Agents : agent[a].wanted \in {{}, {HttpTool}, Tools}
    /\ \A a, b \in Agents : agent[a].wanted = Tools /\ agent[b].wanted = Tools => a = b

MCSpec == MCInit /\ [][ConvNext]_<<vars, convVars>>

AgentSymmetry == Permutations(Agents)
=============================================================================
