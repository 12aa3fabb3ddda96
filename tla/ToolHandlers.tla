---------------------------- MODULE ToolHandlers ----------------------------
(***************************************************************************)
(* What the handlers of mcp_svc (handlers.py) answer to a call, and what a   *)
(* text that passes between the services is here: the set of the things that *)
(* a guardrail or a property can tell of it.                                 *)
(***************************************************************************)
EXTENDS Integers, Sequences, FiniteSets

\* "pii": an identifier of a person, in a form that the patterns catch;
\* "term": a blocklisted term that a caller or a tool wrote;
\* "own": a blocklisted term that the model wrote;
\* "long": longer by itself than the gateway's max_input_chars;
\* "foreign": rows of another tenant, through a table that the query names;
\* "fetched": rows that a function in the query read by itself, of any tenant.
Marks == {"pii", "term", "own", "long", "foreign", "fetched"}
Texts == SUBSET Marks

\* Texts from outside.  What else there is in a long one makes no difference: no
\* request holds it.
Outside ==
    {text \in SUBSET {"pii", "term", "long"} : "long" \in text => text = {"long"}}

----------------------------------------------------------------------------
(* http_request.  A host is nothing, one of the names of this machine or of  *)
(* the metadata service, an address, or another name.                        *)

Url == [scheme : {"http", "other"},
        host : {"none", "internal name", "internal address", "address", "name"}]

\* _assert_url_is_public: it resolves no name.
IsPublic(url) == url.scheme = "http" /\ url.host \in {"address", "name"}

HttpRequest == [named : BOOLEAN,     \* both `method` and `url` are given
                url : Url,
                response : {"none", "json", "text"}]

\* A response is anything that the server at the other end may write.  Its text
\* is cut at max_response_chars and its JSON is not; both may be longer than
\* max_input_chars (20 000 against 8 000).
Written(response) == IF response = "none" THEN {{}} ELSE Outside

\* A refused request raises, and server.py makes a result of the error, which
\* quotes the arguments; so does the payload of a failed one.
HttpResults(r) == IF r.named /\ IsPublic(r.url) THEN Written(r.response) ELSE {{}}

----------------------------------------------------------------------------
(* query_database.  A query is what _validate_query_database_sql looks at,   *)
(* the tables it refers to anywhere, in a join or a subquery, and whether it *)
(* calls a function of the database that reads rows by itself.               *)

TableRef == [name : {"customers", "invoices", "other"}, schema : BOOLEAN]

Query == [statements : 0 .. 2,
          select : BOOLEAN,
          with : BOOLEAN,
          tables : SUBSET TableRef,
          reads : BOOLEAN]

\* A call of a function is no table reference, so nothing here looks at it.
Accepted(q) ==
    /\ q.statements = 1 /\ q.select /\ ~q.with
    /\ \A t \in q.tables : ~t.schema
    /\ q.tables # {} /\ \A t \in q.tables : t.name \in {"customers", "invoices"}

\* The table references of the rewritten query: the CTEs of the tenant's rows.
\* What a function reads is not rewritten.
Rewritten_First(q) ==
    LET first == CHOOSE t \in q.tables : TRUE IN
    {[name |-> t.name, scoped |-> t = first] : t \in q.tables}
Rewritten(q) == {[name |-> t.name, scoped |-> TRUE] : t \in q.tables}

\* At most _QUERY_MAX_ROWS rows, of any width; an error is a payload.  Whose rows
\* there are in a text that the gateway refuses anyhow makes no difference.
Rows(q) ==
    LET unscoped == IF \A t \in Rewritten(q) : t.scoped THEN {} ELSE {"foreign"}
        read == IF q.reads THEN {"fetched"} ELSE {} IN
    Outside \cup {text \cup more : text \in SUBSET {"pii"}, more \in SUBSET (unscoped \cup read)}
QueryResults(q) == IF Accepted(q) THEN Rows(q) ELSE {{}}

----------------------------------------------------------------------------
(* _HANDLERS: what a call of the name that is bound may bring in.            *)

Brought == [http_request |-> UNION {HttpResults(r) : r \in HttpRequest},
            query_database |-> UNION {QueryResults(q) : q \in Query}]

\* The result, with whatever it quotes of the arguments.
Results(name, args) ==
    IF name \in DOMAIN Brought
    THEN {text \cup quoted : text \in Brought[name], quoted \in SUBSET args}
    ELSE {}
=============================================================================
