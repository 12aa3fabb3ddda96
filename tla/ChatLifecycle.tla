--------------------------- MODULE ChatLifecycle ---------------------------
(***************************************************************************)
(* What the Chat RPC promises job_svc about one chat, with the team, the     *)
(* turns and the catalog left out: when tools may run, and what the          *)
(* finish_reason of the reply says of the calls that did not.  GroupChat     *)
(* implements it.                                                           *)
(***************************************************************************)
CONSTANTS Chats, Names

VARIABLES
    status,   \* of each chat: not there yet, open, its finish_reason, an error
    request,  \* what its caller asked for
    ran,      \* the names of the tools that have run
    withheld  \* whether a call awaits approval

chatLifecycleVars == <<status, request, ran, withheld>>

Status == {"absent", "open", "stop", "requires_approval", "error"}

\* `planning`: there is a message of role system among those of the request.
Request == [approved : BOOLEAN, planning : BOOLEAN]

Init ==
    /\ status = [c \in Chats |-> "absent"]
    /\ request = [c \in Chats |-> [approved |-> FALSE, planning |-> FALSE]]
    /\ ran = [c \in Chats |-> {}]
    /\ withheld = [c \in Chats |-> FALSE]

\* A tenant without agents has no chat.
Arrive(c) ==
    /\ status[c] = "absent"
    /\ \E r \in Request : request' = [request EXCEPT ![c] = r]
    /\ \E s \in {"open", "error"} : status' = [status EXCEPT ![c] = s]
    /\ UNCHANGED <<ran, withheld>>

Works(c) == status[c] = "open" /\ ~request[c].planning

\* The gate, which an approved chat does not have.
Withhold(c) ==
    /\ Works(c) /\ ~request[c].approved
    /\ withheld' = [withheld EXCEPT ![c] = TRUE]
    /\ UNCHANGED <<status, request, ran>>

\* A tool runs.  Its result may say that it needs an approval of its own.
Run(c, n) ==
    /\ Works(c)
    /\ ran' = [ran EXCEPT ![c] = @ \cup {n}]
    /\ \E marked \in BOOLEAN : withheld' = [withheld EXCEPT ![c] = @ \/ marked]
    /\ UNCHANGED <<status, request>>

Reply(c) ==
    /\ status[c] = "open"
    /\ status' = [status EXCEPT ![c] =
                    IF withheld[c] THEN "requires_approval" ELSE "stop"]
    /\ UNCHANGED <<request, ran, withheld>>

Abort(c) ==
    /\ status[c] = "open"
    /\ status' = [status EXCEPT ![c] = "error"]
    /\ UNCHANGED <<request, ran, withheld>>

Next ==
    \E c \in Chats :
      \/ Arrive(c) \/ Withhold(c) \/ Reply(c) \/ Abort(c)
      \/ \E n \in Names : Run(c, n)

Spec == Init /\ [][Next]_chatLifecycleVars

=============================================================================
