-------------------------------- MODULE Mcp --------------------------------
(*****************************************************************************)
(* The MCP servers of a process (zhive-mcp): the parallel connection and     *)
(* discovery at boot, the registration of what was found after the built-in  *)
(* tools, a call of a tool with its timeout and cancellation, the reads of   *)
(* resources and prompts, and the shutdown that closes the connections in    *)
(* turn before the engine goes down.                                         *)
(*                                                                           *)
(* A name is the sequence of its parts between double underscores: the only  *)
(* thing the code does with one is to join server and tool.  The servers,    *)
(* and what rmcp does with a connection, are external.                       *)
(*****************************************************************************)
EXTENDS Naturals, Sequences, FiniteSets

CONSTANTS
    Configs,    \* the configured servers, in the order of the table
    Offers,     \* per server, the tools it may list, in its order
    Builtins,   \* the names of the built-in tools
    McpCalls,   \* requests to the servers
    McpAsks     \* what a request may be

VARIABLES
    conn,       \* per server, how far its connection is
    listed,     \* per server, the tools it listed
    offered,    \* per server, whether resources and prompts were listed
    boot,       \* connecting, running, closing or closed
    toolTable,  \* per registered name, its owner
    asked,      \* per request, how far it is
    mail,       \* per server, the messages on their way to it
    remote,     \* per request, what the server made of it
    turnEnded,  \* the calls whose turn token fired
    sound       \* the servers whose connection met no fault yet

mcpVars == <<conn, listed, offered, boot, toolTable, asked, mail, remote, turnEnded, sound>>

Servers == {Configs[i] : i \in DOMAIN Configs}
Position(s) == CHOOSE i \in DOMAIN Configs : Configs[i] = s
Idle == [pc |-> "none", kind |-> "none", server |-> <<>>, tool |-> <<>>]

(* `namespaced_name`. *)
Namespaced(s, tool) == <<"mcp">> \o s \o tool

Init ==
    /\ conn = [s \in Servers |-> "open"]
    /\ listed = [s \in Servers |-> <<>>]
    /\ offered = [s \in Servers |-> {}]
    /\ boot = "connecting"
    /\ toolTable = [n \in {<<b>> : b \in Builtins} |-> [server |-> <<>>, tool |-> n]]
    /\ asked = [c \in McpCalls |-> Idle]
    /\ mail = [s \in Servers |-> <<>>]
    /\ remote = [c \in McpCalls |-> "unknown"]
    /\ turnEnded = {}
    /\ sound = Servers

-----------------------------------------------------------------------------
(* Boot: one attempt per server, side by side.                              *)

Attempt(s, stage) == conn' = [conn EXCEPT ![s] = stage]

(* The transport is built, then the client shakes hands. *)
Reach(s) ==
    /\ conn[s] = "open"
    /\ Attempt(s, "tools")
    /\ UNCHANGED <<listed, offered, boot, toolTable, asked, mail, remote, turnEnded, sound>>

(* A bad command or header, a failed handshake, or the connect timeout,     *)
(* which spans discovery too.                                               *)
AttemptFails(s) ==
    /\ conn[s] \in {"open", "tools", "resources", "prompts"}
    /\ Attempt(s, "failed")
    /\ sound' = sound \ {s}
    /\ UNCHANGED <<listed, offered, boot, toolTable, asked, mail, remote, turnEnded>>

(* A server that does not know tools/list has none; any other error of the  *)
(* listing is an AttemptFails.                                              *)
ListTools(s) ==
    /\ conn[s] = "tools"
    /\ \E found \in {<<>>, Offers[s]} : listed' = [listed EXCEPT ![s] = found]
    /\ Attempt(s, "resources")
    /\ UNCHANGED <<offered, boot, toolTable, asked, mail, remote, turnEnded, sound>>

(* Resources, then prompts: any error leaves the list empty. *)
ListExtras(s) ==
    /\ conn[s] \in {"resources", "prompts"}
    /\ \E more \in {{}, {conn[s]}} : offered' = [offered EXCEPT ![s] = @ \cup more]
    /\ Attempt(s, IF conn[s] = "resources" THEN "prompts" ELSE "up")
    /\ UNCHANGED <<listed, boot, toolTable, asked, mail, remote, turnEnded, sound>>

(* `McpManager::tools`: the connected servers in the order of the table. *)
Found ==
    LET tools(i) == IF conn[Configs[i]] # "failed"
                    THEN [k \in DOMAIN listed[Configs[i]] |->
                            [server |-> Configs[i], tool |-> listed[Configs[i]][k]]]
                    ELSE <<>>
        from[i \in 0..Len(Configs)] == IF i = 0 THEN <<>> ELSE from[i - 1] \o tools(i)
    IN  from[Len(Configs)]

(* `ToolRegistry::register` one after the other: the last of a name stays. *)
Registered(found) ==
    LET named(n) == {k \in DOMAIN found : Namespaced(found[k].server, found[k].tool) = n}
        names == {Namespaced(found[k].server, found[k].tool) : k \in DOMAIN found}
    IN  [n \in DOMAIN toolTable \cup names |->
           IF named(n) = {} THEN toolTable[n]
           ELSE found[CHOOSE k \in named(n) : \A j \in named(n) : j <= k]]

(* `join_all` waits for every attempt; then the tools are registered. *)
Join ==
    /\ boot = "connecting" /\ \A s \in Servers : conn[s] \in {"up", "dead", "failed"}
    /\ toolTable' = Registered(Found)
    /\ boot' = "running"
    /\ UNCHANGED <<conn, listed, offered, asked, mail, remote, turnEnded, sound>>

-----------------------------------------------------------------------------
(* A request.                                                               *)

Step(c, pc) == asked' = [asked EXCEPT ![c].pc = pc]

(* A tool is found by its registered name, a resource or a prompt by the    *)
(* name of a server that connected.                                         *)
Call(c) ==
    /\ boot # "connecting" /\ asked[c].pc = "none"
    /\ \E ask \in McpAsks :
         \/ /\ ask.kind = "tool" /\ boot # "closed" /\ ask.name \in DOMAIN toolTable
            /\ toolTable[ask.name].server # <<>>
            /\ asked' = [asked EXCEPT ![c] =
                           [pc |-> IF ask.object THEN "send" ELSE "error", kind |-> "tool",
                            server |-> toolTable[ask.name].server, tool |-> toolTable[ask.name].tool]]
         \/ /\ ask.kind # "tool" /\ boot = "running"
            /\ asked' = [asked EXCEPT ![c] =
                           [pc |-> IF ask.server \in Servers /\ conn[ask.server] # "failed"
                                   THEN "send" ELSE "error",
                            kind |-> ask.kind, server |-> ask.server, tool |-> <<>>]]
    /\ UNCHANGED <<conn, listed, offered, boot, toolTable, mail, remote, turnEnded, sound>>

(* `send_cancellable_request` and its plain siblings. *)
Send(c) ==
    /\ asked[c].pc = "send"
    /\ LET s == asked[c].server
       IN  IF conn[s] = "up"
           THEN /\ Step(c, "waiting")
                /\ mail' = [mail EXCEPT ![s] = Append(@, [kind |-> "call", id |-> c])]
           ELSE Step(c, "error") /\ UNCHANGED mail
    /\ UNCHANGED <<conn, listed, offered, boot, toolTable, remote, turnEnded, sound>>

(* The answer: a result that is flagged, or of another type, is an error. *)
Receive(c) ==
    /\ asked[c].pc = "waiting" /\ remote[c] = "answered" /\ c \notin turnEnded
    /\ Step(c, "ok") \/ Step(c, "error")
    /\ UNCHANGED <<conn, listed, offered, boot, toolTable, mail, remote, turnEnded, sound>>

(* The connection went away under the request. *)
TransportError(c) ==
    /\ asked[c].pc = "waiting" /\ conn[asked[c].server] # "up" /\ c \notin turnEnded
    /\ Step(c, "error")
    /\ UNCHANGED <<conn, listed, offered, boot, toolTable, mail, remote, turnEnded, sound>>

(* The notice that a call is no longer wanted; none leaves a closed connection. *)
Tell(c) ==
    LET s == asked[c].server
    IN  mail' = IF conn[s] = "up"
                 THEN [mail EXCEPT ![s] = Append(@, [kind |-> "cancel", id |-> c])] ELSE mail

(* The call's budget runs out: rmcp tells the server.  Reads have no budget. *)
CallTimeout(c) ==
    /\ asked[c].pc = "waiting" /\ asked[c].kind = "tool" /\ c \notin turnEnded
    /\ Step(c, "timeout") /\ Tell(c)
    /\ UNCHANGED <<conn, listed, offered, boot, toolTable, remote, turnEnded, sound>>

(* Mutant: the call just returns *)
NoticeKeptBack(c) ==
    /\ asked[c].pc = "waiting" /\ asked[c].kind = "tool" /\ c \in turnEnded
    /\ Step(c, "cancelled")
    /\ UNCHANGED <<conn, listed, offered, boot, toolTable, mail, remote, turnEnded, sound>>

(* The tool's own branch on the token: the server is told, then the call    *)
(* returns.                                                                 *)
Notice(c) ==
    /\ asked[c].pc = "waiting" /\ asked[c].kind = "tool" /\ c \in turnEnded
    /\ Step(c, "cancelled") /\ Tell(c)
    /\ UNCHANGED <<conn, listed, offered, boot, toolTable, remote, turnEnded, sound>>

(* The dispatch's branch on the turn's token, which it looks at first: the  *)
(* call's future is dropped where it stands.                                *)
Drop(c) ==
    /\ asked[c].pc \in {"send", "waiting"} /\ asked[c].kind = "tool" /\ c \in turnEnded
    /\ Step(c, "dropped")
    /\ UNCHANGED <<conn, listed, offered, boot, toolTable, mail, remote, turnEnded, sound>>

-----------------------------------------------------------------------------
(* `McpManager::shutdown`: one connection after the other.                  *)

Shutdown ==
    /\ boot = "running"
    /\ boot' = "closing"
    /\ UNCHANGED <<conn, listed, offered, toolTable, asked, mail, remote, turnEnded, sound>>

CloseNext ==
    /\ boot = "closing"
    /\ LET left == {s \in Servers : conn[s] \in {"up", "dead"}}
       IN  IF left = {} THEN boot' = "closed" /\ UNCHANGED <<conn, mail>>
           ELSE LET s == CHOOSE s \in left : \A t \in left : Position(s) <= Position(t)
                IN  /\ Attempt(s, "closed") /\ mail' = [mail EXCEPT ![s] = <<>>]
                    /\ UNCHANGED boot
    /\ UNCHANGED <<listed, offered, toolTable, asked, remote, turnEnded, sound>>

-----------------------------------------------------------------------------
(* External: the turn's token, the servers and their deaths.                *)

EndTurn(c) ==
    /\ asked[c].kind = "tool" /\ c \notin turnEnded
    /\ turnEnded' = turnEnded \cup {c}
    /\ UNCHANGED <<conn, listed, offered, boot, toolTable, asked, mail, remote, sound>>

ServerTakes(s) ==
    /\ conn[s] = "up" /\ mail[s] # <<>>
    /\ LET msg == Head(mail[s])
       IN  remote' = [remote EXCEPT ![msg.id] =
                        CASE msg.kind = "call" -> "working"
                          [] msg.kind = "cancel" /\ @ = "working" -> "stopped"
                          [] OTHER -> @]
    /\ mail' = [mail EXCEPT ![s] = Tail(@)]
    /\ UNCHANGED <<conn, listed, offered, boot, toolTable, asked, turnEnded, sound>>

ServerAnswers(c) ==
    /\ remote[c] = "working" /\ conn[asked[c].server] = "up"
    /\ remote' = [remote EXCEPT ![c] = "answered"]
    /\ UNCHANGED <<conn, listed, offered, boot, toolTable, asked, mail, turnEnded, sound>>

ServerDies(s) ==
    /\ conn[s] = "up"
    /\ Attempt(s, "dead") /\ mail' = [mail EXCEPT ![s] = <<>>] /\ sound' = sound \ {s}
    /\ UNCHANGED <<listed, offered, boot, toolTable, asked, remote, turnEnded>>

Next ==
    \/ \E s \in Servers :
         \/ Reach(s) \/ AttemptFails(s) \/ ListTools(s) \/ ListExtras(s)
         \/ ServerTakes(s) \/ ServerDies(s)
    \/ Join \/ Shutdown \/ CloseNext
    \/ \E c \in McpCalls :
         \/ Call(c) \/ Send(c) \/ Receive(c) \/ TransportError(c) \/ CallTimeout(c)
         \/ Notice(c) \/ Drop(c) \/ EndTurn(c) \/ ServerAnswers(c)

Spec == Init /\ [][Next]_mcpVars

-----------------------------------------------------------------------------
Owner == [server : Servers \cup {<<>>}, tool : {<<b>> : b \in Builtins}
                                               \cup UNION {{Offers[s][k] : k \in DOMAIN Offers[s]} : s \in Servers}]

(* Connections, tools and requests have their types. *)
TypeOK ==
    /\ \A s \in Servers :
         /\ conn[s] \in {"open", "tools", "resources", "prompts", "up", "dead", "failed", "closed"}
         /\ listed[s] \in {<<>>, Offers[s]}
         /\ offered[s] \subseteq {"resources", "prompts"}
         /\ \A k \in DOMAIN mail[s] : mail[s][k].kind \in {"call", "cancel"}
    /\ boot \in {"connecting", "running", "closing", "closed"}
    /\ \A n \in DOMAIN toolTable : toolTable[n] \in Owner
    /\ \A c \in McpCalls :
         /\ asked[c].pc \in {"none", "send", "waiting", "ok", "error", "timeout", "cancelled", "dropped"}
         /\ remote[c] \in {"unknown", "working", "stopped", "answered"}
    /\ turnEnded \subseteq McpCalls /\ sound \subseteq Servers

(* Every tool of a server whose connection met no fault can be called under *)
(* its name, whatever became of the other servers, unless a server later in *)
(* the table has a tool that joins to the same name; no built-in is hidden. *)
OneFailsAlone ==
    boot # "connecting" =>
        /\ \A s \in sound : \A k \in DOMAIN listed[s] :
             LET n == Namespaced(s, listed[s][k])
             IN  /\ n \in DOMAIN toolTable
                 /\ Namespaced(toolTable[n].server, toolTable[n].tool) = n
                 /\ Position(toolTable[n].server) >= Position(s)
        /\ \A b \in Builtins : toolTable[<<b>>].server = <<>>

Coming(s, c) == {k \in DOMAIN mail[s] : mail[s][k] = [kind |-> "call", id |-> c]}
CalledOff(s, c) == {k \in DOMAIN mail[s] : mail[s][k] = [kind |-> "cancel", id |-> c]}

(* A server never goes on with a call that was given up by its own timeout  *)
(* or its own look at the token without the notice reaching it, as long as  *)
(* the connection stands; a call the dispatch dropped is the exception.     *)
(* The notice never overtakes the call.                                     *)
AbandonedIsTold ==
    \A c \in McpCalls :
        LET s == asked[c].server
        IN  asked[c].pc \in {"timeout", "cancelled"} /\ conn[s] = "up"
            /\ (remote[c] = "working" \/ Coming(s, c) # {})
                => \E k \in CalledOff(s, c) : \A j \in Coming(s, c) : j < k

(* MCP servers fail one by one, and calls that are given up are called off  *)
(* at the server.                                                           *)
McpSafe == OneFailsAlone /\ AbandonedIsTold
=============================================================================
