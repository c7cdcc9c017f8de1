------------------------------ MODULE MCParts -------------------------------
(*****************************************************************************)
(* The components around the engine, each checked on its own instance: a     *)
(* behaviour picks one of them in its initial state.  Only the chosen one    *)
(* has a state, so all of them share one set of variables.                   *)
(*****************************************************************************)
EXTENDS Naturals, Sequences, FiniteSets, TLC

(* An audit hook of the process, bounded by a timeout, and a subprocess that *)
(* guards one tool without one.                                              *)
HookAttr ==
    [audit |-> [exec |-> "process", budget |-> TRUE, tools |-> {}],
     guard |-> [exec |-> "subprocess", budget |-> FALSE, tools |-> {"bash"}]]

(* Every place that dispatches a hook. *)
HookCallers ==
    {[kind |-> "tool", tool |-> "bash"], [kind |-> "fold", tool |-> "bash"],
     [kind |-> "compact", tool |-> "none"], [kind |-> "direct", tool |-> "none"]}

HookReplies ==
    {[stop |-> FALSE, vote |-> "Deny", input |-> "keep"],
     [stop |-> FALSE, vote |-> "Ask", input |-> "rewritten"],
     [stop |-> TRUE, vote |-> "Allow", input |-> "malformed"]}

(* Scopes of a turn: open, narrow and bypassing. *)
TurnScopes ==
    {[allowed |-> {}, denied |-> {}, mode |-> {}, spawn |-> FALSE],
     [allowed |-> {{"agent", "skill"}}, denied |-> {}, mode |-> {"AcceptEdits"}, spawn |-> FALSE],
     [allowed |-> {}, denied |-> {"bash"}, mode |-> {"BypassPermissions"}, spawn |-> TRUE]}

(* Definitions a client sends: inherit all, ask for more, ask to recurse. *)
ChildDefinitions ==
    {[allowed |-> {}, denied |-> {"skill"}, mode |-> {}, spawn |-> FALSE],
     [allowed |-> {{"agent", "bash"}}, denied |-> {}, mode |-> {"AcceptEdits"}, spawn |-> FALSE],
     [allowed |-> {}, denied |-> {}, mode |-> {"Plan"}, spawn |-> TRUE]}

(* A line with and one without trailing blanks. *)
Line(word) == [word |-> word, blank |-> FALSE]
Blank(word) == [word |-> word, blank |-> TRUE]

TargetText == [there |-> TRUE, text |-> TRUE, whole |-> TRUE, lines |-> <<Line("x"), Blank("x"), Line("y")>>]

TargetFiles ==
    {TargetText, [TargetText EXCEPT !.text = FALSE],
     [there |-> FALSE, text |-> TRUE, whole |-> TRUE, lines |-> <<>>]}

(* Two servers whose tools join to one name. *)
McpConfigs == <<<<"a">>, <<"a", "b">>>>
McpOffers == (<<"a">> :> <<<<"b", "t">>>>) @@ (<<"a", "b">> :> <<<<"t">>, <<"u">>>>)

McpRequests ==
    {[kind |-> "tool", name |-> <<"mcp", "a", "b", "t">>, object |-> TRUE],
     [kind |-> "tool", name |-> <<"mcp", "a", "b", "u">>, object |-> FALSE],
     [kind |-> "resource", server |-> <<"a">>], [kind |-> "prompt", server |-> <<"b">>]}

(* Skills that differ in who may run them, and documents that do not load. *)
Skill(name, slash) == [fenced |-> TRUE, parses |-> TRUE, name |-> name, long |-> FALSE, slashOnly |-> slash]
Manifest(kind, name) ==
    [parses |-> TRUE, kind |-> kind, schema |-> 1, name |-> name, builtin |-> TRUE, long |-> FALSE]
FoundDocs ==
    [skills |-> {Skill("n", FALSE), Skill("m", TRUE), Skill("bad", FALSE)},
     extensions |-> {Manifest("extension", "n"), Manifest("skill", "n"),
                     [Manifest("extension", "m") EXCEPT !.builtin = FALSE]}]
FoundRoots ==
    [skills |-> {{<<"home", ".agents">>, <<"repo", ".claude">>}, {<<"repo", ".agents">>, <<"cwd", ".claude">>},
                 {<<"home", "native">>, <<"cwd", "native">>}, {<<"cwd", "native">>, <<"extra", "x">>}},
     extensions |-> {{<<"home", ".zhive">>, <<"cwd", ".zhive">>}, {<<"cwd", ".zhive.local">>, <<"extra", "x">>}}]
EmptyDisk ==
    [r \in {<<"cwd", "native">>, <<"extra", "x">>} |-> [d \in {"a", "b"} |-> [kind |-> "none"]]]

(* Calls of every tool: edits that match exactly, by trimming and too often. *)
ToolAsks ==
    {[kind |-> "write", lines |-> <<Line("y")>>],
     [kind |-> "edit", old |-> Line("x"), new |-> Line("z"), all |-> TRUE],
     [kind |-> "edit", old |-> Blank("y"), new |-> Line("w"), all |-> FALSE],
     [kind |-> "read", offset |-> 2, limit |-> 1],
     [kind |-> "grep", word |-> "x"],
     [kind |-> "bash", leaves |-> {"piped", "detached"}]}

(* A file that can be moved to a free name, or only onto another one. *)
FirstFiles == {[f |-> 1, g |-> 0, i |-> 2], [f |-> 1, g |-> 2, i |-> 3]}

(* A document with two providers, and one without a provider section. *)
Entry(kind, model, thinking, window) ==
    [kind |-> kind, key |-> "env", has |-> {}, model |-> model, thinking |-> thinking, window |-> window]
BuiltinConfig ==
    [default |-> "main", ui |-> "dark",
     entries |-> [main |-> Entry("anthropic", "m1", "unset", 0), demo |-> Entry("scripted", "", "unset", 0)]]
ConfigFiles ==
    {[section |-> TRUE, default |-> "main", ui |-> "light",
      entries |-> [main |-> Entry("anthropic", "m1", "high", 0), work |-> Entry("xai", "m2", "low", 7),
                   cloud |-> [Entry("azure", "m2", "unset", 0) EXCEPT !.has = {"region"}]]],
     [section |-> FALSE, ui |-> "light"]}
CommandArgs ==
    {[provider |-> "unset", model |-> "unset"], [provider |-> "work", model |-> "unset"],
     [provider |-> "cloud", model |-> "m1"]}
ListedModels == [m1 |-> [window |-> 3, cycle |-> <<"off", "low", "high">>], m2 |-> [window |-> 5, cycle |-> <<"off">>]]

(* A directory given with a trailing slash. *)
WorkDirs == {[dir |-> "work", slash |-> TRUE]}

CONSTANT Modelled   \* the components a run is about

VARIABLES
    part,       \* the component this behaviour is about
    \* its variables, under the names its INSTANCE gives
    x1, x2, x3, x4, x5, x6, x7, x8, x9, x10, x11, x12, x13, x14, x15, x16, x17, x18,
    x19, x20

vars == <<part, x1, x2, x3, x4, x5, x6, x7, x8, x9, x10, x11, x12, x13, x14, x15, x16, x17,
          x18, x19, x20>>

Tui == INSTANCE Tui WITH
    MaxMsgs <- 2, NewThreads <- 1, MaxTurns <- 2, MaxInputs <- 3, EventCap <- 2,
    conv <- x1, msgq <- x2, halted <- x3, draft <- x4, images <- x5, overlay <- x6,
    fetching <- x7, primed <- x8, disconnected <- x9, quit <- x10, turnOf <- x11,
    tasks <- x12, stream <- x13, gap <- x14, eng <- x15, stored <- x16, extras <- x17,
    typed <- x18, accepted <- x19, excused <- x20
Hooks == INSTANCE Hooks WITH
    Attr <- HookAttr, Priorities <- {1, 2}, Callers <- HookCallers,
    Answers <- HookReplies, MaxRegs <- 3, registry <- x1, nextReg <- x2, minted <- x3,
    owner <- x4, schemas <- x5, job <- x6
Acp == INSTANCE AcpBridge WITH
    Prompts <- {"p1", "p2"}, MaxSessions <- 1, MaxIds <- 2, MaxTurns <- 2, MaxAsks <- 1,
    MaxCancels <- 1, EventCap <- 2, sessions <- x1, evq <- x2, ids <- x3, prompt <- x4,
    cancels <- x5, cancelled <- x6, engine <- x7, endOf <- x8
Scope == INSTANCE SubagentScope WITH
    Tools <- {"agent", "bash", "skill"}, Unavailable <- {"skill"}, Scopes <- TurnScopes,
    Definitions <- ChildDefinitions, MaxTurns <- 2, MaxSpawns <- 2, MaxSaid <- 1,
    turnScopes <- x1, slot <- x2, cancelledTurns <- x3, spawn <- x4, child <- x5,
    spawns <- x6, granted <- x7
Tools == INSTANCE Tools WITH
    ToolCalls <- {"c1", "c2"}, Asks <- ToolAsks, Files <- TargetFiles, MaxResults <- 1,
    target <- x1, temps <- x2, tmpSeq <- x3, work <- x4, procs <- x5, fired <- x6,
    origin <- x7, lastRename <- x8
Snapshots == INSTANCE Snapshots WITH
    Paths <- {"f", "g", "i"}, Ignored <- {"i"}, AtFirst <- FirstFiles, MaxTurns <- 2,
    MaxEvents <- 2, files <- x1, authors <- x2, events <- x3, repo <- x4, holder <- x5,
    staged <- x6, unstaged <- x7, jammed <- x8, held <- x9, threadOf <- x10,
    task <- x11, shot <- x12, stopped <- x13, talk <- x14, rows <- x15, undo <- x16,
    branches <- x17
(* One turn, and what is moved, edited and put back in it. *)
Moves == INSTANCE Snapshots WITH
    Paths <- {"f", "g", "i"}, Ignored <- {"i"}, AtFirst <- FirstFiles, MaxTurns <- 1,
    MaxEvents <- 3, files <- x1, authors <- x2, events <- x3, repo <- x4, holder <- x5,
    staged <- x6, unstaged <- x7, jammed <- x8, held <- x9, threadOf <- x10,
    task <- x11, shot <- x12, stopped <- x13, talk <- x14, rows <- x15, undo <- x16,
    branches <- x17
Index == INSTANCE StateIndex WITH
    Main <- "main", Branch <- "branch", Cwds <- WorkDirs, MaxTurns <- 1, MaxItems <- 2,
    MaxActs <- 3, MaxLives <- 2, MaxFaults <- 1, logs <- x1, db <- x2, opq <- x3,
    todo <- x4, headed <- x5, handles <- x6, slots <- x7, made <- x8, cwd <- x9,
    admin <- x10, removed <- x11, behind <- x12, previewed <- x13, taken <- x14
Mcp == INSTANCE Mcp WITH
    Configs <- McpConfigs, Offers <- McpOffers, Builtins <- {"bash"},
    McpCalls <- {"m1"}, McpAsks <- McpRequests, conn <- x1, listed <- x2, offered <- x3,
    boot <- x4, toolTable <- x5, asked <- x6, mail <- x7, remote <- x8, turnEnded <- x9,
    sound <- x10
Discovery == INSTANCE Discovery WITH
    Above <- <<"cwd", "repo", "top">>, GitRoot <- {"repo"},
    ExtraRoots <- <<<<"extra", "x">>>>, Dirs <- <<"a", "b">>, Docs <- FoundDocs,
    Placements <- FoundRoots, MaxEdits <- 1, what <- x1, disk <- x2, cursor <- x3,
    hits <- x4, loadedDocs <- x5, chosen <- x6, stage <- x7, edited <- x8
Host == INSTANCE Host WITH
    FeedCap <- 2, MaxNews <- 4, command <- x1, hostAt <- x2, closing <- x3, alive <- x4,
    serveTask <- x5, tokenFired <- x6, sockFile <- x7, ownTurn <- x8, news <- x9,
    eventFeed <- x10, subscribed <- x11, dropped <- x12, verdict <- x13
Selection == INSTANCE Selection WITH
    Sessions <- {"s1", "s2"}, Files <- ConfigFiles, Args <- CommandArgs,
    Builtin <- BuiltinConfig, Endpoint <- ListedModels, StaticCycle <- <<"off", "low">>,
    MaxEdits <- 1, configFile <- x1, session <- x2, kept <- x3, restKept <- x4,
    userEdits <- x5
Transcript == INSTANCE Transcript WITH
    Blocks <- {"b"}, ToolIds <- {"t"}, Cap <- 1, MaxIterations <- 2,
    HasSystem <- TRUE, Resumed <- TRUE, ClientIds <- {1}, MaxTurns <- 2, MaxInputs <- 5,
    MaxCompactions <- 1, done <- x1, active <- x2, unloaded <- x3,
    run <- x4, fold <- x5, calls <- x6, request <- x7, turns <- x8, frames <- x9,
    injected <- x10, compactions <- x11, heard <- x12, wire <- x13, log <- x14

(* The same with a provider that gives its tool calls no ids. *)
Nameless == INSTANCE Transcript WITH
    Blocks <- {"b"}, ToolIds <- {""}, Cap <- 1, MaxIterations <- 2,
    HasSystem <- TRUE, Resumed <- TRUE, ClientIds <- {1}, MaxTurns <- 2, MaxInputs <- 4,
    MaxCompactions <- 1, done <- x1, active <- x2, unloaded <- x3,
    run <- x4, fold <- x5, calls <- x6, request <- x7, turns <- x8, frames <- x9,
    injected <- x10, compactions <- x11, heard <- x12, wire <- x13, log <- x14

(* Variables the chosen component does not need stay at 0. *)
InitOfPart ==
    \/ /\ part = "tui" /\ Tui!Init
    \/ /\ part = "hooks" /\ Hooks!Init
       /\ x7 = 0 /\ x8 = 0 /\ x9 = 0 /\ x10 = 0 /\ x11 = 0 /\
          x12 = 0 /\ x13 = 0 /\ x14 = 0 /\ x15 = 0 /\ x16 = 0 /\ x17 = 0 /\
          x18 = 0 /\ x19 = 0 /\ x20 = 0
    \/ /\ part = "acp" /\ Acp!Init
       /\ x9 = 0 /\ x10 = 0 /\ x11 = 0 /\ x12 = 0 /\ x13 = 0 /\ x14 = 0 /\
          x15 = 0 /\ x16 = 0 /\ x17 = 0 /\ x18 = 0 /\ x19 = 0 /\ x20 = 0
    \/ /\ part = "scope" /\ Scope!Init
       /\ x8 = 0 /\ x9 = 0 /\ x10 = 0 /\ x11 = 0 /\ x12 = 0 /\ x13 = 0 /\
          x14 = 0 /\ x15 = 0 /\ x16 = 0 /\ x17 = 0 /\ x18 = 0 /\ x19 = 0 /\
          x20 = 0
    \/ /\ part = "tools" /\ Tools!Init
       /\ x9 = 0 /\ x10 = 0 /\ x11 = 0 /\ x12 = 0 /\ x13 = 0 /\ x14 = 0 /\
          x15 = 0 /\ x16 = 0 /\ x17 = 0 /\ x18 = 0 /\ x19 = 0 /\ x20 = 0
    \/ /\ part = "snapshots" /\ Snapshots!Init
       /\ x18 = 0 /\ x19 = 0 /\ x20 = 0
    \/ /\ part = "moves" /\ Moves!Init
       /\ x18 = 0 /\ x19 = 0 /\ x20 = 0
    \/ /\ part = "index" /\ Index!Init
       /\ x15 = 0 /\ x16 = 0 /\ x17 = 0 /\ x18 = 0 /\ x19 = 0 /\ x20 = 0
    \/ /\ part = "mcp" /\ Mcp!Init
       /\ x11 = 0 /\ x12 = 0 /\ x13 = 0 /\ x14 = 0 /\ x15 = 0 /\ x16 = 0 /\
          x17 = 0 /\ x18 = 0 /\ x19 = 0 /\ x20 = 0
    \/ /\ part = "discovery" /\ Discovery!Init
       /\ x9 = 0 /\ x10 = 0 /\ x11 = 0 /\ x12 = 0 /\ x13 = 0 /\ x14 = 0 /\
          x15 = 0 /\ x16 = 0 /\ x17 = 0 /\ x18 = 0 /\ x19 = 0 /\ x20 = 0
    \/ /\ part = "host" /\ Host!Init
       /\ x14 = 0 /\ x15 = 0 /\ x16 = 0 /\ x17 = 0 /\ x18 = 0 /\ x19 = 0 /\
          x20 = 0
    \/ /\ part = "selection" /\ Selection!Init
       /\ x6 = 0 /\ x7 = 0 /\ x8 = 0 /\ x9 = 0 /\ x10 = 0 /\ x11 = 0 /\
          x12 = 0 /\ x13 = 0 /\ x14 = 0 /\ x15 = 0 /\ x16 = 0 /\ x17 = 0 /\
          x18 = 0 /\ x19 = 0 /\ x20 = 0
    \/ /\ part = "transcript" /\ Transcript!Init
       /\ x15 = 0 /\ x16 = 0 /\ x17 = 0 /\ x18 = 0 /\ x19 = 0 /\ x20 = 0
    \/ /\ part = "nameless" /\ Nameless!Init
       /\ x15 = 0 /\ x16 = 0 /\ x17 = 0 /\ x18 = 0 /\ x19 = 0 /\ x20 = 0

Init == part \in Modelled /\ InitOfPart

TuiNext == part = "tui" /\ Tui!Next /\ UNCHANGED <<part>>
HooksNext == part = "hooks" /\ Hooks!Next /\ UNCHANGED <<part, x7, x8, x9, x10, x11, x12, x13, x14, x15, x16, x17, x18, x19, x20>>
AcpNext == part = "acp" /\ Acp!Next /\ UNCHANGED <<part, x9, x10, x11, x12, x13, x14, x15, x16, x17, x18, x19, x20>>
ScopeNext == part = "scope" /\ Scope!Next /\ UNCHANGED <<part, x8, x9, x10, x11, x12, x13, x14, x15, x16, x17, x18, x19, x20>>
ToolsNext == part = "tools" /\ Tools!Next /\ UNCHANGED <<part, x9, x10, x11, x12, x13, x14, x15, x16, x17, x18, x19, x20>>
SnapshotsNext == part = "snapshots" /\ Snapshots!Next /\ UNCHANGED <<part, x18, x19, x20>>
MovesNext == part = "moves" /\ Moves!Next /\ UNCHANGED <<part, x18, x19, x20>>
IndexNext == part = "index" /\ Index!Next /\ UNCHANGED <<part, x15, x16, x17, x18, x19, x20>>
McpNext == part = "mcp" /\ Mcp!Next /\ UNCHANGED <<part, x11, x12, x13, x14, x15, x16, x17, x18, x19, x20>>
DiscoveryNext == part = "discovery" /\ Discovery!Next /\ UNCHANGED <<part, x9, x10, x11, x12, x13, x14, x15, x16, x17, x18, x19, x20>>
HostNext == part = "host" /\ Host!Next /\ UNCHANGED <<part, x14, x15, x16, x17, x18, x19, x20>>
SelectionNext == part = "selection" /\ Selection!Next /\ UNCHANGED <<part, x6, x7, x8, x9, x10, x11, x12, x13, x14, x15, x16, x17, x18, x19, x20>>
NamelessNext == part = "nameless" /\ Nameless!Next /\ UNCHANGED <<part, x15, x16, x17, x18, x19, x20>>
TranscriptNext == part = "transcript" /\ Transcript!Next /\ UNCHANGED <<part, x15, x16, x17, x18, x19, x20>>

Next == TuiNext \/ HooksNext \/ AcpNext \/ ScopeNext \/ ToolsNext \/ SnapshotsNext \/
        IndexNext \/ McpNext \/ DiscoveryNext \/ HostNext \/ SelectionNext \/
        TranscriptNext \/ NamelessNext \/ MovesNext

Spec == Init /\ [][Next]_vars
-----------------------------------------------------------------------------
(* Every component keeps its type invariant. *)
TypesOK ==
    /\ part = "tui" => Tui!TypeOK
    /\ part = "hooks" => Hooks!TypeOK
    /\ part = "acp" => Acp!TypeOK
    /\ part = "scope" => Scope!TypeOK
    /\ part = "tools" => Tools!TypeOK
    /\ part = "snapshots" => Snapshots!TypeOK
    /\ part = "moves" => Moves!TypeOK
    /\ part = "index" => Index!TypeOK
    /\ part = "mcp" => Mcp!TypeOK
    /\ part = "discovery" => Discovery!TypeOK
    /\ part = "host" => Host!TypeOK
    /\ part = "selection" => Selection!TypeOK
    /\ part = "transcript" => Transcript!TypeOK
    /\ part = "nameless" => Nameless!TypeOK

(* Typed text is never lost or doubled, and the composer always comes back. *)
ConversationSafe == part = "tui" => Tui!ConversationSafe

(* Together: no deny is lost, no hook is skipped, no unchecked input runs,  *)
(* whatever fails, comes or goes while the hooks run.                       *)
HooksFailSafe == part = "hooks" => Hooks!HooksFailSafe

(* Sessions stay bounded and stop reasons true through evictions, /clear,   *)
(* lost events, cancels and permission requests in any order.               *)
AcpConsistent == part = "acp" => Acp!AcpConsistent

(* A child thread is given no tool that subagents must not see, and, unless *)
(* the turn that asked for it was cancelled, none that the scope of that    *)
(* very turn forbids, nor a mode above that turn's; and a tool runs in it   *)
(* only under its spawner and within the same bounds, although the spawn    *)
(* and every fold read the slot afresh and turns come and go meanwhile      *)
(* (spawn_subagent_awaitable, prepare_child_scope, parent_second_fold).     *)
ChildNeverWider == part = "scope" => Scope!ChildNeverWider

(* The index follows the rollouts through failing statements, restarts,      *)
(* rebuilds and deletions, and what only the index knows of a thread's first *)
(* message outlives every later snapshot (StateDb, PersistenceWriter).       *)
IndexFollowsRollout == part = "index" => Index!IndexFollowsRollout

(* What the model is shown of the conversation is what was said in it.      *)
TranscriptFaithful ==
    /\ part = "transcript" => Transcript!TranscriptFaithful
    /\ part = "nameless" => Nameless!TranscriptFaithful

(* What a process sets up around the engine holds together: an MCP server    *)
(* that fails takes no other with it and a call given up is called off at    *)
(* its server; every name found on disk is resolved to one document, that of *)
(* the highest root unless a skill directory took over an earlier slot; a    *)
(* hosted engine is torn down on every way out, and exec reports its own     *)
(* turn; a saved selection is what the config file holds.                    *)
BootSafe ==
    /\ part = "mcp" => Mcp!McpSafe
    /\ part = "discovery" => Discovery!NamesResolved
    /\ part = "host" => Host!HostSafe
    /\ part = "selection" => Selection!SelectionKept

(* What tools do to the files of the workspace is whole and can be undone:   *)
(* a write is all or nothing, an answer shows a content the file had, no     *)
(* process group of a finished command is left running, and going back to    *)
(* the checkpoint of a turn undoes that turn, in the files (but for those    *)
(* git takes for renamed) and in the conversation.                           *)
WorkspaceSafe ==
    /\ part = "tools" => Tools!ToolsSafe
    /\ part = "snapshots" => Snapshots!SnapshotsSafe
    /\ part = "moves" => Moves!SnapshotsSafe

-----------------------------------------------------------------------------
(* What comments of the code say and the code does not keep.  No run checks  *)
(* these: TLC refutes each in the part it names (README, section 7).         *)

(* An abort cannot be missed by the prompt that asks the client meanwhile.  *)
AbortIsHeard == part = "acp" => Acp!AbortIsHeard

(* What a user says in a turn has an id of that turn. *)
ItemsNameTheirTurn == part = "transcript" => Transcript!ItemsNameTheirTurn

(* Of two skills that declare one name the one of the higher root wins. *)
HighestRootWins == part = "discovery" => Discovery!HighestRootWins

(* A restore puts back every file its checkpoint knows. *)
RevertsEveryFile == part = "moves" => Moves!RevertsEveryFile
=============================================================================
