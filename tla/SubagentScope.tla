--------------------------- MODULE SubagentScope ---------------------------
(*****************************************************************************)
(* What a subagent may do.                                                   *)
(*                                                                           *)
(* A turn of the parent thread carries the permission scope its client gave  *)
(* it.  The `agent` tool, or a client, spawns a child thread: the spawn      *)
(* reads the scope of whatever turn the parent's slot holds by then, narrows *)
(* it and starts a child turn under the result.  Every tool call of the      *)
(* child passes the gate of the child's scope and the child's own votes,     *)
(* then asks the parent's spawner, which folds the parent's votes under the  *)
(* scope in the slot at that time.  Cancelling the parent's turn empties the *)
(* slot, and the future of the agent tool is dropped some time later, at     *)
(* whichever await it has reached.                                           *)
(*                                                                           *)
(* An optional field is a set with at most one element.  Calls of several    *)
(* subagents share only the slot, so one is spawned at a time.               *)
(*****************************************************************************)
EXTENDS Naturals, Sequences, FiniteSets

CONSTANTS
    Tools,          \* names a model may call; "agent" spawns
    Unavailable,    \* registered tools whose available_in_subagent is false
    Scopes,         \* scopes a client starts a turn with
    Definitions,    \* definitions a client spawns with
    MaxTurns,       \* bound: turns of the parent
    MaxSpawns,      \* bound: spawns
    MaxSaid         \* bound: messages of one child

VARIABLES
    turnScopes,     \* the scope of every turn of the parent so far
    slot,           \* its active turn, 0 when idle
    cancelledTurns, \* turns whose token fired
    spawn,          \* the spawn in progress
    child,          \* the child thread it made
    spawns,         \* spawns so far
    granted         \* the tool calls of children that ran

scopeVars == <<turnScopes, slot, cancelledTurns, spawn, child, spawns, granted>>

-----------------------------------------------------------------------------
(* The scope algebra.                                                       *)

Rank == [BypassPermissions |-> 3, AcceptEdits |-> 2, Default |-> 1, Plan |-> 0]

DefaultTurnScope == [allowed |-> {}, denied |-> {}, mode |-> {}, spawn |-> FALSE]

(* `permits`: the denylist wins over the allowlist. *)
Permits(scope, tool) ==
    /\ tool \notin scope.denied
    /\ \A list \in scope.allowed : tool \in list

ModeNarrows(parent, c) == \A m \in parent, n \in c : Rank[n] <= Rank[m]

(* Mutant: a child must name its tools, whichever they are. *)
NarrowedIntoLax(parent, c) ==
    /\ \A list \in parent.allowed : c.allowed # {}
    /\ parent.denied \subseteq c.denied
    /\ ModeNarrows(parent.mode, c.mode)
    /\ ~c.spawn

NarrowedInto(parent, c) ==
    /\ \A list \in parent.allowed :
         c.allowed # {} /\ \A own \in c.allowed : own \subseteq list
    /\ parent.denied \subseteq c.denied
    /\ ModeNarrows(parent.mode, c.mode)
    /\ ~c.spawn

(* The scope `prepare_child_scope` proposes: what the definition leaves out *)
(* is inherited, and a bypassing parent forces its mode.                    *)
Candidate(parent, def) ==
    [allowed |-> IF def.allowed # {} THEN def.allowed ELSE parent.allowed,
     denied  |-> parent.denied \union def.denied,
     mode    |-> IF parent.mode = {"BypassPermissions"} \/ def.mode = {} THEN parent.mode
                 ELSE def.mode,
     spawn   |-> FALSE]

(* The definition the agent tool builds: everything is inherited. *)
Inherit == DefaultTurnScope

(* Step (e2) of the spawn: tools a subagent must not see are denied. *)
ExcludeUnavailable(scope) == [scope EXCEPT !.denied = @ \union Unavailable]

(* `evaluate`: a bypassing scope allows, else the strictest vote decides. *)
Evaluate(scope, votes) ==
    IF scope.mode = {"BypassPermissions"} \/ votes \subseteq {"Allow"} THEN "Allow"
    ELSE IF "Deny" \in votes THEN "Deny"
    ELSE IF "Defer" \in votes THEN "Defer" ELSE "Ask"

(* The last agent message, or else the last notice. *)
ExtractFinalMessage(items) ==
    LET last(kind) == {i \in DOMAIN items : items[i] = kind /\ \A j \in DOMAIN items :
                                              items[j] = kind => j <= i}
        found == IF last("AgentMessage") # {} THEN last("AgentMessage") ELSE last("SystemNotice")
    IN  {<<i, items[i]>> : i \in found}

-----------------------------------------------------------------------------
NoSpawn == [by |-> "nobody", turn |-> 0, def |-> Inherit, pc |-> "none", scope |-> Inherit,
            result |-> {}]
NoChild == [pc |-> "none", scope |-> Inherit, said |-> <<>>, tool |-> "none", vote |-> "none",
            final |-> {}, cancelled |-> FALSE]

Init ==
    /\ turnScopes = <<>>
    /\ slot = 0
    /\ cancelledTurns = {}
    /\ spawn = NoSpawn
    /\ child = NoChild
    /\ spawns = 0
    /\ granted = {}

(* The steps of the future that spawns and supervises. *)
Spawning == {"read", "insert", "install", "start", "await", "prompt"}

(* The scope in the parent's slot, or the default one when it is idle. *)
ParentScope == IF slot = 0 THEN DefaultTurnScope ELSE turnScopes[slot]

-----------------------------------------------------------------------------
(* The parent's turn.                                                       *)

StartTurn(scope) ==
    /\ slot = 0 /\ Len(turnScopes) < MaxTurns
    /\ turnScopes' = Append(turnScopes, scope)
    /\ slot' = Len(turnScopes) + 1
    /\ UNCHANGED <<cancelledTurns, spawn, child, spawns, granted>>

(* A turn ends once its tool calls are done. *)
FinishTurn ==
    /\ slot # 0
    /\ ~(spawn.by = "tool" /\ spawn.turn = slot /\ spawn.pc \in Spawning)
    /\ slot' = 0
    /\ UNCHANGED <<turnScopes, cancelledTurns, spawn, child, spawns, granted>>

(* `cancel_turn` takes the slot and fires the token under one lock. *)
CancelTurn ==
    /\ slot # 0
    /\ cancelledTurns' = cancelledTurns \union {slot}
    /\ slot' = 0
    /\ UNCHANGED <<turnScopes, spawn, child, spawns, granted>>

-----------------------------------------------------------------------------
(* `spawn_subagent_awaitable`.                                              *)

Spawns(by, def) ==
    /\ spawn.pc \notin Spawning
    /\ child.pc \in {"none", "removed"} \/ (spawn.pc = "dropped" /\ child.pc \in {"inserted", "installed"})
    /\ spawns < MaxSpawns
    /\ spawns' = spawns + 1
    /\ spawn' = [NoSpawn EXCEPT !.by = by, !.turn = slot, !.def = def, !.pc = "read"]
    /\ child' = NoChild
    /\ UNCHANGED <<turnScopes, slot, cancelledTurns, granted>>

AgentTool ==
    /\ slot # 0 /\ Permits(turnScopes[slot], "agent")
    /\ Spawns("tool", Inherit)

(* The wire call: the spawner's ends of the channels are dropped. *)
SpawnSubagent(def) == Spawns("client", def)

PrepareChildScope ==
    /\ spawn.pc = "read"
    /\ LET candidate == Candidate(ParentScope, spawn.def)
           asked == IF spawn.by = "tool" THEN spawn.turn ELSE slot
       IN  spawn' = IF ~spawn.def.spawn /\ NarrowedInto(ParentScope, candidate)
                    THEN [spawn EXCEPT !.pc = "insert", !.scope = ExcludeUnavailable(candidate),
                                       !.turn = asked]
                    ELSE [spawn EXCEPT !.pc = "refused"]
    /\ UNCHANGED <<turnScopes, slot, cancelledTurns, child, spawns, granted>>

InsertChild ==
    /\ spawn.pc = "insert"
    /\ spawn' = [spawn EXCEPT !.pc = "install"]
    /\ child' = [NoChild EXCEPT !.pc = "inserted"]
    /\ UNCHANGED <<turnScopes, slot, cancelledTurns, spawns, granted>>

StartChildTurn ==
    /\ spawn.pc = "install"
    /\ spawn' = [spawn EXCEPT !.pc = "start"]
    /\ child' = [child EXCEPT !.pc = "installed", !.scope = spawn.scope]
    /\ UNCHANGED <<turnScopes, slot, cancelledTurns, spawns, granted>>

SpawnChildTask ==
    /\ spawn.pc = "start"
    /\ spawn' = [spawn EXCEPT !.pc = IF spawn.by = "tool" THEN "await" ELSE "returned"]
    /\ child' = [child EXCEPT !.pc = "running"]
    /\ UNCHANGED <<turnScopes, slot, cancelledTurns, spawns, granted>>

(* The dispatch drops the tool's future once the token fired: a child that *)
(* was inserted but not started stays in the store.                         *)
DropSpawn ==
    /\ spawn.by = "tool" /\ spawn.pc \in Spawning
    /\ spawn.turn \in cancelledTurns
    /\ spawn' = [spawn EXCEPT !.pc = "dropped"]
    /\ UNCHANGED <<turnScopes, slot, cancelledTurns, child, spawns, granted>>

-----------------------------------------------------------------------------
(* The child's turn.                                                        *)

ChildSays(kind) ==
    /\ child.pc = "running" /\ Len(child.said) < MaxSaid
    /\ child' = [child EXCEPT !.said = Append(@, kind)]
    /\ UNCHANGED <<turnScopes, slot, cancelledTurns, spawn, spawns, granted>>

(* The gate and the child's own fold: a denied call is answered at once. *)
ChildCalls(tool, votes) ==
    /\ child.pc = "running" /\ ~child.cancelled
    /\ Permits(child.scope, tool)
    /\ Evaluate(child.scope, votes) # "Deny"
    /\ child' = [child EXCEPT !.pc = "asking", !.tool = tool,
                              !.vote = Evaluate(child.scope, votes)]
    /\ UNCHANGED <<turnScopes, slot, cancelledTurns, spawn, spawns, granted>>

CancelChild ==
    /\ child.pc \in {"running", "asking"} /\ ~child.cancelled
    /\ child' = [child EXCEPT !.cancelled = TRUE]
    /\ UNCHANGED <<turnScopes, slot, cancelledTurns, spawn, spawns, granted>>

Answered == [child EXCEPT !.pc = "running", !.tool = "none", !.vote = "none"]

(* The handshake is lost: the spawner is gone, or the child was cancelled. *)
HandshakeLost ==
    /\ child.pc = "asking"
    /\ child.cancelled \/ spawn.pc \notin {"await", "prompt"}
    /\ child' = Answered
    /\ UNCHANGED <<turnScopes, slot, cancelledTurns, spawn, spawns, granted>>

(* The call runs.  A call of the agent tool is refused inside: the parent *)
(* it names is itself a subagent.                                          *)
ChildRuns ==
    /\ granted' = granted \union
         {[tool |-> child.tool, turn |-> spawn.turn, by |-> spawn.by, mode |-> child.scope.mode,
           live |-> spawn.turn \notin cancelledTurns]}
    /\ child' = Answered
    /\ UNCHANGED <<turnScopes, slot, cancelledTurns, spawns>>

(* `parent_second_fold` under the scope the slot holds by then. *)
ParentFold(votes) ==
    /\ spawn.pc = "await" /\ child.pc = "asking"
    /\ LET decision == Evaluate(ParentScope, votes \union {child.vote})
       IN  \/ decision = "Allow" /\ ChildRuns /\ UNCHANGED spawn
           \/ /\ decision \in {"Ask", "Defer"}
              /\ spawn' = [spawn EXCEPT !.pc = "prompt"]
              /\ UNCHANGED <<turnScopes, slot, cancelledTurns, child, spawns, granted>>
           \/ /\ decision = "Deny"
              /\ child' = Answered
              /\ UNCHANGED <<turnScopes, slot, cancelledTurns, spawn, spawns, granted>>

(* The prompt ends: an answer, a timeout or a cancel.  Nobody hears it when *)
(* the child has gone meanwhile.                                            *)
ParentAnswers(allowed) ==
    /\ spawn.pc = "prompt"
    /\ spawn' = [spawn EXCEPT !.pc = "await"]
    /\ IF allowed /\ child.pc = "asking" THEN ChildRuns
       ELSE /\ child' = IF child.pc = "asking" THEN Answered ELSE child
            /\ UNCHANGED <<turnScopes, slot, cancelledTurns, spawns, granted>>

(* `run_turn` returned: only the last message leaves the child, none after *)
(* a failure.                                                               *)
ChildEnds(failed) ==
    /\ child.pc = "running"
    /\ child' = [child EXCEPT !.pc = "ended",
                              !.final = IF failed THEN {} ELSE ExtractFinalMessage(child.said)]
    /\ UNCHANGED <<turnScopes, slot, cancelledTurns, spawn, spawns, granted>>

(* `deliver_subagent_outcome`: the channel, the broadcast, the removal. *)
DeliverOutcome ==
    /\ child.pc = "ended"
    /\ child' = [child EXCEPT !.pc = "removed"]
    /\ UNCHANGED <<turnScopes, slot, cancelledTurns, spawn, spawns, granted>>

(* The agent tool returns what the child said last. *)
ReceiveFinal ==
    /\ spawn.pc = "await" /\ child.pc = "removed"
    /\ spawn' = [spawn EXCEPT !.pc = "returned", !.result = child.final]
    /\ UNCHANGED <<turnScopes, slot, cancelledTurns, child, spawns, granted>>

-----------------------------------------------------------------------------
HookVotes == {{}, {"Allow"}, {"Ask"}, {"Defer"}, {"Deny", "Allow"}}

Next ==
    \/ \E scope \in Scopes : StartTurn(scope)
    \/ FinishTurn
    \/ CancelTurn
    \/ AgentTool
    \/ \E def \in Definitions : SpawnSubagent(def)
    \/ PrepareChildScope \/ InsertChild \/ StartChildTurn \/ SpawnChildTask
    \/ DropSpawn
    \/ \E kind \in {"AgentMessage", "SystemNotice"} : ChildSays(kind)
    \/ \E tool \in Tools, votes \in HookVotes : ChildCalls(tool, votes)
    \/ CancelChild
    \/ HandshakeLost
    \/ \E votes \in HookVotes : ParentFold(votes)
    \/ \E allowed \in BOOLEAN : ParentAnswers(allowed)
    \/ \E failed \in BOOLEAN : ChildEnds(failed)
    \/ DeliverOutcome
    \/ ReceiveFinal

Spec == Init /\ [][Next]_scopeVars

-----------------------------------------------------------------------------
TypeOK ==
    /\ turnScopes \in Seq(Scopes)
    /\ slot \in 0..Len(turnScopes)
    /\ cancelledTurns \subseteq 1..Len(turnScopes)
    /\ spawn.by \in {"nobody", "tool", "client"}
    /\ spawn.turn \in 0..Len(turnScopes)
    /\ spawn.pc \in Spawning \union {"none", "refused", "dropped", "returned"}
    /\ child.pc \in {"none", "inserted", "installed", "running", "asking", "ended", "removed"}
    /\ spawns \in Nat

(* What the scope of a turn lets a subagent of it do, at most. *)
Within(scopes, turn, tool, mode) ==
    LET scope == IF turn = 0 THEN DefaultTurnScope ELSE scopes[turn]
    IN  Permits(scope, tool) /\ ModeNarrows(scope.mode, mode)

(* A child thread is given no tool that subagents must not see, and, unless *)
(* the turn that asked for it was cancelled, none that the scope of that    *)
(* very turn forbids, nor a mode above that turn's; and a tool runs in it   *)
(* only under its spawner and within the same bounds, although the spawn    *)
(* and every fold read the slot afresh and turns come and go meanwhile      *)
(* (spawn_subagent_awaitable, prepare_child_scope, parent_second_fold).     *)
ChildNeverWider ==
    /\ \A tool \in Tools :
         child.pc \notin {"none", "inserted"} /\ Permits(child.scope, tool) =>
           /\ tool \notin Unavailable
           /\ spawn.by = "client" \/ spawn.turn \notin cancelledTurns =>
                Within(turnScopes, spawn.turn, tool, child.scope.mode)
    /\ \A g \in granted :
         /\ g.by = "tool"
         /\ g.tool \notin Unavailable
         /\ g.live => Within(turnScopes, g.turn, g.tool, g.mode)
=============================================================================
