------------------------ MODULE SubagentScope_proofs ------------------------
(*****************************************************************************)
(* Proof that a subagent never gets more than the turn that spawned it.      *)
(*                                                                           *)
(* The property is not inductive: it needs that a spawn of the agent tool    *)
(* finds its own turn in the slot as long as that turn was not cancelled     *)
(* (OwnSlot), that the prepared scope is within the turn's before a child    *)
(* carries it (PreparedBound), and that a child asks only for tools its      *)
(* scope permits and only a supervised one is answered (Asking).             *)
(*****************************************************************************)
EXTENDS SubagentScope, TLAPS

(* A scope stays within what the turn that asked for it may hand on. *)
Bounded(scopes, cancelled, by, turn, scope) ==
    \A tool \in Tools :
      Permits(scope, tool) =>
        /\ tool \notin Unavailable
        /\ by = "client" \/ turn \notin cancelled => Within(scopes, turn, tool, scope.mode)

Shapes ==
    /\ turnScopes \in Seq(Scopes)
    /\ slot \in 0..Len(turnScopes)
    /\ spawn \in [by : {"nobody", "tool", "client"}, turn : 0..Len(turnScopes), def : {spawn.def},
                  pc : Spawning \union {"none", "refused", "dropped", "returned"},
                  scope : {spawn.scope}, result : {spawn.result}]
    /\ child \in [pc : {"none", "inserted", "installed", "running", "asking", "ended", "removed"},
                  scope : {child.scope}, said : {child.said}, tool : {child.tool},
                  vote : {child.vote}, final : {child.final}, cancelled : {child.cancelled}]

OwnSlot ==
    /\ spawn.pc # "none" => spawn.by \in {"tool", "client"}
    /\ spawn.by = "tool" =>
         /\ spawn.turn # 0
         /\ spawn.pc \in Spawning /\ spawn.turn \notin cancelledTurns => slot = spawn.turn

PreparedBound ==
    /\ spawn.pc \in {"read", "insert"} => child.pc = "none"
    /\ spawn.pc = "install" => child.pc = "inserted"
    /\ spawn.pc = "start" => child.pc = "installed"
    /\ spawn.pc \in {"insert", "install", "start"} =>
         Bounded(turnScopes, cancelledTurns, spawn.by, spawn.turn, spawn.scope)

ChildBound ==
    child.pc \notin {"none", "inserted"} =>
      Bounded(turnScopes, cancelledTurns, spawn.by, spawn.turn, child.scope)

Asking ==
    /\ child.pc = "asking" => child.tool \in Tools /\ Permits(child.scope, child.tool)
    /\ spawn.pc \in {"await", "prompt"} => spawn.by = "tool"

GrantedBound ==
    \A g \in granted :
      /\ g.by = "tool"
      /\ g.turn \in 0..Len(turnScopes)
      /\ g.tool \notin Unavailable
      /\ g.live => Within(turnScopes, g.turn, g.tool, g.mode)

IInv == Shapes /\ OwnSlot /\ PreparedBound /\ ChildBound /\ Asking /\ GrantedBound

(* A scope that `narrowed_into` accepts, with the unavailable tools denied,  *)
(* permits nothing its parent forbids.                                       *)
LEMMA NarrowingIsSound ==
    ASSUME NEW parent, NEW def, NEW tool,
           NarrowedInto(parent, Candidate(parent, def)),
           Permits(ExcludeUnavailable(Candidate(parent, def)), tool)
    PROVE  /\ Permits(parent, tool)
           /\ tool \notin Unavailable
           /\ ModeNarrows(parent.mode, ExcludeUnavailable(Candidate(parent, def)).mode)
<1> DEFINE c == Candidate(parent, def)
<1>1. ExcludeUnavailable(c).denied = c.denied \union Unavailable
  BY DEF ExcludeUnavailable, Candidate
<1>2. ExcludeUnavailable(c).allowed = c.allowed /\ ExcludeUnavailable(c).mode = c.mode
  BY DEF ExcludeUnavailable, Candidate
<1>3. tool \notin c.denied /\ tool \notin Unavailable
  BY <1>1 DEF Permits
<1>4. \A list \in c.allowed : tool \in list
  BY <1>2 DEF Permits
<1> HIDE DEF c
<1>5. tool \notin parent.denied
  BY <1>3 DEF NarrowedInto, c
<1>6. \A list \in parent.allowed : tool \in list
  BY <1>4 DEF NarrowedInto, c
<1> QED BY <1>2, <1>3, <1>5, <1>6 DEF Permits, NarrowedInto, c

(* A turn that exists keeps its bound when another one starts. *)
LEMMA WithinStable ==
    ASSUME NEW scopes \in Seq(Scopes), NEW scope \in Scopes, NEW turn \in 0..Len(scopes),
           NEW tool, NEW mode, Within(scopes, turn, tool, mode)
    PROVE  Within(Append(scopes, scope), turn, tool, mode)
<1>1. turn # 0 => Append(scopes, scope)[turn] = scopes[turn]
  OBVIOUS
<1> QED BY <1>1 DEF Within

LEMMA InitIInv == Init => IInv
BY DEF Init, IInv, Shapes, OwnSlot, PreparedBound, ChildBound, Asking, GrantedBound, NoSpawn,
       NoChild, Spawning, Inherit, DefaultTurnScope

LEMMA StartTurnIInv == ASSUME IInv, NEW scope \in Scopes, StartTurn(scope) PROVE IInv'
<1>1. Shapes'
  BY DEF IInv, Shapes, StartTurn
<1>2. Len(turnScopes) \in Nat /\ Len(turnScopes') = Len(turnScopes) + 1
  BY DEF IInv, Shapes, StartTurn
<1>3. OwnSlot'
  BY <1>2 DEF IInv, Shapes, OwnSlot, StartTurn
<1>4. ASSUME NEW s, Bounded(turnScopes, cancelledTurns, spawn.by, spawn.turn, s)
      PROVE  Bounded(Append(turnScopes, scope), cancelledTurns, spawn.by, spawn.turn, s)
  <2>1. turnScopes \in Seq(Scopes) /\ spawn.turn \in 0..Len(turnScopes)
    BY DEF IInv, Shapes
  <2> QED BY <1>4, <2>1, WithinStable DEF Bounded
<1>5. PreparedBound' /\ ChildBound' /\ Asking'
  BY <1>4 DEF IInv, PreparedBound, ChildBound, Asking, StartTurn
<1>6. GrantedBound'
  <2> SUFFICES ASSUME NEW g \in granted
               PROVE  /\ g.by = "tool" /\ g.turn \in 0..Len(turnScopes')
                      /\ g.tool \notin Unavailable
                      /\ g.live => Within(turnScopes', g.turn, g.tool, g.mode)
    BY DEF GrantedBound, StartTurn
  <2>1. /\ g.by = "tool" /\ g.turn \in 0..Len(turnScopes)
        /\ g.tool \notin Unavailable
        /\ g.live => Within(turnScopes, g.turn, g.tool, g.mode)
    BY DEF IInv, GrantedBound
  <2>2. g.live => Within(turnScopes', g.turn, g.tool, g.mode)
    BY <2>1, WithinStable DEF IInv, Shapes, StartTurn
  <2> QED BY <1>2, <2>1, <2>2
<1> QED BY <1>1, <1>3, <1>5, <1>6 DEF IInv

LEMMA FinishTurnIInv == ASSUME IInv, FinishTurn PROVE IInv'
BY DEF IInv, FinishTurn, Shapes, OwnSlot, PreparedBound, ChildBound, Asking, GrantedBound

LEMMA CancelTurnIInv == ASSUME IInv, CancelTurn PROVE IInv'
<1>1. Shapes' /\ OwnSlot' /\ Asking' /\ GrantedBound'
  BY DEF IInv, CancelTurn, Shapes, OwnSlot, Asking, GrantedBound
<1>2. ASSUME NEW s, Bounded(turnScopes, cancelledTurns, spawn.by, spawn.turn, s)
      PROVE  Bounded(turnScopes, cancelledTurns', spawn.by, spawn.turn, s)
  BY <1>2 DEF CancelTurn, Bounded
<1>3. PreparedBound' /\ ChildBound'
  BY <1>2 DEF IInv, PreparedBound, ChildBound, CancelTurn
<1> QED BY <1>1, <1>3 DEF IInv

(* A spawn starts without a child, on the turn in the slot. *)
LEMMA SpawnsIInv ==
    ASSUME IInv, NEW by \in {"tool", "client"}, NEW def, Spawns(by, def), by = "tool" => slot # 0
    PROVE  IInv'
<1>1. Shapes'
  BY DEF IInv, Spawns, Shapes, NoSpawn, NoChild, Spawning
<1>2. OwnSlot' /\ PreparedBound' /\ ChildBound' /\ Asking'
  BY DEF IInv, Spawns, OwnSlot, PreparedBound, ChildBound, Asking, NoSpawn, NoChild, Spawning
<1>3. GrantedBound'
  BY DEF IInv, Spawns, GrantedBound
<1> QED BY <1>1, <1>2, <1>3 DEF IInv

LEMMA PrepareIInv == ASSUME IInv, PrepareChildScope PROVE IInv'
<1> DEFINE p == ParentScope
           c == Candidate(p, spawn.def)
           x == ExcludeUnavailable(c)
           asked == IF spawn.by = "tool" THEN spawn.turn ELSE slot
<1>1. Shapes' /\ GrantedBound' /\ Asking'
  BY DEF IInv, PrepareChildScope, Shapes, GrantedBound, Asking, Spawning
<1>2. OwnSlot'
  BY DEF IInv, PrepareChildScope, OwnSlot, Shapes, Spawning
<1>3. child.pc = "none" /\ UNCHANGED <<child, turnScopes, slot, cancelledTurns>>
  BY DEF IInv, PreparedBound, PrepareChildScope
<1>4. CASE ~spawn.def.spawn /\ NarrowedInto(p, c)
  <2>1. /\ spawn'.scope = x /\ spawn'.turn = asked /\ spawn'.by = spawn.by
        /\ spawn'.pc = "insert"
    BY <1>4 DEF PrepareChildScope, IInv, Shapes
  <2>2. spawn.by = "client" \/ asked \notin cancelledTurns => asked = slot
    BY DEF IInv, OwnSlot, PrepareChildScope, Spawning
  <2>3. ASSUME NEW tool \in Tools, Permits(x, tool)
        PROVE  tool \notin Unavailable /\ Within(turnScopes, slot, tool, x.mode)
    <3>1. Permits(p, tool) /\ tool \notin Unavailable /\ ModeNarrows(p.mode, x.mode)
      BY <1>4, <2>3, NarrowingIsSound
    <3> QED BY <3>1 DEF Within, ParentScope
  <2>4. Bounded(turnScopes, cancelledTurns, spawn.by, asked, x)
    <3> HIDE DEF x, asked
    <3> QED BY <2>2, <2>3 DEF Bounded
  <2>5. PreparedBound'
    <3> HIDE DEF x, asked
    <3> QED BY <1>3, <2>1, <2>4 DEF PreparedBound
  <2> QED BY <1>1, <1>2, <1>3, <2>5 DEF IInv, ChildBound
<1>5. CASE ~(~spawn.def.spawn /\ NarrowedInto(p, c))
  <2>1. spawn'.pc = "refused"
    BY <1>5 DEF PrepareChildScope, IInv, Shapes
  <2> QED BY <1>1, <1>2, <1>3, <2>1 DEF IInv, PreparedBound, ChildBound
<1> QED BY <1>4, <1>5

(* The other steps of a spawn keep the turn and the scope. *)
LEMMA SpawnStepsIInv ==
    ASSUME IInv, InsertChild \/ StartChildTurn \/ SpawnChildTask \/ DropSpawn PROVE IInv'
<1>1. Shapes' /\ GrantedBound'
  BY DEF IInv, InsertChild, StartChildTurn, SpawnChildTask, DropSpawn, Shapes, GrantedBound,
         NoChild, Spawning
<1>2. /\ spawn'.by = spawn.by /\ spawn'.turn = spawn.turn /\ spawn'.scope = spawn.scope
      /\ UNCHANGED <<turnScopes, slot, cancelledTurns>>
  BY DEF IInv, Shapes, InsertChild, StartChildTurn, SpawnChildTask, DropSpawn
<1>3. OwnSlot'
  BY <1>2 DEF IInv, OwnSlot, Spawning, InsertChild, StartChildTurn, SpawnChildTask, DropSpawn
<1>4. PreparedBound'
  BY <1>2 DEF IInv, Shapes, PreparedBound, InsertChild, StartChildTurn, SpawnChildTask,
              DropSpawn, Spawning, NoChild
<1>5. ChildBound'
  BY <1>2 DEF IInv, Shapes, PreparedBound, ChildBound, InsertChild, StartChildTurn,
              SpawnChildTask, DropSpawn, NoChild
<1>6. Asking'
  BY DEF IInv, Shapes, Asking, InsertChild, StartChildTurn, SpawnChildTask, DropSpawn, NoChild
<1> QED BY <1>1, <1>3, <1>4, <1>5, <1>6 DEF IInv

(* The child's own steps keep its scope; it asks only for what it permits. *)
LEMMA ChildStepsIInv ==
    ASSUME IInv,
           \/ \E kind \in {"AgentMessage", "SystemNotice"} : ChildSays(kind)
           \/ \E tool \in Tools, votes \in HookVotes : ChildCalls(tool, votes)
           \/ CancelChild \/ HandshakeLost
           \/ \E failed \in BOOLEAN : ChildEnds(failed)
           \/ DeliverOutcome
    PROVE  IInv'
<1>1. UNCHANGED <<turnScopes, slot, cancelledTurns, spawn, spawns, granted>>
  BY DEF ChildSays, ChildCalls, CancelChild, HandshakeLost, ChildEnds, DeliverOutcome
<1>2. /\ child'.scope = child.scope
      /\ child.pc \in {"running", "asking", "ended"}
      /\ child'.pc \in {"running", "asking", "ended", "removed"}
  BY DEF IInv, Shapes, ChildSays, ChildCalls, CancelChild, HandshakeLost, ChildEnds,
         DeliverOutcome, Answered
<1>3. Shapes'
  BY <1>1 DEF IInv, Shapes, ChildSays, ChildCalls, CancelChild, HandshakeLost, ChildEnds,
              DeliverOutcome, Answered
<1>4. OwnSlot' /\ GrantedBound'
  BY <1>1 DEF IInv, OwnSlot, GrantedBound
<1>5. PreparedBound' /\ ChildBound'
  BY <1>1, <1>2 DEF IInv, PreparedBound, ChildBound
<1>6. child'.pc = "asking" => child'.tool \in Tools /\ Permits(child'.scope, child'.tool)
  BY <1>2 DEF IInv, Shapes, Asking, ChildSays, ChildCalls, CancelChild, HandshakeLost, ChildEnds,
              DeliverOutcome, Answered
<1>7. Asking'
  BY <1>1, <1>6 DEF IInv, Asking
<1> QED BY <1>3, <1>4, <1>5, <1>7 DEF IInv

(* An approved call was asked by a supervised child. *)
LEMMA ChildRunsGranted ==
    ASSUME IInv, ChildRuns, child.pc = "asking", spawn.pc \in {"await", "prompt"}
    PROVE  GrantedBound'
<1>1. /\ spawn.by = "tool" /\ spawn.turn \in 0..Len(turnScopes)
      /\ child.tool \in Tools /\ Permits(child.scope, child.tool)
  BY DEF IInv, Shapes, Asking
<1>2. /\ child.tool \notin Unavailable
      /\ spawn.turn \notin cancelledTurns =>
           Within(turnScopes, spawn.turn, child.tool, child.scope.mode)
  BY <1>1 DEF IInv, ChildBound, Bounded
<1> DEFINE new == [tool |-> child.tool, turn |-> spawn.turn, by |-> spawn.by,
                   mode |-> child.scope.mode, live |-> spawn.turn \notin cancelledTurns]
<1>3. granted' = granted \union {new} /\ turnScopes' = turnScopes
  BY DEF ChildRuns
<1>4. /\ new.by = "tool" /\ new.turn \in 0..Len(turnScopes)
      /\ new.tool \notin Unavailable
      /\ new.turn = spawn.turn /\ new.tool = child.tool /\ new.mode = child.scope.mode
  BY <1>1, <1>2
<1>5. new.live = (spawn.turn \notin cancelledTurns)
  BY Zenon
<1>6. new.live => Within(turnScopes, new.turn, new.tool, new.mode)
  <2> HIDE DEF new
  <2> QED BY <1>2, <1>4, <1>5, Zenon
<1>7. \A g \in granted : /\ g.by = "tool" /\ g.turn \in 0..Len(turnScopes)
                         /\ g.tool \notin Unavailable
                         /\ g.live => Within(turnScopes, g.turn, g.tool, g.mode)
  BY DEF IInv, GrantedBound
<1> HIDE DEF new
<1> QED BY <1>3, <1>4, <1>6, <1>7 DEF GrantedBound

LEMMA ParentStepsIInv ==
    ASSUME IInv,
           \/ \E votes \in HookVotes : ParentFold(votes)
           \/ \E allowed \in BOOLEAN : ParentAnswers(allowed)
           \/ ReceiveFinal
    PROVE  IInv'
<1>1. /\ UNCHANGED <<turnScopes, slot, cancelledTurns>>
      /\ spawn'.by = spawn.by /\ spawn'.turn = spawn.turn
      /\ spawn.pc \in {"await", "prompt"} /\ spawn'.pc \in {"await", "prompt", "returned"}
      /\ child'.scope = child.scope
      /\ child' = child \/ (child.pc = "asking" /\ child' = Answered)
  BY DEF IInv, Shapes, ParentFold, ParentAnswers, ReceiveFinal, ChildRuns, Answered
<1>2. Shapes'
  BY <1>1 DEF IInv, Shapes, ParentFold, ParentAnswers, ReceiveFinal, ChildRuns, Answered, Spawning
<1>3. OwnSlot' /\ Asking'
  BY <1>1 DEF IInv, Shapes, OwnSlot, Asking, Spawning, Answered
<1>4. PreparedBound' /\ ChildBound'
  BY <1>1 DEF IInv, Shapes, PreparedBound, ChildBound, Answered
<1>5. UNCHANGED granted \/ (ChildRuns /\ child.pc = "asking")
  BY DEF ParentFold, ParentAnswers, ReceiveFinal
<1>6. GrantedBound'
  BY <1>1, <1>5, ChildRunsGranted DEF IInv, GrantedBound
<1> QED BY <1>2, <1>3, <1>4, <1>6 DEF IInv

LEMMA NextIInv == IInv /\ [Next]_scopeVars => IInv'
<1> SUFFICES ASSUME IInv, [Next]_scopeVars PROVE IInv'
  OBVIOUS
<1>1. CASE UNCHANGED scopeVars
  BY <1>1 DEF scopeVars, IInv, Shapes, OwnSlot, PreparedBound, ChildBound, Asking, GrantedBound
<1>2. CASE AgentTool
  BY <1>2, SpawnsIInv DEF AgentTool
<1>3. ASSUME NEW def \in Definitions, SpawnSubagent(def) PROVE IInv'
  BY <1>3, SpawnsIInv DEF SpawnSubagent
<1> QED BY <1>1, <1>2, <1>3, StartTurnIInv, FinishTurnIInv, CancelTurnIInv, PrepareIInv,
           SpawnStepsIInv, ChildStepsIInv, ParentStepsIInv DEF Next

(* A subagent is never given, and never runs, a tool outside the scope of   *)
(* the turn that spawned it, whatever the scopes, the definitions, the      *)
(* order of spawns, folds, cancels and turns, and their number              *)
(* (prepare_child_scope, spawn_subagent_awaitable, parent_second_fold).     *)
THEOREM SubagentsStayWithinScope == Spec => []ChildNeverWider
<1>1. IInv => ChildNeverWider
  BY DEF IInv, ChildBound, Bounded, GrantedBound, ChildNeverWider
<1> QED BY <1>1, InitIInv, NextIInv, PTL DEF Spec
=============================================================================
