----------------------------- MODULE Transcript ------------------------------
(***************************************************************************)
(* The transcript of one thread: the parts a provider streams are folded   *)
(* into items (provider/stream_fold.rs), the turn loop pushes the items    *)
(* into the history buffer (engine/turn.rs, state/turn_buffer.rs), the     *)
(* buffer evicts old turns and is replaced by compaction, and every        *)
(* provider call is built from what the buffer still holds                 *)
(* (engine/prompt.rs, engine/cache.rs).                                    *)
(*                                                                         *)
(* A delta of text is a number, the position at which it was received; the *)
(* arguments of a tool are "object" when their JSON is whole; a Completed  *)
(* and a Failed call are both "Final", the prompt keeps both.  The phases  *)
(* of a turn and its races with cancel are in EngineTurns: here a          *)
(* cancelled turn is drained before the next one starts.                   *)
(***************************************************************************)
EXTENDS Naturals, Sequences, FiniteSets, SequencesExt, TLC

CONSTANTS
    Blocks,         \* ids of text and reasoning blocks
    ToolIds,        \* tool-call ids, "" for a provider that sends none
    Cap,            \* in_memory_turn_cap
    MaxIterations,  \* max_turn_iterations
    HasSystem,      \* is a system prompt configured?
    Resumed,        \* was the thread resumed with a turn of history?
    ClientIds,      \* the ids clients put on items they inject into a turn
    MaxTurns, MaxInputs, MaxCompactions  \* bounds: turns; turns, frames of streams and
                                         \* injected items together; compactions

VARIABLES
    done,       \* completed turns, oldest first: [id, items, loaded]
    active,     \* the open turn, or an empty sequence: <<[id, items]>>
    unloaded,   \* lazy_unloaded_count
    run,        \* the turn loop: [pc, turn, iter, cancelled, fallbacks]
    fold,       \* StreamFold: [seq, text, tool, finalized]
    calls,      \* tool-call items of this iteration
    request,    \* the last provider call: [msgs, marks]
    turns, frames, injected, compactions,    \* what happened so far, for the bounds
    heard,      \* deltas received in this turn
    wire,       \* how the provider used each tool-call id
    log         \* every item pushed since the last compaction

transcriptVars == <<done, active, unloaded, run, fold, calls, request, turns, frames, injected,
                    compactions, heard, wire, log>>

NewFold(seq) == [seq |-> seq, text |-> <<>>, tool |-> <<>>, finalized |-> {}]

(* `item:<turn>/<n>`, and the forms other sources of items use. *)
ItemId(of, turn, n) == [of |-> of, turn |-> turn, n |-> n]

Said(id, kind, text) == [id |-> id, kind |-> kind, text |-> text]
Called(id, call, input, status) ==
    [id |-> id, kind |-> "tool", call |-> call, input |-> input, status |-> status]

(* What resume puts back of an earlier conversation, one turn of it. *)
Restored ==
    IF Resumed
    THEN <<[id |-> 0, loaded |-> TRUE,
            items |-> <<Said(ItemId("turn", 0, 0), "user", <<>>), Said(ItemId("turn", 0, 1), "agent", <<>>)>>]>>
    ELSE <<>>

Init ==
    /\ done = Restored /\ active = <<>> /\ unloaded = 0
    /\ run = [pc |-> "idle", turn |-> 0, iter |-> 0, cancelled |-> FALSE, fallbacks |-> 0]
    /\ fold = NewFold(0) /\ calls = <<>>
    /\ request = [msgs |-> <<>>, marks |-> {}]
    /\ turns = 0 /\ frames = 0 /\ injected = 0 /\ compactions = 0
    /\ heard = 0 /\ log = FlattenSeq([i \in DOMAIN Restored |-> Restored[i].items])
    /\ wire = [t \in ToolIds |-> "new"]

-----------------------------------------------------------------------------
(* The history buffer.                                                     *)

Resident(ts) == {i \in DOMAIN ts : ts[i].loaded}

(* Mutant: one turn too many stays. *)
EvictLate(ts) ==
    LET loaded == Resident(ts)
        evicted == {i \in loaded : Cardinality({j \in loaded : j > i}) > Cap}
    IN  [i \in DOMAIN ts |-> IF i \in evicted THEN [ts[i] EXCEPT !.items = <<>>, !.loaded = FALSE]
                                              ELSE ts[i]]

(* The oldest resident turns lose their items until the rest fits the cap. *)
EnforceCap(ts) ==
    LET loaded == Resident(ts)
        limit == IF Cap = 0 THEN 1 ELSE Cap
        evicted == {i \in loaded : Cardinality({j \in loaded : j > i}) >= limit}
    IN  [i \in DOMAIN ts |-> IF i \in evicted THEN [ts[i] EXCEPT !.items = <<>>, !.loaded = FALSE]
                                              ELSE ts[i]]

(* Moves the open turn, if there is one, to the completed ones. *)
CloseTurn ==
    LET closed == [i \in DOMAIN active |-> [id |-> active[i].id, items |-> active[i].items, loaded |-> TRUE]]
        kept == IF active = <<>> THEN done ELSE EnforceCap(done \o closed)
    IN  /\ active' = <<>>
        /\ done' = kept
        /\ unloaded' = unloaded + Cardinality(Resident(done \o closed)) - Cardinality(Resident(kept))

(* Without an open turn the items are dropped. *)
Push(items) ==
    /\ active' = [i \in DOMAIN active |-> [active[i] EXCEPT !.items = @ \o items]]
    /\ log' = IF active = <<>> THEN log ELSE log \o items

ItemsOf(ts) == FlattenSeq([i \in DOMAIN ts |-> ts[i].items])
IterItems == ItemsOf(done) \o ItemsOf(active)

MoreInputs == turns + frames + injected < MaxInputs

StartTurn ==
    /\ run.pc = "idle" /\ turns < MaxTurns /\ MoreInputs
    /\ turns' = turns + 1
    /\ LET user == Said(ItemId("turn", turns + 1, 0), "user", <<>>)
       IN  /\ active' = <<[id |-> turns + 1, items |-> <<user>>]>>
           /\ log' = Append(log, user)
    /\ run' = [pc |-> "call", turn |-> turns + 1, iter |-> 0, cancelled |-> FALSE, fallbacks |-> 0]
    /\ fold' = NewFold(1)
    /\ heard' = 0 /\ calls' = <<>>
    /\ UNCHANGED <<done, unloaded, request, frames, injected, compactions, wire>>

(* `replace_with_compaction`, between two turns. *)
Compact ==
    /\ run.pc = "idle" /\ compactions < MaxCompactions /\ IterItems # <<>>
    /\ compactions' = compactions + 1
    /\ LET items == <<Said(ItemId("marker", 0, compactions), "marker", <<>>),
                      Said(ItemId("summary", 0, compactions), "agent", <<>>)>>
       IN  /\ done' = <<[id |-> 0, items |-> items, loaded |-> TRUE]>>
           /\ log' = items
    /\ active' = <<>> /\ unloaded' = 0
    /\ UNCHANGED <<run, fold, calls, request, turns, frames, injected, heard, wire>>

-----------------------------------------------------------------------------
(* The provider call.                                                      *)

Message(role, call) == [role |-> role, call |-> call]
NoCall == [call |-> ""]

(* A finished tool call becomes a call and its result under one id. *)
MessagesOf(item) ==
    CASE item.kind = "user" -> <<Message("user", NoCall)>>
      [] item.kind = "agent" -> <<Message("assistant", NoCall)>>
      [] item.kind = "tool" -> IF item.status = "Final"
                               THEN <<Message("call", item.call), Message("result", item.call)>>
                               ELSE <<>>
      [] OTHER -> <<>>

Prompt(items) ==
    (IF HasSystem THEN <<Message("system", NoCall)>> ELSE <<>>)
        \o FlattenSeq([i \in DOMAIN items |-> MessagesOf(items[i])])

(* The last system message, the latest user message and, when it is another *)
(* one, the last message; the last tool is marked on its own.               *)
Breakpoints(msgs) ==
    LET last(role) == {i \in DOMAIN msgs : msgs[i].role = role
                          /\ \A j \in i + 1 .. Len(msgs) : msgs[j].role # role}
    IN  last("system") \union last("user") \union (IF msgs = <<>> THEN {} ELSE {Len(msgs)})

(* What a queue of the turn may hold when it is drained.  The input of a    *)
(* turn is given ids of the turn (StartTurn), an injected item keeps the id *)
(* its client chose, which nothing keeps a client from using twice.         *)
Queued ==
    {<<>>} \union {<<Said(ItemId("client", 0, n), "user", <<>>)>> :
                      n \in IF MoreInputs THEN ClientIds ELSE {}}

(* The steer queue is drained first, whether the token has fired or not.    *)
CallProvider ==
    /\ run.pc = "call"
    /\ \E steer \in Queued : Push(steer) /\ injected' = injected + Len(steer)
    /\ LET msgs == Prompt(ItemsOf(done) \o ItemsOf(active'))
       IN  request' = [msgs |-> msgs, marks |-> Breakpoints(msgs)]
    /\ run' = [run EXCEPT !.pc = "open"]
    /\ UNCHANGED <<done, unloaded, fold, calls, turns, frames, compactions, heard, wire>>

ProviderAnswers ==
    /\ run.pc = "open" /\ ~run.cancelled
    /\ run' = [run EXCEPT !.pc = "stream"]
    /\ UNCHANGED <<done, active, unloaded, fold, calls, request, turns, frames, injected, compactions,
                   heard, wire, log>>

-----------------------------------------------------------------------------
(* Folding the stream.                                                     *)

Receive ==
    /\ run.pc = "stream" /\ MoreInputs
    /\ frames' = frames + 1
    /\ UNCHANGED <<done, unloaded, run, request, turns, injected, compactions>>

Mint == ItemId("turn", run.turn, fold.seq)
Without(f, k) == [x \in DOMAIN f \ {k} |-> f[x]]

(* An id is spent even when the block is open already. *)
BlockStart(b, kind) ==
    /\ Receive
    /\ fold' = [fold EXCEPT !.seq = @ + 1,
                            !.text = @ @@ (b :> [id |-> Mint, kind |-> kind, text |-> <<>>])]
    /\ UNCHANGED <<active, log, calls, heard, wire>>

(* A delta without a start opens its block. *)
BlockDelta(b, kind) ==
    /\ Receive
    /\ heard' = heard + 1
    /\ fold' = IF b \in DOMAIN fold.text
               THEN [fold EXCEPT !.text[b].text = Append(@, heard + 1)]
               ELSE [fold EXCEPT !.seq = @ + 1,
                                 !.text = @ @@ (b :> [id |-> Mint, kind |-> kind, text |-> <<heard + 1>>])]
    /\ UNCHANGED <<active, log, calls, wire>>

(* The kind of the end decides the item, whatever kind the start had. *)
BlockEnd(b, kind) ==
    /\ Receive
    /\ fold' = [fold EXCEPT !.text = Without(@, b)]
    /\ IF b \in DOMAIN fold.text
       THEN Push(<<Said(fold.text[b].id, kind, fold.text[b].text)>>)
       ELSE UNCHANGED <<active, log>>
    /\ UNCHANGED <<calls, heard, wire>>

Uses(t, from, to) == wire' = [wire EXCEPT ![t] = IF @ \in from THEN to ELSE "odd"]

ToolInputStart(t) ==
    /\ Receive
    /\ fold' = IF t \in DOMAIN fold.tool THEN fold
               ELSE [fold EXCEPT !.seq = @ + 1, !.tool = @ @@ (t :> [id |-> Mint, input |-> "partial"])]
    /\ Uses(t, {"new"}, "open")
    /\ UNCHANGED <<active, log, calls, heard>>

ToolInputDelta(t, json) ==
    /\ Receive
    /\ fold' = IF t \in DOMAIN fold.tool THEN [fold EXCEPT !.tool[t].input = json] ELSE fold
    /\ Uses(t, {"open", "whole"}, IF json = "object" THEN "whole" ELSE "open")
    /\ UNCHANGED <<active, log, calls, heard>>

(* Anything but a whole object is read as an object without fields. *)
ParseToolInput(json) == IF json = "object" THEN "object" ELSE "empty"

ToolItem(t) == Called(fold.tool[t].id, [call |-> t], ParseToolInput(fold.tool[t].input), "InProgress")

ToolInputEnd(t) ==
    /\ Receive
    /\ IF t \in DOMAIN fold.tool
       THEN /\ fold' = [fold EXCEPT !.tool = Without(@, t), !.finalized = @ \union {t}]
            /\ calls' = Append(calls, ToolItem(t))
       ELSE UNCHANGED <<fold, calls>>
    /\ Uses(t, {"open", "whole"}, IF wire[t] = "whole" THEN "kept" ELSE "ended")
    /\ UNCHANGED <<active, log, heard>>

(* The atomic frame: suppressed when the streamed input was complete, takes *)
(* over an open buffer, otherwise a call of its own.                        *)
ToolCall(t, input) ==
    /\ Receive
    /\ IF t \in fold.finalized THEN UNCHANGED <<fold, calls>>
       ELSE LET id == IF t \in DOMAIN fold.tool THEN fold.tool[t].id ELSE Mint
            IN  /\ calls' = Append(calls, Called(id, [call |-> t], input, "InProgress"))
                /\ fold' = IF t \in DOMAIN fold.tool THEN [fold EXCEPT !.tool = Without(@, t)]
                           ELSE [fold EXCEPT !.seq = @ + 1]
    /\ Uses(t, {"new", "open", "whole", "ended", "kept"}, IF wire[t] = "kept" THEN "kept" ELSE "called")
    /\ UNCHANGED <<active, log, heard>>

(* An error, a result or an approval of the provider's own becomes a notice. *)
Notice ==
    /\ Receive
    /\ Push(<<Said(Mint, "notice", <<>>)>>)
    /\ fold' = [fold EXCEPT !.seq = @ + 1]
    /\ UNCHANGED <<calls, heard, wire>>

Part ==
    \/ \E b \in Blocks, kind \in {"agent", "reasoning"} :
          BlockStart(b, kind) \/ BlockDelta(b, kind) \/ BlockEnd(b, kind)
    \/ \E t \in ToolIds :
          \/ ToolInputStart(t) \/ ToolInputEnd(t)
          \/ \E json \in {"partial", "object"} : ToolInputDelta(t, json)
          \/ \E input \in {"empty", "object"} : ToolCall(t, input)
    \/ Notice

-----------------------------------------------------------------------------
(* The turn loop around the stream.                                        *)

FinishTurn ==
    /\ CloseTurn
    /\ run' = [run EXCEPT !.pc = "idle"]

(* `cancel_turn` closes the buffer at once and fires the token. *)
Cancel ==
    /\ run.pc # "idle" /\ ~run.cancelled
    /\ CloseTurn
    /\ run' = [run EXCEPT !.cancelled = TRUE]
    /\ UNCHANGED <<fold, calls, request, turns, frames, injected, compactions, heard, wire, log>>

(* Mutant: every iteration starts at zero. *)
NextFoldResets == NewFold(0)

(* The next fold continues the ids of the turn. *)
NextFold == NewFold(fold.seq)

(* `StreamFold::finish`: open blocks become items, in the order of the maps. *)
Drain(how) ==
    /\ run.pc = "stream"
    /\ \E bs \in SetToSeqs(DOMAIN fold.text), ts \in SetToSeqs(DOMAIN fold.tool) :
         /\ Push([i \in DOMAIN bs |-> Said(fold.text[bs[i]].id, fold.text[bs[i]].kind, fold.text[bs[i]].text)])
         /\ calls' = calls \o [i \in DOMAIN ts |-> ToolItem(ts[i])]
    /\ wire' = [t \in ToolIds |-> IF wire[t] \in {"new", "odd"} THEN wire[t] ELSE "called"]
    /\ fold' = NextFold
    /\ run' = [run EXCEPT !.pc = IF how = "error" THEN "failed" ELSE "drained"]
    /\ UNCHANGED <<done, unloaded, request, turns, frames, injected, compactions, heard>>

(* An error that is not retried, or the last of the retries.                *)
ProviderFails ==
    /\ run.pc = "open" /\ ~run.cancelled
    /\ FinishTurn
    /\ UNCHANGED <<fold, calls, request, turns, frames, injected, compactions, heard, wire, log>>

StreamFails ==
    /\ run.pc = "failed"
    /\ FinishTurn
    /\ calls' = <<>>
    /\ UNCHANGED <<fold, request, turns, frames, injected, compactions, heard, wire, log>>

Abandon ==
    /\ run.pc \in {"open", "drained", "dispatch"} /\ run.cancelled
    /\ FinishTurn
    /\ calls' = <<>>
    /\ UNCHANGED <<fold, request, turns, frames, injected, compactions, heard, wire, log>>

LastIteration == run.iter + 1 >= MaxIterations

(* Messages of the user keep the turn going; in the last iteration they are *)
(* told and the turn ends with a notice.                                    *)
FollowUp ==
    /\ run.pc = "drained" /\ ~run.cancelled /\ calls = <<>>
    /\ LET notice == IF LastIteration THEN <<Said(ItemId("max-iter-fu", run.turn, 0), "notice", <<>>)>>
                     ELSE <<>>
       IN  \E followUps \in Queued \ {<<>>} :
             Push(followUps \o notice) /\ injected' = injected + Len(followUps)
    /\ run' = [run EXCEPT !.pc = IF LastIteration THEN "over" ELSE "call", !.iter = @ + 1]
    /\ UNCHANGED <<done, unloaded, fold, calls, request, turns, frames, compactions, heard, wire>>

(* The follow-up queue was empty.                                           *)
TurnDone ==
    /\ run.pc = "drained" /\ ~run.cancelled /\ calls = <<>>
    /\ FinishTurn
    /\ UNCHANGED <<fold, calls, request, turns, frames, injected, compactions, heard, wire, log>>

Dispatch ==
    /\ run.pc = "drained" /\ ~run.cancelled /\ calls # <<>>
    /\ run' = [run EXCEPT !.pc = "dispatch"]
    /\ UNCHANGED <<done, active, unloaded, fold, calls, request, turns, frames, injected, compactions, heard, wire, log>>

(* A call without an id gets one of the turn's own numbering. *)
ToolUseId(n) ==
    LET unnamed == {i \in 1..n : calls[i].call = [call |-> ""]}
    IN  IF n \in unnamed THEN [fallback |-> run.fallbacks + Cardinality(unnamed)] ELSE calls[n].call

(* The results are pushed in the order of the calls; a hook may end the     *)
(* turn, and so does the last iteration, with a notice.                     *)
Commit ==
    /\ run.pc = "dispatch" /\ ~run.cancelled
    /\ \E stop \in BOOLEAN :
         LET results == [i \in DOMAIN calls |-> [calls[i] EXCEPT !.call = ToolUseId(i), !.status = "Final"]]
             over == stop \/ LastIteration
             notice == IF ~stop /\ LastIteration THEN <<Said(ItemId("max-iter", run.turn, 0), "notice", <<>>)>>
                       ELSE <<>>
         IN  /\ Push(results \o notice)
             /\ run' = [run EXCEPT !.pc = IF over THEN "over" ELSE "call", !.iter = @ + 1,
                                   !.fallbacks = @ + Cardinality({i \in DOMAIN calls : calls[i].call = [call |-> ""]})]
    /\ calls' = <<>>
    /\ UNCHANGED <<done, unloaded, fold, request, turns, frames, injected, compactions, heard, wire>>

LoopOver ==
    /\ run.pc = "over"
    /\ FinishTurn
    /\ UNCHANGED <<fold, calls, request, turns, frames, injected, compactions, heard, wire, log>>

Next ==
    \/ StartTurn \/ Compact \/ CallProvider \/ ProviderAnswers \/ ProviderFails \/ Part \/ Cancel
    \/ \E how \in {"end", "error"} : Drain(how)
    \/ StreamFails \/ Abandon \/ FollowUp \/ TurnDone \/ Dispatch \/ Commit \/ LoopOver

Spec == Init /\ [][Next]_transcriptVars

-----------------------------------------------------------------------------
TypeOK ==
    /\ Len(active) <= 1 /\ unloaded \in 0 .. MaxTurns
    /\ run.pc \in {"idle", "call", "open", "stream", "drained", "failed", "dispatch", "over"}
    /\ run.iter \in 0 .. MaxIterations
    /\ Cardinality(Resident(done)) <= (IF Cap = 0 THEN 1 ELSE Cap)

Ids(items) == [i \in DOMAIN items |-> items[i].id]
OpenIds == {fold.text[b].id : b \in DOMAIN fold.text} \union {fold.tool[t].id : t \in DOMAIN fold.tool}

Minted(items) == SelectSeq(items, LAMBDA item : item.id.of # "client")

(* An id the engine mints names one item for ever: among the items kept,    *)
(* the calls that wait for their result and the blocks that are still open, *)
(* whatever the provider sent, however many calls the turn made and however *)
(* it went on.  The ids of injected items are their clients', see           *)
(* ItemsNameTheirTurn.                                                      *)
IdsAreUnique ==
    LET kept == Ids(Minted(log))
    IN  /\ IsInjective(kept) /\ IsInjective(Ids(calls))
        /\ ToSet(kept) \intersect ToSet(Ids(calls)) = {}
        /\ OpenIds \intersect (ToSet(kept) \union ToSet(Ids(calls))) = {}
        /\ Cardinality(OpenIds) = Cardinality(DOMAIN fold.text) + Cardinality(DOMAIN fold.tool)

(* The id of what a user said in a turn names that turn: the type says so   *)
(* of every item, and a rewind looks for its cut by these ids               *)
(* (boundary_before_turn), the TUI for the turn of a message.  Injected     *)
(* items keep the ids of their clients.                                     *)
ItemsNameTheirTurn ==
    \A i \in DOMAIN active :
        \A said \in ToSet(active[i].items) :
            said.kind = "user" => said.id.of = "turn" /\ said.id.turn = active[i].id

Texts(items) == FlattenSeq([i \in DOMAIN items |-> IF items[i].kind \in {"agent", "reasoning"}
                                                   THEN items[i].text ELSE <<>>])

(* No delta is lost or told twice: those of an open turn are each in one    *)
(* block or one item of it, interrupted, failed and truncated streams too.  *)
DeltasKept ==
    active # <<>> =>
        LET held == [b \in DOMAIN fold.text |-> ToSet(fold.text[b].text)]
            told == Texts(active[1].items)
        IN  /\ IsInjective(told)
            /\ ToSet(told) \union UNION {held[b] : b \in DOMAIN held} = 1 .. heard
            /\ \A b \in DOMAIN held : held[b] \intersect ToSet(told) = {}

CallsOf(t) == {i \in DOMAIN log : log[i].kind = "tool" /\ log[i].call = [call |-> t]}
Waiting(t) == {i \in DOMAIN calls : calls[i].call = [call |-> t]}

(* A call that the provider streamed, repeated or cut short is run once,    *)
(* and with the arguments it streamed when they came whole.                 *)
CallsRunOnce ==
    \A t \in ToolIds :
        /\ wire[t] # "odd" => Cardinality(CallsOf(t)) + Cardinality(Waiting(t)) <= 1
        /\ wire[t] = "kept" => \E i \in Waiting(t) : calls[i].input = "object"

(* The buffer holds the newest part of the conversation without a gap: what *)
(* is resident is a suffix of everything pushed, the turns without items    *)
(* are the oldest ones and are counted.                                     *)
HistoryIsASuffix ==
    /\ IsSuffix(IterItems, log)
    /\ \A i, j \in DOMAIN done : i < j /\ done[i].loaded => done[j].loaded
    /\ unloaded = Cardinality(DOMAIN done \ Resident(done))

(* Every provider call is one a provider accepts: a call is followed by its *)
(* result and a result follows its call.                                    *)
PairsMatch ==
    \A i \in DOMAIN request.msgs :
        /\ request.msgs[i].role = "call" =>
             i < Len(request.msgs) /\ request.msgs[i + 1] = Message("result", request.msgs[i].call)
        /\ request.msgs[i].role = "result" =>
             i > 1 /\ request.msgs[i - 1] = Message("call", request.msgs[i].call)

AskedInThisTurn ==
    run.pc \in {"open", "stream", "drained", "dispatch"} \/ (run.pc = "call" /\ run.iter > 0)

(* While a turn is open, whatever is streamed, injected or called, its next *)
(* provider call only extends the last one: the marked messages of the last *)
(* call, its end and a user message among them, are found again.            *)
PromptGrows ==
    AskedInThisTurn /\ ~run.cancelled =>
        /\ IsPrefix(request.msgs, Prompt(IterItems))
        /\ Len(request.msgs) \in request.marks
        /\ \E i \in request.marks : request.msgs[i].role = "user"

(* What the model is shown of the conversation is what was said in it.      *)
TranscriptFaithful ==
    IdsAreUnique /\ DeltasKept /\ CallsRunOnce /\ HistoryIsASuffix /\ PairsMatch /\ PromptGrows
=============================================================================
