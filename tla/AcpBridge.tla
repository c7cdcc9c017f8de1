----------------------------- MODULE AcpBridge -----------------------------
(*****************************************************************************)
(* The ACP bridge: sessions of an editor bound to threads of the engine, one *)
(* task per prompt that subscribes to the engine's broadcast, starts a turn  *)
(* and streams it, the reverse permission request, cancellation, and the     *)
(* slash commands.  A receiver that falls more than EventCap events behind   *)
(* loses the oldest ones.                                                    *)
(*****************************************************************************)
EXTENDS Naturals, Sequences, FiniteSets, SequencesExt

CONSTANTS
    Prompts,        \* prompt requests of the client
    MaxSessions,    \* MAX_SESSIONS, 1024 in the code
    MaxIds,         \* bound: session and thread ids
    MaxTurns,       \* bound: turns the engine accepts
    MaxAsks,        \* bound: permission requests
    MaxCancels,     \* bound: cancel notifications
    EventCap        \* the broadcast capacity

VARIABLES
    sessions,   \* session -> [thread, effort], for the sessions the bridge knows
    evq,        \* the eviction queue
    ids,        \* SESSION_COUNTER
    prompt,     \* per prompt request, its task
    cancels,    \* threads of the cancel tasks not run yet
    cancelled,  \* cancel notifications so far
    engine,     \* external: [phase, thread, turn, effort, ask, asks]
    endOf       \* per turn, its thread and how it ended: [thread, how]

acpVars == <<sessions, evq, ids, prompt, cancels, cancelled, engine, endOf>>

Fresh == [pc |-> "new", cmd |-> "none", sess |-> 0, thread |-> 0, turn |-> 0,
          rx |-> <<>>, abortRx |-> <<>>, req |-> 0, stop |-> "none"]

(* Session s and its first thread get the same number. *)
Init ==
    /\ sessions = <<>>
    /\ evq = <<>>
    /\ ids = 0
    /\ prompt = [p \in Prompts |-> Fresh]
    /\ cancels = {}
    /\ cancelled = 0
    /\ engine = [phase |-> "Idle", thread |-> 0, turn |-> 0, effort |-> FALSE, ask |-> 0, asks |-> 0]
    /\ endOf = <<>>

-----------------------------------------------------------------------------
(* The session table.                                                      *)

Known(s) == s \in DOMAIN sessions
Without(f, s) == [x \in DOMAIN f \ {s} |-> f[x]]

(* The oldest session is evicted at the cap. *)
NewSession ==
    /\ ids < MaxIds
    /\ LET s    == ids + 1
           full == Cardinality(DOMAIN sessions) >= MaxSessions /\ evq # <<>>
           kept == IF full THEN Without(sessions, Head(evq)) ELSE sessions
       IN /\ sessions' = [x \in DOMAIN kept \union {s} |->
                             IF x = s THEN [thread |-> s, effort |-> FALSE] ELSE kept[x]]
          /\ evq' = Append(IF full THEN Tail(evq) ELSE evq, s)
          /\ ids' = s
    /\ UNCHANGED <<prompt, cancels, cancelled, engine, endOf>>

RemoveSession(s) ==
    /\ sessions' = IF Known(s) THEN Without(sessions, s) ELSE sessions
    /\ evq' = IF Known(s) THEN SelectSeq(evq, LAMBDA x : x # s) ELSE evq

(* `session/set_config_option` for the effort; the model is the engine's. *)
SetEffort(s) ==
    /\ Known(s) /\ ~sessions[s].effort
    /\ sessions' = [sessions EXCEPT ![s].effort = TRUE]
    /\ UNCHANGED <<evq, ids, prompt, cancels, cancelled, engine, endOf>>

-----------------------------------------------------------------------------
(* The engine as the bridge sees it.                                       *)

Receivers == {"subscribed", "streaming", "asking", "compacting"}

(* One more event for a receiver; the oldest is lost beyond the capacity. *)
Push(q, e) == IF Len(q) < EventCap THEN Append(q, e) ELSE Append(Tail(q), e)

(* A broadcast reaches every receiver that exists now. *)
Broadcast(e) ==
    prompt' = [p \in Prompts |->
        [prompt[p] EXCEPT
            !.rx = IF prompt[p].pc \in Receivers THEN Push(@, e) ELSE @,
            !.abortRx = IF prompt[p].pc = "asking" THEN Push(@, e) ELSE @]]

Event(kind) == [kind |-> kind, thread |-> engine.thread, turn |-> engine.turn, req |-> engine.ask]

EngineStep ==
    /\ UNCHANGED <<sessions, evq, ids, cancels, cancelled>>

(* Deltas and items of the running turn. *)
EngineEmits ==
    /\ engine.phase = "Turn" /\ engine.ask = 0
    /\ Broadcast(Event("Item"))
    /\ UNCHANGED <<engine, endOf>>
    /\ EngineStep

EngineAsks ==
    /\ engine.phase = "Turn" /\ engine.ask = 0 /\ engine.asks < MaxAsks
    /\ engine' = [engine EXCEPT !.ask = engine.asks + 1, !.asks = @ + 1]
    /\ Broadcast([Event("PermissionRequested") EXCEPT !.req = engine.asks + 1])
    /\ UNCHANGED endOf
    /\ EngineStep

(* An Ask nobody answers in time is a deny. *)
AskTimesOut ==
    /\ engine.ask # 0
    /\ engine' = [engine EXCEPT !.ask = 0]
    /\ UNCHANGED <<prompt, endOf>>
    /\ EngineStep

EngineEnds(how) ==
    /\ engine.phase = "Turn" /\ engine.ask = 0
    /\ engine' = [engine EXCEPT !.phase = "Idle", !.thread = 0, !.turn = 0]
    /\ endOf' = [endOf EXCEPT ![engine.turn].how = how]
    /\ Broadcast(Event(how))
    /\ EngineStep

CompactionEnds(how) ==
    /\ engine.phase = "Compaction"
    /\ engine' = [engine EXCEPT !.phase = "Idle", !.thread = 0]
    /\ Broadcast(Event(how))
    /\ UNCHANGED endOf
    /\ EngineStep

-----------------------------------------------------------------------------
(* Prompts.                                                                *)

SetPrompt(p, new) ==
    /\ prompt' = [prompt EXCEPT ![p] = new]
    /\ UNCHANGED <<ids, cancels, cancelled>>

(* `respond_stop` *)
Respond(p, stop) == SetPrompt(p, [prompt[p] EXCEPT !.pc = "answered", !.stop = stop, !.rx = <<>>, !.abortRx = <<>>])

(* `parse_prompt`: what a first text block that starts with a slash asks    *)
(* for; a skill becomes a turn with another text.                           *)
SlashActions == {"turn", "compact", "clear", "inform"}

(* The thread is looked up here and used by the spawned task later. *)
OnPrompt(p, s) ==
    /\ prompt[p].pc = "new"
    /\ \/ /\ ~Known(s)
          /\ SetPrompt(p, [prompt[p] EXCEPT !.pc = "answered", !.stop = "UnknownSession"])
       \/ /\ Known(s)
          /\ \E cmd \in SlashActions :
               SetPrompt(p, [prompt[p] EXCEPT !.pc = "spawned", !.cmd = cmd, !.sess = s,
                                              !.thread = sessions[s].thread])
    /\ UNCHANGED <<sessions, evq, engine, endOf>>

Subscribe(p) ==
    /\ prompt[p].pc = "spawned" /\ prompt[p].cmd \in {"turn", "compact"}
    /\ SetPrompt(p, [prompt[p] EXCEPT !.pc = "subscribed"])
    /\ UNCHANGED <<sessions, evq, engine, endOf>>

(* `start_turn_with_reasoning`; a busy engine is a refusal. *)
StartTurn(p) ==
    /\ prompt[p].pc = "subscribed" /\ prompt[p].cmd = "turn"
    /\ \/ /\ engine.phase # "Idle"
          /\ Respond(p, "Refusal")
          /\ UNCHANGED <<engine, endOf>>
       \/ /\ engine.phase = "Idle" /\ Len(endOf) < MaxTurns
          /\ endOf' = Append(endOf, [thread |-> prompt[p].thread, how |-> "running"])
          /\ engine' = [engine EXCEPT !.phase = "Turn", !.thread = prompt[p].thread, !.turn = Len(endOf) + 1,
                           !.effort = Known(prompt[p].sess) /\ sessions[prompt[p].sess].effort]
          /\ SetPrompt(p, [prompt[p] EXCEPT !.pc = "streaming", !.turn = Len(endOf) + 1])
    /\ UNCHANGED <<sessions, evq>>

(* `run_compact_slash`: anything but a started compaction ends the prompt. *)
StartCompact(p) ==
    /\ prompt[p].pc = "subscribed" /\ prompt[p].cmd = "compact"
    /\ \/ Respond(p, "EndTurn") /\ UNCHANGED engine
       \/ /\ engine.phase = "Idle"
          /\ engine' = [engine EXCEPT !.phase = "Compaction", !.thread = prompt[p].thread]
          /\ SetPrompt(p, [prompt[p] EXCEPT !.pc = "compacting"])
    /\ UNCHANGED <<sessions, evq, endOf>>

(* A fresh thread, and no chosen effort. *)
RebindSession(s) ==
    /\ Known(s) /\ ids < MaxIds
    /\ ids' = ids + 1
    /\ sessions' = [sessions EXCEPT ![s] = [thread |-> ids + 1, effort |-> FALSE]]

RunClear(p) ==
    /\ prompt[p].pc = "spawned" /\ prompt[p].cmd = "clear"
    /\ prompt' = [prompt EXCEPT ![p].pc = "answered", ![p].stop = "EndTurn"]
    /\ \/ ~Known(prompt[p].sess) /\ UNCHANGED <<sessions, ids>>
       \/ RebindSession(prompt[p].sess)
    /\ UNCHANGED <<evq, cancels, cancelled, engine, endOf>>

(* /skills, /help and an unknown command. *)
RunInform(p) ==
    /\ prompt[p].pc = "spawned" /\ prompt[p].cmd = "inform"
    /\ Respond(p, "EndTurn")
    /\ UNCHANGED <<sessions, evq, engine, endOf>>

-----------------------------------------------------------------------------
(* `stream_turn`, one event at a time.                                     *)

Mine(p, e) == e.thread = prompt[p].thread /\ e.turn = prompt[p].turn

Receives(p, pc, kinds) ==
    /\ prompt[p].pc = pc /\ prompt[p].rx # <<>>
    /\ Head(prompt[p].rx).kind \in kinds

Skip(p) == SetPrompt(p, [prompt[p] EXCEPT !.rx = Tail(@)])

(* Mutant: an end is matched by its thread only. *)
AnyTurnEnds(p) ==
    /\ Receives(p, "streaming", {"TurnCompleted", "TurnFailed"})
    /\ IF Head(prompt[p].rx).thread = prompt[p].thread THEN Respond(p, "EndTurn") ELSE Skip(p)
    /\ UNCHANGED <<sessions, evq, engine, endOf>>

TurnEnded(p) ==
    /\ Receives(p, "streaming", {"TurnCompleted", "TurnFailed"})
    /\ IF Mine(p, Head(prompt[p].rx)) THEN Respond(p, "EndTurn") ELSE Skip(p)
    /\ UNCHANGED <<sessions, evq, engine, endOf>>

(* Mutant: an abort is not matched at all. *)
AnyAbort(p) ==
    /\ Receives(p, "streaming", {"SessionAborted"})
    /\ Respond(p, "Cancelled") /\ RemoveSession(prompt[p].sess)
    /\ UNCHANGED <<engine, endOf>>

(* An abort is matched by its thread, and forgets the session. *)
Aborted(p) ==
    /\ Receives(p, "streaming", {"SessionAborted"})
    /\ \/ /\ Head(prompt[p].rx).thread = prompt[p].thread
          /\ Respond(p, "Cancelled") /\ RemoveSession(prompt[p].sess)
       \/ /\ Head(prompt[p].rx).thread # prompt[p].thread
          /\ Skip(p) /\ UNCHANGED <<sessions, evq>>
    /\ UNCHANGED <<engine, endOf>>

(* Items and deltas become `session/update`s; the rest is passed over. *)
Rendered(p) ==
    /\ Receives(p, "streaming", {"Item", "CompactionCompleted", "CompactionFailed"})
    /\ Skip(p)
    /\ UNCHANGED <<sessions, evq, engine, endOf>>

(* A request is matched by its thread.  The abort is watched on a fresh     *)
(* subscription.                                                            *)
PermissionRequested(p) ==
    /\ Receives(p, "streaming", {"PermissionRequested"})
    /\ LET e == Head(prompt[p].rx)
       IN IF e.thread = prompt[p].thread
          THEN SetPrompt(p, [prompt[p] EXCEPT !.pc = "asking", !.req = e.req, !.rx = Tail(@), !.abortRx = <<>>])
          ELSE Skip(p)
    /\ UNCHANGED <<sessions, evq, engine, endOf>>

ResumePermission(p) == engine' = [engine EXCEPT !.ask = IF @ = prompt[p].req THEN 0 ELSE @]

AbortIsNext(p) == prompt[p].abortRx # <<>> /\ Head(prompt[p].abortRx).kind = "SessionAborted"
                                           /\ Head(prompt[p].abortRx).thread = prompt[p].thread

(* The abort arm is polled first: it drains what is there before the answer *)
(* is looked at.                                                            *)
ClientAnswers(p) ==
    /\ prompt[p].pc = "asking" /\ prompt[p].abortRx = <<>>
    /\ ResumePermission(p)
    /\ SetPrompt(p, [prompt[p] EXCEPT !.pc = "streaming", !.req = 0])
    /\ UNCHANGED <<sessions, evq, endOf>>

AbortDrain(p) ==
    /\ prompt[p].pc = "asking" /\ prompt[p].abortRx # <<>> /\ ~AbortIsNext(p)
    /\ SetPrompt(p, [prompt[p] EXCEPT !.abortRx = Tail(@)])
    /\ UNCHANGED <<sessions, evq, engine, endOf>>

AbortWhileAsking(p) ==
    /\ prompt[p].pc = "asking" /\ AbortIsNext(p)
    /\ ResumePermission(p)
    /\ Respond(p, "Cancelled") /\ RemoveSession(prompt[p].sess)
    /\ UNCHANGED endOf

CompactionSeen(p) ==
    /\ prompt[p].pc = "compacting" /\ prompt[p].rx # <<>>
    /\ LET e == Head(prompt[p].rx)
       IN IF e.kind \in {"CompactionCompleted", "CompactionFailed"} /\ e.thread = prompt[p].thread
          THEN Respond(p, "EndTurn")
          ELSE Skip(p)
    /\ UNCHANGED <<sessions, evq, engine, endOf>>

-----------------------------------------------------------------------------
(* `session/cancel`: the thread bound now is cancelled by a task. *)
OnCancel(s) ==
    /\ cancelled < MaxCancels /\ Known(s)
    /\ cancels' = cancels \union {sessions[s].thread}
    /\ cancelled' = cancelled + 1
    /\ UNCHANGED <<sessions, evq, ids, prompt, engine, endOf>>

CancelTurn(t) ==
    /\ t \in cancels
    /\ cancels' = cancels \ {t}
    /\ \/ /\ engine.phase = "Turn" /\ engine.thread = t
          /\ engine' = [engine EXCEPT !.phase = "Idle", !.thread = 0, !.turn = 0, !.ask = 0]
          /\ endOf' = [endOf EXCEPT ![engine.turn].how = "SessionAborted"]
          /\ Broadcast(Event("SessionAborted"))
       \/ /\ ~(engine.phase = "Turn" /\ engine.thread = t)
          /\ UNCHANGED <<prompt, engine, endOf>>
    /\ UNCHANGED <<sessions, evq, ids, cancelled>>

PromptStep(p) ==
    \/ \E s \in 1 .. ids : OnPrompt(p, s)
    \/ Subscribe(p) \/ StartTurn(p) \/ StartCompact(p) \/ RunClear(p) \/ RunInform(p)
    \/ TurnEnded(p) \/ Aborted(p) \/ Rendered(p) \/ PermissionRequested(p)
    \/ ClientAnswers(p) \/ AbortDrain(p) \/ AbortWhileAsking(p) \/ CompactionSeen(p)

Next ==
    \/ NewSession
    \/ \E s \in 1 .. ids : SetEffort(s) \/ OnCancel(s)
    \/ \E t \in cancels : CancelTurn(t)
    \/ EngineEmits \/ EngineAsks \/ AskTimesOut
    \/ EngineEnds("TurnCompleted") \/ EngineEnds("TurnFailed")
    \/ CompactionEnds("CompactionCompleted") \/ CompactionEnds("CompactionFailed")
    \/ \E p \in Prompts : PromptStep(p)

Spec == Init /\ [][Next]_acpVars

-----------------------------------------------------------------------------
TypeOK ==
    /\ DOMAIN sessions \subseteq 1 .. ids
    /\ ids \in 0 .. MaxIds
    /\ \A p \in Prompts :
         /\ prompt[p].pc \in {"new", "spawned", "subscribed", "streaming", "asking", "compacting", "answered"}
         /\ prompt[p].stop \in {"none", "UnknownSession", "Refusal", "EndTurn", "Cancelled"}
         /\ Len(prompt[p].rx) <= EventCap
    /\ engine.phase \in {"Idle", "Turn", "Compaction"}

(* The table and the eviction queue hold the same sessions, each once and   *)
(* at most MaxSessions, and no thread serves two sessions.                  *)
SessionsBounded ==
    /\ Range(evq) = DOMAIN sessions /\ IsInjective(evq)
    /\ Cardinality(DOMAIN sessions) <= MaxSessions
    /\ \A s, t \in DOMAIN sessions : sessions[s].thread = sessions[t].thread => s = t

(* The stop reason of a prompt is true: EndTurn is said of a turn that      *)
(* ended on its own, Refusal when none was started, and Cancelled when a    *)
(* turn of the prompt's own thread was aborted.  It need not be the         *)
(* prompt's own turn: an abort carries no turn, and a prompt that           *)
(* subscribed while an earlier turn of the thread ran may meet that one's.  *)
AbortOf(thread) == [thread |-> thread, how |-> "SessionAborted"]
StopIsTruthful ==
    \A p \in Prompts :
        /\ prompt[p].stop = "EndTurn" /\ prompt[p].cmd = "turn" =>
             endOf[prompt[p].turn].how \in {"TurnCompleted", "TurnFailed"}
        /\ prompt[p].stop = "Refusal" => prompt[p].turn = 0
        /\ prompt[p].stop = "Cancelled" => AbortOf(prompt[p].thread) \in Range(endOf)

(* What handle_permission says of its fresh subscription: an abort of the   *)
(* turn whose request the client is being asked cannot be missed.           *)
AbortIsHeard ==
    \A p \in Prompts :
        prompt[p].pc = "asking" /\ endOf[prompt[p].turn].how = "SessionAborted"
            => \E i \in DOMAIN prompt[p].abortRx : prompt[p].abortRx[i].kind = "SessionAborted"

(* Sessions stay bounded and stop reasons true through evictions, /clear,   *)
(* lost events, cancels and permission requests in any order.               *)
AcpConsistent == SessionsBounded /\ StopIsTruthful
=============================================================================
