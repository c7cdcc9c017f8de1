-------------------------------- MODULE Tui --------------------------------
(***************************************************************************)
(* The terminal client: its event loop (zhive-tui lib.rs), the state the   *)
(* loop reduces keys, engine notifications and RPC outcomes into (app.rs,  *)
(* conversation.rs), and the detached tasks that make the calls (rpc.rs).  *)
(*                                                                         *)
(* Text is a set of messages the user types; what a frame looks like,      *)
(* scrolling, selections, themes and the palettes that only edit the       *)
(* composer are left out.  The engine is external: it runs one turn at a   *)
(* time and broadcasts what happens.  The client library's event buffer is *)
(* bounded and reports a gap instead of what it dropped.                   *)
(***************************************************************************)
EXTENDS Naturals, Sequences, FiniteSets, SequencesExt

CONSTANTS
    MaxMsgs,    \* bound: messages the user types, numbered as they are typed
    NewThreads, \* bound: threads made by /clear and by a restore
    MaxTurns,   \* bound: turns the engine runs
    MaxInputs,  \* bound: messages and commands of the user, deltas, questions,
                \* subagent events and unanswered calls, all together
    EventCap    \* the client's event buffer

VARIABLES
    conv,       \* Conversation: thread, turns with their status, busy
    msgq, halted,       \* message_queue, queue_halted
    draft, images,      \* the composer's message, whether images are attached
    overlay, fetching, primed,  \* the overlay, pending_overlay, esc_primed
    disconnected, quit,
    turnOf,     \* the loop: "select", "drain" or "over"
    tasks,      \* calls in flight; with an outcome, a message on its way to the loop
    stream, gap,        \* undelivered notifications; whether some were dropped
    eng,        \* the engine: the running turn and whether it waits for consent
    stored,     \* the turns of each thread in the engine's history
    extras,     \* what counts for MaxInputs besides messages
    typed, accepted, excused \* history: how many messages were typed, which the engine accepted,
                        \* which were dropped on purpose or accepted without an answer

uvars == <<draft, images, overlay, fetching, primed, quit>>
engv == <<eng, stored, accepted>>
vars == <<conv, msgq, halted, uvars, disconnected, turnOf, tasks, stream, gap,
          engv, extras, typed, excused>>

NoMsg == 0
Child == 0
Extra == extras + typed < MaxInputs /\ extras' = extras + 1
Msgs == 1 .. MaxMsgs
Threads == 1 .. (NewThreads + 1)
Made == Len(stored)
NoTurn == [thread |-> 0, n |-> 0]
Idle == [turn |-> NoTurn, asking |-> FALSE]
Turn(th, n) == [thread |-> th, n |-> n]
Conversation(th) == [thread |-> th, turns |-> <<>>, busy |-> FALSE]

Init ==
    /\ conv = Conversation(1) /\ msgq = <<>> /\ halted = FALSE
    /\ draft = NoMsg /\ images = FALSE /\ overlay = "none" /\ fetching = FALSE
    /\ primed = FALSE /\ quit = FALSE /\ disconnected = FALSE
    /\ turnOf = "select" /\ tasks = {} /\ stream = <<>> /\ gap = FALSE
    /\ eng = Idle /\ stored = << <<>> >> /\ extras = 0
    /\ typed = 0 /\ accepted = {} /\ excused = {}
-----------------------------------------------------------------------------
(* protocol::decode: what the client understands of a notification; the     *)
(* phase, usage and compaction ones change nothing modelled here.           *)
TurnKinds == {"TurnStarted", "TurnCompleted", "TurnFailed", "TurnRejected"}
CompactionKinds == {"CompactionStarted", "CompactionDelta", "CompactionCompleted",
                    "CompactionFailed"}
SubagentKinds == {"SubagentStarted", "SubagentCompleted"}
Notifications ==
    TurnKinds \cup {"ItemAppended", "ItemDelta", "PhaseChanged", "SessionAborted",
                    "PermissionRequested", "Usage"} \cup SubagentKinds \cup CompactionKinds
Decode(e) == IF e.kind \in Notifications THEN e ELSE [e EXCEPT !.kind = "Unhandled"]

(* Conversation::turn_mut with a status, and apply_main_thread. *)
SetTurn(c, turn, status) ==
    IF \E i \in DOMAIN c.turns : c.turns[i].turn = turn
    THEN [c EXCEPT !.turns = [i \in DOMAIN @ |->
             IF @[i].turn = turn THEN [turn |-> turn, status |-> status] ELSE @[i]]]
    ELSE [c EXCEPT !.turns = Append(@, [turn |-> turn, status |-> status])]

LastRunning(c) == {i \in DOMAIN c.turns : c.turns[i].status = "InProgress"}
Interrupt(c) ==
    IF LastRunning(c) = {} THEN c
    ELSE LET i == CHOOSE i \in LastRunning(c) : \A j \in LastRunning(c) : j <= i
         IN  [c EXCEPT !.turns[i].status = "Interrupted"]

Known(c, turn) == \E i \in DOMAIN c.turns : c.turns[i].turn = turn

ApplyMainThread(c, e) ==
    CASE e.kind = "TurnStarted" -> [SetTurn(c, e.turn, "InProgress") EXCEPT !.busy = TRUE]
      [] e.kind = "ItemAppended" ->
             IF Known(c, e.turn) THEN c ELSE SetTurn(c, e.turn, "InProgress")
      [] e.kind = "ItemDelta" -> [c EXCEPT !.busy = TRUE]
      [] e.kind = "TurnCompleted" -> [SetTurn(c, e.turn, "Completed") EXCEPT !.busy = FALSE]
      [] e.kind = "TurnFailed" -> [SetTurn(c, e.turn, "Failed") EXCEPT !.busy = FALSE]
      [] e.kind = "TurnRejected" -> [c EXCEPT !.busy = FALSE]
      [] e.kind = "SessionAborted" -> [Interrupt(c) EXCEPT !.busy = FALSE]
      [] OTHER -> c

(* Conversation::apply: events of another thread go to its subagent summary *)
(* or nowhere; TurnRejected and SessionAborted are not told apart by thread.*)
Scoped == {"TurnStarted", "TurnCompleted", "TurnFailed", "ItemAppended", "ItemDelta"}

(* Mutant: events are not routed by their thread *)
ApplyAnyThread(c, e) == ApplyMainThread(c, e)

Apply(c, e) ==
    IF e.kind \in Scoped /\ e.turn.thread # c.thread THEN c ELSE ApplyMainThread(c, e)

(* Conversation::load_history *)
LoadHistory(c, turns) ==
    [thread |-> c.thread, busy |-> FALSE,
     turns |-> [i \in DOMAIN turns |-> [turn |-> turns[i], status |-> "Completed"]]]

(* App::reset_thread *)
ResetThread ==
    /\ msgq' = <<>> /\ halted' = FALSE /\ images' = FALSE
    /\ excused' = excused \cup ToSet(msgq)

ClearQueue ==
    /\ msgq' = <<>> /\ halted' = FALSE /\ excused' = excused \cup ToSet(msgq)
KeepQueue == UNCHANGED <<msgq, halted, excused>>
-----------------------------------------------------------------------------
(* spawn_rpc: the thread is the one on view when the action is performed. *)
Call(kind, th, m) == [kind |-> kind, thread |-> th, msg |-> m, outcome |-> "none", turns |-> <<>>]
Spawn(call) == tasks' = tasks \cup {call}

(* Action::Submit *)
PerformSubmit(m) ==
    /\ Spawn(Call("submit", conv.thread, m))
    /\ conv' = [conv EXCEPT !.busy = TRUE] /\ images' = FALSE

(* One round of event_loop: a branch of the select, then the queue. *)
Loop == turnOf = "select" /\ ~quit /\ turnOf' = "drain"
Local == Loop /\ UNCHANGED <<disconnected, stream, gap>>
Key == Local /\ UNCHANGED engv
Command == Key /\ Extra
Conversing == overlay = "none" /\ ~fetching

(* take_next_queued, after every round. *)
LastCompleted == conv.turns # <<>> /\ Last(conv.turns).status = "Completed"
Drain ==
    /\ turnOf = "drain" /\ turnOf' = IF quit THEN "over" ELSE "select"
    /\ IF ~halted /\ ~conv.busy /\ msgq # <<>> /\ LastCompleted
       THEN PerformSubmit(Head(msgq)) /\ msgq' = Tail(msgq)
       ELSE UNCHANGED <<conv, msgq, tasks, images>>
    /\ UNCHANGED <<halted, draft, overlay, fetching, primed, quit, disconnected, stream, gap,
                   engv, extras, typed, excused>>
-----------------------------------------------------------------------------
(* App::submit: a message is sent, or queued behind a turn unless it comes  *)
(* with images.                                                             *)
Texts == IF draft # NoMsg THEN {draft}
         ELSE {m \in Msgs : m = typed + 1 /\ extras + typed < MaxInputs}

Typing(m) ==
    /\ Key /\ Conversing /\ m \in Texts /\ primed' = FALSE
    /\ typed' = IF m > typed THEN m ELSE typed
    /\ UNCHANGED <<overlay, fetching, quit, extras>>
SendOrQueue(m) ==
    /\ draft' = NoMsg
    /\ \/ conv.busy /\ msgq' = Append(msgq, m) /\ UNCHANGED <<halted, excused, conv, tasks, images>>
       \/ ~conv.busy /\ halted' = FALSE /\ PerformSubmit(m) /\ UNCHANGED <<msgq, excused>>

EnterMessage(m) ==
    /\ Typing(m)
    /\ IF conv.busy /\ images THEN draft' = m /\ KeepQueue /\ UNCHANGED <<conv, tasks, images>>
       ELSE SendOrQueue(m)

(* run_skill: the text of a skill, queued behind a turn with images or not. *)
EnterSkill(m) == Typing(m) /\ SendOrQueue(m)

(* Enter on a blank composer resumes a halted queue. *)
EnterBlank ==
    /\ Key /\ Conversing /\ draft = NoMsg /\ ~images /\ ~conv.busy /\ msgq # <<>>
    /\ PerformSubmit(Head(msgq)) /\ msgq' = Tail(msgq) /\ halted' = FALSE
    /\ primed' = FALSE
    /\ UNCHANGED <<draft, overlay, fetching, quit, extras, typed, excused>>

Esc ==
    /\ Key /\ Conversing
    /\ \/ /\ conv.busy /\ Extra /\ primed' = FALSE
          /\ Spawn(Call("cancel", conv.thread, NoMsg))
          /\ IF msgq = <<>> THEN KeepQueue ELSE ClearQueue
          /\ UNCHANGED <<images, fetching>>
       \/ /\ ~conv.busy /\ msgq # <<>> /\ ClearQueue /\ primed' = FALSE
          /\ UNCHANGED <<tasks, images, fetching, extras>>
       \/ /\ ~conv.busy /\ msgq = <<>> /\ images /\ images' = FALSE /\ primed' = FALSE
          /\ KeepQueue /\ UNCHANGED <<tasks, fetching, extras>>
       \/ /\ ~conv.busy /\ msgq = <<>> /\ ~images /\ ~primed /\ primed' = TRUE
          /\ KeepQueue /\ UNCHANGED <<tasks, images, fetching, extras>>
       \/ /\ ~conv.busy /\ msgq = <<>> /\ ~images /\ primed /\ primed' = FALSE
          /\ Extra
          /\ Spawn(Call("checkpoints", conv.thread, NoMsg)) /\ fetching' = TRUE
          /\ KeepQueue /\ UNCHANGED images
    /\ UNCHANGED <<conv, draft, overlay, quit, typed>>

(* unqueue: back into a blank composer, or away with the rest. *)
CtrlX ==
    /\ Key /\ Conversing /\ msgq # <<>> /\ primed' = FALSE
    /\ \/ (draft # NoMsg \/ images) /\ ClearQueue /\ UNCHANGED draft
       \/ /\ draft = NoMsg /\ draft' = Last(msgq) /\ msgq' = Front(msgq)
          /\ UNCHANGED <<halted, excused>>
    /\ UNCHANGED <<conv, images, overlay, fetching, quit, tasks, extras, typed>>

(* Ctrl+C or Ctrl+U with a message in the composer. *)
ClearComposer ==
    /\ Key /\ Conversing /\ draft # NoMsg /\ primed' = FALSE
    /\ draft' = NoMsg /\ excused' = excused \cup {draft}
    /\ UNCHANGED <<conv, msgq, halted, images, overlay, fetching, quit, tasks, extras, typed>>

(* Action::ReadClipboardImage, or a pasted path of an image. *)
AttachImage ==
    /\ Command /\ Conversing /\ ~images /\ images' = TRUE /\ primed' = FALSE /\ KeepQueue
    /\ UNCHANGED <<conv, draft, overlay, fetching, quit, tasks, typed>>

(* run_slash, from an otherwise blank composer. *)
SlashClear ==
    /\ Local /\ Extra /\ Conversing /\ draft = NoMsg /\ Made < NewThreads + 1 /\ primed' = FALSE
    /\ conv' = Conversation(Made + 1) /\ ResetThread /\ stored' = Append(stored, <<>>)
    /\ UNCHANGED <<draft, overlay, fetching, quit, tasks, typed, eng, accepted>>

SlashList(kind) ==
    /\ Command /\ Conversing /\ draft = NoMsg
    /\ kind \in {"sessions", "models"} /\ fetching' = TRUE /\ primed' = FALSE
    /\ Spawn(Call(kind, conv.thread, NoMsg)) /\ KeepQueue
    /\ UNCHANGED <<conv, draft, images, overlay, quit, typed>>

SlashCompact ==
    /\ Command /\ Conversing /\ draft = NoMsg
    /\ Spawn(Call("compact", conv.thread, NoMsg)) /\ KeepQueue /\ primed' = FALSE
    /\ UNCHANGED <<conv, draft, images, overlay, fetching, quit, typed>>

SlashHelp ==
    /\ Command /\ Conversing /\ draft = NoMsg /\ overlay' \in {"info", "skills"}
    /\ KeepQueue /\ primed' = FALSE
    /\ UNCHANGED <<conv, draft, images, fetching, quit, tasks, typed>>

Quit ==
    /\ Key /\ Conversing /\ draft = NoMsg /\ quit' = TRUE /\ KeepQueue /\ primed' = FALSE
    /\ UNCHANGED <<conv, draft, images, overlay, fetching, tasks, extras, typed>>
-----------------------------------------------------------------------------
(* Keys while a picker is being fetched: all are swallowed, Esc stops it. *)
EscFetch ==
    /\ Key /\ overlay = "none" /\ fetching /\ fetching' = FALSE /\ KeepQueue
    /\ UNCHANGED <<conv, draft, images, overlay, primed, quit, tasks, extras, typed>>

(* on_overlay_key: Help and Settings close; Esc closes a picker or steps    *)
(* back from the confirmation.                                              *)
CloseOverlay ==
    /\ Key /\ overlay \notin {"none", "approval"} /\ KeepQueue
    /\ overlay' = IF overlay = "confirm" THEN "checkpoints" ELSE "none"
    /\ UNCHANGED <<conv, draft, images, fetching, primed, quit, tasks, extras, typed>>

(* resolve_approval *)
ResolveApproval ==
    /\ Key /\ overlay = "approval" /\ overlay' = "none" /\ KeepQueue
    /\ Spawn(Call("resolve", conv.thread, NoMsg))
    /\ UNCHANGED <<conv, draft, images, fetching, primed, quit, extras, typed>>

(* Enter in a picker: complete a skill's command in the composer, resume a  *)
(* session, switch the model, or rewind, which asks once more.  Tab in the  *)
(* session list fetches the other scope.                                    *)
PickSkill ==
    /\ Key /\ overlay = "skills" /\ overlay' = "none" /\ KeepQueue
    /\ UNCHANGED <<conv, draft, images, fetching, primed, quit, tasks, extras, typed>>

PickConfirm ==
    /\ Key /\ overlay = "checkpoints" /\ overlay' = "confirm" /\ KeepQueue
    /\ UNCHANGED <<conv, draft, images, fetching, primed, quit, tasks, extras, typed>>

Picking(from) ==
    /\ Command /\ overlay = from /\ overlay' = "none" /\ KeepQueue
    /\ UNCHANGED <<conv, draft, images, primed, quit, typed>>

PickSession ==
    /\ Picking("sessions")
    /\ \/ UNCHANGED fetching /\ \E th \in {i \in 1..Made : stored[i] # <<>>} :
                                    Spawn(Call("resume", th, NoMsg))
       \/ fetching' = TRUE /\ Spawn(Call("sessions", conv.thread, NoMsg))

PickModel ==
    Picking("models") /\ Spawn(Call("switch", conv.thread, NoMsg)) /\ UNCHANGED fetching

PickCheckpoint ==
    Picking("confirm") /\ Spawn(Call("restore", conv.thread, NoMsg)) /\ UNCHANGED fetching
-----------------------------------------------------------------------------
(* handle_engine *)
Engine == Loop /\ ~disconnected
          /\ UNCHANGED <<draft, fetching, primed, quit, engv, extras, typed>>

(* App::on_engine *)
OnEngine ==
    /\ Engine /\ ~gap /\ stream # <<>>
    /\ LET e == Decode(Head(stream)) IN
       /\ conv' = Apply(conv, e)
       /\ overlay' = IF e.kind = "PermissionRequested" THEN "approval" ELSE overlay
       /\ CASE e.kind \in {"TurnFailed", "TurnRejected"} /\ msgq # <<>> ->
                   halted' = TRUE /\ UNCHANGED <<msgq, excused>>
            [] e.kind = "SessionAborted" /\ msgq # <<>> -> ClearQueue
            [] OTHER -> KeepQueue
    /\ stream' = Tail(stream)
    /\ UNCHANGED <<gap, images, tasks, disconnected>>

OnLagged ==
    /\ Engine /\ gap /\ gap' = FALSE
    /\ conv' = [conv EXCEPT !.busy = FALSE]
    /\ Spawn(Call("resync", conv.thread, NoMsg)) /\ KeepQueue
    /\ UNCHANGED <<stream, overlay, images, disconnected>>

(* App::on_disconnected; the branch is not polled again. *)
OnDisconnected ==
    /\ Engine /\ disconnected' = TRUE /\ stream' = <<>> /\ gap' = FALSE
    /\ conv' = [conv EXCEPT !.busy = FALSE] /\ ClearQueue /\ images' = FALSE
    /\ UNCHANGED <<overlay, tasks>>
-----------------------------------------------------------------------------
(* apply_loop_msg.  A task sends its message when it is scheduled, so the  *)
(* loop may get the messages of different tasks in any order.               *)
Reply(t) == Loop /\ t \in tasks /\ t.outcome # "none" /\ tasks' = tasks \ {t}
            /\ UNCHANGED <<draft, primed, quit, disconnected, stream, gap, engv, extras, typed>>

(* Mutant: a message that was not sent is not put back *)
LoopSubmitDrops(t) ==
    /\ Reply(t) /\ t.kind = "submit"
    /\ conv' = [conv EXCEPT !.busy = FALSE] /\ halted' = TRUE
    /\ UNCHANGED <<msgq, excused, images, overlay, fetching>>

LoopSubmitFailed(t) ==
    /\ Reply(t) /\ t.kind = "submit"
    /\ conv' = [conv EXCEPT !.busy = FALSE]
    /\ msgq' = <<t.msg>> \o msgq /\ halted' = TRUE
    /\ UNCHANGED <<excused, images, overlay, fetching>>

LoopFlash(t) ==
    /\ Reply(t) /\ t.kind # "submit" /\ t.outcome = "failed"
    /\ fetching' = FALSE /\ KeepQueue
    /\ UNCHANGED <<conv, images, overlay>>

LoopShow(t) ==
    /\ Reply(t) /\ t.outcome = "ok" /\ t.kind \in {"sessions", "models"}
    /\ overlay' = t.kind /\ fetching' = FALSE /\ KeepQueue /\ UNCHANGED <<conv, images>>

LoopShowCheckpoints(t) ==
    /\ Reply(t) /\ t.outcome = "ok" /\ t.kind = "checkpoints"
    /\ overlay' = IF t.turns = <<>> THEN overlay ELSE "checkpoints"
    /\ fetching' = FALSE /\ KeepQueue /\ UNCHANGED <<conv, images>>

LoopSwitched(t) ==
    /\ Reply(t) /\ t.outcome = "ok" /\ t.kind = "switch" /\ KeepQueue
    /\ UNCHANGED <<conv, images, overlay, fetching>>

SwitchTo(t) ==
    /\ conv' = LoadHistory(Conversation(t.thread), t.turns) /\ ResetThread
    /\ UNCHANGED <<overlay, fetching>>
LoopResumed(t) == Reply(t) /\ t.outcome = "ok" /\ t.kind = "resume" /\ SwitchTo(t)
LoopRestored(t) == Reply(t) /\ t.outcome = "ok" /\ t.kind = "restore" /\ SwitchTo(t)

LoopResynced(t) ==
    /\ Reply(t) /\ t.outcome = "ok" /\ t.kind = "resync"
    /\ conv' = LoadHistory(conv, t.turns) /\ KeepQueue
    /\ UNCHANGED <<images, overlay, fetching>>
-----------------------------------------------------------------------------
(* External: the engine and the connection, and a task that gets its answer.*)
(* The queue is looked at in the same round as the event, and reads only    *)
(* the loop's own state.                                                    *)
BetweenRounds == turnOf = "select"
Emit(es) ==
    LET all == stream \o es IN
    IF disconnected THEN UNCHANGED <<stream, gap>>
    ELSE /\ stream' = IF Len(all) <= EventCap THEN all
                      ELSE SubSeq(all, Len(all) - EventCap + 1, Len(all))
         /\ gap' = (gap \/ Len(all) > EventCap)
Event(kind, turn) == [kind |-> kind, turn |-> turn]
Answered(t, outcome, th, turns) ==
    tasks' = (tasks \ {t}) \cup {[t EXCEPT !.outcome = outcome, !.thread = th, !.turns = turns]}
TasksOnly == BetweenRounds /\ UNCHANGED <<conv, msgq, halted, uvars, disconnected, turnOf, typed>>
Quiet == UNCHANGED <<stream, gap>>
Turns == Cardinality(UNION {ToSet(stored[i]) : i \in DOMAIN stored})

(* start_turn: accepted, refused because a turn runs, or not answered in    *)
(* time although it was accepted; never accepted once the connection is gone.*)
RunSubmit(t) ==
    /\ t \in tasks /\ t.kind = "submit" /\ t.outcome = "none" /\ TasksOnly
    /\ \/ /\ eng = Idle /\ ~disconnected /\ Turns < MaxTurns
          /\ LET turn == Turn(t.thread, Turns + 1) IN
             /\ eng' = [turn |-> turn, asking |-> FALSE]
             /\ Emit(<<Event("TurnStarted", turn), Event("ItemAppended", turn)>>)
             /\ stored' = [stored EXCEPT ![t.thread] = Append(@, turn)]
          /\ accepted' = accepted \cup {t.msg}
          /\ \/ tasks' = tasks \ {t} /\ UNCHANGED <<excused, extras>>
             \/ Extra /\ Answered(t, "failed", t.thread, <<>>) /\ excused' = excused \cup {t.msg}
       \/ /\ eng # Idle /\ ~disconnected /\ Emit(<<Event("TurnRejected", NoTurn)>>)
          /\ Answered(t, "failed", t.thread, <<>>) /\ UNCHANGED <<eng, stored, accepted, excused, extras>>
       \/ /\ Answered(t, "failed", t.thread, <<>>) /\ Quiet
          /\ (Extra \/ (disconnected /\ UNCHANGED extras))
          /\ UNCHANGED <<eng, stored, accepted, excused>>

RunCancel(t) ==
    /\ t \in tasks /\ t.kind = "cancel" /\ t.outcome = "none" /\ TasksOnly
    /\ tasks' = tasks \ {t}
    /\ IF eng.turn.thread = t.thread /\ eng # Idle
       THEN eng' = Idle /\ Emit(<<Event("SessionAborted", NoTurn)>>)
       ELSE UNCHANGED eng /\ Quiet
    /\ UNCHANGED <<stored, extras, accepted, excused>>

RunResolve(t) ==
    /\ t \in tasks /\ t.kind = "resolve" /\ TasksOnly /\ tasks' = tasks \ {t}
    /\ eng' = [eng EXCEPT !.asking = FALSE] /\ Quiet
    /\ UNCHANGED <<stored, extras, accepted, excused>>

(* The other calls: each may fail, and says so, but for a resync. *)
Asking(t, kinds) ==
    /\ t \in tasks /\ t.kind \in kinds /\ t.outcome = "none" /\ TasksOnly /\ Quiet
    /\ UNCHANGED <<eng, extras, accepted, excused>>
Fails(t) == Answered(t, "failed", t.thread, <<>>) /\ UNCHANGED stored

RunList(t) ==
    /\ Asking(t, {"sessions", "models", "checkpoints", "switch"})
    /\ Fails(t) \/ (Answered(t, "ok", t.thread, stored[t.thread]) /\ UNCHANGED stored)

RunCompact(t) ==
    Asking(t, {"compact"}) /\ (Fails(t) \/ (tasks' = tasks \ {t} /\ UNCHANGED stored))

RunResume(t) ==
    /\ Asking(t, {"resume"})
    /\ Fails(t)
       \/ (eng = Idle /\ Answered(t, "ok", t.thread, stored[t.thread]) /\ UNCHANGED stored)

(* A restore forks a thread with the turns before the checkpoint. *)
RunRestore(t) ==
    /\ Asking(t, {"restore"})
    /\ \/ Fails(t)
       \/ /\ eng = Idle /\ Made < NewThreads + 1
          /\ \E n \in 0..Len(stored[t.thread]) :
                LET kept == SubSeq(stored[t.thread], 1, n) IN
                stored' = Append(stored, kept) /\ Answered(t, "ok", Made + 1, kept)

RunResync(t) ==
    /\ Asking(t, {"resync"}) /\ UNCHANGED stored
    /\ tasks' = tasks \ {t} \/ Answered(t, "ok", t.thread, stored[t.thread])

EngineOnly == BetweenRounds /\ UNCHANGED <<conv, msgq, halted, uvars, disconnected, turnOf, tasks,
                          typed, excused, stored, accepted>>
EngineSpeaks ==
    /\ eng # Idle /\ EngineOnly
    /\ \/ ~eng.asking /\ Extra /\ Emit(<<Event("ItemDelta", eng.turn)>>) /\ UNCHANGED eng
       \/ /\ ~eng.asking /\ Extra /\ eng' = [eng EXCEPT !.asking = TRUE]
          /\ Emit(<<Event("PermissionRequested", eng.turn)>>)
       \/ eng.asking /\ eng' = [eng EXCEPT !.asking = FALSE] /\ Quiet /\ UNCHANGED extras

EngineEnds ==
    /\ eng # Idle /\ ~eng.asking /\ eng' = Idle /\ EngineOnly /\ UNCHANGED extras
    /\ \E kind \in {"TurnCompleted", "TurnFailed"} : Emit(<<Event(kind, eng.turn)>>)

ChildEvent ==
    /\ eng # Idle /\ Extra /\ EngineOnly /\ UNCHANGED eng
    /\ \E kind \in {"TurnStarted", "TurnCompleted", "SubagentCompleted", "SavePoint"} :
           Emit(<<Event(kind, Turn(Child, 1))>>)

Keys == \/ (\E m \in Msgs : EnterMessage(m) \/ EnterSkill(m)) \/ EnterBlank \/ Esc \/ CtrlX \/ ClearComposer
        \/ AttachImage \/ SlashClear \/ (\E k \in {"sessions", "models"} : SlashList(k))
        \/ SlashCompact \/ SlashHelp \/ Quit \/ EscFetch \/ CloseOverlay \/ ResolveApproval
        \/ PickSkill \/ PickConfirm \/ PickSession \/ PickModel \/ PickCheckpoint
EngineEvents == OnEngine \/ OnLagged \/ OnDisconnected
Replies == \E t \in tasks : LoopSubmitFailed(t) \/ LoopFlash(t) \/ LoopShow(t)
                            \/ LoopShowCheckpoints(t) \/ LoopSwitched(t) \/ LoopResumed(t) \/ LoopRestored(t) \/ LoopResynced(t)
Calls == \E t \in tasks : RunSubmit(t) \/ RunCancel(t) \/ RunResolve(t) \/ RunList(t)
                          \/ RunCompact(t) \/ RunResume(t) \/ RunRestore(t) \/ RunResync(t)
External == EngineSpeaks \/ EngineEnds \/ ChildEvent

Next == Keys \/ EngineEvents \/ Replies \/ Drain \/ Calls \/ External
Spec == Init /\ [][Next]_vars
-----------------------------------------------------------------------------
TypeOK ==
    /\ conv.thread \in Threads /\ conv.busy \in BOOLEAN /\ ToSet(msgq) \subseteq Msgs
    /\ draft \in Msgs \cup {NoMsg} /\ images \in BOOLEAN /\ halted \in BOOLEAN
    /\ overlay \in {"none", "info", "skills", "approval",
                   "sessions", "models", "checkpoints", "confirm"}
    /\ turnOf \in {"select", "drain", "over"} /\ Len(stream) <= EventCap

(* What the user typed is never lost or doubled: each message is in one     *)
(* place, the composer, the queue, a call under way, a failed call on its   *)
(* way back, or accepted by the engine, unless it was deliberately dropped  *)
(* (a stop, /clear, a resume, a disconnect), or a call was accepted without *)
(* an answer, in which case it is offered again.                            *)
Places(m) ==
    (IF draft = m THEN 1 ELSE 0) + Cardinality({i \in DOMAIN msgq : msgq[i] = m})
    + Cardinality({t \in tasks : t.kind = "submit" /\ t.msg = m})
    + (IF m \in accepted THEN 1 ELSE 0)
MessagesAccounted == \A m \in 1..typed \ excused : Places(m) = 1

(* The composer never stays blocked: once every notification and every      *)
(* reply is in, it is busy only while the engine runs a turn of the thread  *)
(* on view, whatever was rejected, aborted, dropped by the event buffer,    *)
(* switched away from or cut off on the way.                                *)
NeverStuckBusy ==
    stream = <<>> /\ ~gap /\ tasks = {} /\ conv.busy =>
        eng # Idle /\ eng.turn.thread = conv.thread

(* Typed text is never lost or doubled, and the composer always comes back. *)
ConversationSafe == MessagesAccounted /\ NeverStuckBusy
=============================================================================
