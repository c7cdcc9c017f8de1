---------------------------- MODULE EngineTurns ----------------------------
(***************************************************************************)
(* The turn lifecycle of the zhive engine (crates/zhive-core/src/engine).  *)
(*                                                                         *)
(* One actor (EngineInner::run) consumes submissions one at a time; every  *)
(* accepted turn is a spawned task (run_turn); compaction runs in the task *)
(* of the turn that triggered it or in a task of its own.  All of them     *)
(* share the engine-wide phase, and per thread the active_turn slot, the   *)
(* status, the history buffer and the injection queues.  A step here is    *)
(* one critical section of the code: a lock scope, a compare-and-swap of   *)
(* the phase, or a send on the storage channel.                            *)
(***************************************************************************)
EXTENDS Integers, Sequences, FiniteSets

CONSTANTS
    TopThreads,         \* client threads (ThreadHandle.parent_thread_id = None)
    ChildThreads,       \* subagent threads (parent_thread_id = Some)
    Inputs,             \* payloads a client injects, each one at most once
    MaxTurns,           \* bound: turn ids that are ever allocated
    MaxProviderRetries, \* MAX_PROVIDER_RETRIES (3 in the code)
    MaxIterations,      \* max_turn_iterations
    MaxDrops            \* bound: dropped storage operations that still show

ASSUME ThreadsAssumption == TopThreads \cap ChildThreads = {}
ASSUME BoundsAssumption ==
    /\ MaxTurns \in Nat /\ MaxProviderRetries \in Nat /\ MaxDrops \in Nat
    /\ MaxIterations \in Nat \ {0}

ASSUME InputsAssumption == IsFiniteSet(Inputs)

Threads == TopThreads \cup ChildThreads
Turns == 1..MaxTurns
None == 0                       \* Option::None in a turn- or thread-valued place
ASSUME NoneIsNoThread == None \notin Threads

Phases == {"Idle", "Turn", "Compaction", "BranchSummary", "Restore", "Retry"}

(* EnginePhase::allows_transition *)
AllowsTransition(from, to) ==
    \/ from = "Idle" /\ to \in {"Turn", "Compaction", "BranchSummary", "Restore"}
    \/ from = "Turn" /\ to \in {"Compaction", "Retry", "Idle"}
    \/ from \in {"Compaction", "BranchSummary", "Restore"} /\ to = "Idle"
    \/ from = "Retry" /\ to \in {"Turn", "Idle"}

Queues == {"Steer", "FollowUp", "NextTurn"}      \* QueueTarget

VARIABLES
    phase,       \* the engine-wide EnginePhase
    slot,        \* per thread: id held by ThreadHandle.active_turn, or None
    status,      \* per thread: ThreadStatus
    active,      \* per thread: id of TurnHistoryBuffer.active, or None
    hist,        \* per thread: resident transcript entries
    queue,       \* per thread and QueueTarget: the injection queue
    fate,        \* per input: where it has got to
    counter,     \* turn_counter
    fired,       \* turns whose cancel token was fired
    rootFired,   \* the root of the cancellation tree was fired
    apc,         \* where the actor is in the submission it handles
    athread,     \* ... the thread of that submission
    aturn,       \* ... the turn it starts or cancels
    aseed,       \* ... the NextTurn items it drained
    pc,          \* per turn: where its task is
    turnThread,  \* per turn: its thread
    loc,         \* per turn: the locals of run_turn
    cpc,         \* per compaction (0: the manual one): where it is
    cthread,     \* ... its thread
    halfRestored,\* a restore reverted files and then could not fork
    terminal,    \* per turn: terminal events that were broadcast
    storageOpen, \* the storage sender has not been taken by Shutdown
    ended,       \* per turn: status in the TurnEnded op enqueued for it, or
                 \* "Lost" if the op found the storage channel full
    row          \* per thread: status in the last ThreadUpserted enqueued, or
                 \* "Stale" if that op found the storage channel full

actorVars == <<apc, athread, aturn, aseed>>
taskVars == <<pc, turnThread, loc>>
compactVars == <<cpc, cthread, halfRestored>>
tokenVars == <<fired, rootFired>>
queueVars == <<queue, fate>>
storageVars == <<storageOpen, ended, row>>
vars == <<phase, slot, status, active, hist, queueVars, counter, tokenVars,
          actorVars, taskVars, compactVars, terminal, storageVars>>

Compactors == {0} \cup Turns

(* A transcript entry: the turn that produced it and the buffered turn it  *)
(* landed in.  Summary stands for the marker and summary items that a      *)
(* compaction leaves behind.                                               *)
Entry == [by : Turns \cup {None}, into : Turns \cup {None}]
Summary == [by |-> None, into |-> None]

Locals == [attempt : 0..MaxProviderRetries, iter : 1..MaxIterations,
           failed : BOOLEAN, loopEnd : BOOLEAN, sleepCancelled : BOOLEAN,
           child : Turns \cup {None}]
FreshLocals == [attempt |-> 0, iter |-> 1, failed |-> FALSE,
                loopEnd |-> FALSE, sleepCancelled |-> FALSE, child |-> None]

ActorPcs == {"idle", "startDrain", "startInstall", "startStatus", "startBuffer",
             "startPush", "startSpawn", "cancelAbort", "cancelStatus",
             "cancelBuffer", "cancelPersist", "cancelPhase", "compact", "fork",
             "restore", "restoreFork", "stopped"}
TaskPcs == {"none", "begin", "steer", "call", "callFailed", "retryEnter",
            "backoff", "retryLeave", "stream", "streamFailed", "fold",
            "followUp", "resolve", "exec", "commit", "finish", "finStatus",
            "finPhase", "finBuffer", "finEvent", "finPersist", "auto", "done"}
CompactPcs == {"none", "claim", "hook", "summarize", "replace", "post"}
Fates == {"unsent", "queued", "landed", "cleared", "dropped"}
EndedValues == {"None", "Completed", "Failed", "Interrupted", "Lost"}
RowValues == {"None", "Idle", "Active", "Stale"}

TypeOK ==
    /\ phase \in Phases
    /\ slot \in [Threads -> Turns \cup {None}]
    /\ status \in [Threads -> {"Idle", "Active"}]
    /\ active \in [Threads -> Turns \cup {None}]
    /\ hist \in [Threads -> SUBSET Entry]
    /\ queue \in [Threads -> [Queues -> Seq(Inputs)]]
    /\ fate \in [Inputs -> Fates]
    /\ counter \in 0..MaxTurns
    /\ fired \subseteq Turns
    /\ rootFired \in BOOLEAN
    /\ apc \in ActorPcs
    /\ athread \in Threads \cup {None}
    /\ aturn \in Turns \cup {None}
    /\ aseed \in Seq(Inputs)
    /\ pc \in [Turns -> TaskPcs]
    /\ turnThread \in [Turns -> Threads \cup {None}]
    /\ loc \in [Turns -> Locals]
    /\ cpc \in [Compactors -> CompactPcs]
    /\ cthread \in [Compactors -> Threads \cup {None}]
    /\ halfRestored \in BOOLEAN
    /\ terminal \in [Turns -> SUBSET {"TurnCompleted", "TurnFailed", "SessionAborted"}]
    /\ storageOpen \in BOOLEAN
    /\ ended \in [Turns -> EndedValues]
    /\ row \in [Threads -> RowValues]

Init ==
    /\ phase = "Idle"
    /\ slot = [t \in Threads |-> None]
    /\ status = [t \in Threads |-> "Idle"]
    /\ active = [t \in Threads |-> None]
    /\ hist = [t \in Threads |-> {}]
    /\ queue = [t \in Threads |-> [q \in Queues |-> <<>>]]
    /\ fate = [i \in Inputs |-> "unsent"]
    /\ counter = 0
    /\ fired = {}
    /\ rootFired = FALSE
    /\ apc = "idle"
    /\ athread = None
    /\ aturn = None
    /\ aseed = <<>>
    /\ pc = [n \in Turns |-> "none"]
    /\ turnThread = [n \in Turns |-> None]
    /\ loc = [n \in Turns |-> FreshLocals]
    /\ cpc = [c \in Compactors |-> "none"]
    /\ cthread = [c \in Compactors |-> None]
    /\ halfRestored = FALSE
    /\ terminal = [n \in Turns |-> {}]
    /\ storageOpen = TRUE
    /\ ended = [n \in Turns |-> "None"]
    /\ row = [t \in Threads |-> "None"]
-----------------------------------------------------------------------------
(* Shared helpers *)

(* Mutant: the transition table is consulted, the current phase is not *)
CanSetNoCompare(from, to) == AllowsTransition(from, to)

(* EngineInner::try_set_phase_atomic: the compare-and-swap of the phase *)
CanSet(from, to) == phase = from /\ AllowsTransition(from, to)

(* The CAS whose failure the caller only logs *)
SetOrLog(from, to) == phase' = IF CanSet(from, to) THEN to ELSE phase

(* CancellationToken::is_cancelled on the token of turn n *)
Cancelled(n) == rootFired \/ n \in fired

(* ThreadHandle::push_item: the entry lands in whatever turn the buffer has *)
(* open, and is dropped when it has none                                    *)
Push(t, n) ==
    hist' = IF active[t] = None THEN hist
            ELSE [hist EXCEPT ![t] = @ \cup {[by |-> n, into |-> active[t]]}]

(* The fate of injected items pushed to the buffer of thread t *)
Landed(t, items) ==
    [i \in Inputs |->
        IF \E j \in DOMAIN items : items[j] = i
        THEN IF active[t] = None THEN "dropped" ELSE "landed"
        ELSE fate[i]]

(* InjectionQueues::drain in OneAtATime mode *)
First(s) == IF s = <<>> THEN <<>> ELSE <<Head(s)>>
AllButFirst(s) == IF s = <<>> THEN <<>> ELSE Tail(s)

(* enqueue_storage_op: a no-op once Shutdown has taken the sender; a full   *)
(* channel drops the operation and nobody learns of it                      *)
Sent(st, lost) ==
    IF Cardinality({t \in Threads : row[t] = "Stale"})
         + Cardinality({n \in Turns : ended[n] = "Lost"}) < MaxDrops
    THEN {st, lost} ELSE {st}
EnqueueRow(t, st) ==
    IF storageOpen THEN \E r \in Sent(st, "Stale") : row' = [row EXCEPT ![t] = r]
    ELSE UNCHANGED row
EnqueueEnded(n, st) ==
    IF storageOpen THEN \E e \in Sent(st, "Lost") : ended' = [ended EXCEPT ![n] = e]
    ELSE UNCHANGED ended

Goto(n, label) == pc' = [pc EXCEPT ![n] = label]

(* ThreadStore::get: a child handle is resident from its spawn until the    *)
(* outcome of the spawned turn, its first, is delivered.  (After that the   *)
(* id names an ordinary thread, of which TopThreads has enough.)            *)
Resident(t) ==
    \/ t \in TopThreads
    \/ \E n \in Turns : /\ turnThread[n] = t /\ pc[n] # "done"
                        /\ \A m \in Turns : turnThread[m] = t => n <= m

-----------------------------------------------------------------------------
(* The actor: start_turn *)

(* Idle -> Turn, or TurnRejected { EngineBusy } and an error reply.  The id *)
(* of a live subagent thread is accepted like any other.                    *)
StartTurn(t) ==
    /\ apc = "idle" /\ Resident(t) /\ counter < MaxTurns
    /\ IF CanSet("Idle", "Turn")
       THEN /\ phase' = "Turn"
            /\ counter' = counter + 1
            /\ apc' = "startDrain" /\ athread' = t /\ aturn' = counter + 1
       ELSE UNCHANGED <<phase, counter, apc, athread, aturn>>
    /\ UNCHANGED <<slot, status, active, hist, queueVars, tokenVars, aseed,
                   taskVars, compactVars, terminal, storageVars>>

(* Mutant: the NextTurn queue is read and not emptied *)
StartDrainPeeks ==
    /\ apc = "startDrain"
    /\ aseed' = queue[athread]["NextTurn"]
    /\ apc' = "startInstall"
    /\ UNCHANGED <<phase, slot, status, active, hist, queueVars, counter, tokenVars,
                   athread, aturn, taskVars, compactVars, terminal, storageVars>>

(* The NextTurn queue is drained whole and seeds the input *)
StartDrain ==
    /\ apc = "startDrain"
    /\ aseed' = queue[athread]["NextTurn"]
    /\ queue' = [queue EXCEPT ![athread]["NextTurn"] = <<>>]
    /\ apc' = "startInstall"
    /\ UNCHANGED <<phase, slot, status, active, hist, fate, counter, tokenVars,
                   athread, aturn, taskVars, compactVars, terminal, storageVars>>

(* active_turn := Some(turn), under the per-thread lock *)
StartInstall ==
    /\ apc = "startInstall"
    /\ slot' = [slot EXCEPT ![athread] = aturn]
    /\ apc' = "startStatus"
    /\ UNCHANGED <<phase, status, active, hist, queueVars, counter, tokenVars,
                   athread, aturn, aseed, taskVars, compactVars, terminal, storageVars>>

StartStatus ==
    /\ apc = "startStatus"
    /\ status' = [status EXCEPT ![athread] = "Active"]
    /\ apc' = "startBuffer"
    /\ UNCHANGED <<phase, slot, active, hist, queueVars, counter, tokenVars,
                   athread, aturn, aseed, taskVars, compactVars, terminal, storageVars>>

(* start_turn_buffer: a turn still open is moved to completed *)
StartBuffer ==
    /\ apc = "startBuffer"
    /\ active' = [active EXCEPT ![athread] = aturn]
    /\ apc' = "startPush"
    /\ UNCHANGED <<phase, slot, status, hist, queueVars, counter, tokenVars,
                   athread, aturn, aseed, taskVars, compactVars, terminal, storageVars>>

(* The seeds and the user input are pushed; TurnStarted *)
StartPush ==
    /\ apc = "startPush"
    /\ Push(athread, aturn)
    /\ fate' = Landed(athread, aseed)
    /\ apc' = "startSpawn"
    /\ UNCHANGED <<phase, slot, status, active, queue, counter, tokenVars,
                   athread, aturn, aseed, taskVars, compactVars, terminal, storageVars>>

(* ThreadUpserted(Active) and TurnStarted are enqueued, run_turn is spawned *)
StartSpawn ==
    /\ apc = "startSpawn"
    /\ EnqueueRow(athread, "Active")
    /\ Goto(aturn, "begin")
    /\ turnThread' = [turnThread EXCEPT ![aturn] = athread]
    /\ apc' = "idle" /\ athread' = None /\ aturn' = None /\ aseed' = <<>>
    /\ UNCHANGED <<phase, slot, status, active, hist, queueVars, counter, tokenVars,
                   loc, compactVars, terminal, storageOpen, ended>>

-----------------------------------------------------------------------------
(* The actor: cancel_turn *)

(* Mutant: the token is fired, the slot is not taken *)
CancelTurnKeepsSlot(t) ==
    /\ apc = "idle"
    /\ IF Resident(t) /\ slot[t] # None
       THEN /\ UNCHANGED slot
            /\ fired' = fired \cup {slot[t]}
            /\ apc' = "cancelAbort" /\ athread' = t /\ aturn' = slot[t]
       ELSE UNCHANGED <<slot, fired, apc, athread, aturn>>
    /\ UNCHANGED <<phase, status, active, hist, queueVars, counter, rootFired, aseed,
                   taskVars, compactVars, terminal, storageVars>>

(* Mutant: the slot is taken, the token is not fired *)
CancelTurnNoToken(t) ==
    /\ apc = "idle"
    /\ IF Resident(t) /\ slot[t] # None
       THEN /\ slot' = [slot EXCEPT ![t] = None]
            /\ apc' = "cancelAbort" /\ athread' = t /\ aturn' = slot[t]
       ELSE UNCHANGED <<slot, apc, athread, aturn>>
    /\ UNCHANGED <<phase, status, active, hist, queueVars, counter, tokenVars, aseed,
                   taskVars, compactVars, terminal, storageVars>>

(* Takes the slot and fires the token under the lock; NoActiveTurn if empty *)
CancelTurn(t) ==
    /\ apc = "idle"
    /\ IF Resident(t) /\ slot[t] # None
       THEN /\ slot' = [slot EXCEPT ![t] = None]
            /\ fired' = fired \cup {slot[t]}
            /\ apc' = "cancelAbort" /\ athread' = t /\ aturn' = slot[t]
       ELSE UNCHANGED <<slot, fired, apc, athread, aturn>>
    /\ UNCHANGED <<phase, status, active, hist, queueVars, counter, rootFired, aseed,
                   taskVars, compactVars, terminal, storageVars>>

(* Mutant: the NextTurn queue is cleared as well *)
CancelAbortAll ==
    /\ apc = "cancelAbort"
    /\ fate' = [i \in Inputs |->
                  IF \E q \in Queues :
                       \E j \in DOMAIN queue[athread][q] : queue[athread][q][j] = i
                  THEN "cleared" ELSE fate[i]]
    /\ queue' = [queue EXCEPT ![athread] = [q \in Queues |-> <<>>]]
    /\ apc' = "cancelStatus"
    /\ UNCHANGED <<phase, slot, status, active, hist, counter, tokenVars,
                   athread, aturn, aseed, taskVars, compactVars, terminal, storageVars>>

(* InjectionQueues::abort: steer and follow-up are cleared, next-turn kept *)
CancelAbort ==
    /\ apc = "cancelAbort"
    /\ fate' = [i \in Inputs |->
                  IF \E q \in {"Steer", "FollowUp"} :
                       \E j \in DOMAIN queue[athread][q] : queue[athread][q][j] = i
                  THEN "cleared" ELSE fate[i]]
    /\ queue' = [queue EXCEPT ![athread]["Steer"] = <<>>, ![athread]["FollowUp"] = <<>>]
    /\ apc' = "cancelStatus"
    /\ UNCHANGED <<phase, slot, status, active, hist, counter, tokenVars,
                   athread, aturn, aseed, taskVars, compactVars, terminal, storageVars>>

(* Mutant: no SessionAborted is broadcast *)
CancelStatusSilent ==
    /\ apc = "cancelStatus"
    /\ status' = [status EXCEPT ![athread] = "Idle"]
    /\ UNCHANGED terminal
    /\ apc' = "cancelBuffer"
    /\ UNCHANGED <<phase, slot, active, hist, queueVars, counter, tokenVars,
                   athread, aturn, aseed, taskVars, compactVars, storageVars>>

(* Status to Idle, then the SessionAborted broadcast *)
CancelStatus ==
    /\ apc = "cancelStatus"
    /\ status' = [status EXCEPT ![athread] = "Idle"]
    /\ terminal' = [terminal EXCEPT ![aturn] = @ \cup {"SessionAborted"}]
    /\ apc' = "cancelBuffer"
    /\ UNCHANGED <<phase, slot, active, hist, queueVars, counter, tokenVars,
                   athread, aturn, aseed, taskVars, compactVars, storageVars>>

(* finish_turn_buffer(Interrupted) closes whatever turn the buffer has open *)
CancelBuffer ==
    /\ apc = "cancelBuffer"
    /\ active' = [active EXCEPT ![athread] = None]
    /\ apc' = "cancelPersist"
    /\ UNCHANGED <<phase, slot, status, hist, queueVars, counter, tokenVars,
                   athread, aturn, aseed, taskVars, compactVars, terminal, storageVars>>

(* Mutant: only the turn is persisted, the thread row keeps its status *)
CancelPersistNoRow ==
    /\ apc = "cancelPersist"
    /\ EnqueueEnded(aturn, "Interrupted")
    /\ apc' = "cancelPhase"
    /\ UNCHANGED <<phase, slot, status, active, hist, queueVars, counter, tokenVars,
                   athread, aturn, aseed, taskVars, compactVars, terminal,
                   storageOpen, row>>

(* TurnEnded(Interrupted) and ThreadUpserted(Idle) are enqueued *)
CancelPersist ==
    /\ apc = "cancelPersist"
    /\ EnqueueEnded(aturn, "Interrupted")
    /\ EnqueueRow(athread, "Idle")
    /\ apc' = "cancelPhase"
    /\ UNCHANGED <<phase, slot, status, active, hist, queueVars, counter, tokenVars,
                   athread, aturn, aseed, taskVars, compactVars, terminal,
                   storageOpen>>

(* Turn -> Idle for a top-level thread; a failed CAS is only logged *)
CancelPhase ==
    /\ apc = "cancelPhase"
    /\ IF athread \in TopThreads THEN SetOrLog("Turn", "Idle") ELSE UNCHANGED phase
    /\ apc' = "idle" /\ athread' = None /\ aturn' = None
    /\ UNCHANGED <<slot, status, active, hist, queueVars, counter, tokenVars,
                   aseed, taskVars, compactVars, terminal, storageVars>>

-----------------------------------------------------------------------------
(* The actor: the other submissions *)

(* enqueue_injection (Steer, FollowUp) and enqueue_next_turn (NextTurn) *)
Inject(t, q, i) ==
    /\ apc = "idle" /\ Resident(t) /\ fate[i] = "unsent"
    /\ queue' = [queue EXCEPT ![t][q] = Append(@, i)]
    /\ fate' = [fate EXCEPT ![i] = "queued"]
    /\ UNCHANGED <<phase, slot, status, active, hist, counter, tokenVars,
                   actorVars, taskVars, compactVars, terminal, storageVars>>

(* Shutdown: the root token is fired, the storage sender is taken, the loop *)
(* ends.  Slots are left alone and the tasks are not awaited.               *)
Shutdown ==
    /\ apc = "idle"
    /\ rootFired' = TRUE
    /\ storageOpen' = FALSE
    /\ apc' = "stopped"
    /\ UNCHANGED <<phase, slot, status, active, hist, queueVars, counter, fired,
                   athread, aturn, aseed, taskVars, compactVars, terminal,
                   ended, row>>

(* fork_with_cut: Idle -> BranchSummary held by a Drop guard *)
Fork ==
    /\ apc = "idle"
    /\ IF CanSet("Idle", "BranchSummary")
       THEN phase' = "BranchSummary" /\ apc' = "fork"
       ELSE UNCHANGED <<phase, apc>>
    /\ UNCHANGED <<slot, status, active, hist, queueVars, counter, tokenVars,
                   athread, aturn, aseed, taskVars, compactVars, terminal, storageVars>>

ForkEnd ==
    /\ apc = "fork"
    /\ SetOrLog("BranchSummary", "Idle")
    /\ apc' = "idle"
    /\ UNCHANGED <<slot, status, active, hist, queueVars, counter, tokenVars,
                   athread, aturn, aseed, taskVars, compactVars, terminal, storageVars>>

(* restore_to_checkpoint: Idle -> Restore around the file revert ... *)
Restore ==
    /\ apc = "idle"
    /\ IF CanSet("Idle", "Restore")
       THEN phase' = "Restore" /\ apc' = "restore"
       ELSE UNCHANGED <<phase, apc>>
    /\ UNCHANGED <<slot, status, active, hist, queueVars, counter, tokenVars,
                   athread, aturn, aseed, taskVars, compactVars, terminal, storageVars>>

(* Mutant: the Restore phase is kept *)
RestoreFilesKeepsPhase ==
    /\ apc = "restore"
    /\ apc' \in {"restoreFork", "idle"}
    /\ UNCHANGED <<phase, slot, status, active, hist, queueVars, counter, tokenVars,
                   athread, aturn, aseed, taskVars, compactVars, terminal, storageVars>>

(* ... then Idle, with the files reverted or SnapshotFailed ... *)
RestoreFiles ==
    /\ apc = "restore"
    /\ SetOrLog("Restore", "Idle")
    /\ apc' \in {"restoreFork", "idle"}
    /\ UNCHANGED <<slot, status, active, hist, queueVars, counter, tokenVars,
                   athread, aturn, aseed, taskVars, compactVars, terminal, storageVars>>

(* ... and only then does the fork claim a phase of its own *)
RestoreFork ==
    /\ apc = "restoreFork"
    /\ IF CanSet("Idle", "BranchSummary")
       THEN phase' = "BranchSummary" /\ apc' = "fork" /\ UNCHANGED halfRestored
       ELSE apc' = "idle" /\ halfRestored' = TRUE /\ UNCHANGED phase
    /\ UNCHANGED <<slot, status, active, hist, queueVars, counter, tokenVars,
                   athread, aturn, aseed, taskVars, cpc, cthread,
                   terminal, storageVars>>

-----------------------------------------------------------------------------
(* Subagents: a fresh child thread gets its turn without a phase claim; its *)
(* token hangs off the root, not off the turn that asked for it             *)

StartChildTurn(c) ==
    /\ c \in ChildThreads /\ counter < MaxTurns
    /\ \A n \in Turns : turnThread[n] # c
    /\ counter' = counter + 1
    /\ slot' = [slot EXCEPT ![c] = counter + 1]
    /\ active' = [active EXCEPT ![c] = counter + 1]
    /\ status' = [status EXCEPT ![c] = "Active"]
    /\ hist' = [hist EXCEPT ![c] = {[by |-> counter + 1, into |-> counter + 1]}]
    /\ EnqueueRow(c, "Active")
    /\ Goto(counter + 1, "begin")
    /\ turnThread' = [turnThread EXCEPT ![counter + 1] = c]
    /\ UNCHANGED <<phase, queueVars, tokenVars, actorVars, compactVars, terminal,
                   storageOpen, ended>>

(* Submission::SpawnSubagent: the caller keeps no receiver *)
SpawnSubagent(c) == apc = "idle" /\ StartChildTurn(c) /\ UNCHANGED loc

(* The agent tool: the tool call waits for the child it spawns *)
ExecSpawn(n, c) ==
    /\ pc[n] = "exec" /\ turnThread[n] \in TopThreads /\ loc[n].child = None
    /\ StartChildTurn(c)
    /\ loc' = [loc EXCEPT ![n].child = counter + 1]

-----------------------------------------------------------------------------
(* The turn task: run_turn_inner *)

(* The task is polled for the first time; it persists its input items *)
Begin(n) ==
    /\ pc[n] = "begin"
    /\ Goto(n, "steer")
    /\ UNCHANGED <<phase, slot, status, active, hist, queueVars, counter, tokenVars,
                   actorVars, turnThread, loc, compactVars, terminal, storageVars>>

(* Top of an iteration: one steer item, if any, is drained and pushed *)
Steer(n) ==
    LET t == turnThread[n]
        items == First(queue[t]["Steer"])
    IN /\ pc[n] = "steer"
       /\ queue' = [queue EXCEPT ![t]["Steer"] = AllButFirst(@)]
       /\ fate' = Landed(t, items)
       /\ IF items = <<>> THEN UNCHANGED hist ELSE Push(t, n)
       /\ loc' = [loc EXCEPT ![n].attempt = 0]
       /\ Goto(n, "call")
       /\ UNCHANGED <<phase, slot, status, active, counter, tokenVars, actorVars,
                      turnThread, compactVars, terminal, storageVars>>

(* Mutant: the retry cap is off by one *)
CallOneTooMany(n) ==
    /\ pc[n] = "call"
    /\ IF Cancelled(n) THEN Goto(n, "finish")
       ELSE \/ Goto(n, "stream")                               \* Ok(stream)
            \/ Goto(n, "callFailed")                           \* fatal error
            \/ Goto(n, IF loc[n].attempt <= MaxProviderRetries  \* retryable error
                       THEN "retryEnter" ELSE "callFailed")
    /\ UNCHANGED <<phase, slot, status, active, hist, queueVars, counter, tokenVars,
                   actorVars, turnThread, loc, compactVars, terminal, storageVars>>

(* call_provider_with_retry: the cancel arm of the biased select wins *)
Call(n) ==
    /\ pc[n] = "call"
    /\ IF Cancelled(n) THEN Goto(n, "finish")
       ELSE \/ Goto(n, "stream")                               \* Ok(stream)
            \/ Goto(n, "callFailed")                           \* fatal error
            \/ Goto(n, IF loc[n].attempt < MaxProviderRetries  \* retryable error
                       THEN "retryEnter" ELSE "callFailed")
    /\ UNCHANGED <<phase, slot, status, active, hist, queueVars, counter, tokenVars,
                   actorVars, turnThread, loc, compactVars, terminal, storageVars>>

(* enter_retry_phase *)
RetryEnter(n) ==
    /\ pc[n] = "retryEnter"
    /\ SetOrLog("Turn", "Retry")
    /\ Goto(n, "backoff")
    /\ UNCHANGED <<slot, status, active, hist, queueVars, counter, tokenVars,
                   actorVars, turnThread, loc, compactVars, terminal, storageVars>>

(* The backoff sleep ends by its timer or by the cancel token *)
Backoff(n) ==
    /\ pc[n] = "backoff"
    /\ loc' = [loc EXCEPT ![n].sleepCancelled = Cancelled(n)]
    /\ Goto(n, "retryLeave")
    /\ UNCHANGED <<phase, slot, status, active, hist, queueVars, counter, tokenVars,
                   actorVars, turnThread, compactVars, terminal, storageVars>>

(* leave_retry_phase, then return on a cancelled sleep or try again *)
RetryLeave(n) ==
    /\ pc[n] = "retryLeave"
    /\ SetOrLog("Retry", "Turn")
    /\ IF loc[n].sleepCancelled
       THEN Goto(n, "finish") /\ UNCHANGED loc
       ELSE Goto(n, "call") /\ loc' = [loc EXCEPT ![n].attempt = @ + 1]
    /\ UNCHANGED <<slot, status, active, hist, queueVars, counter, tokenVars,
                   actorVars, turnThread, compactVars, terminal, storageVars>>

(* TurnFailed is broadcast: after a provider error the turn finishes at     *)
(* once, after a stream error the partial items are still folded            *)
Fail(n) ==
    /\ pc[n] \in {"callFailed", "streamFailed"}
    /\ terminal' = [terminal EXCEPT ![n] = @ \cup {"TurnFailed"}]
    /\ loc' = [loc EXCEPT ![n].failed = TRUE]
    /\ Goto(n, IF pc[n] = "callFailed" THEN "finish" ELSE "fold")
    /\ UNCHANGED <<phase, slot, status, active, hist, queueVars, counter, tokenVars,
                   actorVars, turnThread, compactVars, storageVars>>

(* The stream loop: the select is not biased, so a part may still be folded *)
(* after the token was fired                                                *)
Stream(n) ==
    /\ pc[n] = "stream"
    /\ \/ Push(turnThread[n], n) /\ UNCHANGED pc   \* an item folded
       \/ Goto(n, "fold") /\ UNCHANGED hist                     \* end, or cancelled
       \/ Goto(n, "streamFailed") /\ UNCHANGED hist             \* Some(Err)
    /\ UNCHANGED <<phase, slot, status, active, queueVars, counter, tokenVars,
                   actorVars, turnThread, loc, compactVars, terminal, storageVars>>

(* fold.finish() pushes what is left; then the failure / cancel check, and  *)
(* tool calls or none                                                       *)
Fold(n) ==
    /\ pc[n] = "fold"
    /\ \/ Push(turnThread[n], n)
       \/ UNCHANGED hist
    /\ IF loc[n].failed \/ Cancelled(n) THEN Goto(n, "finish")
       ELSE Goto(n, "followUp") \/ Goto(n, "resolve")
    /\ UNCHANGED <<phase, slot, status, active, queueVars, counter, tokenVars,
                   actorVars, turnThread, loc, compactVars, terminal, storageVars>>

(* No tool calls: one follow-up continues the loop until the cap, none ends it *)
FollowUp(n) ==
    LET t == turnThread[n]
        items == First(queue[t]["FollowUp"])
        last == items = <<>> \/ loc[n].iter = MaxIterations
    IN /\ pc[n] = "followUp"
       /\ queue' = [queue EXCEPT ![t]["FollowUp"] = AllButFirst(@)]
       /\ fate' = Landed(t, items)
       /\ IF items = <<>> THEN UNCHANGED hist ELSE Push(t, n)
       /\ loc' = IF last THEN [loc EXCEPT ![n].loopEnd = TRUE]
                 ELSE [loc EXCEPT ![n].iter = @ + 1]
       /\ Goto(n, IF last THEN "finish" ELSE "steer")
       /\ UNCHANGED <<phase, slot, status, active, counter, tokenVars, actorVars,
                      turnThread, compactVars, terminal, storageVars>>

(* PHASE 1: the permission of each call is resolved; a cancelled turn leaves *)
Resolve(n) ==
    /\ pc[n] = "resolve"
    /\ Goto(n, IF Cancelled(n) THEN "finish" ELSE "exec")
    /\ UNCHANGED <<phase, slot, status, active, hist, queueVars, counter, tokenVars,
                   actorVars, turnThread, loc, compactVars, terminal, storageVars>>

(* PHASE 2: every call ran, or the token cut it short.  A child still running *)
(* is left behind.                                                            *)
Exec(n) ==
    /\ pc[n] = "exec"
    /\ \/ loc[n].child = None
       \/ loc[n].child # None /\ pc[loc[n].child] = "done"
       \/ Cancelled(n)
    /\ loc' = [loc EXCEPT ![n].child = None]
    /\ Goto(n, IF Cancelled(n) THEN "finish" ELSE "commit")
    /\ UNCHANGED <<phase, slot, status, active, hist, queueVars, counter, tokenVars,
                   actorVars, turnThread, compactVars, terminal, storageVars>>

(* PHASE 3: the results are pushed without another look at the token; then a *)
(* stop requested by a hook, the iteration cap, or the next iteration        *)
Commit(n) ==
    /\ pc[n] = "commit"
    /\ Push(turnThread[n], n)
    /\ \/ /\ loc' = [loc EXCEPT ![n].loopEnd = TRUE]
          /\ Goto(n, "finish")
       \/ /\ loc[n].iter < MaxIterations
          /\ loc' = [loc EXCEPT ![n].iter = @ + 1]
          /\ Goto(n, "steer")
    /\ UNCHANGED <<phase, slot, status, active, queueVars, counter, tokenVars,
                   actorVars, turnThread, compactVars, terminal, storageVars>>

-----------------------------------------------------------------------------
(* The turn task: finish_turn *)

(* Where the task goes when finish_turn returns: the auto-compaction check  *)
(* follows only the finish_turn after the loop, and only at top level       *)
AfterFinish(n) ==
    IF loc[n].loopEnd /\ turnThread[n] \in TopThreads THEN "auto" ELSE "done"

(* Mutant: the slot is cleared whatever turn it holds *)
FinishUnchecked(n) ==
    /\ pc[n] = "finish"
    /\ slot' = [slot EXCEPT ![turnThread[n]] = None]
    /\ Goto(n, "finStatus")
    /\ UNCHANGED <<phase, status, active, hist, queueVars, counter, tokenVars,
                   actorVars, turnThread, loc, compactVars, terminal, storageVars>>

(* The slot is cleared only if it still holds this turn *)
Finish(n) ==
    LET t == turnThread[n]
    IN /\ pc[n] = "finish"
       /\ IF slot[t] = n
          THEN /\ slot' = [slot EXCEPT ![t] = None]
               /\ Goto(n, "finStatus")
          ELSE /\ UNCHANGED slot
               /\ Goto(n, AfterFinish(n))
       /\ UNCHANGED <<phase, status, active, hist, queueVars, counter, tokenVars,
                      actorVars, turnThread, loc, compactVars, terminal, storageVars>>

FinStatus(n) ==
    /\ pc[n] = "finStatus"
    /\ status' = [status EXCEPT ![turnThread[n]] = "Idle"]
    /\ Goto(n, "finPhase")
    /\ UNCHANGED <<phase, slot, active, hist, queueVars, counter, tokenVars,
                   actorVars, turnThread, loc, compactVars, terminal, storageVars>>

(* Mutant: the phase is not given back *)
FinPhaseForgets(n) ==
    /\ pc[n] = "finPhase"
    /\ UNCHANGED phase
    /\ Goto(n, "finBuffer")
    /\ UNCHANGED <<slot, status, active, hist, queueVars, counter, tokenVars,
                   actorVars, turnThread, loc, compactVars, terminal, storageVars>>

FinPhase(n) ==
    /\ pc[n] = "finPhase"
    /\ IF turnThread[n] \in TopThreads THEN SetOrLog("Turn", "Idle")
       ELSE UNCHANGED phase
    /\ Goto(n, "finBuffer")
    /\ UNCHANGED <<slot, status, active, hist, queueVars, counter, tokenVars,
                   actorVars, turnThread, loc, compactVars, terminal, storageVars>>

(* finish_turn_buffer closes whatever turn the buffer has open by now *)
FinBuffer(n) ==
    /\ pc[n] = "finBuffer"
    /\ active' = [active EXCEPT ![turnThread[n]] = None]
    /\ Goto(n, "finEvent")
    /\ UNCHANGED <<phase, slot, status, hist, queueVars, counter, tokenVars,
                   actorVars, turnThread, loc, compactVars, terminal, storageVars>>

(* Mutant: TurnCompleted is sent after TurnFailed as well *)
FinEventAlways(n) ==
    /\ pc[n] = "finEvent"
    /\ terminal' = [terminal EXCEPT ![n] = @ \cup {"TurnCompleted"}]
    /\ Goto(n, "finPersist")
    /\ UNCHANGED <<phase, slot, status, active, hist, queueVars, counter, tokenVars,
                   actorVars, turnThread, loc, compactVars, storageVars>>

FinEvent(n) ==
    /\ pc[n] = "finEvent"
    /\ terminal' = IF loc[n].failed THEN terminal
                   ELSE [terminal EXCEPT ![n] = @ \cup {"TurnCompleted"}]
    /\ Goto(n, "finPersist")
    /\ UNCHANGED <<phase, slot, status, active, hist, queueVars, counter, tokenVars,
                   actorVars, turnThread, loc, compactVars, storageVars>>

FinPersist(n) ==
    /\ pc[n] = "finPersist"
    /\ EnqueueEnded(n, IF loc[n].failed THEN "Failed" ELSE "Completed")
    /\ EnqueueRow(turnThread[n], "Idle")
    /\ Goto(n, AfterFinish(n))
    /\ UNCHANGED <<phase, slot, status, active, hist, queueVars, counter, tokenVars,
                   actorVars, turnThread, loc, compactVars, terminal,
                   storageOpen>>

-----------------------------------------------------------------------------
(* Compaction: run in the turn task after the turn (c = n), or requested    *)
(* by a client (c = 0: the prelude runs in the actor, the tail in a task)   *)

(* compact_prelude, 1: the snapshot is taken before the phase is claimed *)
Snapshot(c, t) ==
    /\ cpc' = [cpc EXCEPT ![c] = "claim"]
    /\ cthread' = [cthread EXCEPT ![c] = t]
    /\ UNCHANGED halfRestored

(* The check after the loop: below both thresholds, or compact *)
AutoCheck(n) ==
    /\ pc[n] = "auto" /\ cpc[n] = "none"
    /\ \/ Goto(n, "done") /\ UNCHANGED compactVars
       \/ hist[turnThread[n]] # {} /\ Snapshot(n, turnThread[n]) /\ UNCHANGED pc
    /\ UNCHANGED <<phase, slot, status, active, hist, queueVars, counter, tokenVars,
                   actorVars, turnThread, loc, terminal, storageVars>>

(* Submission::Compact; NothingToCompact on an empty transcript *)
Compact(t) ==
    /\ apc = "idle" /\ Resident(t) /\ cpc[0] = "none" /\ hist[t] # {}
    /\ Snapshot(0, t)
    /\ apc' = "compact"
    /\ UNCHANGED <<phase, slot, status, active, hist, queueVars, counter, tokenVars,
                   athread, aturn, aseed, taskVars, terminal, storageVars>>

(* The compaction is over; the turn task that ran it ends with it, and the  *)
(* actor replies if it was still in the prelude                             *)
EndCompaction(c) ==
    /\ cpc' = [cpc EXCEPT ![c] = "none"]
    /\ cthread' = [cthread EXCEPT ![c] = None]
    /\ UNCHANGED halfRestored
    /\ pc' = IF c = 0 THEN pc ELSE [pc EXCEPT ![c] = "done"]
ReplyIfManual(c) == apc' = IF c = 0 THEN "idle" ELSE apc
CompactionStep(c, label) ==
    cpc' = [cpc EXCEPT ![c] = label] /\ UNCHANGED <<cthread, halfRestored, pc>>

(* compact_prelude, 2: Idle -> Compaction or EngineBusy *)
CompactClaim(c) ==
    /\ cpc[c] = "claim"
    /\ IF CanSet("Idle", "Compaction")
       THEN phase' = "Compaction" /\ CompactionStep(c, "hook") /\ UNCHANGED apc
       ELSE UNCHANGED phase /\ EndCompaction(c) /\ ReplyIfManual(c)
    /\ UNCHANGED <<slot, status, active, hist, queueVars, counter, tokenVars,
                   athread, aturn, aseed, turnThread, loc, terminal, storageVars>>

(* compact_prelude, 3: a PreCompact hook may block; else the tail runs *)
CompactHook(c) ==
    /\ cpc[c] = "hook"
    /\ \/ SetOrLog("Compaction", "Idle") /\ EndCompaction(c)
       \/ UNCHANGED phase /\ CompactionStep(c, "summarize")
    /\ ReplyIfManual(c)
    /\ UNCHANGED <<slot, status, active, hist, queueVars, counter, tokenVars,
                   athread, aturn, aseed, turnThread, loc, terminal, storageVars>>

(* compact_tail: the provider summarises, or CompactionFailed *)
CompactSummarize(c) ==
    /\ cpc[c] = "summarize"
    /\ \/ SetOrLog("Compaction", "Idle") /\ EndCompaction(c)
       \/ UNCHANGED phase /\ CompactionStep(c, "replace")
    /\ UNCHANGED <<slot, status, active, hist, queueVars, counter, tokenVars,
                   actorVars, turnThread, loc, terminal, storageVars>>

(* replace_history_with_compaction: open and completed turns are discarded *)
CompactReplace(c) ==
    /\ cpc[c] = "replace"
    /\ hist' = [hist EXCEPT ![cthread[c]] = {Summary}]
    /\ active' = [active EXCEPT ![cthread[c]] = None]
    /\ CompactionStep(c, "post")
    /\ UNCHANGED <<phase, slot, status, queueVars, counter, tokenVars,
                   actorVars, turnThread, loc, terminal, storageVars>>

(* PostCompact hook, Compaction -> Idle, CompactionCompleted *)
CompactPost(c) ==
    /\ cpc[c] = "post"
    /\ SetOrLog("Compaction", "Idle")
    /\ EndCompaction(c)
    /\ UNCHANGED <<slot, status, active, hist, queueVars, counter, tokenVars,
                   actorVars, turnThread, loc, terminal, storageVars>>

-----------------------------------------------------------------------------
(* What a client may submit *)
Submit ==
    \/ \E t \in Threads : StartTurn(t) \/ CancelTurn(t) \/ Compact(t)
    \/ \E t \in Threads, q \in Queues, i \in Inputs : Inject(t, q, i)
    \/ \E c \in ChildThreads : SpawnSubagent(c)
    \/ Fork \/ Restore \/ Shutdown

(* The rest of a submission the actor has taken up *)
ActorStep ==
    \/ StartDrain \/ StartInstall \/ StartStatus \/ StartBuffer \/ StartPush \/ StartSpawn
    \/ CancelAbort \/ CancelStatus \/ CancelBuffer \/ CancelPersist \/ CancelPhase
    \/ ForkEnd \/ RestoreFiles \/ RestoreFork

TaskStep(n) ==
    \/ Begin(n) \/ Steer(n) \/ Call(n) \/ RetryEnter(n) \/ Backoff(n) \/ RetryLeave(n)
    \/ Fail(n) \/ Stream(n) \/ Fold(n) \/ FollowUp(n) \/ Resolve(n) \/ Exec(n) \/ Commit(n)
    \/ Finish(n) \/ FinStatus(n) \/ FinPhase(n) \/ FinBuffer(n) \/ FinEvent(n)
    \/ FinPersist(n) \/ AutoCheck(n)

CompactStep(c) ==
    \/ CompactClaim(c) \/ CompactHook(c) \/ CompactSummarize(c)
    \/ CompactReplace(c) \/ CompactPost(c)

Next ==
    \/ Submit
    \/ ActorStep
    \/ \E n \in Turns : TaskStep(n) \/ \E c \in ChildThreads : ExecSpawn(n, c)
    \/ \E c \in Compactors : CompactStep(c)

Spec == Init /\ [][Next]_vars

(* Where a task waits for somebody else.  The provider call, the stream and *)
(* a tool have no timeout but are raced against the token of the turn; a    *)
(* permission may be deferred to the user without bound, and the PreToolUse *)
(* hooks before it are not raced against anything.  A compaction waits for  *)
(* its hooks and for the provider, and nothing can cancel it.               *)
Awaiting(n) ==
    \/ pc[n] \in {"call", "stream", "exec"} /\ ~Cancelled(n)
    \/ pc[n] = "resolve"
CompactionWaits(c) == cpc[c] \in {"hook", "summarize", "post"}

(* The runtime polls every ready task, timers fire and the local file work  *)
(* of a fork or a restore returns.  Clients, providers, tools, hooks and    *)
(* the user who is asked owe nothing.                                       *)
Fairness ==
    /\ WF_vars(ActorStep)
    /\ \A n \in Turns : WF_vars(~Awaiting(n) /\ TaskStep(n))
    /\ \A c \in Compactors : WF_vars(~CompactionWaits(c) /\ CompactStep(c))

FairSpec == Spec /\ Fairness

-----------------------------------------------------------------------------
(* Safety *)

(* Who answers for the Turn phase, from the claim of the phase to the CAS   *)
(* that gives it back: the actor before it has installed the turn, the slot *)
(* of a thread, the task that took the slot in finish_turn, or the actor    *)
(* that took it in cancel_turn.                                             *)
Starting == apc \in {"startDrain", "startInstall"}
Cancelling == /\ apc \in {"cancelAbort", "cancelStatus", "cancelBuffer",
                          "cancelPersist", "cancelPhase"}
              /\ athread \in TopThreads
Finishing(n) == pc[n] \in {"finStatus", "finPhase"} /\ turnThread[n] \in TopThreads
TurnHeld ==
    \/ Starting \/ Cancelling
    \/ \E t \in TopThreads : slot[t] # None
    \/ \E n \in Turns : Finishing(n)

(* One holder at a time, and the phase is Turn or Retry for as long as there *)
(* is one: whatever the clients submit and however tasks are scheduled, no   *)
(* second top-level turn, compaction, fork or restore starts under a turn    *)
(* that has not given the phase back.                                        *)
SingleActiveTurn ==
    /\ \A t, u \in TopThreads : slot[t] # None /\ slot[u] # None => t = u
    /\ \A m, n \in Turns : Finishing(m) /\ Finishing(n) => m = n
    /\ \A t \in TopThreads, n \in Turns : ~(slot[t] # None /\ Finishing(n))
    /\ Starting \/ Cancelling => /\ \A t \in TopThreads : slot[t] = None
                                 /\ \A n \in Turns : ~Finishing(n)
    /\ TurnHeld => phase \in {"Turn", "Retry"}

(* The Turn phase always has someone who will give it back *)
TurnPhaseHeld == phase = "Turn" => TurnHeld

(* Maintenance holds its phase from claim to release: a compaction that     *)
(* replaces a transcript, a fork and a file revert are alone with the phase *)
(* and no two compactions hold it.                                          *)
CompactionHolds(c) == cpc[c] \in {"hook", "summarize", "replace", "post"}
MaintenanceAlone ==
    /\ \A c \in Compactors : CompactionHolds(c) => phase = "Compaction"
    /\ \A c, d \in Compactors : CompactionHolds(c) /\ CompactionHolds(d) => c = d
    /\ apc = "fork" => phase = "BranchSummary"
    /\ apc = "restore" => phase = "Restore"

(* The status a client reads on its own thread agrees with the slot except  *)
(* inside the step that is about to bring them together.                    *)
StatusTracksSlot ==
    \A t \in TopThreads :
        \/ status[t] = (IF slot[t] # None THEN "Active" ELSE "Idle")
        \/ athread = t /\ apc \in {"startStatus", "cancelAbort", "cancelStatus"}
        \/ \E n \in Turns : turnThread[n] = t /\ pc[n] = "finStatus"

(* A turn is ended by finish_turn or by cancel_turn, never by both, and the *)
(* broadcast and the outcome sent to the storage tell the same story.       *)
OneEnding ==
    \A n \in Turns :
        /\ ~ {"TurnCompleted", "SessionAborted"} \subseteq terminal[n]
        /\ ~ {"TurnCompleted", "TurnFailed"} \subseteq terminal[n]
        /\ ended[n] = "Interrupted" => "SessionAborted" \in terminal[n]
        /\ ended[n] = "Completed" => "TurnCompleted" \in terminal[n]
        /\ ended[n] = "Failed" => terminal[n] = {"TurnFailed"}
        /\ ended[n] = "Lost" => terminal[n] # {}

(* cancel_turn closes the buffer of the turn it cancels and of no other *)
CancelClosesOwnBuffer ==
    apc = "cancelBuffer" => active[athread] \in {aturn, None}

(* An injected item is in one place: waiting in one queue, taken by the     *)
(* start of a turn, or gone for good (landed, dropped or reported cleared). *)
Waiting(i) ==
    {w \in Threads \X Queues \X (1..Cardinality(Inputs)) :
        w[3] \in DOMAIN queue[w[1]][w[2]] /\ queue[w[1]][w[2]][w[3]] = i}
Seeded(i) == {j \in DOMAIN aseed : apc \in {"startInstall", "startStatus",
                                  "startBuffer", "startPush"} /\ aseed[j] = i}
InjectionAccounted ==
    \A i \in Inputs :
        Cardinality(Waiting(i)) + Cardinality(Seeded(i))
            = IF fate[i] = "queued" THEN 1 ELSE 0

(* An abort clears only what SessionAborted reports, steer and follow-up:   *)
(* items staged for the next turn are never in the cleared lists.           *)
NextTurnSurvivesAbort ==
    [][\A i \in Inputs :
         (\E t \in Threads : \E j \in DOMAIN queue[t]["NextTurn"] :
              queue[t]["NextTurn"][j] = i) => fate'[i] # "cleared"]_vars

(* An item lands in the turn that produced it; only the task of a turn that *)
(* was cancelled, which runs on until it looks at its token, can put items  *)
(* into a later turn of the thread.                                         *)
StrayItemsAreCancelled ==
    \A t \in TopThreads : \A e \in hist[t] : e.by # e.into => e.by \in fired

(* A cancel reaches its own turn only: the buffer it closes and the items   *)
(* that end up in another turn both belong to the cancelled one.            *)
CancelKeepsToItsTurn == CancelClosesOwnBuffer /\ StrayItemsAreCancelled

(* When nothing is in flight, every view of a client thread agrees that it  *)
(* is at rest: slot, status and buffer; the last row sent to the storage    *)
(* does not say Active, and an ending was sent for each of its turns.  What *)
(* the full channel dropped (Stale, Lost) was sent all the same: the row on *)
(* disk can then stay Active for ever.                                      *)
QuietIsConsistent ==
    apc = "idle" /\ (\A n \in Turns : pc[n] \in {"none", "done"}) =>
        /\ \A t \in TopThreads :
             slot[t] = None /\ status[t] = "Idle" /\ active[t] = None /\ row[t] # "Active"
        /\ \A n \in Turns : turnThread[n] \in TopThreads => ended[n] # "None"

(* What a client reads agrees: the status follows the slot but for the step *)
(* that is about to bring them together, and at rest every view does.       *)
ViewsAgree == StatusTracksSlot /\ QuietIsConsistent

(* restore_to_checkpoint claims the phase twice.  Between the file revert   *)
(* and the fork only an automatic compaction can take it; no turn, fork or  *)
(* other restore can make it leave the files reverted and the conversation  *)
(* as it was.                                                               *)
RestoreLosesOnlyToCompaction ==
    [][halfRestored' /\ ~halfRestored => phase = "Compaction"]_vars

(* The recorded ending of a turn is never rewritten *)
EndingIsFinal == [][\A n \in Turns : ended[n] # "None" => ended'[n] = ended[n]]_vars

(* With no retry in flight the CAS that gives the phase back cannot fail:   *)
(* the "state machine drift" branches are dead code.                        *)
NoDrift ==
    /\ apc = "cancelPhase" /\ athread \in TopThreads => phase = "Turn"
    /\ \A n \in Turns : pc[n] = "finPhase" /\ turnThread[n] \in TopThreads
                           => phase = "Turn"

(* Liveness *)

(* A client started a turn on the id of a live subagent thread: the slot of *)
(* the subagent's turn n goes to a later one                                *)
Overtaken(n) ==
    /\ turnThread[n] \in ChildThreads
    /\ \E m \in Turns :
          /\ n < m
          /\ \/ turnThread[m] = turnThread[n]
             \/ aturn = m /\ athread = turnThread[n] /\ counter = m /\ pc[m] = "none"

(* A turn ends with a terminal event unless its task waits for somebody     *)
(* else for ever and nobody cancels it: a cancelled turn ends whatever its  *)
(* task waits for, because cancel_turn and not the task announces it.  The  *)
(* exception is a subagent's turn whose slot went to a client's.            *)
TurnEnds ==
    \A n \in Turns : pc[n] = "begin" ~>
        terminal[n] # {} \/ Overtaken(n) \/ [](Awaiting(n) /\ n \notin fired)

(* Who keeps the engine busy on somebody else's account: the turn in the    *)
(* slot of a client thread, or a compaction, that waits                     *)
BusyOutside ==
    \/ \E t \in TopThreads : slot[t] # None /\ Awaiting(slot[t])
    \/ \E c \in Compactors : CompactionWaits(c)

(* The engine becomes ready for the next submission unless the holder of    *)
(* the phase waits for somebody else for ever.  The exception is a client   *)
(* turn on the thread of a live subagent: start_turn claims the phase for   *)
(* it, and finish_turn and cancel_turn skip the way back for every thread   *)
(* that has a parent.  No other step of a task, cancel, rejected submission *)
(* or shutdown loses the phase.                                             *)
PhaseReturns ==
    phase # "Idle" ~> (phase = "Idle" \/ []BusyOutside \/ \E n \in Turns : Overtaken(n))

-----------------------------------------------------------------------------
(* What a comment says and the code does not keep *)

(* lifecycle.rs, start_turn: the buffer is opened "so the pushes below land  *)
(* in a turn", the one that was just opened                                  *)
InputLands ==
    apc = "startSpawn" => [by |-> aturn, into |-> aturn] \in hist[athread]
=============================================================================
