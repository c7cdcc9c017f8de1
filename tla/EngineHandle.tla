---------------------------- MODULE EngineHandle ----------------------------
(***************************************************************************)
(* How a request reaches the engine and how its answer comes back: the     *)
(* JSON-RPC handlers (server/handlers.rs), the methods of the Engine       *)
(* handle (engine.rs), the bounded submission channel and the actor's loop *)
(* (engine/inner.rs run and dispatch).  What an operation does to a thread *)
(* is EngineTurns' and Persistence's subject; here it is a count and an    *)
(* outcome the actor may report.                                           *)
(*                                                                         *)
(* A caller is one connection's serve loop, which runs a handler at a time,*)
(* or code in the process that holds a handle.  Callers run in parallel.   *)
(***************************************************************************)
EXTENDS Naturals, Sequences, FiniteSets, WireApi

CONSTANTS
    Callers,        \* each makes one request
    Api,            \* the requests that have a handler: Registered of WireApi
    Requests,       \* the requests each caller may make
    QueueCap,       \* SUBMISSION_CHANNEL_CAP
    Models          \* the models of the host's catalogue

VARIABLES
    stage,      \* of a caller: "idle", "params", "sending", "waiting", "switch 1".."3", "done"
    request,    \* what it asked for
    answer,     \* its oneshot: "empty", "dropped" or an outcome
    result,     \* what its client is told
    queue, actor,       \* the channel; the actor: "idle", "stopping", "stopped" or a caller
    done,       \* how often each caller's operation was carried out
    provider, window, outputCap,    \* the active model; the models whose limits apply
    target,     \* the model a switching caller asked for
    overlap     \* history: two switches ran at the same time

callv == <<stage, request, answer, result>>
modelv == <<provider, window, outputCap, target, overlap>>
vars == <<callv, queue, actor, done, modelv>>

NoModel == "no model"

Init ==
    /\ stage = [c \in Callers |-> "idle"] /\ request = [c \in Callers |-> "none"]
    /\ answer = [c \in Callers |-> "empty"] /\ result = [c \in Callers |-> "none"]
    /\ queue = <<>> /\ actor = "idle" /\ done = [c \in Callers |-> 0]
    /\ provider \in Models /\ window = provider /\ outputCap = provider
    /\ target = [c \in Callers |-> NoModel] /\ overlap = FALSE

Entry(c) == Api[request[c]]
Switching == {c \in Callers : stage[c] \in {"switch 1", "switch 2", "switch 3"}}
Finish(c, r) == stage' = [stage EXCEPT ![c] = "done"] /\ result' = [result EXCEPT ![c] = r]
-----------------------------------------------------------------------------
(* Handler::handle: the parameters are decoded, then the handle is called. *)

Ask(c, call) ==
    /\ stage[c] = "idle"
    /\ stage' = [stage EXCEPT ![c] = "params"]
    /\ request' = [request EXCEPT ![c] = call]
    /\ UNCHANGED <<answer, result, queue, actor, done, modelv>>

TakesNoParams == {"shutdown", "tools_list", "list_models"}

Decode(c) ==
    /\ stage[c] = "params"
    /\ \/ request[c] \notin TakesNoParams /\ Finish(c, "invalid_params")
       \/ /\ Entry(c).sub # "none"
          /\ stage' = [stage EXCEPT ![c] = "sending"] /\ UNCHANGED result
    /\ UNCHANGED <<request, answer, queue, actor, done, modelv>>

(* submit_with_reply, and submit, which is satisfied when the channel took  *)
(* the submission.  Sending waits while the channel is full.                *)
FireAndForget(c) == request[c] \in ClientQueueCalls

Send(c) ==
    /\ stage[c] = "sending"
    /\ \/ /\ actor = "stopped" /\ Finish(c, "actor_stopped") /\ UNCHANGED queue
       \/ /\ actor # "stopped" /\ Len(queue) < QueueCap
          /\ queue' = Append(queue, c)
          /\ IF FireAndForget(c) THEN Finish(c, "accepted")
             ELSE stage' = [stage EXCEPT ![c] = "waiting"] /\ UNCHANGED result
    /\ UNCHANGED <<request, answer, actor, done, modelv>>

(* The reply, or the drop of its sender, is translated by the handler. *)
Return(c) ==
    /\ stage[c] = "waiting" /\ answer[c] # "empty"
    /\ Finish(c, IF answer[c] = "dropped" THEN "reply_dropped" ELSE answer[c])
    /\ UNCHANGED <<request, answer, queue, actor, done, modelv>>

(* reply_timeout runs from the moment the submission was queued. *)
Timeout(c) ==
    /\ stage[c] = "waiting" /\ answer[c] = "empty"
    /\ Finish(c, "reply_timed_out")
    /\ UNCHANGED <<request, answer, queue, actor, done, modelv>>
-----------------------------------------------------------------------------
(* EngineInner::run: one submission at a time, in the order of the channel. *)

Take ==
    /\ actor = "idle" /\ queue # <<>>
    /\ queue' = Tail(queue)
    /\ actor' = Head(queue)
    /\ UNCHANGED <<callv, done, modelv>>

(* Mutant: a submission the actor does not act on is carried out twice *)
DispatchAgain ==
    /\ actor \in Callers /\ request[actor] # "shutdown"
    /\ done' = [done EXCEPT ![actor] = 2]
    /\ \E out \in Entry(actor).ok \cup Entry(actor).err : answer' = [answer EXCEPT ![actor] = out]
    /\ actor' = "idle"
    /\ UNCHANGED <<stage, request, result, queue, modelv>>

(* Mutant: an arm of dispatch that forgets to reply *)
DispatchForgets ==
    /\ actor \in Callers /\ request[actor] # "shutdown"
    /\ done' = [done EXCEPT ![actor] = @ + 1]
    /\ answer' = [answer EXCEPT ![actor] = "dropped"]
    /\ actor' = "idle"
    /\ UNCHANGED <<stage, request, result, queue, modelv>>

(* dispatch, dispatch_history and dispatch_thread_admin: the operation runs *)
(* to its end, then its reply is sent, whether or not someone still waits;  *)
(* an injection has no reply.                                               *)
Dispatch ==
    /\ actor \in Callers /\ request[actor] # "shutdown"
    /\ done' = [done EXCEPT ![actor] = @ + 1]
    /\ IF FireAndForget(actor) THEN UNCHANGED answer
       ELSE \E out \in Entry(actor).ok \cup Entry(actor).err :
                answer' = [answer EXCEPT ![actor] = out]
    /\ actor' = "idle"
    /\ UNCHANGED <<stage, request, result, queue, modelv>>

(* Shutdown: every turn is cancelled, the writer is closed and awaited for  *)
(* at most five seconds, the reply is sent, then the loop ends and with it  *)
(* the channel: what is still queued is dropped with its reply senders.     *)
BeginShutdown ==
    /\ actor \in Callers /\ request[actor] = "shutdown"
    /\ done' = [done EXCEPT ![actor] = @ + 1]
    /\ answer' = [answer EXCEPT ![actor] = "stopped"]
    /\ actor' = "stopping"
    /\ UNCHANGED <<stage, request, result, queue, modelv>>

LoopEnds ==
    /\ actor = "stopping" /\ actor' = "stopped"
    /\ answer' = [c \in Callers |->
                    IF \E i \in 1..Len(queue) : queue[i] = c THEN "dropped" ELSE answer[c]]
    /\ queue' = <<>>
    /\ UNCHANGED <<stage, request, result, done, modelv>>
-----------------------------------------------------------------------------
(* Engine::set_model and Engine::list_models, which the caller's own task   *)
(* runs: the catalogue is asked, the provider is swapped, then the window   *)
(* and the output cap are set, each under its own lock.                     *)

AskCatalog(c) ==
    /\ stage[c] = "params" /\ Entry(c).sub = "none"
    /\ \/ \E kind \in Entry(c).err : Finish(c, kind) /\ UNCHANGED <<target, overlap>>
       \/ request[c] = "list_models" /\ Finish(c, "models") /\ UNCHANGED <<target, overlap>>
       \/ /\ request[c] = "set_model"
          /\ \E m \in Models : target' = [target EXCEPT ![c] = m]
          /\ overlap' = (overlap \/ Switching # {})
          /\ stage' = [stage EXCEPT ![c] = "switch 1"] /\ UNCHANGED result
    /\ UNCHANGED <<request, answer, queue, actor, done, provider, window, outputCap>>

SwapProvider(c) ==
    /\ stage[c] = "switch 1" /\ stage' = [stage EXCEPT ![c] = "switch 2"]
    /\ provider' = target[c]
    /\ UNCHANGED <<request, answer, result, queue, actor, done, window, outputCap, target,
                   overlap>>

SetWindow(c) ==
    /\ stage[c] = "switch 2" /\ stage' = [stage EXCEPT ![c] = "switch 3"]
    /\ window' = target[c]
    /\ UNCHANGED <<request, answer, result, queue, actor, done, provider, outputCap, target,
                   overlap>>

SetOutputCap(c) ==
    /\ stage[c] = "switch 3" /\ Finish(c, "switched")
    /\ outputCap' = target[c]
    /\ UNCHANGED <<request, answer, queue, actor, done, provider, window, target, overlap>>
-----------------------------------------------------------------------------
CallerStep(c) ==
    \/ (\E call \in Requests[c] : Ask(c, call)) \/ Decode(c)
    \/ Send(c) \/ Return(c) \/ Timeout(c)
    \/ AskCatalog(c) \/ SwapProvider(c) \/ SetWindow(c) \/ SetOutputCap(c)
ActorStep == Take \/ Dispatch \/ BeginShutdown \/ LoopEnds

Next == ActorStep \/ \E c \in Callers : CallerStep(c)

Spec == Init /\ [][Next]_vars
-----------------------------------------------------------------------------
TypeOK ==
    /\ request \in [Callers -> DOMAIN Api \cup {"none"}]
    /\ \A c \in Callers : result[c] \in {"none"} \cup
            (IF request[c] = "none" THEN {} ELSE Declared(Entry(c)))
    /\ Len(queue) <= QueueCap
    /\ actor \in {"idle", "stopping", "stopped"} \cup Callers
    /\ done \in [Callers -> Nat] /\ provider \in Models /\ window \in Models
    /\ outputCap \in Models

(* The engine handle implements calls that are carried out at most once: a  *)
(* status or a domain error is only reported for an operation that was      *)
(* carried out, and one reported as invalid_params, actor_stopped or        *)
(* reply_dropped never is; reply_timed_out leaves the client in doubt.      *)
(* Injections, acknowledged when they are queued, and model requests, which *)
(* the actor never sees, are not such calls.                                *)
Awaited(c) == request[c] # "none" /\ Entry(c).sub # "none" /\ ~FireAndForget(c)
CallState(c) ==
    IF ~Awaited(c) THEN "new"
    ELSE IF stage[c] \in {"params", "sending", "waiting"} THEN "open"
    ELSE IF result[c] \in {"invalid_params", "actor_stopped", "reply_dropped"} THEN "refused"
    ELSE IF result[c] = "reply_timed_out" THEN "failed" ELSE "answered"
Executed(c) == IF Awaited(c) THEN done[c] ELSE 0
Remote == INSTANCE RemoteCalls WITH
    Calls <- Callers,
    state <- [c \in Callers |-> CallState(c)],
    executed <- [c \in Callers |-> Executed(c)]
HandleAtMostOnce == Remote!Spec

(* A reply is dropped only by the end of the loop: every submission a       *)
(* handler awaits has an arm in the actor that answers it with the variant  *)
(* the handle expects.                                                      *)
DropsOnlyAtStop ==
    \A c \in Callers : result[c] = "reply_dropped" \/ answer[c] = "dropped" => actor = "stopped"

(* The window and output cap in force are those of the active model once no *)
(* switch is under way, provided no two switches ever overlapped.           *)
LimitsMatchModel == Switching = {} /\ ~overlap => window = provider /\ outputCap = provider

(* The handle and the actor agree: replies are dropped only at the end, and *)
(* the limits in force belong to the active model.                          *)
HandleConsistent == DropsOnlyAtStop /\ LimitsMatchModel
=============================================================================
