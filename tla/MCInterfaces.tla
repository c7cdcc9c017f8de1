---------------------------- MODULE MCInterfaces ----------------------------
(*****************************************************************************)
(* The components at the edges of the system, each checked on its own        *)
(* instance: a behaviour picks one of them in its initial state and the      *)
(* others stand still.                                                       *)
(*****************************************************************************)
EXTENDS Naturals, Sequences, FiniteSets, WireApi

CONSTANTS
    Hello, Calls, ServerReqs, Served, EventCap, MaxNotes,   \* NativeClient
    Kinds, BroadcastCap, MaxEvents, MaxFrames,              \* ServerConnection
    OutCap, WireCap,    \* of both ends: the outbound queue, the stream
    Procs, MaxConnections, Backlog, MaxStarts,              \* ServerListener
    Callers, Anyone, Racers, QueueCap, Models               \* EngineHandle

(* Capacities and limits are numbers, a server accepts at least one         *)
(* connection, and no process or caller is one of the values that stand for *)
(* its absence.                                                             *)
ASSUME EdgeConstants ==
    /\ OutCap \in Nat /\ WireCap \in Nat /\ EventCap \in Nat /\ QueueCap \in Nat
    /\ BroadcastCap \in Nat /\ MaxEvents \in Nat /\ MaxFrames \in Nat
    /\ MaxConnections \in Nat \ {0} /\ Backlog \in Nat /\ MaxStarts \in Nat
    /\ "nobody" \notin Procs
    /\ Callers \cap {"idle", "stopping", "stopped"} = {}

(* The tables of WireApi agree.  Every method has a handler and no two      *)
(* requests share one: the router would let the later registration replace  *)
(* the earlier.  The client calls what is registered.                       *)
ASSUME MethodsRegistered ==
    /\ DOMAIN MethodOf = DOMAIN Registered
    /\ \A a, b \in DOMAIN MethodOf : MethodOf[a] = MethodOf[b] => a = b
ASSUME ClientCallsServed == ClientCalls \subseteq DOMAIN Registered

(* What the actor answers is told apart from what the handle and the router *)
(* report in its place, and the requests the handle names are answered as   *)
(* the handle expects.                                                      *)
ASSUME AnswersTold ==
    /\ "none" \notin DOMAIN Registered
    /\ \A r \in DOMAIN Registered :
          (Registered[r].ok \cup Registered[r].err)
             \cap (ChannelErrors \cup {"invalid_params", "empty", "dropped", "none"}) = {}
    /\ {"start_turn", "shutdown", "list_models", "set_model"} \subseteq DOMAIN Registered
    /\ ClientQueueCalls \subseteq DOMAIN Registered
    /\ \A r \in ClientQueueCalls : "accepted" \in Registered[r].ok
    /\ "stopped" \in Registered["shutdown"].ok
    /\ "models" \in Registered["list_models"].ok
    /\ "switched" \in Registered["set_model"].ok

(* Some callers may ask for anything, some compete with a turn or a         *)
(* shutdown, the others switch the model or inject.                         *)
HandleRequests ==
    [c \in Callers |-> IF c \in Anyone THEN DOMAIN Registered
                       ELSE IF c \in Racers THEN {"start_turn", "shutdown"}
                       ELSE {"set_model", "enqueue_steer"}]

VARIABLES
    part,       \* the component this behaviour is about
    \* NativeClient
    token, phase, call, slot, pending, drained, outq, reader, inHand, writer, events, sub,
    cursor, task, revmap, permit, closer, c2s, s2c, peerGone, notes, handler, early,
    served,
    \* ServerConnection
    shutdown, initialized, filter, loop, hand, half, sendq, outOpen, log, seen, fwd,
    held, up, down, clientGone, sent, replied, ran, skipped, barred, shown,
    \* ServerListener
    at, starts, lock, file, listening, waiting, permits, open, stop, main, taken,
    \* EngineHandle
    stage, request, answer, result, queue, actor, done, provider, window, outputCap,
    target, overlap

clientVars == <<
    token, phase, call, slot, pending, drained, outq, reader, inHand, writer, events, sub,
    cursor, task, revmap, permit, closer, c2s, s2c, peerGone, notes, handler, early,
    served>>
connVars == <<
    shutdown, initialized, filter, loop, hand, half, sendq, outOpen, log, seen, fwd,
    held, up, down, clientGone, sent, replied, ran, skipped, barred, shown>>
listenerVars == <<
    at, starts, lock, file, listening, waiting, permits, open, stop, main, taken>>
handleVars == <<
    stage, request, answer, result, queue, actor, done, provider, window, outputCap,
    target, overlap>>

Client == INSTANCE NativeClient
Conn == INSTANCE ServerConnection
Listener == INSTANCE ServerListener
Handle == INSTANCE EngineHandle WITH Api <- Registered, Requests <- HandleRequests

vars == <<part, clientVars, connVars, listenerVars, handleVars>>

OthersClient == <<part, connVars, listenerVars, handleVars>>
OthersConn == <<part, clientVars, listenerVars, handleVars>>
OthersListener == <<part, clientVars, connVars, handleVars>>
OthersHandle == <<part, clientVars, connVars, listenerVars>>

Init ==
    /\ part \in {"client", "conn", "listener", "handle"}
    /\ Client!Init
    /\ Conn!Init
    /\ Listener!Init
    /\ Handle!Init /\ (part # "handle" => provider = CHOOSE m \in Models : TRUE)

ClientNext == part = "client" /\ Client!Next /\ UNCHANGED OthersClient
ConnNext == part = "conn" /\ Conn!Next /\ UNCHANGED OthersConn
ListenerNext == part = "listener" /\ Listener!Next /\ UNCHANGED OthersListener
HandleNext == part = "handle" /\ Handle!Next /\ UNCHANGED OthersHandle

Next == ClientNext \/ ConnNext \/ ListenerNext \/ HandleNext

Spec == Init /\ [][Next]_vars
-----------------------------------------------------------------------------
(* Every component keeps its type invariant. *)
TypesOK ==
    /\ part = "client" => Client!TypeOK
    /\ part = "conn" => Conn!TypeOK
    /\ part = "listener" => Listener!TypeOK
    /\ part = "handle" => Handle!TypeOK

(* The teardown of a connection leaves nothing behind: pending calls are    *)
(* failed, or in the writer's hand to be failed, before subscribers hear of *)
(* the disconnect, no sender is lost or used twice, handlers are stopped,   *)
(* shutdown() returns last.                                                 *)
ClientTeardown == part = "client" => Client!ClientTeardown

(* What transport.rs says of the teardown ordering: a caller that awaits    *)
(* both a call and the next event sees the error of the call first.  The    *)
(* code does not keep it (README, section 7); no run checks it.             *)
ErrorBeforeDisconnect == part = "client" => Client!ErrorBeforeDisconnect

(* What a client sees of a connection is in order and complete: replies,    *)
(* the handshake, and the events that passed its filter.                    *)
ConnectionOrder == part = "conn" => Conn!ConnectionOrder

(* A server that serves keeps its socket and its permits. *)
ListenerSafe == part = "listener" => Listener!ListenerSafe

(* The handle and the actor agree: replies are dropped only at the end, and *)
(* the limits in force belong to the active model.                          *)
HandleConsistent == part = "handle" => Handle!HandleConsistent

(* Both ends of a call implement RemoteCalls: the request a client sends,   *)
(* and the one a caller hands to the engine, is carried out at most once,   *)
(* never after it was refused, and answered only if it was carried out,     *)
(* through timeouts, disconnects and shutdowns.  (Steps of the other parts  *)
(* change nothing of a call.)                                               *)
AtMostOnce ==
    /\ Client!Remote!Init /\ Handle!Remote!Init
    /\ [][/\ part = "client" => UNCHANGED Client!Remote!vars \/ Client!Remote!Next
          /\ part = "handle" => UNCHANGED Handle!Remote!vars \/ Handle!Remote!Next]_vars
=============================================================================
