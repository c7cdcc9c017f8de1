-------------------------- MODULE ServerConnection --------------------------
(***************************************************************************)
(* One connection of the JSON-RPC server: the serve loop with its          *)
(* handshake and subscription gates (server/serve_loop.rs, initialize.rs), *)
(* the router (router.rs), the task that forwards engine events            *)
(* (events.rs) and the per-connection event filter.                        *)
(*                                                                         *)
(* The client is external: it sends requests and notifications in any      *)
(* order, reads what it is sent, or goes away.  The engine is external to  *)
(* this module too: it broadcasts events and answers a dispatched request  *)
(* with a result or an error.  Payloads are left out.                      *)
(***************************************************************************)
EXTENDS Naturals, Sequences, FiniteSets, SequencesExt, WireApi

CONSTANTS
    OutCap,         \* DEFAULT_OUTBOUND_QUEUE_CAP
    BroadcastCap,   \* the engine's event channel
    WireCap,        \* bound: frames in flight in one direction
    Kinds,          \* the engine events that are broadcast
    MaxEvents,      \* bound: engine events
    MaxFrames       \* bound: frames the client sends

(* Frames: initialize with a version in or above the supported range, the   *)
(* two subscription requests, a request a handler is registered for, one    *)
(* nobody handles, one whose body arrives in two pieces, and notifications. *)
FrameKinds == {"init", "init_new", "init_bad", "subscribe", "subscribe_bad", "unsubscribe",
             "work", "unknown", "long"}
Notes == {"initialized", "cancel"}

VARIABLES
    shutdown, initialized, filter,
    loop,       \* the serve loop: "select", "work", "send", "closed"
    hand,     \* the frame it dispatches or the message it sends
    half,       \* the first piece of the frame at the head of up was consumed
    sendq, outOpen,          \* the outbound queue; whether the loop still reads it
    log, seen, fwd, held, \* the engine's broadcast and the forwarder
    up, down, clientGone,
    sent,       \* frames the client sent, numbered
    replied,    \* history: the requests answered, in order
    ran,        \* history: requests that reached the router
    skipped, barred, shown  \* history: events lost to lag, filtered out, sent

lvars == <<initialized, filter, loop, hand, half, outOpen, replied, ran, shown>>
fvars == <<seen, fwd, held, skipped, barred>>
vars == <<shutdown, lvars, sendq, log, fvars, up, down, clientGone, sent>>

Frame(n, kind) == [n |-> n, kind |-> kind]
Event(i) == [event |-> i]
Reply(n, code) == [reply |-> n, code |-> code]
Idle == [reply |-> 0, code |-> "none"]

Init ==
    /\ shutdown = FALSE /\ initialized = FALSE /\ filter = {}
    /\ loop = "select" /\ hand = Idle /\ half = FALSE
    /\ sendq = <<>> /\ outOpen = TRUE
    /\ log = <<>> /\ seen = 0 /\ fwd = "recv" /\ held = 0
    /\ up = <<>> /\ down = <<>> /\ clientGone = FALSE /\ sent = 0
    /\ replied = <<>> /\ ran = {} /\ skipped = {} /\ barred = {} /\ shown = <<>>
-----------------------------------------------------------------------------
(* EventFilter::allows_method; an empty set allows all. *)
Allows(method) == filter = {} \/ method \in filter

(* handle_initialize and build_initialize_response. *)
HandleInitialize(kind) ==
    IF kind = "init_bad" THEN "invalid_params"
    ELSE IF initialized THEN "already_initialized"
    ELSE IF kind = "init_new" THEN "version_unsupported" ELSE "welcome"

IsInit(kind) == kind \in {"init", "init_new", "init_bad"}

(* Mutant: the handshake gate is missing *)
GateForgets(kind) ==
    CASE IsInit(kind) -> HandleInitialize(kind)
      [] kind = "subscribe_bad" -> "invalid_params"
      [] kind \in {"subscribe", "unsubscribe"} -> "ok"
      [] OTHER -> "route"

(* dispatch_request up to the router: the code a gate answers with, or      *)
(* "route" for a request that passes all of them.                           *)
Gate(kind) ==
    CASE IsInit(kind) -> HandleInitialize(kind)
      [] ~IsInit(kind) /\ ~initialized -> "not_initialized"
      [] ~IsInit(kind) /\ initialized /\ kind = "subscribe_bad" -> "invalid_params"
      [] ~IsInit(kind) /\ initialized /\ kind \in {"subscribe", "unsubscribe"} -> "ok"
      [] OTHER -> "route"

(* Router::dispatch: a handler's result or error, or method not found. *)
Routed(kind) == IF kind = "unknown" THEN {"method_not_found"} ELSE {"ok", "engine_error"}
-----------------------------------------------------------------------------
(* The serve loop.  select! is biased: the token first, then the outbound   *)
(* queue, then the transport; the read future of an arm that loses is       *)
(* dropped with the bytes it has consumed.                                  *)

Close == loop' = "closed" /\ hand' = Idle

LoopShutdown ==
    /\ loop = "select" /\ shutdown /\ Close
    /\ UNCHANGED <<shutdown, initialized, filter, half, outOpen, replied, ran, shown,
                   sendq, log, fvars, up, down, clientGone, sent>>

(* The remaining bytes of a frame whose first piece is lost do not parse. *)
Tear(frames) == <<[Head(frames) EXCEPT !.kind = "torn"]>> \o Tail(frames)

LoopOutbound ==
    /\ loop = "select" /\ ~shutdown /\ outOpen /\ sendq # <<>>
    /\ hand' = Head(sendq) /\ sendq' = Tail(sendq) /\ loop' = "send"
    /\ half' = FALSE
    /\ up' = IF half THEN Tear(up) ELSE up
    /\ UNCHANGED <<shutdown, initialized, filter, outOpen, replied, ran, shown,
                   log, fvars, down, clientGone, sent>>

LoopOutboundClosed ==
    /\ loop = "select" /\ ~shutdown /\ outOpen /\ sendq = <<>> /\ fwd = "gone"
    /\ outOpen' = FALSE
    /\ half' = FALSE
    /\ up' = IF half THEN Tear(up) ELSE up
    /\ UNCHANGED <<shutdown, initialized, filter, loop, hand, replied, ran, shown,
                   sendq, log, fvars, down, clientGone, sent>>

InboundTurn == loop = "select" /\ ~shutdown /\ (outOpen => sendq = <<>> /\ fwd # "gone")

ReadHalf ==
    /\ InboundTurn /\ up # <<>> /\ Head(up).kind = "long" /\ ~half
    /\ half' = TRUE
    /\ UNCHANGED <<shutdown, initialized, filter, loop, hand, outOpen, replied, ran,
                   shown, sendq, log, fvars, up, down, clientGone, sent>>

(* dispatch_message: a request goes through the gates; a notification       *)
(* before the handshake is dropped, later it is routed and its outcome      *)
(* discarded; a torn frame ends the connection.                             *)
ReadFrame ==
    /\ InboundTurn /\ up # <<>>
    /\ Head(up).kind = "long" => half
    /\ up' = Tail(up) /\ half' = FALSE
    /\ LET m == Head(up)  gate == Gate(m.kind) IN
       IF m.kind = "torn"
       THEN Close /\ UNCHANGED <<initialized, filter, ran>>
       ELSE IF m.kind \in Notes
       THEN /\ IF m.kind = "cancel" /\ initialized
               THEN loop' = "work" /\ hand' = m /\ ran' = ran \cup {m.n}
               ELSE UNCHANGED <<loop, hand, ran>>
            /\ UNCHANGED <<initialized, filter>>
       ELSE IF gate = "route"
       THEN loop' = "work" /\ hand' = m /\ ran' = ran \cup {m.n}
            /\ UNCHANGED <<initialized, filter>>
       ELSE /\ loop' = "send" /\ hand' = Reply(m.n, gate)
            /\ initialized' = (initialized \/ gate = "welcome")
            /\ filter' = IF gate # "ok" THEN filter
                         ELSE IF m.kind = "subscribe" THEN {"events/turn_started"}
                         ELSE IF m.kind = "unsubscribe" THEN {} ELSE filter
            /\ UNCHANGED ran
    /\ UNCHANGED <<shutdown, outOpen, replied, shown, sendq, log, fvars, down, clientGone, sent>>

ReadEnd ==
    /\ InboundTurn /\ up = <<>> /\ clientGone /\ Close
    /\ UNCHANGED <<shutdown, initialized, filter, half, outOpen, replied, ran, shown,
                   sendq, log, fvars, up, down, clientGone, sent>>

(* The handler returns; nothing else is selected meanwhile. *)
Handled ==
    /\ loop = "work"
    /\ IF hand.kind \in Notes THEN loop' = "select" /\ hand' = Idle
       ELSE \E code \in Routed(hand.kind) :
                loop' = "send" /\ hand' = Reply(hand.n, code)
    /\ UNCHANGED <<shutdown, initialized, filter, half, outOpen, replied, ran, shown,
                   sendq, log, fvars, up, down, clientGone, sent>>

(* transport.send, which is not raced against the token. *)
Send ==
    /\ loop = "send"
    /\ IF clientGone THEN Close /\ UNCHANGED <<down, replied, shown>>
       ELSE /\ Len(down) < WireCap
            /\ down' = Append(down, hand)
            /\ loop' = "select" /\ hand' = Idle
            /\ IF "reply" \in DOMAIN hand
               THEN replied' = Append(replied, hand) /\ UNCHANGED shown
               ELSE shown' = Append(shown, hand.event) /\ UNCHANGED replied
    /\ UNCHANGED <<shutdown, initialized, filter, half, outOpen, ran, sendq, log, fvars,
                   up, clientGone, sent>>
-----------------------------------------------------------------------------
(* The forwarder.  The filter is consulted when the event is received; the  *)
(* push that follows waits while the queue is full.                         *)

Oldest == IF Len(log) > BroadcastCap THEN Len(log) - BroadcastCap ELSE 0

ForwardRecv ==
    /\ fwd = "recv" /\ ~shutdown /\ seen < Len(log)
    /\ IF seen < Oldest
       THEN /\ seen' = Oldest
            /\ skipped' = skipped \cup (seen + 1)..Oldest
            /\ UNCHANGED <<fwd, held, barred>>
       ELSE /\ seen' = seen + 1 /\ UNCHANGED skipped
            /\ LET method == EventMethod(log[seen + 1]) IN
               IF method # "none" /\ Allows(method)
               THEN fwd' = "push" /\ held' = seen + 1 /\ UNCHANGED barred
               ELSE barred' = barred \cup {seen + 1} /\ UNCHANGED <<fwd, held>>
    /\ UNCHANGED <<shutdown, lvars, sendq, log, up, down, clientGone, sent>>

ForwardPush ==
    /\ fwd = "push" /\ held' = 0
    /\ IF loop = "closed" THEN fwd' = "gone" /\ UNCHANGED sendq
       ELSE Len(sendq) < OutCap /\ sendq' = Append(sendq, Event(held)) /\ fwd' = "recv"
    /\ UNCHANGED <<shutdown, lvars, log, seen, skipped, barred, up, down, clientGone, sent>>

ForwardStops ==
    /\ fwd = "recv" /\ shutdown /\ fwd' = "gone"
    /\ UNCHANGED <<shutdown, lvars, sendq, log, seen, held, skipped, barred, up, down,
                   clientGone, sent>>
-----------------------------------------------------------------------------
(* The engine and the client, external to this module. *)

Broadcast ==
    /\ Len(log) < MaxEvents
    /\ \E kind \in Kinds : log' = Append(log, kind)
    /\ UNCHANGED <<shutdown, lvars, sendq, fvars, up, down, clientGone, sent>>

FireShutdown ==
    /\ ~shutdown /\ shutdown' = TRUE
    /\ UNCHANGED <<lvars, sendq, log, fvars, up, down, clientGone, sent>>

ClientSends ==
    /\ ~clientGone /\ loop # "closed" /\ sent < MaxFrames /\ Len(up) < WireCap
    /\ \E kind \in FrameKinds \cup Notes : up' = Append(up, Frame(sent + 1, kind))
    /\ sent' = sent + 1
    /\ UNCHANGED <<shutdown, lvars, sendq, log, fvars, down, clientGone>>

ClientReads ==
    /\ ~clientGone /\ down # <<>> /\ down' = Tail(down)
    /\ UNCHANGED <<shutdown, lvars, sendq, log, fvars, up, clientGone, sent>>

ClientLeaves ==
    /\ ~clientGone /\ clientGone' = TRUE
    /\ UNCHANGED <<shutdown, lvars, sendq, log, fvars, up, down, sent>>
-----------------------------------------------------------------------------
LoopStep == LoopShutdown \/ LoopOutbound \/ LoopOutboundClosed \/ ReadHalf \/ ReadFrame
            \/ ReadEnd \/ Handled \/ Send
ForwarderStep == ForwardRecv \/ ForwardPush \/ ForwardStops

Next == LoopStep \/ ForwarderStep \/ Broadcast \/ FireShutdown
        \/ ClientSends \/ ClientReads \/ ClientLeaves

Spec == Init /\ [][Next]_vars
-----------------------------------------------------------------------------
Events == 1..MaxEvents
Frames == 1..MaxFrames

TypeOK ==
    /\ shutdown \in BOOLEAN /\ initialized \in BOOLEAN /\ clientGone \in BOOLEAN
    /\ filter \in {{}, {"events/turn_started"}} /\ half \in BOOLEAN /\ outOpen \in BOOLEAN
    /\ loop \in {"select", "work", "send", "closed"}
    /\ Len(sendq) <= OutCap /\ Len(down) <= WireCap /\ Len(up) <= WireCap
    /\ fwd \in {"recv", "push", "gone"} /\ held \in Events \cup {0}
    /\ seen \in 0..Len(log) /\ sent \in 0..MaxFrames
    /\ skipped \subseteq Events /\ barred \subseteq Events /\ ran \subseteq Frames

(* Requests of a connection are answered one at a time in the order they    *)
(* were sent, each at most once.                                            *)
RepliesInOrder == \A i, j \in 1..Len(replied) : i < j => replied[i].reply < replied[j].reply

(* Every event the forwarder has passed is accounted for: lost to lag,      *)
(* filtered out, on the wire in the engine's order, or still queued behind  *)
(* it, until the connection closes.                                         *)
InFlight == (IF loop = "send" /\ "event" \in DOMAIN hand THEN <<hand.event>> ELSE <<>>)
            \o [i \in 1..Len(sendq) |-> sendq[i].event]
            \o (IF fwd = "push" THEN <<held>> ELSE <<>>)
EventsAccounted ==
    loop # "closed" =>
        LET passed == shown \o InFlight IN
        /\ \A i, j \in 1..Len(passed) : i < j => passed[i] < passed[j]
        /\ ToSet(passed) \cup skipped \cup barred = 1..seen
        /\ ToSet(passed) \cap (skipped \cup barred) = {}

(* An internal event never leaves the process, and no event is lost to lag  *)
(* unless the channel was full.                                             *)
LossOnlyBehind ==
    /\ \A i \in 1..Len(shown) : log[shown[i]] \notin InternalEvents
    /\ \A e \in skipped : e + BroadcastCap <= Len(log)

(* Nothing is carried out for a client that was not welcomed: every request *)
(* or notification that reached the router came after an initialize that    *)
(* was answered with success, and a connection is welcomed at most once.    *)
Welcomes == {i \in 1..Len(replied) : replied[i].code = "welcome"}
HandshakeFirst ==
    /\ Cardinality(Welcomes) <= 1
    /\ \A n \in ran : \E i \in Welcomes : replied[i].reply < n

(* What a client sees of a connection is in order and complete: replies,    *)
(* the handshake, and the events that passed its filter.                    *)
ConnectionOrder == RepliesInOrder /\ HandshakeFirst /\ EventsAccounted /\ LossOnlyBehind
=============================================================================
