---------------------------- MODULE NativeClient ----------------------------
(***************************************************************************)
(* The native JSON-RPC client (crates/zhive-client-native): the handle     *)
(* shared by its clones, the reader task, the writer task, the tasks that  *)
(* run reverse handlers, and one subscriber of the event stream.           *)
(*                                                                         *)
(* Tasks run on a multi-threaded runtime, so every stretch of code between *)
(* two awaits, or between two lock sections another task can fall between, *)
(* is an action.  The peer is external: it reads requests, answers them,   *)
(* sends notifications and requests of its own, sends a frame that does    *)
(* not parse, or goes away.  Payloads are left out; a message is its kind  *)
(* and its id.                                                             *)
(***************************************************************************)
EXTENDS Naturals, Sequences, FiniteSets

CONSTANTS
    Hello,          \* the initialize call, made by the connector
    Calls,          \* the calls the clones make once connected
    ServerReqs,     \* requests the server may initiate
    Served,         \* those whose method the installed handler lists
    OutCap,         \* OUTBOUND_QUEUE_CAP
    EventCap,       \* DEFAULT_NOTIFICATION_BUFFER
    WireCap,        \* bound: messages in flight in one direction
    MaxNotes        \* bound: notifications the server sends

VARIABLES
    token,      \* the connection's CancellationToken has fired
    phase,      \* the connector: "hello", "greet", "ready", "failed"
    call,       \* where each call is
    slot,       \* its oneshot: "empty", "ok", "error", "closed"
    pending,    \* PendingRequests: the ids that own a sender
    drained,    \* per task, the senders it took out of the map and has yet to use
    outq,       \* the outbound channel
    reader, inHand,     \* the reader task and the server request it serves
    writer,     \* the writer task
    events, sub, cursor,    \* the broadcast of ClientEvents, one subscriber
    task, revmap,       \* reverse handler tasks and PendingReverse
    permit, closer,     \* worker_done, and one call of Client::shutdown
    c2s, s2c, peerGone, notes,  \* the stream and the peer
    handler,    \* a ReverseHandler is installed
    early,      \* history: calls registered while the reader was reading
    served      \* history: how often the peer carried out each call

cvars == <<token, phase, call, slot, pending, drained, outq, early>>
rvars == <<reader, inHand, task, revmap, permit, handler>>
evars == <<events, sub, cursor>>
nvars == <<c2s, s2c, peerGone, notes, served>>
vars == <<cvars, rvars, evars, nvars, writer, closer>>

AllCalls == Calls \cup {Hello}
Outcomes == {"ok", "error", "closed"}
NoReq == "none"
Msg(kind, id) == [kind |-> kind, id |-> id]

\* A receiver still exists until the writer task's future is dropped.
QueueOpen == writer # "gone"
Drainers == {"reader", "writer"}
InLoop == reader \in {"read", "reply", "insert"}

Init ==
    /\ token = FALSE /\ phase = "hello" /\ permit = FALSE /\ closer = "none"
    /\ call = [c \in AllCalls |-> "idle"]
    /\ slot = [c \in AllCalls |-> "empty"]
    /\ pending = {} /\ early = {} /\ outq = <<>>
    /\ drained = [t \in Drainers |-> {}]
    /\ reader = "read" /\ inHand = NoReq /\ writer = "write"
    /\ events = <<>> /\ sub = "none" /\ cursor = 0
    /\ task = [r \in ServerReqs |-> "none"] /\ revmap = {} /\ handler = FALSE
    /\ c2s = <<>> /\ s2c = <<>> /\ peerGone = FALSE /\ notes = 0
    /\ served = [c \in AllCalls |-> 0]
-----------------------------------------------------------------------------
(* Client::call and Client::notify.  The id is registered first, then the   *)
(* request is pushed, which waits while the queue is full and fails once    *)
(* the receiver is dropped (the entry is left in the map), then the oneshot *)
(* is awaited.                                                              *)

Register(c) ==
    /\ call[c] = "idle"
    /\ IF c = Hello THEN phase = "hello" ELSE phase = "ready"
    /\ call' = [call EXCEPT ![c] = "sending"]
    /\ pending' = pending \cup {c}
    /\ early' = IF InLoop THEN early \cup {c} ELSE early
    /\ UNCHANGED <<token, phase, slot, drained, outq, rvars, evars, nvars, writer,
                   closer>>

Push(c) ==
    /\ call[c] = "sending"
    /\ \/ /\ QueueOpen /\ Len(outq) < OutCap
          /\ outq' = Append(outq, Msg("request", c))
          /\ call' = [call EXCEPT ![c] = "waiting"]
       \/ /\ ~QueueOpen
          /\ call' = [call EXCEPT ![c] = "unsent"] /\ UNCHANGED outq
    /\ UNCHANGED <<token, phase, slot, pending, drained, early, rvars, evars, nvars,
                   writer, closer>>

Return(c) ==
    /\ call[c] = "waiting" /\ slot[c] # "empty"
    /\ call' = [call EXCEPT ![c] = slot[c]]
    /\ UNCHANGED <<token, phase, slot, pending, outq, drained, early, rvars, evars,
                   nvars, writer, closer>>
-----------------------------------------------------------------------------
(* perform_handshake_with_params: an error or a timeout drops the client,   *)
(* which fires the token (Drop for Inner); success sends `initialized`.     *)

HandshakeFails ==
    /\ phase = "hello"
    /\ \/ call[Hello] \in {"error", "closed", "unsent"} /\ UNCHANGED call
       \/ /\ call[Hello] \in {"sending", "waiting"}       \* initialize_timeout
          /\ call' = [call EXCEPT ![Hello] = "dropped"]
    /\ phase' = "failed" /\ token' = TRUE
    /\ UNCHANGED <<slot, pending, outq, drained, early, rvars, evars, nvars, writer,
                   closer>>

HandshakeAnswered ==
    /\ phase = "hello" /\ call[Hello] = "ok"
    /\ phase' = "greet"
    /\ UNCHANGED <<token, call, slot, pending, outq, drained, early, rvars, evars,
                   nvars, writer, closer>>

SendInitialized ==
    /\ phase = "greet"
    /\ \/ /\ QueueOpen /\ Len(outq) < OutCap
          /\ outq' = Append(outq, Msg("note", "initialized"))
          /\ phase' = "ready" /\ UNCHANGED token
       \/ ~QueueOpen /\ phase' = "failed" /\ token' = TRUE /\ UNCHANGED outq
    /\ UNCHANGED <<call, slot, pending, drained, early, rvars, evars, nvars, writer,
                   closer>>

(* The last clone goes away: no call is outstanding on any clone. *)
DropLast ==
    /\ phase = "ready" /\ closer = "none"
    /\ \A c \in Calls : call[c] \notin {"sending", "waiting"}
    /\ phase' = "failed" /\ token' = TRUE
    /\ UNCHANGED <<call, slot, pending, outq, drained, early, rvars, evars, nvars,
                   writer, closer>>

(* Client::shutdown of one clone; others may go on calling. *)
Shutdown ==
    /\ phase = "ready" /\ closer = "none"
    /\ token' = TRUE /\ closer' = "waiting"
    /\ UNCHANGED <<phase, call, slot, pending, outq, drained, early, rvars, evars,
                   nvars, writer>>

ShutdownReturns ==
    /\ closer = "waiting"
    /\ \/ permit /\ permit' = FALSE /\ closer' = "notified"
       \/ closer' = "timed_out" /\ UNCHANGED permit        \* SHUTDOWN_TIMEOUT
    /\ UNCHANGED <<cvars, reader, inHand, task, revmap, handler, evars, nvars, writer>>
-----------------------------------------------------------------------------
(* The reader task.  Broadcasting an event never waits; a reply to a        *)
(* request nobody serves is pushed by the reader itself, which waits while  *)
(* the queue is full.                                                       *)

Resolve(c, out) ==
    /\ pending' = pending \ {c}
    /\ slot' = [slot EXCEPT ![c] = IF c \in pending THEN out ELSE @]

(* drain_with_disconnected empties the map under its lock; it fills the     *)
(* oneshots one by one after the lock is released.                          *)
Take(t) ==
    /\ drained' = [drained EXCEPT ![t] = pending]
    /\ pending' = {}

Fill(t, c) ==
    /\ slot' = [slot EXCEPT ![c] = "closed"]
    /\ drained' = [drained EXCEPT ![t] = @ \ {c}]

LeaveLoop == reader' = "drain"

Read ==
    /\ reader = "read" /\ ~token
    /\ s2c # <<>>
    /\ s2c' = Tail(s2c)
    /\ LET m == Head(s2c) IN
       \/ /\ m.kind \in {"ok", "error"}
          /\ Resolve(m.id, m.kind)
          /\ UNCHANGED <<reader, inHand, task, events>>
       \/ /\ m.kind = "note"
          /\ events' = Append(events, "note")
          /\ UNCHANGED <<pending, slot, reader, inHand, task>>
       \/ /\ m.kind = "request"
          /\ events' = Append(events, "request")
          /\ inHand' = m.id
          /\ IF handler /\ m.id \in Served
             THEN /\ reader' = "insert"
                  /\ task' = [task EXCEPT ![m.id] = "running"]
             ELSE reader' = "reply" /\ UNCHANGED task
          /\ UNCHANGED <<pending, slot>>
       \/ /\ m.kind = "garbage"             \* a framing error
          /\ LeaveLoop
          /\ UNCHANGED <<pending, slot, inHand, task, events>>
    /\ UNCHANGED <<token, phase, call, outq, drained, early, revmap, permit, handler,
                   sub, cursor,
                   c2s, peerGone, notes, served, writer, closer>>

ReaderSeesEnd ==
    /\ reader = "read"
    /\ token \/ (s2c = <<>> /\ peerGone)
    /\ LeaveLoop
    /\ UNCHANGED <<cvars, inHand, task, revmap, permit, handler, evars, nvars, writer,
                   closer>>

ReplyNotFound ==
    /\ reader = "reply"
    /\ \/ /\ QueueOpen /\ Len(outq) < OutCap
          /\ outq' = Append(outq, Msg("reply", inHand))
       \/ ~QueueOpen /\ UNCHANGED outq
    /\ reader' = "read" /\ inHand' = NoReq
    /\ UNCHANGED <<token, phase, call, slot, pending, drained, early, task, revmap,
                   permit, handler,
                   evars, nvars, writer, closer>>

(* The handler task is spawned before its join handle is recorded. *)
InsertHandle ==
    /\ reader = "insert"
    /\ revmap' = revmap \cup {inHand}
    /\ reader' = "read" /\ inHand' = NoReq
    /\ UNCHANGED <<cvars, task, permit, handler, evars, nvars, writer, closer>>

(* Mutant: the map is not drained; or worker_done is notified before the teardown *)
TeardownSkipsDrain ==
    /\ reader = "drain" /\ reader' = "abort"
    /\ UNCHANGED <<cvars, inHand, task, revmap, permit, handler, evars, nvars, writer,
                   closer>>

TeardownDrain ==
    /\ reader = "drain" /\ Take("reader") /\ reader' = "fill"
    /\ UNCHANGED <<token, phase, call, slot, outq, early, inHand, task, revmap, permit,
                   handler, evars, nvars, writer, closer>>

TeardownFill ==
    /\ reader = "fill"
    /\ \/ \E c \in drained["reader"] : Fill("reader", c) /\ UNCHANGED reader
       \/ drained["reader"] = {} /\ reader' = "abort" /\ UNCHANGED <<slot, drained>>
    /\ UNCHANGED <<token, phase, call, pending, outq, early, inHand, task, revmap, permit,
                   handler, evars, nvars, writer, closer>>

TeardownAbort ==
    /\ reader = "abort" /\ reader' = "announce"
    /\ task' = [r \in ServerReqs |-> IF r \in revmap /\ task[r] # "done"
                                     THEN "aborted" ELSE task[r]]
    /\ revmap' = {}
    /\ UNCHANGED <<cvars, inHand, permit, handler, evars, nvars, writer, closer>>

TeardownAnnounce ==
    /\ reader = "announce" /\ reader' = "signal"
    /\ events' = Append(events, "disconnected")
    /\ UNCHANGED <<cvars, inHand, task, revmap, permit, handler, sub, cursor, nvars,
                   writer, closer>>

TeardownSignal ==
    /\ reader = "signal" /\ reader' = "gone" /\ permit' = TRUE
    /\ UNCHANGED <<cvars, inHand, task, revmap, handler, evars, nvars, writer, closer>>
-----------------------------------------------------------------------------
(* set_reverse_handler, set_permission_handler *)
SetReverseHandler ==
    /\ phase = "ready" /\ handler' = ~handler
    /\ UNCHANGED <<cvars, reader, inHand, task, revmap, permit, evars, nvars, writer,
                   closer>>

(* A reverse handler's task: the handler returns (or panics, which is       *)
(* caught), the reply is pushed, the task's own entry is removed.           *)

HandlerReplies(r) ==
    /\ task[r] = "running"
    /\ \/ /\ QueueOpen /\ Len(outq) < OutCap
          /\ outq' = Append(outq, Msg("reply", r))
       \/ ~QueueOpen /\ UNCHANGED outq
    /\ task' = [task EXCEPT ![r] = "replied"]
    /\ UNCHANGED <<token, phase, call, slot, pending, drained, early, reader, inHand,
                   revmap,
                   permit, handler, evars, nvars, writer, closer>>

HandlerCleansUp(r) ==
    /\ task[r] = "replied"
    /\ task' = [task EXCEPT ![r] = "done"]
    /\ revmap' = revmap \ {r}
    /\ UNCHANGED <<cvars, reader, inHand, permit, handler, evars, nvars, writer, closer>>
-----------------------------------------------------------------------------
(* The writer task: the token is looked at first; a failed write leaves the *)
(* loop; then the map is drained, and only then the receiver is dropped.    *)

(* Mutant: the head of the queue is sent and not taken off it *)
WritePeeks ==
    /\ writer = "write" /\ ~token /\ outq # <<>> /\ ~peerGone /\ Len(c2s) < WireCap
    /\ c2s' = Append(c2s, Head(outq))
    /\ UNCHANGED <<cvars, rvars, evars, s2c, peerGone, notes, served, writer, closer>>

Write ==
    /\ writer = "write"
    /\ \/ /\ ~token /\ outq # <<>>
          /\ outq' = Tail(outq)
          /\ IF peerGone THEN writer' = "drain" /\ UNCHANGED c2s
             ELSE /\ Len(c2s) < WireCap
                  /\ c2s' = Append(c2s, Head(outq))
                  /\ UNCHANGED writer
       \/ token /\ writer' = "drain" /\ UNCHANGED <<outq, c2s>>
    /\ UNCHANGED <<token, phase, call, slot, pending, drained, early, rvars, evars,
                   s2c, peerGone, notes, served, closer>>

WriterDrains ==
    /\ writer = "drain" /\ Take("writer") /\ writer' = "fill"
    /\ UNCHANGED <<token, phase, call, slot, outq, early, rvars, evars, nvars, closer>>

WriterFills ==
    /\ writer = "fill"
    /\ \/ \E c \in drained["writer"] : Fill("writer", c) /\ UNCHANGED writer
       \/ drained["writer"] = {} /\ writer' = "drop" /\ UNCHANGED <<slot, drained>>
    /\ UNCHANGED <<token, phase, call, pending, outq, early, rvars, evars, nvars, closer>>

WriterDrops ==
    /\ writer = "drop" /\ writer' = "gone" /\ outq' = <<>>
    /\ UNCHANGED <<token, phase, call, slot, pending, drained, early, rvars, evars,
                   nvars, closer>>
-----------------------------------------------------------------------------
(* One subscriber: subscribe_events, then next_event in a loop.  A receiver *)
(* that is more than the buffer behind skips to the oldest event kept.      *)

Subscribe ==
    /\ sub = "none" /\ phase = "ready"
    /\ sub' = "on" /\ cursor' = Len(events)
    /\ UNCHANGED <<cvars, rvars, events, nvars, writer, closer>>

NextEvent ==
    /\ sub = "on" /\ cursor < Len(events)
    /\ LET oldest == IF Len(events) > EventCap THEN Len(events) - EventCap ELSE 0 IN
       IF cursor < oldest
       THEN cursor' = oldest /\ UNCHANGED sub            \* ClientEvent::Lagged
       ELSE /\ cursor' = cursor + 1
            /\ sub' = IF events[cursor + 1] = "disconnected" THEN "over" ELSE sub
    /\ UNCHANGED <<cvars, rvars, events, nvars, writer, closer>>
-----------------------------------------------------------------------------
(* The peer, external to this module. *)

PeerAnswers ==
    /\ ~peerGone /\ c2s # <<>>
    /\ LET m == Head(c2s) IN
       IF m.kind = "request"
       THEN /\ Len(s2c) < WireCap \/ reader = "gone"
            /\ \E out \in {"ok", "error"} : s2c' = Append(s2c, Msg(out, m.id))
            /\ served' = [served EXCEPT ![m.id] = @ + 1]
       ELSE UNCHANGED <<s2c, served>>
    /\ c2s' = Tail(c2s)
    /\ UNCHANGED <<cvars, rvars, evars, peerGone, notes, writer, closer>>

PeerSends ==
    /\ ~peerGone /\ Len(s2c) < WireCap
    /\ phase = "ready" /\ notes < MaxNotes /\ notes' = notes + 1
    /\ \/ s2c' = Append(s2c, Msg("note", "event"))
       \/ \E r \in ServerReqs : /\ task[r] = "none" /\ inHand # r
                                /\ Msg("request", r) \notin {s2c[i] : i \in 1..Len(s2c)}
                                /\ s2c' = Append(s2c, Msg("request", r))
       \/ s2c' = Append(s2c, Msg("garbage", "none"))
    /\ UNCHANGED <<cvars, rvars, evars, c2s, peerGone, served, writer, closer>>

PeerLeaves ==
    /\ ~peerGone /\ peerGone' = TRUE /\ c2s' = <<>>
    /\ UNCHANGED <<cvars, rvars, evars, s2c, notes, served, writer, closer>>
-----------------------------------------------------------------------------
ReaderStep == Read \/ ReaderSeesEnd \/ ReplyNotFound \/ InsertHandle \/ TeardownDrain
              \/ TeardownFill \/ TeardownAbort \/ TeardownAnnounce \/ TeardownSignal
WriterStep == Write \/ WriterDrains \/ WriterFills \/ WriterDrops

Next ==
    \/ \E c \in AllCalls : Register(c) \/ Push(c) \/ Return(c)
    \/ HandshakeFails \/ HandshakeAnswered \/ SendInitialized
    \/ DropLast \/ Shutdown \/ ShutdownReturns
    \/ ReaderStep \/ WriterStep
    \/ \E r \in ServerReqs : HandlerReplies(r) \/ HandlerCleansUp(r)
    \/ SetReverseHandler \/ Subscribe \/ NextEvent
    \/ PeerAnswers \/ PeerSends \/ PeerLeaves

Spec == Init /\ [][Next]_vars
-----------------------------------------------------------------------------
TypeOK ==
    /\ token \in BOOLEAN /\ permit \in BOOLEAN /\ peerGone \in BOOLEAN
    /\ phase \in {"hello", "greet", "ready", "failed"}
    /\ call \in [AllCalls -> {"idle", "sending", "waiting", "unsent", "dropped"} \cup Outcomes]
    /\ slot \in [AllCalls -> Outcomes \cup {"empty"}]
    /\ pending \subseteq AllCalls /\ early \subseteq AllCalls
    /\ drained \in [Drainers -> SUBSET AllCalls]
    /\ Len(outq) <= OutCap /\ Len(c2s) <= WireCap
    /\ reader \in {"read", "reply", "insert", "drain", "fill", "abort", "announce",
                   "signal", "gone"}
    /\ inHand \in ServerReqs \cup {NoReq}
    /\ writer \in {"write", "drain", "fill", "drop", "gone"}
    /\ sub \in {"none", "on", "over"} /\ cursor \in 0..Len(events)
    /\ task \in [ServerReqs -> {"none", "running", "replied", "done", "aborted"}]
    /\ served \in [AllCalls -> Nat] /\ revmap \subseteq ServerReqs /\ handler \in BOOLEAN
    /\ closer \in {"none", "waiting", "notified", "timed_out"}

(* Once the disconnect event is broadcast, every call that was registered   *)
(* while the reader was still reading has its outcome, or the writer has    *)
(* taken its sender and is about to fail it.                                *)
DrainPrecedesDisconnect ==
    (\E i \in 1..Len(events) : events[i] = "disconnected")
        => \A c \in early : slot[c] # "empty" \/ c \in drained["writer"]

(* The teardown ordering transport.rs promises: whoever awaits a call and   *)
(* the events sees the error of the call before the disconnect.             *)
ErrorBeforeDisconnect ==
    sub = "over" => \A c \in early : slot[c] # "empty"

(* An outcome is never lost between the map and the two tasks that empty    *)
(* it: as long as a call that was made has no outcome its sender is in the  *)
(* map or in the hand of one task, and no answer is ever overwritten,       *)
(* because the sender is in one place only and in none afterwards.          *)
Holders(c) ==
    {t \in Drainers : c \in drained[t]} \cup (IF c \in pending THEN {"map"} ELSE {})
EntriesLeaveFilled ==
    \A c \in AllCalls : call[c] # "idle" =>
        /\ slot[c] = "empty" <=> Holders(c) # {}
        /\ \A a, b \in Holders(c) : a = b

(* No reverse handler outlives the connection: once the reader announces    *)
(* the disconnect, every handler task is over or was aborted.               *)
HandlersStopAtTeardown ==
    reader \in {"announce", "signal", "gone"}
        => /\ revmap = {}
           /\ \A r \in ServerReqs : task[r] \in {"none", "done", "aborted"}

(* A shutdown that returns by notification returns after the whole teardown. *)
ShutdownAfterTeardown ==
    closer = "notified" =>
        /\ reader = "gone" /\ \E i \in 1..Len(events) : events[i] = "disconnected"

(* The teardown of a connection leaves nothing behind: pending calls are    *)
(* failed, or in the writer's hand to be failed, before subscribers hear of *)
(* the disconnect, no sender is lost or used twice, handlers are stopped,   *)
(* shutdown() returns last.                                                 *)
ClientTeardown ==
    /\ DrainPrecedesDisconnect /\ EntriesLeaveFilled
    /\ HandlersStopAtTeardown /\ ShutdownAfterTeardown

(* The client implements calls that are carried out at most once: an answer *)
(* is only returned for a call the peer carried out, and a call refused     *)
(* before it was queued (ClientError::NotConnected from the push) is never  *)
(* carried out; a call that failed any other way may have been, or may yet. *)
CallState(c) ==
    CASE call[c] = "idle" -> "new"
      [] call[c] \in {"sending", "waiting"} -> "open"
      [] call[c] \in {"ok", "error"} -> "answered"
      [] call[c] = "unsent" -> "refused"
      [] OTHER -> "failed"
Remote == INSTANCE RemoteCalls WITH
    Calls <- AllCalls, state <- [c \in AllCalls |-> CallState(c)], executed <- served
AtMostOnceCalls == Remote!Spec
=============================================================================
