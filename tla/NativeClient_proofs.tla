------------------------- MODULE NativeClient_proofs -------------------------
(***************************************************************************)
(* Proofs about NativeClient, for any calls, any requests of the server    *)
(* and any capacity of the queue, the wire and the event buffer: the       *)
(* teardown leaves nothing behind, and the client implements RemoteCalls.  *)
(***************************************************************************)
EXTENDS NativeClient, SequenceTheorems, TLAPS

ClientConstants == OutCap \in Nat /\ EventCap \in Nat /\ WireCap \in Nat

(* What the client sends and what the peer sends                             *)
RequestMsgs == {Msg("request", c) : c \in AllCalls}
ReplyMsgs == {Msg("reply", r) : r \in ServerReqs}
ClientMsgs == RequestMsgs \cup ReplyMsgs \cup {Msg("note", "initialized")}
AnswerMsgs == {Msg(out, c) : out \in {"ok", "error"}, c \in AllCalls}
PeerMsgs == AnswerMsgs \cup {Msg("request", r) : r \in ServerReqs}
                       \cup {Msg("note", "event"), Msg("garbage", "none")}
Events == {"note", "request", "disconnected"}

(* The type invariant, with the contents of the channels it leaves out       *)
ClientTypes ==
    /\ TypeOK
    /\ outq \in Seq(ClientMsgs) /\ c2s \in Seq(ClientMsgs) /\ s2c \in Seq(PeerMsgs)
    /\ events \in Seq(Events)
    /\ reader \in {"reply", "insert"} => inHand \in ServerReqs

Has(s, m) == \E i \in DOMAIN s : s[i] = m
Once(s, m) == \A i, j \in DOMAIN s : s[i] = m /\ s[j] = m => i = j

(* A call that was not made has no sender; the sender of any other is in the *)
(* map, or in the hand of one task, until its slot is filled                 *)
InHandOf(t, c) == c \in drained[t]
EntryOf(c) ==
    /\ call[c] = "idle" => slot[c] = "empty" /\ c \notin early
                            /\ c \notin pending /\ ~InHandOf("reader", c) /\ ~InHandOf("writer", c)
    /\ call[c] # "idle" =>
          (slot[c] = "empty" <=> c \in pending \/ InHandOf("reader", c) \/ InHandOf("writer", c))
    /\ ~(c \in pending /\ InHandOf("reader", c))
    /\ ~(c \in pending /\ InHandOf("writer", c))
    /\ ~(InHandOf("reader", c) /\ InHandOf("writer", c))
EntryInv ==
    /\ \A c \in AllCalls : EntryOf(c)
    /\ reader # "fill" => drained["reader"] = {}
    /\ writer # "fill" => drained["writer"] = {}

(* From the drain of its teardown on nothing that was registered before is   *)
(* in the map, past the announcement the disconnect is broadcast, and only   *)
(* then shutdown() may be notified                                           *)
TornDown == {"fill", "abort", "announce", "signal", "gone"}
DrainInv ==
    /\ reader \in TornDown => early \cap pending = {}
    /\ Has(events, "disconnected") <=> reader \in {"signal", "gone"}
    /\ permit \/ closer = "notified" => reader = "gone"

(* A handler's task that runs is in the map, or about to be entered by the   *)
(* reader that spawned it, until the map is aborted                          *)
HandlerInv ==
    /\ \A r \in ServerReqs : task[r] \in {"running", "replied"} =>
          /\ reader \notin {"announce", "signal", "gone"}
          /\ r \in revmap \/ (reader = "insert" /\ inHand = r)
    /\ reader \in {"announce", "signal", "gone"} => revmap = {}

ClientInv == ClientTypes /\ EntryInv /\ DrainInv /\ HandlerInv

-----------------------------------------------------------------------------
(* Sequences: what adding at the end and taking the head do to the messages  *)
LEMMA HasAppend ==
    ASSUME NEW S, NEW s \in Seq(S), NEW e \in S, NEW m
    PROVE  /\ Append(s, e) \in Seq(S) /\ Len(Append(s, e)) = Len(s) + 1
           /\ Has(Append(s, e), m) <=> Has(s, m) \/ e = m
           /\ Once(s, m) /\ ~(Has(s, m) /\ e = m) => Once(Append(s, e), m)
<1>1. /\ Append(s, e) \in Seq(S) /\ Len(Append(s, e)) = Len(s) + 1 /\ Len(s) \in Nat
      /\ \A i \in 1..Len(s) : Append(s, e)[i] = s[i]
      /\ Append(s, e)[Len(s) + 1] = e /\ DOMAIN s = 1..Len(s)
      /\ DOMAIN Append(s, e) = 1..(Len(s) + 1)
  BY AppendProperties, LenProperties
<1>2. \A i \in DOMAIN Append(s, e) :
          (i \in DOMAIN s /\ Append(s, e)[i] = s[i]) \/ i = Len(s) + 1
  BY <1>1
<1>3. DOMAIN s \subseteq DOMAIN Append(s, e) /\ Len(s) + 1 \in DOMAIN Append(s, e)
  BY <1>1
<1>4. Has(Append(s, e), m) <=> Has(s, m) \/ e = m
  BY <1>1, <1>2, <1>3 DEF Has
<1>5. Once(s, m) /\ ~(Has(s, m) /\ e = m) => Once(Append(s, e), m)
  BY <1>1, <1>2 DEF Has, Once
<1> QED
  BY <1>1, <1>4, <1>5

LEMMA HasTail ==
    ASSUME NEW S, NEW s \in Seq(S), s # <<>>, NEW m
    PROVE  /\ Tail(s) \in Seq(S) /\ Head(s) \in S /\ Len(Tail(s)) \in Nat
           /\ Len(Tail(s)) + 1 = Len(s) /\ Has(s, Head(s))
           /\ Has(Tail(s), m) => Has(s, m)
           /\ Once(s, m) => Once(Tail(s), m)
           /\ Once(s, m) /\ Head(s) = m => ~Has(Tail(s), m)
<1>1. /\ Tail(s) \in Seq(S) /\ Len(Tail(s)) = Len(s) - 1 /\ Len(s) \in Nat /\ Len(s) > 0
      /\ DOMAIN s = 1..Len(s) /\ DOMAIN Tail(s) = 1..(Len(s) - 1)
      /\ \A i \in 1..(Len(s) - 1) : Tail(s)[i] = s[i + 1]
      /\ Head(s) = s[1] /\ s[1] \in S
  BY HeadTailProperties, ElementOfSeq, EmptySeq, LenProperties
<1>2. \A i \in DOMAIN Tail(s) :
          i \in Int /\ i + 1 \in DOMAIN s /\ i + 1 # 1 /\ Tail(s)[i] = s[i + 1]
  BY <1>1
<1>3. 1 \in DOMAIN s
  BY <1>1
<1>4. Has(s, Head(s)) /\ (Has(Tail(s), m) => Has(s, m))
  BY <1>1, <1>2, <1>3 DEF Has
<1>5. Once(s, m) => Once(Tail(s), m)
  BY <1>2 DEF Once
<1>6. Once(s, m) /\ Head(s) = m => ~Has(Tail(s), m)
  BY <1>1, <1>2, <1>3 DEF Once, Has
<1> QED
  BY <1>1, <1>4, <1>5, <1>6

LEMMA HasEmpty ==
    ASSUME NEW S PROVE <<>> \in Seq(S) /\ Len(<<>>) = 0 /\ \A m : ~Has(<<>>, m) /\ Once(<<>>, m)
  BY DEF Has, Once

LEMMA HasIndex == ASSUME NEW S, NEW s \in Seq(S), NEW m
                  PROVE  Has(s, m) <=> \E i \in 1..Len(s) : s[i] = m
  BY LenProperties DEF Has

LEMMA Kinds ==
    /\ \A c \in AllCalls : Msg("request", c) \in ClientMsgs
    /\ \A r \in ServerReqs : Msg("reply", r) \in ClientMsgs /\ Msg("request", r) \in PeerMsgs
    /\ Msg("note", "initialized") \in ClientMsgs
    /\ \A c \in AllCalls, out \in {"ok", "error"} : Msg(out, c) \in PeerMsgs
    /\ Msg("note", "event") \in PeerMsgs /\ Msg("garbage", "none") \in PeerMsgs
    /\ \A m \in ClientMsgs : m.kind = "request" => m.id \in AllCalls /\ m = Msg("request", m.id)
    /\ \A m \in PeerMsgs : /\ m.kind \in {"ok", "error"} => m.id \in AllCalls
                                                            /\ m = Msg(m.kind, m.id)
                           /\ m.kind = "request" => m.id \in ServerReqs
    /\ \A a, b, c, d : Msg(a, b) = Msg(c, d) <=> a = c /\ b = d
<1>1. /\ \A c \in AllCalls : Msg("request", c) \in ClientMsgs
      /\ \A r \in ServerReqs : Msg("reply", r) \in ClientMsgs
      /\ Msg("note", "initialized") \in ClientMsgs
  BY DEF ClientMsgs, RequestMsgs, ReplyMsgs
<1>2. /\ \A r \in ServerReqs : Msg("request", r) \in PeerMsgs
      /\ Msg("note", "event") \in PeerMsgs /\ Msg("garbage", "none") \in PeerMsgs
  BY DEF PeerMsgs
<1>3. \A c \in AllCalls, out \in {"ok", "error"} : Msg(out, c) \in PeerMsgs
  BY DEF PeerMsgs, AnswerMsgs
<1>4. \A a, b, c, d : Msg(a, b) = Msg(c, d) <=> a = c /\ b = d
  BY DEF Msg
<1>5. ASSUME NEW m \in ClientMsgs, m.kind = "request"
      PROVE  m.id \in AllCalls /\ m = Msg("request", m.id)
  BY <1>5 DEF ClientMsgs, RequestMsgs, ReplyMsgs, Msg
<1>6. ASSUME NEW m \in PeerMsgs, m.kind \in {"ok", "error"}
      PROVE  m.id \in AllCalls /\ m = Msg(m.kind, m.id)
  BY <1>6 DEF PeerMsgs, AnswerMsgs, Msg
<1>7. ASSUME NEW m \in PeerMsgs, m.kind = "request"
      PROVE  m.id \in ServerReqs
  BY <1>7 DEF PeerMsgs, AnswerMsgs, Msg
<1> QED
  BY <1>1, <1>2, <1>3, <1>4, <1>5, <1>6, <1>7

LEMMA ClientStarts == ASSUME ClientConstants, Init PROVE ClientInv
<1>1. \A S : <<>> \in Seq(S) /\ Len(<<>>) = 0
  BY HasEmpty
<1>2. outq \in Seq(ClientMsgs) /\ c2s \in Seq(ClientMsgs) /\ s2c \in Seq(PeerMsgs)
      /\ events \in Seq(Events) /\ Len(outq) = 0 /\ Len(c2s) = 0 /\ Len(events) = 0
  BY <1>1 DEF Init
<1>3. TypeOK
  <2>1. /\ call \in [AllCalls -> {"idle", "sending", "waiting", "unsent", "dropped"} \cup Outcomes]
        /\ slot \in [AllCalls -> Outcomes \cup {"empty"}]
        /\ task \in [ServerReqs -> {"none", "running", "replied", "done", "aborted"}]
        /\ served \in [AllCalls -> Nat]
    BY DEF Init
  <2>2. Len(outq) <= OutCap /\ Len(c2s) <= WireCap /\ cursor \in 0..Len(events)
    BY <1>2 DEF Init, ClientConstants
  <2> QED
    BY <2>1, <2>2 DEF Init, TypeOK
<1>4. ClientTypes
  BY <1>2, <1>3 DEF Init, ClientTypes
<1>5. EntryInv /\ HandlerInv
  BY DEF Init, EntryInv, EntryOf, InHandOf, Drainers, HandlerInv
<1>6. DrainInv
  BY HasEmpty DEF Init, DrainInv, TornDown
<1> QED
  BY <1>4, <1>5, <1>6 DEF ClientInv
-----------------------------------------------------------------------------
(* The types, action by action                                               *)
LEMMA Pushed ==
    ASSUME ClientConstants, ClientTypes, NEW m \in ClientMsgs,
           Len(outq) < OutCap, outq' = Append(outq, m)
    PROVE  outq' \in Seq(ClientMsgs) /\ Len(outq') <= OutCap
<1>1. outq' \in Seq(ClientMsgs) /\ Len(outq') = Len(outq) + 1
  BY HasAppend DEF ClientTypes
<1>2. Len(outq) \in Nat
  BY LenProperties DEF ClientTypes
<1> QED
  BY <1>1, <1>2 DEF ClientConstants

LEMMA Broadcast ==
    ASSUME ClientTypes, NEW e \in Events, events' = Append(events, e)
    PROVE  /\ events' \in Seq(Events) /\ cursor \in 0..Len(events')
           /\ Has(events', "disconnected") <=> Has(events, "disconnected") \/ e = "disconnected"
<1>1. events' \in Seq(Events) /\ Len(events') = Len(events) + 1 /\ Len(events) \in Nat
  BY HasAppend, LenProperties DEF ClientTypes
<1>2. Has(events', "disconnected") <=> Has(events, "disconnected") \/ e = "disconnected"
  BY HasAppend DEF ClientTypes
<1>3. cursor \in 0..Len(events)
  BY DEF ClientTypes, TypeOK
<1> QED
  BY <1>1, <1>2, <1>3

LEMMA TypesKeptByCalls ==
    ASSUME ClientConstants, ClientTypes,
           \/ \E c \in AllCalls : Register(c) \/ Push(c) \/ Return(c)
           \/ HandshakeFails \/ HandshakeAnswered \/ SendInitialized
           \/ DropLast \/ Shutdown \/ ShutdownReturns
    PROVE  ClientTypes'
<1>0. Hello \in AllCalls
  BY DEF AllCalls
<1>1. ASSUME NEW c \in AllCalls, Register(c) PROVE ClientTypes'
  BY <1>1 DEF Register, ClientTypes, TypeOK, Outcomes, NoReq, cvars, rvars, evars, nvars
<1>2. ASSUME NEW c \in AllCalls, Push(c) PROVE ClientTypes'
  <2>1. outq' \in Seq(ClientMsgs) /\ Len(outq') <= OutCap
    BY <1>2, Pushed, Kinds DEF Push, ClientTypes, TypeOK
  <2> QED
    BY <1>2, <2>1 DEF Push, ClientTypes, TypeOK, Outcomes, NoReq, cvars, rvars, evars,
       nvars
<1>3. ASSUME NEW c \in AllCalls, Return(c) PROVE ClientTypes'
  <2>1. slot[c] \in Outcomes
    BY <1>3 DEF Return, ClientTypes, TypeOK
  <2> QED
    BY <1>3, <2>1 DEF Return, ClientTypes, TypeOK, Outcomes, NoReq, cvars, rvars, evars,
       nvars
<1>4. CASE HandshakeFails
  <2>1. call' \in [AllCalls -> {"idle", "sending", "waiting", "unsent", "dropped"} \cup Outcomes]
    BY <1>0, <1>4 DEF HandshakeFails, ClientTypes, TypeOK
  <2> QED
    BY <1>4, <2>1 DEF HandshakeFails, ClientTypes, TypeOK, Outcomes, NoReq, cvars, rvars,
       evars, nvars
<1>5. CASE HandshakeAnswered
  BY <1>5 DEF HandshakeAnswered, ClientTypes, TypeOK, Outcomes, NoReq, cvars, rvars,
     evars, nvars
<1>6. CASE SendInitialized
  <2>1. outq' \in Seq(ClientMsgs) /\ Len(outq') <= OutCap
    BY <1>6, Pushed, Kinds DEF SendInitialized, ClientTypes, TypeOK
  <2>2. token' \in BOOLEAN /\ phase' \in {"ready", "failed"}
    BY <1>6 DEF SendInitialized, ClientTypes, TypeOK
  <2> QED
    BY <1>6, <2>1, <2>2 DEF SendInitialized, ClientTypes, TypeOK, Outcomes, NoReq, cvars,
       rvars, evars, nvars
<1>7. CASE DropLast
  BY <1>7 DEF DropLast, ClientTypes, TypeOK, Outcomes, NoReq, cvars, rvars, evars, nvars
<1>8. CASE Shutdown
  BY <1>8 DEF Shutdown, ClientTypes, TypeOK, Outcomes, NoReq, cvars, rvars, evars, nvars
<1>9. CASE ShutdownReturns
  <2>1. permit' \in BOOLEAN /\ closer' \in {"notified", "timed_out"}
    BY <1>9 DEF ShutdownReturns, ClientTypes, TypeOK
  <2> QED
    BY <1>9, <2>1 DEF ShutdownReturns, ClientTypes, TypeOK, Outcomes, NoReq, cvars, rvars,
       evars, nvars
<1> QED
  BY <1>1, <1>2, <1>3, <1>4, <1>5, <1>6, <1>7, <1>8, <1>9

LEMMA TypesKeptByReader ==
    ASSUME ClientConstants, ClientTypes, ReaderStep PROVE ClientTypes'
<1>1. CASE Read
  <2> DEFINE m == Head(s2c)
  <2>1. s2c' \in Seq(PeerMsgs) /\ m \in PeerMsgs
    BY <1>1, HasTail DEF Read, ClientTypes
  <2>2. CASE m.kind \in {"ok", "error"} /\ Resolve(m.id, m.kind)
             /\ UNCHANGED <<reader, inHand, task, events>>
    <3>1. m.id \in AllCalls
      BY <2>1, <2>2, Kinds
    <3> HIDE DEF m
    <3>2. slot' \in [AllCalls -> Outcomes \cup {"empty"}] /\ pending' \subseteq AllCalls
      BY <2>2, <3>1 DEF Resolve, ClientTypes, TypeOK, Outcomes
    <3> QED
      BY <1>1, <2>1, <2>2, <3>2 DEF Read, ClientTypes, TypeOK, Outcomes, NoReq, cvars,
         rvars, evars, nvars
  <2>3. CASE events' = Append(events, "note") /\ UNCHANGED <<pending, slot, reader, inHand, task>>
    <3>1. events' \in Seq(Events) /\ cursor \in 0..Len(events')
      BY <2>3, Broadcast DEF Events
    <3> QED
      BY <1>1, <2>1, <2>3, <3>1 DEF Read, ClientTypes, TypeOK, Outcomes, NoReq, cvars,
         rvars, evars, nvars
  <2>4. CASE /\ m.kind = "request" /\ events' = Append(events, "request") /\ inHand' = m.id
             /\ IF handler /\ m.id \in Served
                THEN reader' = "insert" /\ task' = [task EXCEPT ![m.id] = "running"]
                ELSE reader' = "reply" /\ UNCHANGED task
             /\ UNCHANGED <<pending, slot>>
    <3>1. events' \in Seq(Events) /\ cursor \in 0..Len(events')
      BY <2>4, Broadcast DEF Events
    <3>2. m.id \in ServerReqs
      BY <2>1, <2>4, Kinds
    <3> HIDE DEF m
    <3>3. /\ reader' \in {"insert", "reply"} /\ inHand' \in ServerReqs
          /\ task' \in [ServerReqs -> {"none", "running", "replied", "done", "aborted"}]
      BY <2>4, <3>2 DEF ClientTypes, TypeOK
    <3>4. s2c' \in Seq(PeerMsgs) /\ UNCHANGED <<pending, slot>>
      BY <2>1, <2>4
    <3> QED
      BY <1>1, <3>1, <3>3, <3>4 DEF Read, ClientTypes, TypeOK, Outcomes, NoReq, cvars,
         rvars, evars, nvars
  <2>5. CASE LeaveLoop /\ UNCHANGED <<pending, slot, inHand, task, events>>
    BY <1>1, <2>1, <2>5 DEF Read, LeaveLoop, ClientTypes, TypeOK, Outcomes, NoReq, cvars,
       rvars, evars, nvars
  <2> QED
    BY <1>1, <2>2, <2>3, <2>4, <2>5 DEF Read
<1>2. CASE ReaderSeesEnd
  BY <1>2 DEF ReaderSeesEnd, LeaveLoop, ClientTypes, TypeOK, Outcomes, NoReq, cvars,
     rvars, evars, nvars
<1>3. CASE ReplyNotFound
  <2>1. inHand \in ServerReqs
    BY <1>3 DEF ReplyNotFound, ClientTypes
  <2>2. outq' \in Seq(ClientMsgs) /\ Len(outq') <= OutCap
    BY <1>3, <2>1, Pushed, Kinds DEF ReplyNotFound, ClientTypes, TypeOK
  <2> QED
    BY <1>3, <2>2 DEF ReplyNotFound, ClientTypes, TypeOK, Outcomes, NoReq, cvars, rvars,
       evars, nvars
<1>4. CASE InsertHandle
  BY <1>4 DEF InsertHandle, ClientTypes, TypeOK, Outcomes, NoReq, cvars, rvars, evars,
     nvars
<1>5. CASE TeardownDrain
  BY <1>5 DEF TeardownDrain, Take, Drainers, ClientTypes, TypeOK, Outcomes, NoReq, cvars,
     rvars, evars, nvars
<1>9. CASE TeardownFill
  <2>1. /\ slot' \in [AllCalls -> Outcomes \cup {"empty"}]
        /\ drained' \in [Drainers -> SUBSET AllCalls] /\ reader' \in {"fill", "abort"}
    <3>1. ASSUME NEW c \in drained["reader"], Fill("reader", c)
          PROVE  /\ slot' \in [AllCalls -> Outcomes \cup {"empty"}]
                 /\ drained' \in [Drainers -> SUBSET AllCalls]
      BY <3>1 DEF Fill, Drainers, ClientTypes, TypeOK, Outcomes
    <3> QED
      BY <1>9, <3>1 DEF TeardownFill, ClientTypes, TypeOK
  <2> QED
    BY <1>9, <2>1 DEF TeardownFill, ClientTypes, TypeOK, NoReq, cvars, rvars, evars, nvars
<1>6. CASE TeardownAbort
  BY <1>6 DEF TeardownAbort, ClientTypes, TypeOK, Outcomes, NoReq, cvars, rvars, evars,
     nvars
<1>7. CASE TeardownAnnounce
  <2>1. events' \in Seq(Events) /\ cursor \in 0..Len(events')
    BY <1>7, Broadcast DEF TeardownAnnounce, Events
  <2> QED
    BY <1>7, <2>1 DEF TeardownAnnounce, ClientTypes, TypeOK, Outcomes, NoReq, cvars,
       rvars, evars, nvars
<1>8. CASE TeardownSignal
  BY <1>8 DEF TeardownSignal, ClientTypes, TypeOK, Outcomes, NoReq, cvars, rvars, evars,
     nvars
<1> QED
  BY <1>1, <1>2, <1>3, <1>4, <1>5, <1>6, <1>7, <1>8, <1>9 DEF ReaderStep

LEMMA TypesKeptByWriter ==
    ASSUME ClientConstants, ClientTypes, WriterStep PROVE ClientTypes'
<1>1. CASE Write
  <2>1. CASE token /\ writer' = "drain" /\ UNCHANGED <<outq, c2s>>
    BY <1>1, <2>1 DEF Write, ClientTypes, TypeOK, Outcomes, NoReq, cvars, rvars, evars,
       nvars
  <2>2. CASE ~token /\ outq # <<>> /\ outq' = Tail(outq)
    <3>1. outq' \in Seq(ClientMsgs) /\ Head(outq) \in ClientMsgs /\ Len(outq') <= OutCap
      <4>1. /\ outq' \in Seq(ClientMsgs) /\ Head(outq) \in ClientMsgs
            /\ Len(outq') \in Nat /\ Len(outq') + 1 = Len(outq)
        BY <2>2, HasTail DEF ClientTypes
      <4> QED
        BY <4>1 DEF ClientTypes, TypeOK, ClientConstants
    <3>2. c2s' \in Seq(ClientMsgs) /\ Len(c2s') <= WireCap
      <4>1. CASE UNCHANGED c2s
        BY <4>1 DEF ClientTypes, TypeOK
      <4>2. CASE Len(c2s) < WireCap /\ c2s' = Append(c2s, Head(outq))
        <5>1. c2s' \in Seq(ClientMsgs) /\ Len(c2s') = Len(c2s) + 1 /\ Len(c2s) \in Nat
          BY <3>1, <4>2, HasAppend, LenProperties DEF ClientTypes
        <5> QED
          BY <4>2, <5>1 DEF ClientConstants
      <4> QED
        BY <1>1, <2>2, <4>1, <4>2 DEF Write
    <3>3. writer' \in {"write", "drain"}
      BY <1>1 DEF Write
    <3> QED
      BY <1>1, <3>1, <3>2, <3>3 DEF Write, ClientTypes, TypeOK, Outcomes, NoReq, cvars,
         rvars, evars, nvars
  <2> QED
    BY <1>1, <2>1, <2>2 DEF Write
<1>2. CASE WriterDrains
  BY <1>2 DEF WriterDrains, Take, Drainers, ClientTypes, TypeOK, Outcomes, NoReq, cvars,
     rvars, evars, nvars
<1>4. CASE WriterFills
  <2>1. /\ slot' \in [AllCalls -> Outcomes \cup {"empty"}]
        /\ drained' \in [Drainers -> SUBSET AllCalls] /\ writer' \in {"fill", "drop"}
    <3>1. ASSUME NEW c \in drained["writer"], Fill("writer", c)
          PROVE  /\ slot' \in [AllCalls -> Outcomes \cup {"empty"}]
                 /\ drained' \in [Drainers -> SUBSET AllCalls]
      BY <3>1 DEF Fill, Drainers, ClientTypes, TypeOK, Outcomes
    <3> QED
      BY <1>4, <3>1 DEF WriterFills, ClientTypes, TypeOK
  <2> QED
    BY <1>4, <2>1 DEF WriterFills, ClientTypes, TypeOK, NoReq, cvars, rvars, evars, nvars
<1>3. CASE WriterDrops
  <2>1. outq' \in Seq(ClientMsgs) /\ Len(outq') <= OutCap
    BY <1>3, HasEmpty DEF WriterDrops, ClientConstants
  <2> QED
    BY <1>3, <2>1 DEF WriterDrops, ClientTypes, TypeOK, Outcomes, NoReq, cvars, rvars,
       evars, nvars
<1> QED
  BY <1>1, <1>2, <1>3, <1>4 DEF WriterStep

LEMMA TypesKeptByOthers ==
    ASSUME ClientConstants, ClientTypes,
           \/ \E r \in ServerReqs : HandlerReplies(r) \/ HandlerCleansUp(r)
           \/ SetReverseHandler \/ Subscribe \/ NextEvent
           \/ PeerAnswers \/ PeerSends \/ PeerLeaves
    PROVE  ClientTypes'
<1>1. ASSUME NEW r \in ServerReqs, HandlerReplies(r) PROVE ClientTypes'
  <2>1. outq' \in Seq(ClientMsgs) /\ Len(outq') <= OutCap
    BY <1>1, Pushed, Kinds DEF HandlerReplies, ClientTypes, TypeOK
  <2> QED
    BY <1>1, <2>1 DEF HandlerReplies, ClientTypes, TypeOK, Outcomes, NoReq, cvars, rvars,
       evars, nvars
<1>2. ASSUME NEW r \in ServerReqs, HandlerCleansUp(r) PROVE ClientTypes'
  BY <1>2 DEF HandlerCleansUp, ClientTypes, TypeOK, Outcomes, NoReq, cvars, rvars, evars,
     nvars
<1>3. CASE SetReverseHandler
  BY <1>3 DEF SetReverseHandler, ClientTypes, TypeOK, Outcomes, NoReq, cvars, rvars,
     evars, nvars
<1>4. Len(events) \in Nat
  BY LenProperties DEF ClientTypes
<1>5. CASE Subscribe
  BY <1>4, <1>5 DEF Subscribe, ClientTypes, TypeOK, Outcomes, NoReq, cvars, rvars, evars,
     nvars
<1>6. CASE NextEvent
  <2>1. cursor' \in 0..Len(events) /\ sub' \in {"none", "on", "over"}
    BY <1>4, <1>6 DEF NextEvent, ClientTypes, TypeOK, ClientConstants
  <2> QED
    BY <1>6, <2>1 DEF NextEvent, ClientTypes, TypeOK, Outcomes, NoReq, cvars, rvars,
       evars, nvars
<1>7. CASE PeerAnswers
  <2>1. c2s' \in Seq(ClientMsgs) /\ Head(c2s) \in ClientMsgs /\ Len(c2s') <= WireCap
    <3>1. /\ c2s' \in Seq(ClientMsgs) /\ Head(c2s) \in ClientMsgs
          /\ Len(c2s') \in Nat /\ Len(c2s') + 1 = Len(c2s)
      BY <1>7, HasTail DEF PeerAnswers, ClientTypes
    <3> QED
      BY <3>1 DEF ClientTypes, TypeOK, ClientConstants
  <2>2. s2c' \in Seq(PeerMsgs) /\ served' \in [AllCalls -> Nat]
    <3>1. CASE Head(c2s).kind = "request"
      <4>1. Head(c2s).id \in AllCalls
        BY <2>1, <3>1, Kinds
      <4>2. PICK out \in {"ok", "error"} : s2c' = Append(s2c, Msg(out, Head(c2s).id))
        BY <1>7, <3>1 DEF PeerAnswers
      <4>3. s2c' \in Seq(PeerMsgs)
        BY <4>1, <4>2, Kinds, HasAppend DEF ClientTypes
      <4>4. served' \in [AllCalls -> Nat]
        <5>1. served' = [served EXCEPT ![Head(c2s).id] = served[Head(c2s).id] + 1]
          BY <1>7, <3>1 DEF PeerAnswers
        <5>2. served \in [AllCalls -> Nat]
          BY DEF ClientTypes, TypeOK
        <5> QED
          BY <4>1, <5>1, <5>2
      <4> QED
        BY <4>3, <4>4
    <3>2. CASE Head(c2s).kind # "request"
      BY <1>7, <3>2 DEF PeerAnswers, ClientTypes, TypeOK
    <3> QED
      BY <3>1, <3>2
  <2> QED
    BY <1>7, <2>1, <2>2 DEF PeerAnswers, ClientTypes, TypeOK, Outcomes, NoReq, cvars,
       rvars, evars, nvars
<1>8. CASE PeerSends
  <2>1. \E m \in PeerMsgs : s2c' = Append(s2c, m)
    BY <1>8, Kinds DEF PeerSends
  <2>2. s2c' \in Seq(PeerMsgs)
    BY <2>1, HasAppend DEF ClientTypes
  <2> QED
    BY <1>8, <2>2 DEF PeerSends, ClientTypes, TypeOK, Outcomes, NoReq, cvars, rvars,
       evars, nvars
<1>9. CASE PeerLeaves
  <2>1. c2s' \in Seq(ClientMsgs) /\ Len(c2s') <= WireCap
    BY <1>9, HasEmpty DEF PeerLeaves, ClientConstants
  <2> QED
    BY <1>9, <2>1 DEF PeerLeaves, ClientTypes, TypeOK, Outcomes, NoReq, cvars, rvars,
       evars, nvars
<1> QED
  BY <1>1, <1>2, <1>3, <1>5, <1>6, <1>7, <1>8, <1>9

LEMMA TypesKept == ASSUME ClientConstants, ClientTypes, [Next]_vars PROVE ClientTypes'
<1>1. CASE UNCHANGED vars
  BY <1>1 DEF vars, ClientTypes, TypeOK, Outcomes, NoReq, cvars, rvars, evars, nvars
<1>2. CASE Next
  BY <1>2, TypesKeptByCalls, TypesKeptByReader, TypesKeptByWriter, TypesKeptByOthers DEF
     Next
<1> QED
  BY <1>1, <1>2
-----------------------------------------------------------------------------
(* The entries and their slots                                               *)
HandsEmpty ==
    /\ reader # "fill" => drained["reader"] = {}
    /\ writer # "fill" => drained["writer"] = {}

LEMMA EntriesUnmoved ==
    ASSUME EntryInv, UNCHANGED <<slot, pending, drained, early>>, HandsEmpty',
           \A d \in AllCalls : call'[d] = "idle" <=> call[d] = "idle"
    PROVE  EntryInv'
  BY DEF EntryInv, EntryOf, InHandOf, HandsEmpty

(* An answer takes the sender of one entry of the map and uses it            *)
LEMMA Resolved ==
    ASSUME ClientTypes, EntryInv, UNCHANGED <<call, drained, early>>, HandsEmpty',
           NEW c \in AllCalls, NEW out \in {"ok", "error"}, Resolve(c, out)
    PROVE  EntryInv' /\ \A d \in AllCalls : slot[d] # "empty" => slot'[d] # "empty"
<1>1. pending' = pending \ {c}
  BY DEF Resolve
<1>2. \A d \in AllCalls : slot'[d] = IF d = c /\ c \in pending THEN out ELSE slot[d]
  BY DEF Resolve, ClientTypes, TypeOK
<1> QED
  BY <1>1, <1>2 DEF EntryInv, EntryOf, InHandOf, HandsEmpty

(* A drain moves the senders of the map into the hand of its task            *)
LEMMA Taken ==
    ASSUME ClientTypes, EntryInv, UNCHANGED <<call, slot, early>>, HandsEmpty',
           NEW t \in Drainers, drained[t] = {}, Take(t)
    PROVE  EntryInv' /\ early \cap pending' = {}
<1>1. /\ pending' = {} /\ drained'[t] = pending
      /\ \A u \in Drainers : u # t => drained'[u] = drained[u]
  BY DEF Take, ClientTypes, TypeOK
<1>2. "reader" \in Drainers /\ "writer" \in Drainers /\ t \in {"reader", "writer"}
  BY DEF Drainers
<1>3. ASSUME NEW d \in AllCalls PROVE EntryOf(d)'
  BY <1>1, <1>2 DEF EntryInv, EntryOf, InHandOf
<1> QED
  BY <1>1, <1>3 DEF EntryInv, HandsEmpty

(* and each is used once                                                     *)
LEMMA Filled ==
    ASSUME ClientTypes, EntryInv, UNCHANGED <<call, pending, early>>, HandsEmpty',
           NEW t \in Drainers, NEW c \in drained[t], Fill(t, c)
    PROVE  EntryInv' /\ \A d \in AllCalls : slot[d] # "empty" => slot'[d] # "empty"
<1>0. c \in AllCalls
  BY DEF ClientTypes, TypeOK
<1>1. /\ drained'[t] = drained[t] \ {c}
      /\ \A u \in Drainers : u # t => drained'[u] = drained[u]
      /\ \A d \in AllCalls : slot'[d] = IF d = c THEN "closed" ELSE slot[d]
  BY <1>0 DEF Fill, ClientTypes, TypeOK
<1>2. "reader" \in Drainers /\ "writer" \in Drainers /\ t \in {"reader", "writer"}
  BY DEF Drainers
<1>3. ASSUME NEW d \in AllCalls PROVE EntryOf(d)'
  BY <1>1, <1>2 DEF EntryInv, EntryOf, InHandOf
<1> QED
  BY <1>1, <1>3 DEF EntryInv, HandsEmpty

(* No step of the client empties a slot                                      *)
LEMMA EntriesKept ==
    ASSUME ClientTypes, ClientTypes', EntryInv, [Next]_vars
    PROVE  EntryInv' /\ \A d \in AllCalls : slot[d] # "empty" => slot'[d] # "empty"
<1> DEFINE Goal == EntryInv' /\ \A d \in AllCalls : slot[d] # "empty" => slot'[d] # "empty"
<1>0. HandsEmpty
  BY DEF EntryInv, HandsEmpty
<1>1. ASSUME UNCHANGED <<slot, pending, drained, early, reader, writer>>,
             \A d \in AllCalls : call'[d] = "idle" <=> call[d] = "idle"
      PROVE  Goal
  BY <1>0, <1>1, EntriesUnmoved DEF HandsEmpty
<1>2. ASSUME UNCHANGED <<call, slot, pending, drained, early>>,
             reader' = reader \/ "fill" \notin {reader, reader'},
             writer' = writer \/ "fill" \notin {writer, writer'}
      PROVE  Goal
  BY <1>0, <1>2, EntriesUnmoved DEF HandsEmpty
<1>3. ASSUME NEW c \in AllCalls, Register(c) PROVE Goal
  <2>1. /\ call[c] = "idle" /\ UNCHANGED <<slot, drained, reader, writer>>
        /\ pending' = pending \cup {c}
        /\ early' \subseteq early \cup {c}
        /\ \A d \in AllCalls : call'[d] = IF d = c THEN "sending" ELSE call[d]
    BY <1>3 DEF Register, ClientTypes, TypeOK, rvars
  <2>2. slot[c] = "empty"
    BY <2>1 DEF EntryInv, EntryOf
  <2>3. ASSUME NEW d \in AllCalls PROVE EntryOf(d)'
    <3>1. EntryOf(d)
      BY DEF EntryInv
    <3> QED
      BY <2>1, <2>2, <3>1 DEF EntryOf, InHandOf
  <2> QED
    BY <1>0, <2>1, <2>3 DEF EntryInv, HandsEmpty
<1>4. ASSUME NEW c \in AllCalls, Push(c) PROVE Goal
  <2>1. /\ UNCHANGED <<slot, pending, drained, early, reader, writer>> /\ call[c] = "sending"
        /\ \A d \in AllCalls : d # c => call'[d] = call[d]
        /\ call'[c] \in {"waiting", "unsent"}
    BY <1>4 DEF Push, ClientTypes, TypeOK, rvars
  <2> QED
    BY <1>1, <2>1
<1>5. ASSUME NEW c \in AllCalls, Return(c) PROVE Goal
  <2>1. /\ UNCHANGED <<slot, pending, drained, early, reader, writer>> /\ call[c] = "waiting"
        /\ \A d \in AllCalls : d # c => call'[d] = call[d]
        /\ call'[c] = slot[c] /\ slot[c] \in Outcomes \cup {"empty"}
    BY <1>5 DEF Return, ClientTypes, TypeOK, rvars
  <2> QED
    BY <1>1, <2>1 DEF Outcomes
<1>6. CASE HandshakeFails
  <2>1. /\ UNCHANGED <<slot, pending, drained, early, reader, writer>>
        /\ \A d \in AllCalls : \/ call'[d] = call[d]
                               \/ call[d] \in {"sending", "waiting"} /\ call'[d] = "dropped"
    BY <1>6 DEF HandshakeFails, ClientTypes, TypeOK, rvars
  <2> QED
    BY <1>1, <2>1
<1>7. CASE Read
  <2>1. /\ UNCHANGED <<call, drained, early, writer>>
        /\ reader = "read" /\ reader' # "fill"
        /\ \/ UNCHANGED <<slot, pending>>
           \/ s2c # <<>> /\ Head(s2c).kind \in {"ok", "error"}
              /\ Resolve(Head(s2c).id, Head(s2c).kind)
    BY <1>7 DEF Read, LeaveLoop
  <2>2. CASE UNCHANGED <<slot, pending>>
    BY <1>2, <2>1, <2>2
  <2>3. CASE /\ s2c # <<>> /\ Head(s2c).kind \in {"ok", "error"}
             /\ Resolve(Head(s2c).id, Head(s2c).kind)
    <3>1. Head(s2c) \in PeerMsgs
      BY <2>3, HasTail DEF ClientTypes
    <3>2. Head(s2c).id \in AllCalls
      BY <2>3, <3>1, Kinds
    <3> QED
      BY <1>0, <2>1, <2>3, <3>2, Resolved DEF HandsEmpty
  <2> QED
    BY <2>1, <2>2, <2>3
<1>8. CASE TeardownDrain
  <2>1. /\ UNCHANGED <<call, slot, early, writer>> /\ Take("reader")
        /\ reader = "drain" /\ reader' = "fill" /\ "reader" \in Drainers
    BY <1>8 DEF TeardownDrain, Drainers
  <2>2. HandsEmpty'
    BY <1>0, <2>1 DEF HandsEmpty, Take, Drainers, ClientTypes, TypeOK
  <2> QED
    BY <1>0, <2>1, <2>2, Taken DEF HandsEmpty
<1>12. CASE WriterDrains
  <2>1. /\ UNCHANGED <<call, slot, early, reader>> /\ Take("writer")
        /\ writer = "drain" /\ writer' = "fill" /\ "writer" \in Drainers
    BY <1>12 DEF WriterDrains, Drainers, rvars
  <2>2. HandsEmpty'
    BY <1>0, <2>1 DEF HandsEmpty, Take, Drainers, ClientTypes, TypeOK
  <2> QED
    BY <1>0, <2>1, <2>2, Taken DEF HandsEmpty
<1>13. CASE TeardownFill
  <2>1. UNCHANGED <<call, pending, early, writer>> /\ reader = "fill" /\ "reader" \in Drainers
    BY <1>13 DEF TeardownFill, Drainers
  <2>2. CASE drained["reader"] = {} /\ reader' = "abort" /\ UNCHANGED <<slot, drained>>
    BY <1>0, <2>1, <2>2, EntriesUnmoved DEF HandsEmpty
  <2>3. ASSUME NEW c \in drained["reader"], Fill("reader", c), UNCHANGED reader PROVE Goal
    <3>1. HandsEmpty'
      BY <1>0, <2>1, <2>3 DEF HandsEmpty, Fill, Drainers, ClientTypes, TypeOK
    <3> QED
      BY <2>1, <2>3, <3>1, Filled
  <2> QED
    BY <1>13, <2>2, <2>3 DEF TeardownFill
<1>14. CASE WriterFills
  <2>1. UNCHANGED <<call, pending, early, reader>> /\ writer = "fill" /\ "writer" \in Drainers
    BY <1>14 DEF WriterFills, Drainers, rvars
  <2>2. CASE drained["writer"] = {} /\ writer' = "drop" /\ UNCHANGED <<slot, drained>>
    BY <1>0, <2>1, <2>2, EntriesUnmoved DEF HandsEmpty
  <2>3. ASSUME NEW c \in drained["writer"], Fill("writer", c), UNCHANGED writer PROVE Goal
    <3>1. HandsEmpty'
      BY <1>0, <2>1, <2>3 DEF HandsEmpty, Fill, Drainers, ClientTypes, TypeOK
    <3> QED
      BY <2>1, <2>3, <3>1, Filled
  <2> QED
    BY <1>14, <2>2, <2>3 DEF WriterFills
<1>9. CASE \/ HandshakeAnswered \/ SendInitialized \/ DropLast \/ Shutdown \/ ShutdownReturns
           \/ ReaderSeesEnd \/ ReplyNotFound \/ InsertHandle
           \/ TeardownAbort \/ TeardownAnnounce \/ TeardownSignal
  BY <1>2, <1>9 DEF HandshakeAnswered, SendInitialized, DropLast, Shutdown,
     ShutdownReturns,
     ReaderSeesEnd, LeaveLoop, ReplyNotFound, InsertHandle, TeardownAbort,
     TeardownAnnounce, TeardownSignal, cvars, rvars
<1>10. CASE \/ Write \/ WriterDrops
            \/ \E r \in ServerReqs : HandlerReplies(r) \/ HandlerCleansUp(r)
            \/ SetReverseHandler \/ Subscribe \/ NextEvent
            \/ PeerAnswers \/ PeerSends \/ PeerLeaves
  BY <1>2, <1>10 DEF Write, WriterDrops, HandlerReplies, HandlerCleansUp,
     SetReverseHandler,
     Subscribe, NextEvent, PeerAnswers, PeerSends, PeerLeaves, cvars, rvars
<1>11. CASE UNCHANGED vars
  BY <1>2, <1>11 DEF vars, cvars, rvars
<1> QED
  BY <1>3, <1>4, <1>5, <1>6, <1>7, <1>8, <1>9, <1>10, <1>11, <1>12, <1>13, <1>14 DEF
     Next, ReaderStep, WriterStep

-----------------------------------------------------------------------------
(* The teardown of the reader                                                *)
LEMMA DrainKept ==
    ASSUME ClientTypes, EntryInv, DrainInv, [Next]_vars PROVE DrainInv'
<1>1. ASSUME UNCHANGED <<reader, early, events>>, pending' \subseteq pending,
             permit' = permit \/ permit' = FALSE, closer' = "notified" => permit \/ closer = "notified"
      PROVE  DrainInv'
  BY <1>1 DEF DrainInv, Has
<1>2. ASSUME UNCHANGED <<early, events, permit, closer>>, {reader, reader'} \cap TornDown = {}
      PROVE  DrainInv'
  BY <1>2 DEF DrainInv, TornDown, Has
<1>3. ASSUME NEW c \in AllCalls, Register(c) PROVE DrainInv'
  <2>1. /\ UNCHANGED <<reader, events, permit, closer>>
        /\ \/ reader \in {"read", "reply", "insert"}
           \/ early' = early /\ pending' = pending \cup {c} /\ c \notin early
    BY <1>3 DEF Register, InLoop, EntryInv, EntryOf, rvars, evars
  <2> QED
    BY <2>1 DEF DrainInv, TornDown, Has
<1>4. CASE Read
  <2>1. /\ UNCHANGED <<early, permit, closer>> /\ reader = "read"
        /\ reader' \in {"read", "reply", "insert", "drain"}
        /\ \/ UNCHANGED events
           \/ \E e \in {"note", "request"} : events' = Append(events, e)
    BY <1>4 DEF Read, LeaveLoop
  <2>2. Has(events', "disconnected") <=> Has(events, "disconnected")
    BY <2>1, Broadcast DEF Events
  <2> QED
    BY <2>1, <2>2 DEF DrainInv, TornDown
<1>5. CASE ReaderSeesEnd \/ ReplyNotFound \/ InsertHandle
  BY <1>2, <1>5 DEF ReaderSeesEnd, LeaveLoop, ReplyNotFound, InsertHandle, TornDown,
     cvars, evars
<1>6. CASE TeardownDrain \/ TeardownFill
  BY <1>6 DEF TeardownDrain, TeardownFill, Take, DrainInv, TornDown, Has, evars
<1>7. CASE TeardownAbort
  BY <1>7 DEF TeardownAbort, DrainInv, TornDown, Has, cvars, evars
<1>8. CASE TeardownAnnounce
  <2>1. Has(events', "disconnected")
    BY <1>8, Broadcast DEF TeardownAnnounce, Events
  <2> QED
    BY <1>8, <2>1 DEF TeardownAnnounce, DrainInv, TornDown, cvars
<1>9. CASE TeardownSignal
  BY <1>9 DEF TeardownSignal, DrainInv, TornDown, Has, cvars, evars
<1>10. CASE \/ HandshakeFails \/ HandshakeAnswered \/ SendInitialized
            \/ DropLast \/ Shutdown \/ ShutdownReturns
  BY <1>1, <1>10 DEF HandshakeFails, HandshakeAnswered, SendInitialized, DropLast,
     Shutdown,
     ShutdownReturns, cvars, rvars, evars
<1>11. CASE \/ \E c \in AllCalls : Push(c) \/ Return(c)
            \/ WriterStep
            \/ \E r \in ServerReqs : HandlerReplies(r) \/ HandlerCleansUp(r)
  BY <1>1, <1>11 DEF Push, Return, WriterStep, Write, WriterDrains, Take, WriterFills,
     WriterDrops, HandlerReplies, HandlerCleansUp, cvars, rvars, evars
<1>12. CASE \/ SetReverseHandler \/ Subscribe \/ NextEvent
            \/ PeerAnswers \/ PeerSends \/ PeerLeaves \/ UNCHANGED vars
  BY <1>1, <1>12 DEF SetReverseHandler, Subscribe, NextEvent, PeerAnswers, PeerSends,
     PeerLeaves, vars, cvars, rvars, evars, nvars
<1> QED
  BY <1>3, <1>4, <1>5, <1>6, <1>7, <1>8, <1>9, <1>10, <1>11, <1>12 DEF Next, ReaderStep

LEMMA HandlersKept ==
    ASSUME ClientTypes, HandlerInv, [Next]_vars PROVE HandlerInv'
<1>0. task \in [ServerReqs -> {"none", "running", "replied", "done", "aborted"}]
      /\ revmap \subseteq ServerReqs
  BY DEF ClientTypes, TypeOK
<1>1. ASSUME UNCHANGED <<reader, inHand, task, revmap>> PROVE HandlerInv'
  BY <1>1 DEF HandlerInv
<1>2. CASE Read
  <2>1. /\ reader = "read" /\ UNCHANGED revmap
        /\ \/ reader' \in {"read", "reply", "drain"} /\ UNCHANGED task
           \/ /\ reader' = "insert" /\ inHand' = Head(s2c).id
              /\ task' = [task EXCEPT ![Head(s2c).id] = "running"]
    BY <1>2 DEF Read, LeaveLoop
  <2> QED
    BY <1>0, <2>1 DEF HandlerInv
<1>3. CASE ReaderSeesEnd \/ ReplyNotFound \/ InsertHandle
  BY <1>3 DEF ReaderSeesEnd, LeaveLoop, ReplyNotFound, InsertHandle, HandlerInv
<1>4. CASE TeardownDrain \/ TeardownFill \/ TeardownAnnounce \/ TeardownSignal
  BY <1>4 DEF TeardownDrain, TeardownFill, TeardownAnnounce, TeardownSignal, HandlerInv
<1>5. CASE TeardownAbort
  BY <1>0, <1>5 DEF TeardownAbort, HandlerInv
<1>6. ASSUME NEW r \in ServerReqs, HandlerReplies(r) PROVE HandlerInv'
  BY <1>0, <1>6 DEF HandlerReplies, HandlerInv
<1>7. ASSUME NEW r \in ServerReqs, HandlerCleansUp(r) PROVE HandlerInv'
  BY <1>0, <1>7 DEF HandlerCleansUp, HandlerInv
<1>8. CASE \/ \E c \in AllCalls : Register(c) \/ Push(c) \/ Return(c)
           \/ HandshakeFails \/ HandshakeAnswered \/ SendInitialized
           \/ DropLast \/ Shutdown \/ ShutdownReturns
  BY <1>1, <1>8 DEF Register, Push, Return, HandshakeFails, HandshakeAnswered,
     SendInitialized,
     DropLast, Shutdown, ShutdownReturns, rvars
<1>9. CASE \/ WriterStep \/ SetReverseHandler \/ Subscribe \/ NextEvent
           \/ PeerAnswers \/ PeerSends \/ PeerLeaves \/ UNCHANGED vars
  BY <1>1, <1>9 DEF WriterStep, Write, WriterDrains, WriterFills, WriterDrops,
     SetReverseHandler, Subscribe, NextEvent, PeerAnswers, PeerSends, PeerLeaves, vars, rvars
<1> QED
  BY <1>2, <1>3, <1>4, <1>5, <1>6, <1>7, <1>8, <1>9 DEF Next, ReaderStep

-----------------------------------------------------------------------------
LEMMA ClientKept == ASSUME ClientConstants, ClientInv, [Next]_vars PROVE ClientInv'
<1>1. ClientTypes'
  BY TypesKept DEF ClientInv
<1>2. EntryInv' /\ \A d \in AllCalls : slot[d] # "empty" => slot'[d] # "empty"
  BY <1>1, EntriesKept DEF ClientInv
<1>3. DrainInv'
  BY DrainKept DEF ClientInv
<1>4. HandlerInv'
  BY HandlersKept DEF ClientInv
<1> QED
  BY <1>1, <1>2, <1>3, <1>4 DEF ClientInv

LEMMA ClientImplies == ASSUME ClientInv PROVE TypeOK /\ ClientTeardown
<1>1. TypeOK
  BY DEF ClientInv, ClientTypes
<1>2. (\E i \in 1..Len(events) : events[i] = "disconnected") <=> Has(events, "disconnected")
  BY HasIndex DEF ClientInv, ClientTypes
<1>3. DrainPrecedesDisconnect
  <2>1. ASSUME reader \in {"signal", "gone"}, NEW c \in early
        PROVE  slot[c] # "empty" \/ c \in drained["writer"]
    <3>1. c \in AllCalls /\ EntryOf(c) /\ drained["reader"] = {} /\ c \notin pending
      BY <2>1 DEF ClientInv, ClientTypes, TypeOK, EntryInv, DrainInv, TornDown
    <3> QED
      BY <2>1, <3>1 DEF EntryOf, InHandOf
  <2> QED
    BY <1>2, <2>1 DEF ClientInv, DrainInv, DrainPrecedesDisconnect
<1>4. EntriesLeaveFilled
  <2>1. ASSUME NEW c \in AllCalls, call[c] # "idle"
        PROVE  /\ slot[c] = "empty" <=> Holders(c) # {}
               /\ \A a, b \in Holders(c) : a = b
    <3>1. EntryOf(c)
      BY DEF ClientInv, EntryInv
    <3>2. /\ "map" \in Holders(c) <=> c \in pending
          /\ "reader" \in Holders(c) <=> InHandOf("reader", c)
          /\ "writer" \in Holders(c) <=> InHandOf("writer", c)
          /\ Holders(c) \subseteq {"map", "reader", "writer"}
      BY DEF Holders, InHandOf, Drainers
    <3> HIDE DEF Holders
    <3> QED
      BY <2>1, <3>1, <3>2 DEF EntryOf
  <2> QED
    BY <2>1 DEF EntriesLeaveFilled
<1>5. HandlersStopAtTeardown
  <2>1. task \in [ServerReqs -> {"none", "running", "replied", "done", "aborted"}]
    BY <1>1 DEF TypeOK
  <2> QED
    BY <2>1 DEF ClientInv, HandlerInv, HandlersStopAtTeardown
<1>6. ShutdownAfterTeardown
  BY <1>2 DEF ClientInv, DrainInv, ShutdownAfterTeardown
<1> QED
  BY <1>1, <1>3, <1>4, <1>5, <1>6 DEF ClientTeardown

(* Whatever the calls, the requests of the server and the capacities, the    *)
(* teardown of a connection leaves nothing behind, with both tasks draining  *)
(* the map and filling what they took one by one: when the disconnect is     *)
(* broadcast a call that was registered while the reader read has its        *)
(* outcome or its sender is in the writer's hand, a sender is in one place   *)
(* until it is used, once, no handler outlives the announcement, and         *)
(* shutdown() is notified last (transport.rs, pending.rs, reverse.rs and     *)
(* lib.rs of the native client).                                             *)
THEOREM ClientLeavesNothing ==
    ASSUME ClientConstants PROVE Spec => [](TypeOK /\ ClientTeardown)
<1>1. Init => ClientInv
  BY ClientStarts
<1>2. ClientInv /\ [Next]_vars => ClientInv'
  BY ClientKept
<1>3. ClientInv => TypeOK /\ ClientTeardown
  BY ClientImplies
<1> QED
  BY <1>1, <1>2, <1>3, PTL DEF Spec
-----------------------------------------------------------------------------
(* A call's request is in at most one of the outbound queue and the stream,  *)
(* once, and then the call was pushed and not carried out; whatever answers  *)
(* the call, on the stream, in its slot or at its caller, was carried out.   *)
Request(c) == Msg("request", c)
Answering(c) == Has(s2c, Msg("ok", c)) \/ Has(s2c, Msg("error", c))
Underway(c) == Has(outq, Request(c)) \/ Has(c2s, Request(c))
OnceOf(c) ==
    /\ Once(outq, Request(c)) /\ Once(c2s, Request(c))
    /\ ~(Has(outq, Request(c)) /\ Has(c2s, Request(c)))
    /\ Underway(c) => served[c] = 0 /\ call[c] \notin {"idle", "sending", "unsent"}
    /\ call[c] \in {"idle", "sending", "unsent"} => served[c] = 0
    /\ Answering(c) \/ slot[c] \in {"ok", "error"} \/ call[c] \in {"ok", "error"} => served[c] = 1
    /\ served[c] \in {0, 1}
OnceInv == \A c \in AllCalls : OnceOf(c)

LEMMA OnceNext ==
    ASSUME NEW c \in AllCalls
    PROVE  OnceOf(c)' <=>
             /\ Once(outq', Request(c)) /\ Once(c2s', Request(c))
             /\ ~(Has(outq', Request(c)) /\ Has(c2s', Request(c)))
             /\ Has(outq', Request(c)) \/ Has(c2s', Request(c)) =>
                   served'[c] = 0 /\ call'[c] \notin {"idle", "sending", "unsent"}
             /\ call'[c] \in {"idle", "sending", "unsent"} => served'[c] = 0
             /\ Answering(c)' \/ slot'[c] \in {"ok", "error"} \/ call'[c] \in {"ok", "error"}
                   => served'[c] = 1
             /\ served'[c] \in {0, 1}
  BY DEF OnceOf, Underway, Once, Has, Request, Msg

LEMMA AnsweringNext ==
    ASSUME NEW c \in AllCalls
    PROVE  Answering(c)' <=> Has(s2c', Msg("ok", c)) \/ Has(s2c', Msg("error", c))
  BY DEF Answering, Has, Msg

(* A step that adds no request and no answer of the call                     *)
LEMMA OnceOfKept ==
    ASSUME NEW c \in AllCalls, OnceOf(c), call'[c] = call[c], served'[c] = served[c],
           Once(outq, Request(c)) => Once(outq', Request(c)),
           Once(c2s, Request(c)) => Once(c2s', Request(c)),
           Has(outq', Request(c)) => Has(outq, Request(c)),
           Has(c2s', Request(c)) => Has(c2s, Request(c)),
           Answering(c)' => Answering(c),
           slot'[c] \in {"ok", "error"} => slot[c] \in {"ok", "error"} \/ Answering(c)
    PROVE  OnceOf(c)'
  BY OnceNext DEF OnceOf, Underway

(* The contents of the channels unmoved, or grown by something else          *)
LEMMA Elsewhere ==
    ASSUME ClientTypes, NEW c \in AllCalls
    PROVE  /\ UNCHANGED outq => (Once(outq, Request(c)) => Once(outq', Request(c)))
           /\ UNCHANGED outq => (Has(outq', Request(c)) <=> Has(outq, Request(c)))
           /\ UNCHANGED c2s => (Once(c2s, Request(c)) => Once(c2s', Request(c)))
           /\ UNCHANGED c2s => (Has(c2s', Request(c)) <=> Has(c2s, Request(c)))
           /\ UNCHANGED s2c => (Answering(c)' <=> Answering(c))
           /\ \A m \in ClientMsgs : outq' = Append(outq, m) /\ m # Request(c) =>
                 /\ Once(outq, Request(c)) => Once(outq', Request(c))
                 /\ Has(outq', Request(c)) => Has(outq, Request(c))
           /\ \A m \in ClientMsgs : c2s' = Append(c2s, m) /\ m # Request(c) =>
                 /\ Once(c2s, Request(c)) => Once(c2s', Request(c))
                 /\ Has(c2s', Request(c)) => Has(c2s, Request(c))
           /\ \A m \in PeerMsgs :
                 s2c' = Append(s2c, m) /\ m # Msg("ok", c) /\ m # Msg("error", c) =>
                    (Answering(c)' => Answering(c))
           /\ outq # <<>> /\ outq' = Tail(outq) =>
                 /\ Once(outq, Request(c)) => Once(outq', Request(c))
                 /\ Has(outq', Request(c)) => Has(outq, Request(c))
           /\ c2s # <<>> /\ c2s' = Tail(c2s) =>
                 /\ Once(c2s, Request(c)) => Once(c2s', Request(c))
                 /\ Has(c2s', Request(c)) => Has(c2s, Request(c))
           /\ s2c # <<>> /\ s2c' = Tail(s2c) => (Answering(c)' => Answering(c))
           /\ outq' = <<>> => Once(outq', Request(c)) /\ ~Has(outq', Request(c))
           /\ c2s' = <<>> => Once(c2s', Request(c)) /\ ~Has(c2s', Request(c))
<1>0. outq \in Seq(ClientMsgs) /\ c2s \in Seq(ClientMsgs) /\ s2c \in Seq(PeerMsgs)
  BY DEF ClientTypes
<1> DEFINE R == Request(c)
<1> HIDE DEF R
<1>1. ASSUME NEW s, NEW t, t = s PROVE (Once(s, R) => Once(t, R)) /\ (Has(t, R) <=> Has(s, R))
  BY <1>1
<1>2. ASSUME NEW s \in Seq(ClientMsgs), NEW m \in ClientMsgs, NEW t, t = Append(s, m), m # R
      PROVE  (Once(s, R) => Once(t, R)) /\ (Has(t, R) => Has(s, R))
  BY <1>2, HasAppend
<1>3. ASSUME NEW s \in Seq(ClientMsgs), NEW t, s # <<>>, t = Tail(s)
      PROVE  (Once(s, R) => Once(t, R)) /\ (Has(t, R) => Has(s, R))
  BY <1>3, HasTail
<1>4. UNCHANGED s2c => (Answering(c)' <=> Answering(c))
  BY AnsweringNext DEF Answering
<1>5. ASSUME NEW m \in PeerMsgs, s2c' = Append(s2c, m), m # Msg("ok", c), m # Msg("error", c)
      PROVE  Answering(c)' => Answering(c)
  <2>1. \A a : Has(s2c', a) <=> Has(s2c, a) \/ m = a
    BY <1>0, <1>5, HasAppend
  <2> QED
    BY <1>5, <2>1, AnsweringNext DEF Answering
<1>6. ASSUME s2c # <<>>, s2c' = Tail(s2c) PROVE Answering(c)' => Answering(c)
  <2>1. \A a : Has(s2c', a) => Has(s2c, a)
    BY <1>0, <1>6, HasTail
  <2> QED
    BY <2>1, AnsweringNext DEF Answering
<1>7. \A m : Once(<<>>, m) /\ ~Has(<<>>, m)
  BY HasEmpty
<1> QED
  BY <1>0, <1>1, <1>2, <1>3, <1>4, <1>5, <1>6, <1>7 DEF R

LEMMA OnceStarts == ASSUME Init PROVE OnceInv
<1>1. ASSUME NEW c \in AllCalls PROVE OnceOf(c)
  <2>1. \A m : ~Has(outq, m) /\ ~Has(c2s, m) /\ ~Has(s2c, m) /\ Once(outq, m) /\ Once(c2s, m)
    BY HasEmpty DEF Init
  <2>2. call[c] = "idle" /\ slot[c] = "empty" /\ served[c] = 0
    BY DEF Init
  <2> QED
    BY <2>1, <2>2 DEF OnceOf, Underway, Answering
<1> QED
  BY <1>1 DEF OnceInv

LEMMA OnceKept ==
    ASSUME ClientTypes, ClientTypes', EntryInv, OnceInv, [Next]_vars PROVE OnceInv'
<1>0. \A d \in AllCalls : OnceOf(d)
  BY DEF OnceInv
<1>1. SUFFICES ASSUME NEW d \in AllCalls PROVE OnceOf(d)'
  BY <1>1 DEF OnceInv
<1>2. Request(d) = Msg("request", d) /\ OnceOf(d)
  BY <1>0 DEF Request
<1>3. /\ call \in [AllCalls -> {"idle", "sending", "waiting", "unsent", "dropped"} \cup Outcomes]
      /\ slot \in [AllCalls -> Outcomes \cup {"empty"}] /\ served \in [AllCalls -> Nat]
  BY DEF ClientTypes, TypeOK
<1>4. ASSUME UNCHANGED <<outq, c2s, s2c>>, served'[d] = served[d],
             slot'[d] \in {"ok", "error"} => slot[d] \in {"ok", "error"} \/ Answering(d),
             \/ call'[d] = call[d]
             \/ call'[d] = "dropped"
             \/ call[d] = "idle" /\ call'[d] = "sending"
             \/ call[d] = "sending" /\ call'[d] = "unsent"
             \/ call[d] = "waiting" /\ slot[d] # "empty" /\ call'[d] = slot[d]
      PROVE  OnceOf(d)'
  BY <1>2, <1>3, <1>4, OnceNext, Elsewhere DEF OnceOf, Underway, Outcomes
<1>5. ASSUME NEW c \in AllCalls, Register(c) \/ Return(c) PROVE OnceOf(d)'
  <2>1. /\ UNCHANGED <<outq, c2s, s2c, served, slot>>
        /\ \/ call'[d] = call[d]
           \/ call[d] = "idle" /\ call'[d] = "sending"
           \/ call[d] = "waiting" /\ slot[d] # "empty" /\ call'[d] = slot[d]
    BY <1>3, <1>5 DEF Register, Return, nvars
  <2> QED
    BY <1>4, <2>1
<1>6. CASE HandshakeFails
  <2>1. /\ UNCHANGED <<outq, c2s, s2c, served, slot>>
        /\ call'[d] = call[d] \/ call'[d] = "dropped"
    BY <1>3, <1>6 DEF HandshakeFails, nvars
  <2> QED
    BY <1>4, <2>1
<1>7. ASSUME NEW c \in AllCalls, Push(c) PROVE OnceOf(d)'
  <2>1. UNCHANGED <<c2s, s2c, slot, served>> /\ call[c] = "sending"
    BY <1>7 DEF Push, nvars
  <2>2. CASE UNCHANGED outq /\ call' = [call EXCEPT ![c] = "unsent"]
    BY <1>3, <1>4, <2>1, <2>2
  <2>3. CASE d # c /\ outq' = Append(outq, Msg("request", c)) /\ call' = [call EXCEPT ![c] = "waiting"]
    <3>1. Msg("request", c) \in ClientMsgs /\ Msg("request", c) # Request(d)
      BY <1>2, <2>3, Kinds
    <3>2. call'[d] = call[d]
      BY <1>3, <2>3
    <3> QED
      BY <1>2, <2>1, <2>3, <3>1, <3>2, OnceOfKept, Elsewhere
  <2>4. CASE d = c /\ outq' = Append(outq, Msg("request", c)) /\ call' = [call EXCEPT ![c] = "waiting"]
    <3>1. ~Has(outq, Request(d)) /\ ~Has(c2s, Request(d)) /\ served[d] = 0 /\ ~Answering(d)
          /\ slot[d] \notin {"ok", "error"}
      BY <1>2, <2>1, <2>4 DEF OnceOf, Underway
    <3>2. Once(outq', Request(d))
      BY <1>2, <2>4, <3>1, HasAppend, Kinds DEF OnceOf, ClientTypes
    <3>3. call'[d] = "waiting"
      BY <1>3, <2>4
    <3>4. Once(c2s', Request(d)) /\ ~Has(c2s', Request(d)) /\ ~Answering(d)'
      BY <1>2, <2>1, <3>1, Elsewhere DEF OnceOf
    <3> QED
      BY <2>1, <3>1, <3>2, <3>3, <3>4, OnceNext
  <2> QED
    BY <1>7, <2>2, <2>3, <2>4 DEF Push
<1>8. ASSUME NEW m \in ClientMsgs, outq' = Append(outq, m), m.kind # "request",
             UNCHANGED <<call, slot, served, c2s, s2c>>
      PROVE  OnceOf(d)'
  <2>1. m # Request(d)
    BY <1>8 DEF Request, Msg
  <2> QED
    BY <1>2, <1>8, <2>1, OnceOfKept, Elsewhere
<1>9. CASE SendInitialized
  <2>1. CASE UNCHANGED outq
    BY <1>4, <1>9, <2>1 DEF SendInitialized, nvars
  <2>2. CASE outq' = Append(outq, Msg("note", "initialized"))
    BY <1>8, <1>9, <2>2, Kinds DEF SendInitialized, nvars, Msg
  <2> QED
    BY <1>9, <2>1, <2>2 DEF SendInitialized
<1>10. CASE Read
  <2>1. /\ s2c # <<>> /\ s2c' = Tail(s2c) /\ UNCHANGED <<call, outq, c2s, served>>
        /\ \/ UNCHANGED slot
           \/ Head(s2c).kind \in {"ok", "error"} /\ Resolve(Head(s2c).id, Head(s2c).kind)
    BY <1>10 DEF Read
  <2>2. slot'[d] \in {"ok", "error"} => slot[d] \in {"ok", "error"} \/ Answering(d)
    <3>1. CASE Head(s2c).kind \in {"ok", "error"} /\ Resolve(Head(s2c).id, Head(s2c).kind)
      <4>1. Head(s2c) \in PeerMsgs /\ Has(s2c, Head(s2c))
        BY <2>1, HasTail DEF ClientTypes
      <4>2. Head(s2c).id \in AllCalls /\ Head(s2c) = Msg(Head(s2c).kind, Head(s2c).id)
        BY <3>1, <4>1, Kinds
      <4>3. Head(s2c).id = d => Answering(d)
        BY <3>1, <4>1, <4>2 DEF Answering
      <4>4. Head(s2c).id # d => slot'[d] = slot[d]
        BY <1>3, <3>1 DEF Resolve
      <4> QED
        BY <4>3, <4>4
    <3> QED
      BY <2>1, <3>1
  <2> QED
    BY <1>2, <2>1, <2>2, OnceOfKept, Elsewhere
<1>11. CASE ReplyNotFound
  <2>1. CASE UNCHANGED outq
    BY <1>4, <1>11, <2>1 DEF ReplyNotFound, nvars
  <2>2. CASE outq' = Append(outq, Msg("reply", inHand))
    <3>1. Msg("reply", inHand) \in ClientMsgs
      BY <1>11, Kinds DEF ReplyNotFound, ClientTypes
    <3> QED
      BY <1>8, <1>11, <2>2, <3>1 DEF ReplyNotFound, nvars, Msg
  <2> QED
    BY <1>11, <2>1, <2>2 DEF ReplyNotFound
<1>12. ASSUME NEW r \in ServerReqs, HandlerReplies(r) PROVE OnceOf(d)'
  <2>1. CASE UNCHANGED outq
    BY <1>4, <1>12, <2>1 DEF HandlerReplies, nvars
  <2>2. CASE outq' = Append(outq, Msg("reply", r))
    BY <1>8, <1>12, <2>2, Kinds DEF HandlerReplies, nvars, Msg
  <2> QED
    BY <1>12, <2>1, <2>2 DEF HandlerReplies
<1>13. CASE TeardownDrain \/ WriterDrains \/ TeardownFill \/ WriterFills
  <2>1. UNCHANGED <<call, outq, c2s, s2c, served>> /\ (slot'[d] = "closed" \/ slot'[d] = slot[d])
    BY <1>3, <1>13 DEF TeardownDrain, WriterDrains, TeardownFill, WriterFills, Fill, nvars
  <2> QED
    BY <1>4, <2>1
<1>14. CASE Write
  <2>1. UNCHANGED <<call, slot, served, s2c>>
    BY <1>14 DEF Write
  <2>2. CASE UNCHANGED <<outq, c2s>>
    BY <1>4, <2>1, <2>2
  <2>3. CASE outq # <<>> /\ outq' = Tail(outq) /\ UNCHANGED c2s
    BY <1>2, <2>1, <2>3, OnceOfKept, Elsewhere
  <2>4. CASE outq # <<>> /\ outq' = Tail(outq) /\ c2s' = Append(c2s, Head(outq))
    <3>1. Head(outq) \in ClientMsgs /\ Has(outq, Head(outq))
      BY <2>4, HasTail DEF ClientTypes
    <3>2. CASE Head(outq) # Request(d)
      BY <1>2, <2>1, <2>4, <3>1, <3>2, OnceOfKept, Elsewhere
    <3>3. CASE Head(outq) = Request(d)
      <4>1. /\ Has(outq, Request(d)) /\ ~Has(c2s, Request(d)) /\ served[d] = 0
            /\ call[d] \notin {"idle", "sending", "unsent"} /\ ~Answering(d)
            /\ slot[d] \notin {"ok", "error"} /\ call[d] \notin {"ok", "error"}
            /\ Once(outq, Request(d)) /\ Once(c2s, Request(d))
        BY <1>2, <3>1, <3>3 DEF OnceOf, Underway
      <4>2. Once(outq', Request(d)) /\ ~Has(outq', Request(d))
        BY <2>4, <3>3, <4>1, HasTail DEF ClientTypes
      <4>3. Once(c2s', Request(d))
        BY <2>4, <3>1, <4>1, HasAppend DEF ClientTypes
      <4>4. ~Answering(d)'
        BY <2>1, <4>1, Elsewhere
      <4> QED
        BY <2>1, <4>1, <4>2, <4>3, <4>4, OnceNext
    <3> QED
      BY <3>2, <3>3
  <2> QED
    BY <1>14, <2>2, <2>3, <2>4 DEF Write
<1>15. CASE WriterDrops
  <2>1. outq' = <<>> /\ UNCHANGED <<call, slot, served, c2s, s2c>>
    BY <1>15 DEF WriterDrops, nvars
  <2> QED
    BY <1>2, <2>1, OnceOfKept, Elsewhere
<1>16. CASE PeerLeaves
  <2>1. c2s' = <<>> /\ UNCHANGED <<call, slot, served, outq, s2c>>
    BY <1>16 DEF PeerLeaves, cvars
  <2> QED
    BY <1>2, <2>1, OnceOfKept, Elsewhere
<1>17. CASE PeerSends
  <2>1. PICK m \in PeerMsgs : s2c' = Append(s2c, m) /\ m.kind \notin {"ok", "error"}
    <3>1. /\ Msg("note", "event").kind \notin {"ok", "error"}
          /\ Msg("garbage", "none").kind \notin {"ok", "error"}
          /\ \A r \in ServerReqs : Msg("request", r).kind \notin {"ok", "error"}
      BY DEF Msg
    <3> QED
      BY <1>17, <3>1, Kinds DEF PeerSends
  <2>2. UNCHANGED <<call, slot, served, outq, c2s>>
    BY <1>17 DEF PeerSends, cvars
  <2>3. m # Msg("ok", d) /\ m # Msg("error", d)
    BY <2>1 DEF Msg
  <2> QED
    BY <1>2, <2>1, <2>2, <2>3, OnceOfKept, Elsewhere
<1>18. CASE PeerAnswers
  <2>1. c2s # <<>> /\ c2s' = Tail(c2s) /\ UNCHANGED <<call, slot, outq>>
    BY <1>18 DEF PeerAnswers, cvars
  <2>2. Head(c2s) \in ClientMsgs /\ Has(c2s, Head(c2s))
    BY <2>1, HasTail DEF ClientTypes
  <2>3. CASE Head(c2s).kind # "request"
    BY <1>2, <1>18, <2>1, <2>3, OnceOfKept, Elsewhere DEF PeerAnswers
  <2>4. CASE Head(c2s).kind = "request"
    <3>1. PICK out \in {"ok", "error"} : s2c' = Append(s2c, Msg(out, Head(c2s).id))
      BY <1>18, <2>4 DEF PeerAnswers
    <3>2. /\ Head(c2s).id \in AllCalls /\ Head(c2s) = Msg("request", Head(c2s).id)
          /\ served' = [served EXCEPT ![Head(c2s).id] = @ + 1]
      BY <1>18, <2>2, <2>4, Kinds DEF PeerAnswers
    <3>3. Msg(out, Head(c2s).id) \in PeerMsgs
      BY <3>2, Kinds
    <3>4. CASE Head(c2s).id # d
      <4>1. /\ served'[d] = served[d] /\ Msg(out, Head(c2s).id) # Msg("ok", d)
            /\ Msg(out, Head(c2s).id) # Msg("error", d)
        BY <1>3, <3>2, <3>4, Kinds
      <4> QED
        BY <1>2, <2>1, <3>1, <3>3, <4>1, OnceOfKept, Elsewhere
    <3>5. CASE Head(c2s).id = d
      <4>1. /\ Has(c2s, Request(d)) /\ ~Has(outq, Request(d)) /\ served[d] = 0
            /\ call[d] \notin {"idle", "sending", "unsent"} /\ Once(c2s, Request(d))
            /\ Once(outq, Request(d))
        BY <1>2, <2>2, <3>2, <3>5 DEF OnceOf, Underway
      <4>2. ~Has(c2s', Request(d)) /\ Once(c2s', Request(d))
        BY <1>2, <2>1, <3>2, <3>5, <4>1, HasTail DEF ClientTypes
      <4>3. served'[d] = 1
        BY <1>3, <3>2, <3>5, <4>1
      <4>4. ~Has(outq', Request(d)) /\ Once(outq', Request(d))
        BY <2>1, <4>1, Elsewhere
      <4> QED
        BY <2>1, <4>1, <4>2, <4>3, <4>4, OnceNext
    <3> QED
      BY <3>4, <3>5
  <2> QED
    BY <2>3, <2>4
<1>19. CASE \/ HandshakeAnswered \/ DropLast \/ Shutdown \/ ShutdownReturns
            \/ ReaderSeesEnd \/ InsertHandle \/ TeardownAbort \/ TeardownAnnounce \/ TeardownSignal
  <2>1. UNCHANGED <<call, slot, served, outq, c2s, s2c>>
    BY <1>19 DEF HandshakeAnswered, DropLast, Shutdown, ShutdownReturns, ReaderSeesEnd,
       InsertHandle, TeardownAbort, TeardownAnnounce, TeardownSignal, cvars, nvars
  <2> QED
    BY <1>4, <2>1
<1>20. CASE \/ \E r \in ServerReqs : HandlerCleansUp(r)
            \/ SetReverseHandler \/ Subscribe \/ NextEvent \/ UNCHANGED vars
  <2>1. UNCHANGED <<call, slot, served, outq, c2s, s2c>>
    BY <1>20 DEF HandlerCleansUp, SetReverseHandler, Subscribe, NextEvent, vars, cvars,
       nvars
  <2> QED
    BY <1>4, <2>1
<1> QED
  BY <1>5, <1>6, <1>7, <1>9, <1>10, <1>11, <1>12, <1>13, <1>14, <1>15, <1>16, <1>17,
     <1>18,
     <1>19, <1>20 DEF Next, ReaderStep, WriterStep

-----------------------------------------------------------------------------
(* The refinement of RemoteCalls: a step moves at most one call, in one of   *)
(* the ways of the abstract specification                                    *)
Moves(c) ==
    \/ CallState(c)' = CallState(c) /\ served'[c] = served[c]
    \/ CallState(c) = "new" /\ CallState(c)' = "open" /\ served'[c] = served[c]
    \/ /\ CallState(c) \in {"open", "failed"} /\ CallState(c)' = CallState(c)
       /\ served[c] = 0 /\ served'[c] = 1
    \/ /\ CallState(c) = "open" /\ CallState(c)' = "answered"
       /\ served[c] = 1 /\ served'[c] = 1
    \/ /\ CallState(c) = "open" /\ CallState(c)' = "refused"
       /\ served[c] = 0 /\ served'[c] = 0
    \/ CallState(c) = "open" /\ CallState(c)' = "failed" /\ served'[c] = served[c]

LEMMA AbstractStep ==
    ASSUME served \in [AllCalls -> Nat], served' \in [AllCalls -> Nat],
           NEW c \in AllCalls, Moves(c),
           \A d \in AllCalls \ {c} : CallState(d)' = CallState(d) /\ served'[d] = served[d]
    PROVE  [Remote!Next]_(Remote!vars)
<1> DEFINE st == [d \in AllCalls |-> CallState(d)]
<1>1. st' = [st EXCEPT ![c] = CallState(c)'] /\ st[c] = CallState(c)
  OBVIOUS
<1>2. served' = [served EXCEPT ![c] = served'[c]]
  OBVIOUS
<1>3. CallState(c)' = CallState(c) => st' = st
  OBVIOUS
<1>4. served'[c] = served[c] => served' = served
  OBVIOUS
<1> HIDE DEF st
<1>5. [\E d \in AllCalls : \/ st[d] = "new" /\ st' = [st EXCEPT ![d] = "open"] /\ served' = served
                           \/ /\ st[d] \in {"open", "failed"} /\ served[d] = 0
                              /\ served' = [served EXCEPT ![d] = 1] /\ st' = st
                           \/ /\ st[d] = "open" /\ served[d] = 1
                              /\ st' = [st EXCEPT ![d] = "answered"] /\ served' = served
                           \/ /\ st[d] = "open" /\ served[d] = 0
                              /\ st' = [st EXCEPT ![d] = "refused"] /\ served' = served
                           \/ /\ st[d] = "open" /\ st' = [st EXCEPT ![d] = "failed"]
                              /\ served' = served]_<<st, served>>
  BY <1>1, <1>2, <1>3, <1>4 DEF Moves
<1> USE DEF st
<1> QED
  BY <1>5 DEF Remote!Next, Remote!Issue, Remote!Execute, Remote!Answer, Remote!Refuse,
     Remote!Fail, Remote!To, Remote!vars

(* The state of a call, case by case                                         *)
StateIs(at, s) ==
    /\ at = "idle" => s = "new"
    /\ at \in {"sending", "waiting"} => s = "open"
    /\ at \in {"ok", "error"} => s = "answered"
    /\ at = "unsent" => s = "refused"
    /\ at \in {"dropped", "closed"} => s = "failed"

LEMMA StateOfCall == \A c \in AllCalls : /\ StateIs(call[c], CallState(c))
                                         /\ StateIs(call'[c], CallState(c)')
<1>1. ASSUME NEW c \in AllCalls PROVE StateIs(call[c], CallState(c))
  BY DEF StateIs, CallState
<1>2. ASSUME NEW c \in AllCalls PROVE StateIs(call'[c], CallState(c)')
  BY DEF StateIs, CallState
<1> QED
  BY <1>1, <1>2

LEMMA StateUnmoved == \A c \in AllCalls : call'[c] = call[c] => CallState(c)' = CallState(c)
  BY DEF CallState

LEMMA RemoteStarts == ASSUME Init PROVE Remote!Init
  BY DEF Init, Remote!Init, CallState

LEMMA ClientRefines ==
    ASSUME ClientTypes, ClientTypes', OnceInv, [Next]_vars
    PROVE  [Remote!Next]_(Remote!vars)
<1>0. /\ call \in [AllCalls -> {"idle", "sending", "waiting", "unsent", "dropped"} \cup Outcomes]
      /\ slot \in [AllCalls -> Outcomes \cup {"empty"}]
      /\ served \in [AllCalls -> Nat] /\ served' \in [AllCalls -> Nat]
      /\ Hello \in AllCalls
  BY DEF ClientTypes, TypeOK, AllCalls
<1>1. ASSUME UNCHANGED <<call, served>> PROVE [Remote!Next]_(Remote!vars)
  BY <1>1, StateUnmoved DEF Remote!vars
<1>2. ASSUME NEW c \in AllCalls, served' = served, \A d \in AllCalls \ {c} : call'[d] = call[d],
             \/ call[c] = "idle" /\ call'[c] = "sending"
             \/ call[c] = "sending" /\ call'[c] \in {"waiting", "unsent"}
             \/ call[c] = "waiting" /\ slot[c] # "empty" /\ call'[c] = slot[c]
             \/ call[c] \in {"sending", "waiting"} /\ call'[c] = "dropped"
      PROVE  [Remote!Next]_(Remote!vars)
  <2>1. OnceOf(c) /\ served'[c] = served[c] /\ served[c] \in {0, 1}
    BY <1>2 DEF OnceInv, OnceOf
  <2>2. Moves(c)
    <3>1. StateIs(call[c], CallState(c)) /\ StateIs(call'[c], CallState(c)')
      BY StateOfCall
    <3>2. CASE call[c] = "idle" /\ call'[c] = "sending"
      BY <2>1, <3>1, <3>2 DEF Moves, StateIs
    <3>3. CASE call[c] = "sending" /\ call'[c] \in {"waiting", "unsent"}
      <4>1. served[c] = 0
        BY <2>1, <3>3 DEF OnceOf
      <4> QED
        BY <2>1, <3>1, <3>3, <4>1 DEF Moves, StateIs
    <3>4. CASE call[c] = "waiting" /\ slot[c] # "empty" /\ call'[c] = slot[c]
      <4>1. CallState(c) = "open"
        BY <3>1, <3>4 DEF StateIs
      <4>2. slot[c] \in Outcomes
        BY <1>0, <3>4
      <4>3. CASE slot[c] = "closed"
        <5>1. CallState(c)' = "failed"
          BY <3>1, <3>4, <4>3 DEF StateIs
        <5> QED
          BY <2>1, <4>1, <5>1 DEF Moves
      <4>4. CASE slot[c] \in {"ok", "error"}
        <5>1. CallState(c)' = "answered" /\ served[c] = 1
          BY <2>1, <3>1, <3>4, <4>4 DEF StateIs, OnceOf
        <5> QED
          BY <2>1, <4>1, <5>1 DEF Moves
      <4> QED
        BY <4>2, <4>3, <4>4 DEF Outcomes
    <3>5. CASE call[c] \in {"sending", "waiting"} /\ call'[c] = "dropped"
      BY <2>1, <3>1, <3>5 DEF Moves, StateIs
    <3> QED
      BY <1>2, <3>2, <3>3, <3>4, <3>5
  <2>3. \A d \in AllCalls \ {c} : CallState(d)' = CallState(d) /\ served'[d] = served[d]
    BY <1>2, StateUnmoved
  <2> QED
    BY <1>0, <2>2, <2>3, AbstractStep
<1>3. ASSUME NEW c \in AllCalls, Register(c) \/ Push(c) \/ Return(c)
      PROVE  [Remote!Next]_(Remote!vars)
  <2>1. served' = served /\ \A d \in AllCalls \ {c} : call'[d] = call[d]
    BY <1>0, <1>3 DEF Register, Push, Return, nvars
  <2>2. \/ call[c] = "idle" /\ call'[c] = "sending"
        \/ call[c] = "sending" /\ call'[c] \in {"waiting", "unsent"}
        \/ call[c] = "waiting" /\ slot[c] # "empty" /\ call'[c] = slot[c]
    BY <1>0, <1>3 DEF Register, Push, Return
  <2> QED
    BY <1>2, <2>1, <2>2
<1>4. CASE HandshakeFails
  <2>1. served' = served /\ \A d \in AllCalls \ {Hello} : call'[d] = call[d]
    BY <1>0, <1>4 DEF HandshakeFails, nvars
  <2>2. \/ call' = call
        \/ call[Hello] \in {"sending", "waiting"} /\ call'[Hello] = "dropped"
    BY <1>0, <1>4 DEF HandshakeFails
  <2> QED
    BY <1>0, <1>1, <1>2, <2>1, <2>2
<1>5. CASE PeerAnswers
  <2>1. call' = call /\ c2s # <<>>
    BY <1>5 DEF PeerAnswers, cvars
  <2>2. Head(c2s) \in ClientMsgs /\ Has(c2s, Head(c2s))
    BY <2>1, HasTail DEF ClientTypes
  <2>3. CASE Head(c2s).kind # "request"
    BY <1>1, <1>5, <2>1, <2>3 DEF PeerAnswers
  <2>4. CASE Head(c2s).kind = "request"
    <3>1. PICK c \in AllCalls : c = Head(c2s).id /\ Head(c2s) = Msg("request", c)
      BY <2>2, <2>4, Kinds
    <3>2. served' = [served EXCEPT ![c] = served[c] + 1]
      BY <1>5, <2>4, <3>1 DEF PeerAnswers
    <3>3. OnceOf(c)
      BY DEF OnceInv
    <3>4. /\ served[c] = 0 /\ call[c] \notin {"idle", "sending", "unsent"}
          /\ call[c] \notin {"ok", "error"}
      BY <2>2, <3>1, <3>3 DEF OnceOf, Underway, Request
    <3>5. CallState(c) \in {"open", "failed"} /\ CallState(c)' = CallState(c)
      BY <1>0, <2>1, <3>4, StateOfCall, StateUnmoved DEF StateIs, Outcomes
    <3>6. Moves(c)
      BY <1>0, <3>2, <3>4, <3>5 DEF Moves
    <3>7. \A d \in AllCalls \ {c} : CallState(d)' = CallState(d) /\ served'[d] = served[d]
      BY <1>0, <2>1, <3>2, StateUnmoved
    <3> QED
      BY <1>0, <3>6, <3>7, AbstractStep
  <2> QED
    BY <2>3, <2>4
<1>6. CASE \/ HandshakeAnswered \/ SendInitialized \/ DropLast \/ Shutdown \/ ShutdownReturns
           \/ Read \/ ReaderSeesEnd \/ ReplyNotFound \/ InsertHandle
           \/ TeardownDrain \/ TeardownFill \/ TeardownAbort \/ TeardownAnnounce
           \/ TeardownSignal
  BY <1>1, <1>6 DEF HandshakeAnswered, SendInitialized, DropLast, Shutdown,
     ShutdownReturns,
     Read, ReaderSeesEnd, ReplyNotFound, InsertHandle, TeardownDrain, TeardownFill,
     TeardownAbort, TeardownAnnounce, TeardownSignal, cvars, nvars
<1>7. CASE \/ Write \/ WriterDrains \/ WriterFills \/ WriterDrops
           \/ \E r \in ServerReqs : HandlerReplies(r) \/ HandlerCleansUp(r)
           \/ SetReverseHandler \/ Subscribe \/ NextEvent
           \/ PeerSends \/ PeerLeaves \/ UNCHANGED vars
  BY <1>1, <1>7 DEF Write, WriterDrains, WriterFills, WriterDrops, HandlerReplies,
     HandlerCleansUp, SetReverseHandler, Subscribe, NextEvent, PeerSends, PeerLeaves, vars, cvars, nvars
<1> QED
  BY <1>3, <1>4, <1>5, <1>6, <1>7 DEF Next, ReaderStep, WriterStep

(* The client implements calls that are carried out at most once, through    *)
(* every order in which the reader, the writer, a shutdown and the peer's    *)
(* departure can meet: an answer is returned only for a call the peer        *)
(* carried out, and a call the client refused is never carried out.          *)
THEOREM ClientIsAtMostOnce == ASSUME ClientConstants PROVE Spec => AtMostOnceCalls
<1>1. Init => ClientInv /\ OnceInv
  BY ClientStarts, OnceStarts
<1>2. ClientInv /\ OnceInv /\ [Next]_vars => (ClientInv /\ OnceInv)'
  <2> SUFFICES ASSUME ClientInv, OnceInv, [Next]_vars PROVE ClientInv' /\ OnceInv'
    OBVIOUS
  <2>1. ClientInv'
    BY ClientKept
  <2>2. OnceInv'
    BY <2>1, OnceKept DEF ClientInv
  <2> QED
    BY <2>1, <2>2
<1>3. Init => Remote!Init
  BY RemoteStarts
<1>4. ClientInv /\ ClientInv' /\ OnceInv /\ [Next]_vars => [Remote!Next]_(Remote!vars)
  BY ClientRefines DEF ClientInv
<1> QED
  BY <1>1, <1>2, <1>3, <1>4, PTL DEF Spec, AtMostOnceCalls, Remote!Spec
=============================================================================
