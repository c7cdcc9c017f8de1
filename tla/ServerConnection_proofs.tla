----------------------- MODULE ServerConnection_proofs -----------------------
(***************************************************************************)
(* Proofs about ServerConnection, for any events, frames and capacities:   *)
(* replies leave in the order of their requests, nothing is carried out    *)
(* before a welcome, and every event the forwarder passed is accounted     *)
(* for.                                                                    *)
(***************************************************************************)
EXTENDS ServerConnection, SequenceTheorems, FiniteSetTheorems, TLAPS

ConnectionConstants ==
    /\ OutCap \in Nat /\ BroadcastCap \in Nat /\ WireCap \in Nat
    /\ MaxEvents \in Nat /\ MaxFrames \in Nat

(* What travels: frames of the client, events and replies to it              *)
InKinds == FrameKinds \cup Notes \cup {"torn"}
Codes == {"invalid_params", "already_initialized", "version_unsupported", "welcome",
          "not_initialized", "ok", "route", "method_not_found", "engine_error"}
Inbound == {Frame(n, kind) : n \in Frames, kind \in InKinds}
EventMsgs == {Event(i) : i \in Events}
ReplyMsgs == {Reply(n, code) : n \in Frames, code \in Codes}
Outbound == EventMsgs \cup ReplyMsgs

ConnTypes ==
    /\ TypeOK
    /\ up \in Seq(Inbound) /\ down \in Seq(Outbound) /\ sendq \in Seq(EventMsgs)
    /\ log \in Seq(Kinds) /\ Len(log) <= MaxEvents
    /\ shown \in Seq(Events) /\ replied \in Seq(ReplyMsgs)
    /\ loop = "work" => hand \in Inbound
    /\ loop = "send" => hand \in Outbound
    /\ half => up # <<>>
    /\ fwd = "push" => held # 0

(* Frames are numbered as they are sent, the one in hand is before those     *)
(* that wait and after those that were answered                              *)
Answering == loop = "send" /\ "reply" \in DOMAIN hand
Busy == loop = "work" \/ Answering
Number == IF loop = "work" THEN hand.n ELSE hand.reply
Ascending == \A i, j \in DOMAIN up : i < j => up[i].n < up[j].n
Behind == \A j \in DOMAIN up : up[j].n <= sent
AnsweredBefore == \A i \in DOMAIN replied :
    replied[i].reply <= sent /\ \A j \in DOMAIN up : replied[i].reply < up[j].n
InHandBetween == Busy =>
    /\ Number <= sent
    /\ \A j \in DOMAIN up : Number < up[j].n
    /\ \A i \in DOMAIN replied : replied[i].reply < Number
Replies == \A i, j \in DOMAIN replied : i < j => replied[i].reply < replied[j].reply
RequestInv == Ascending /\ Behind /\ AnsweredBefore /\ InHandBetween /\ Replies

(* A connection is initialized by the one reply that welcomes it, and what   *)
(* was routed came after it                                                  *)
Welcomed == \E i \in DOMAIN replied : replied[i].code = "welcome"
Welcoming == Answering /\ hand.code = "welcome"
WelcomeInv ==
    /\ \A i, j \in DOMAIN replied :
          replied[i].code = "welcome" /\ replied[j].code = "welcome" => i = j
    /\ Welcoming => ~Welcomed
    /\ Welcomed \/ Welcoming => initialized
    /\ initialized /\ loop # "closed" => Welcomed \/ Welcoming
    /\ \A n \in ran : \E i \in DOMAIN replied : replied[i].code = "welcome" /\ replied[i].reply < n

(* What is on its way to the client may be shown to it                       *)
Visible(e) == e \in 1..Len(log) /\ log[e] \notin InternalEvents
VisibleInv ==
    /\ \A i \in DOMAIN shown : Visible(shown[i])
    /\ \A i \in DOMAIN sendq : Visible(sendq[i].event)
    /\ loop = "send" /\ "event" \in DOMAIN hand => Visible(hand.event)
    /\ fwd = "push" => Visible(held)
LagInv == \A e \in skipped : e + BroadcastCap <= Len(log)

ConnInv == ConnTypes /\ RequestInv /\ WelcomeInv /\ VisibleInv /\ LagInv /\ EventsAccounted

-----------------------------------------------------------------------------
(* The messages and their fields                                             *)
LEMMA Messages ==
    /\ \A m \in Inbound : m.n \in Frames /\ m.kind \in InKinds
    /\ \A m \in EventMsgs : m.event \in Events /\ "event" \in DOMAIN m /\ "reply" \notin DOMAIN m
    /\ \A m \in ReplyMsgs : /\ m.reply \in Frames /\ m.code \in Codes
                            /\ "reply" \in DOMAIN m /\ "event" \notin DOMAIN m
    /\ \A n \in Frames, kind \in InKinds : Frame(n, kind) \in Inbound
    /\ \A i \in Events : Event(i) \in EventMsgs
    /\ \A n \in Frames, code \in Codes : Reply(n, code) \in ReplyMsgs
    /\ \A n, k : Frame(n, k).n = n /\ Frame(n, k).kind = k
    /\ \A n, c : Reply(n, c).reply = n /\ Reply(n, c).code = c /\ "reply" \in DOMAIN Reply(n, c)
    /\ \A i : Event(i).event = i
  BY DEF Inbound, EventMsgs, ReplyMsgs, Frame, Event, Reply

LEMMA Codings ==
    /\ \A kind \in InKinds : Gate(kind) \in Codes
    /\ \A kind : Routed(kind) \subseteq Codes \ {"welcome"}
    /\ \A kind : Gate(kind) = "welcome" => ~initialized
    /\ \A kind : Gate(kind) = "route" => initialized
  BY DEF Gate, Routed, HandleInitialize, IsInit, Codes, InKinds

LEMMA ConnectionStarts == ASSUME ConnectionConstants, Init PROVE ConnInv
<1>1. ConnTypes
  <2>1. TypeOK
    <3>1. Len(sendq) = 0 /\ Len(down) = 0 /\ Len(up) = 0 /\ Len(log) = 0
      BY EmptySeq DEF Init
    <3>2. seen \in 0..Len(log) /\ sent \in 0..MaxFrames
      BY <3>1 DEF ConnectionConstants, Init
    <3>3. /\ shutdown \in BOOLEAN /\ initialized \in BOOLEAN /\ clientGone \in BOOLEAN
          /\ half \in BOOLEAN /\ outOpen \in BOOLEAN
          /\ filter \in {{}, {"events/turn_started"}}
      BY DEF Init
    <3> QED
      BY <3>1, <3>2, <3>3 DEF ConnectionConstants, Init, TypeOK
  <2> QED
    BY <2>1, EmptySeq DEF ConnectionConstants, Init, ConnTypes
<1>2. RequestInv /\ WelcomeInv
  BY DEF Init, RequestInv, WelcomeInv, Ascending, Behind, AnsweredBefore, InHandBetween,
     Replies, Busy, Answering, Number, Welcomed, Welcoming
<1>3. VisibleInv /\ LagInv
  BY DEF Init, VisibleInv, LagInv
<1>4. EventsAccounted
  <2>1. shown = <<>> /\ InFlight = <<>> /\ skipped = {} /\ barred = {} /\ seen = 0
    <3>1. [i \in 1..Len(sendq) |-> sendq[i].event] = <<>>
      BY DEF Init
    <3> QED
      BY <3>1, ConcatEmptySeq, EmptySeq DEF Init, InFlight
  <2>2. shown \o InFlight = <<>>
    BY <2>1, ConcatEmptySeq, EmptySeq
  <2>3. ToSet(<<>>) = {}
    BY DEF ToSet
  <2> QED
    BY <2>1, <2>2, <2>3 DEF EventsAccounted
<1> QED
  BY <1>1, <1>2, <1>3, <1>4 DEF ConnInv

-----------------------------------------------------------------------------
(* Sequences: taking the head, adding at the end, losing a piece             *)
LEMMA TakeHead ==
    ASSUME NEW S, NEW s \in Seq(S), s # <<>>
    PROVE  /\ Head(s) \in S /\ Head(s) = s[1] /\ 1 \in DOMAIN s
           /\ Tail(s) \in Seq(S) /\ Len(Tail(s)) = Len(s) - 1 /\ Len(s) \in Nat
           /\ \A i \in DOMAIN Tail(s) : i + 1 \in DOMAIN s /\ i \in Nat \ {0}
                                        /\ Tail(s)[i] = s[i + 1]
<1>1. Len(s) \in Nat \ {0} /\ DOMAIN s = 1..Len(s) /\ s[1] \in S /\ Head(s) = s[1]
  BY EmptySeq, LenProperties, ElementOfSeq
<1>2. /\ Tail(s) \in Seq(S) /\ Len(Tail(s)) = Len(s) - 1
      /\ \A i \in 1..Len(Tail(s)) : Tail(s)[i] = s[i + 1]
  BY HeadTailProperties
<1>3. DOMAIN Tail(s) = 1..(Len(s) - 1)
  BY <1>1, <1>2, LenProperties
<1> QED
  BY <1>1, <1>2, <1>3

LEMMA AddLast ==
    ASSUME NEW S, NEW s \in Seq(S), NEW e \in S
    PROVE  /\ Append(s, e) \in Seq(S) /\ Len(Append(s, e)) = Len(s) + 1 /\ Len(s) \in Nat
           /\ DOMAIN s \subseteq DOMAIN Append(s, e) /\ Append(s, e) # <<>>
           /\ Len(s) + 1 \in DOMAIN Append(s, e) /\ Append(s, e)[Len(s) + 1] = e
           /\ \A i \in DOMAIN s : i \in Nat /\ i < Len(s) + 1 /\ Append(s, e)[i] = s[i]
           /\ \A i \in DOMAIN Append(s, e) : i \in DOMAIN s \/ i = Len(s) + 1
<1>1. /\ Append(s, e) \in Seq(S) /\ Len(Append(s, e)) = Len(s) + 1 /\ Len(s) \in Nat
      /\ \A i \in 1..Len(s) : Append(s, e)[i] = s[i]
      /\ Append(s, e)[Len(s) + 1] = e /\ Append(s, e) # <<>>
  BY AppendProperties, LenProperties
<1>2. DOMAIN s = 1..Len(s) /\ DOMAIN Append(s, e) = 1..(Len(s) + 1)
  BY <1>1, LenProperties
<1> QED
  BY <1>1, <1>2

LEMMA Torn ==
    ASSUME ConnTypes, up # <<>>
    PROVE  /\ Tear(up) \in Seq(Inbound) /\ Len(Tear(up)) = Len(up) /\ Tear(up) # <<>>
           /\ DOMAIN Tear(up) = DOMAIN up
           /\ \A i \in DOMAIN up : Tear(up)[i].n = up[i].n
<1> DEFINE piece == [Head(up) EXCEPT !.kind = "torn"]
<1>1. up \in Seq(Inbound) /\ Head(up) \in Inbound /\ Tail(up) \in Seq(Inbound)
      /\ Len(Tail(up)) = Len(up) - 1 /\ Head(up) = up[1] /\ Len(up) \in Nat \ {0}
      /\ DOMAIN up = 1..Len(up)
      /\ \A i \in 1..Len(Tail(up)) : Tail(up)[i] = up[i + 1]
  BY HeadTailProperties, EmptySeq, LenProperties DEF ConnTypes
<1>2. piece \in Inbound /\ piece.n = up[1].n
  <2>1. PICK n \in Frames, kind \in InKinds : Head(up) = [n |-> n, kind |-> kind]
    BY <1>1 DEF Inbound, Frame
  <2>2. piece = [n |-> n, kind |-> "torn"]
    BY <2>1
  <2>3. "torn" \in InKinds /\ up[1].n = n
    BY <1>1, <2>1 DEF InKinds
  <2> QED
    BY <2>2, <2>3 DEF Inbound, Frame
<1> HIDE DEF piece
<1>3. <<piece>> \in Seq(Inbound) /\ Len(<<piece>>) = 1 /\ <<piece>>[1] = piece
  BY <1>2
<1>4. /\ Tear(up) \in Seq(Inbound) /\ Len(Tear(up)) = 1 + Len(Tail(up))
      /\ \A i \in 1..(1 + Len(Tail(up))) :
            Tear(up)[i] = IF i <= 1 THEN <<piece>>[i] ELSE Tail(up)[i - 1]
  <2>1. Tear(up) = <<piece>> \o Tail(up)
    BY DEF Tear, piece
  <2> QED
    BY <1>1, <1>3, <2>1, ConcatProperties
<1>5. DOMAIN Tear(up) = 1..Len(up) /\ Len(Tear(up)) = Len(up)
  BY <1>1, <1>4, LenProperties
<1>6. ASSUME NEW i \in DOMAIN up PROVE Tear(up)[i].n = up[i].n
  <2>1. CASE i = 1
    <3>1. 1 \in 1..(1 + Len(Tail(up)))
      BY <1>1
    <3>2. Tear(up)[1] = piece
      BY <1>3, <1>4, <3>1
    <3> QED
      BY <1>2, <2>1, <3>2
  <2>2. CASE i # 1
    <3>1. i - 1 \in 1..Len(Tail(up)) /\ i \in 1..(1 + Len(Tail(up))) /\ ~(i <= 1)
      BY <1>1, <2>2
    <3> QED
      BY <1>1, <1>4, <3>1
  <2> QED
    BY <2>1, <2>2
<1>7. Tear(up) # <<>>
  BY <1>1, <1>4, <1>5, EmptySeq
<1> QED
  BY <1>1, <1>4, <1>5, <1>6, <1>7

-----------------------------------------------------------------------------
(* Types, by action                                                          *)
LEMMA Sequences == ConnTypes =>
    /\ up \in Seq(Inbound) /\ down \in Seq(Outbound) /\ sendq \in Seq(EventMsgs)
    /\ log \in Seq(Kinds) /\ shown \in Seq(Events) /\ replied \in Seq(ReplyMsgs)
  BY DEF ConnTypes

LEMMA TypesOfLoop ==
    ASSUME ConnectionConstants, ConnTypes, LoopStep
    PROVE  ConnTypes'
<1>1. CASE LoopShutdown
  BY <1>1 DEF LoopShutdown, Close, ConnTypes, TypeOK, fvars
<1>2. CASE LoopOutbound
  <2>1. /\ Head(sendq) \in EventMsgs /\ Tail(sendq) \in Seq(EventMsgs)
        /\ Len(Tail(sendq)) = Len(sendq) - 1 /\ Len(sendq) \in Nat
    BY <1>2, Sequences, TakeHead DEF LoopOutbound
  <2>2. up' \in Seq(Inbound) /\ Len(up') = Len(up)
    <3>1. half => up # <<>>
      BY DEF ConnTypes
    <3> QED
      BY <1>2, <3>1, Sequences, Torn DEF LoopOutbound
  <2>3. hand' \in Outbound
    BY <1>2, <2>1 DEF LoopOutbound, Outbound
  <2>4. /\ loop' = "send" /\ half' = FALSE /\ sendq' = Tail(sendq)
        /\ UNCHANGED <<shutdown, initialized, filter, outOpen, replied, ran, shown,
                       log, fvars, down, clientGone, sent>>
    BY <1>2 DEF LoopOutbound
  <2>5. Len(sendq') <= OutCap /\ Len(up') <= WireCap
    BY <2>1, <2>2, <2>4 DEF ConnTypes, TypeOK, ConnectionConstants
  <2>6. TypeOK'
    BY <2>4, <2>5 DEF ConnTypes, TypeOK, fvars
  <2> QED
    BY <2>1, <2>2, <2>3, <2>4, <2>6 DEF ConnTypes, fvars
<1>3. CASE LoopOutboundClosed
  <2>1. up' \in Seq(Inbound) /\ Len(up') = Len(up)
    <3>1. half => up # <<>>
      BY DEF ConnTypes
    <3> QED
      BY <1>3, <3>1, Sequences, Torn DEF LoopOutboundClosed
  <2> QED
    BY <1>3, <2>1 DEF LoopOutboundClosed, ConnTypes, TypeOK, fvars
<1>4. CASE ReadHalf
  BY <1>4 DEF ReadHalf, ConnTypes, TypeOK, fvars
<1>5. CASE ReadFrame
  <2>1. /\ Head(up) \in Inbound /\ Tail(up) \in Seq(Inbound)
        /\ Len(Tail(up)) = Len(up) - 1 /\ Len(up) \in Nat
    BY <1>5, Sequences, TakeHead DEF ReadFrame
  <2>2. up' = Tail(up) /\ half' = FALSE
        /\ UNCHANGED <<shutdown, outOpen, replied, shown, sendq, log, fvars, down, clientGone, sent>>
    BY <1>5 DEF ReadFrame
  <2>3. Head(up).n \in Frames /\ Head(up).kind \in InKinds
    BY <2>1, Messages
  <2>4. Reply(Head(up).n, Gate(Head(up).kind)) \in Outbound
    BY <2>3, Messages, Codings DEF Outbound
  <2>5. /\ initialized' \in BOOLEAN /\ filter' \in {{}, {"events/turn_started"}}
        /\ ran' \subseteq Frames
    BY <1>5, <2>3 DEF ReadFrame, ConnTypes, TypeOK
  <2>6. /\ loop' \in {"select", "work", "send", "closed"}
        /\ loop' = "work" => hand' \in Inbound
        /\ loop' = "send" => hand' \in Outbound
    BY <1>5, <2>1, <2>4 DEF ReadFrame, InboundTurn, Close
  <2>7. Len(up') <= WireCap
    BY <2>1, <2>2 DEF ConnTypes, TypeOK, ConnectionConstants
  <2>8. TypeOK'
    BY <2>2, <2>5, <2>6, <2>7 DEF ConnTypes, TypeOK, fvars
  <2> QED
    BY <2>1, <2>2, <2>6, <2>8 DEF ConnTypes, fvars
<1>6. CASE ReadEnd
  BY <1>6 DEF ReadEnd, Close, ConnTypes, TypeOK, fvars
<1>7. CASE Handled
  <2>1. hand \in Inbound /\ hand.n \in Frames
    BY <1>7, Messages DEF Handled, ConnTypes
  <2>2. \A code \in Routed(hand.kind) : Reply(hand.n, code) \in Outbound
    BY <2>1, Messages, Codings DEF Outbound
  <2>3. /\ loop' \in {"select", "send"}
        /\ loop' = "send" => hand' \in Outbound
    BY <1>7, <2>2 DEF Handled
  <2>4. UNCHANGED <<shutdown, initialized, filter, half, outOpen, replied, ran, shown,
                    sendq, log, fvars, up, down, clientGone, sent>>
    BY <1>7 DEF Handled
  <2> QED
    BY <2>3, <2>4 DEF ConnTypes, TypeOK, fvars
<1>8. CASE Send
  <2>1. hand \in Outbound
    BY <1>8 DEF Send, ConnTypes
  <2>2. ASSUME "reply" \in DOMAIN hand PROVE hand \in ReplyMsgs
    BY <2>1, <2>2, Messages DEF Outbound
  <2>3. ASSUME "reply" \notin DOMAIN hand PROVE hand.event \in Events
    BY <2>1, <2>3, Messages DEF Outbound
  <2>4. /\ replied' \in Seq(ReplyMsgs) /\ shown' \in Seq(Events)
        /\ down' \in Seq(Outbound) /\ Len(down') <= WireCap
    <3>1. CASE clientGone
      BY <1>8, <3>1 DEF Send, ConnTypes, TypeOK
    <3>2. CASE ~clientGone
      <4>1. Len(down) < WireCap /\ down' = Append(down, hand)
            /\ IF "reply" \in DOMAIN hand
               THEN replied' = Append(replied, hand) /\ UNCHANGED shown
               ELSE shown' = Append(shown, hand.event) /\ UNCHANGED replied
        BY <1>8, <3>2 DEF Send
      <4>2. down' \in Seq(Outbound) /\ Len(down') = Len(down) + 1 /\ Len(down) \in Nat
        BY <2>1, <4>1, Sequences, AddLast
      <4>3. replied' \in Seq(ReplyMsgs) /\ shown' \in Seq(Events)
        <5>1. CASE "reply" \in DOMAIN hand
          <6>1. replied' = Append(replied, hand) /\ shown' = shown
            BY <4>1, <5>1
          <6>2. hand \in ReplyMsgs /\ replied \in Seq(ReplyMsgs) /\ shown \in Seq(Events)
            BY <2>2, <5>1, Sequences
          <6> QED
            BY <6>1, <6>2, AddLast
        <5>2. CASE "reply" \notin DOMAIN hand
          <6>1. shown' = Append(shown, hand.event) /\ replied' = replied
            BY <4>1, <5>2
          <6>2. hand.event \in Events /\ replied \in Seq(ReplyMsgs) /\ shown \in Seq(Events)
            BY <2>3, <5>2, Sequences
          <6> QED
            BY <6>1, <6>2, AddLast
        <5> QED
          BY <5>1, <5>2
      <4> QED
        BY <4>1, <4>2, <4>3 DEF ConnectionConstants
    <3> QED
      BY <3>1, <3>2
  <2>5. loop' \in {"select", "closed"}
    BY <1>8 DEF Send, Close
  <2>6. UNCHANGED <<shutdown, initialized, filter, half, outOpen, ran, sendq, log, fvars,
                    up, clientGone, sent>>
    BY <1>8 DEF Send
  <2> QED
    BY <2>4, <2>5, <2>6 DEF ConnTypes, TypeOK, fvars
<1> QED
  BY <1>1, <1>2, <1>3, <1>4, <1>5, <1>6, <1>7, <1>8 DEF LoopStep

LEMMA TypesOfOthers ==
    ASSUME ConnectionConstants, ConnTypes,
           ForwarderStep \/ Broadcast \/ FireShutdown \/ ClientSends \/ ClientReads \/ ClientLeaves
    PROVE  ConnTypes'
<1>1. CASE ForwardRecv
  <2>1. Len(log) \in Nat /\ seen + 1 \in Events /\ Oldest \in 0..Len(log)
    BY <1>1, Sequences, LenProperties
    DEF ForwardRecv, Oldest, Events, ConnTypes, TypeOK, ConnectionConstants
  <2>2. seen' \in 0..Len(log) /\ skipped' \subseteq Events /\ barred' \subseteq Events
    <3>1. (seen + 1)..Oldest \subseteq Events /\ seen \in Nat /\ seen < Len(log)
      BY <1>1, <2>1 DEF Events, ForwardRecv, ConnTypes, TypeOK, ConnectionConstants
    <3>2. skipped \subseteq Events /\ barred \subseteq Events
      BY DEF ConnTypes, TypeOK
    <3> QED
      BY <1>1, <2>1, <3>1, <3>2 DEF ForwardRecv
  <2>3. /\ fwd' \in {"recv", "push"} /\ held' \in Events \cup {0}
        /\ fwd' = "push" => held' # 0
    <3>1. seen \in Nat /\ held \in Events \cup {0} /\ fwd = "recv"
      BY <1>1 DEF ForwardRecv, ConnTypes, TypeOK
    <3> QED
      BY <1>1, <2>1, <3>1 DEF ForwardRecv
  <2>4. UNCHANGED <<shutdown, lvars, sendq, log, up, down, clientGone, sent>>
    BY <1>1 DEF ForwardRecv
  <2> QED
    BY <2>2, <2>3, <2>4 DEF ConnTypes, TypeOK, lvars
<1>2. CASE ForwardPush
  <2>1. Event(held) \in EventMsgs
    BY <1>2, Messages DEF ForwardPush, ConnTypes, TypeOK
  <2>2. sendq' \in Seq(EventMsgs) /\ Len(sendq') <= OutCap
    <3>1. CASE loop = "closed"
      BY <1>2, <3>1 DEF ForwardPush, ConnTypes, TypeOK
    <3>2. CASE loop # "closed"
      <4>1. Len(sendq) < OutCap /\ sendq' = Append(sendq, Event(held))
        BY <1>2, <3>2 DEF ForwardPush
      <4>2. sendq' \in Seq(EventMsgs) /\ Len(sendq') = Len(sendq) + 1 /\ Len(sendq) \in Nat
        BY <2>1, <4>1, Sequences, AddLast
      <4> QED
        BY <4>1, <4>2 DEF ConnectionConstants
    <3> QED
      BY <3>1, <3>2
  <2>3. /\ fwd' \in {"recv", "gone"} /\ held' = 0
        /\ UNCHANGED <<shutdown, lvars, log, seen, skipped, barred, up, down, clientGone, sent>>
    BY <1>2 DEF ForwardPush
  <2> QED
    BY <2>2, <2>3 DEF ConnTypes, TypeOK, lvars
<1>3. CASE ForwardStops
  BY <1>3 DEF ForwardStops, ConnTypes, TypeOK, lvars
<1>4. CASE Broadcast
  <2>1. PICK kind \in Kinds : log' = Append(log, kind)
    BY <1>4 DEF Broadcast
  <2>2. log' \in Seq(Kinds) /\ Len(log') = Len(log) + 1 /\ Len(log) \in Nat
    BY <2>1, Sequences, AddLast
  <2>3. Len(log') <= MaxEvents /\ seen \in 0..Len(log')
    BY <1>4, <2>2 DEF Broadcast, ConnTypes, TypeOK, ConnectionConstants
  <2>4. UNCHANGED <<shutdown, lvars, sendq, fvars, up, down, clientGone, sent>>
    BY <1>4 DEF Broadcast
  <2> QED
    BY <2>2, <2>3, <2>4 DEF ConnTypes, TypeOK, lvars, fvars
<1>5. CASE FireShutdown
  BY <1>5 DEF FireShutdown, ConnTypes, TypeOK, lvars, fvars
<1>6. CASE ClientSends
  <2>1. PICK kind \in FrameKinds \cup Notes : up' = Append(up, Frame(sent + 1, kind))
    BY <1>6 DEF ClientSends
  <2>2. sent' = sent + 1 /\ sent + 1 \in Frames /\ kind \in InKinds
    BY <1>6 DEF ClientSends, Frames, InKinds, ConnTypes, TypeOK, ConnectionConstants
  <2>3. Frame(sent + 1, kind) \in Inbound
    BY <2>2, Messages
  <2>4. up' \in Seq(Inbound) /\ Len(up') = Len(up) + 1 /\ Len(up) \in Nat /\ up' # <<>>
    BY <2>1, <2>3, Sequences, AddLast
  <2>5. Len(up') <= WireCap /\ sent' \in 0..MaxFrames
    BY <1>6, <2>2, <2>4 DEF ClientSends, ConnectionConstants, Frames
  <2>6. UNCHANGED <<shutdown, lvars, sendq, log, fvars, down, clientGone>>
    BY <1>6 DEF ClientSends
  <2> QED
    BY <2>4, <2>5, <2>6 DEF ConnTypes, TypeOK, lvars, fvars
<1>7. CASE ClientReads
  <2>1. Tail(down) \in Seq(Outbound) /\ Len(Tail(down)) = Len(down) - 1 /\ Len(down) \in Nat
    BY <1>7, Sequences, TakeHead DEF ClientReads
  <2>2. Len(down') <= WireCap /\ down' \in Seq(Outbound)
    BY <1>7, <2>1 DEF ClientReads, ConnTypes, TypeOK, ConnectionConstants
  <2> QED
    BY <1>7, <2>2 DEF ClientReads, ConnTypes, TypeOK, lvars, fvars
<1>8. CASE ClientLeaves
  BY <1>8 DEF ClientLeaves, ConnTypes, TypeOK, lvars, fvars
<1> QED
  BY <1>1, <1>2, <1>3, <1>4, <1>5, <1>6, <1>7, <1>8 DEF ForwarderStep

LEMMA TypesKept ==
    ASSUME ConnectionConstants, ConnTypes, [Next]_vars PROVE ConnTypes'
<1>1. CASE UNCHANGED vars
  BY <1>1 DEF ConnTypes, TypeOK, vars, lvars, fvars
<1> QED
  BY <1>1, TypesOfLoop, TypesOfOthers DEF Next

-----------------------------------------------------------------------------
(* Requests keep their order.  A frame is read, handled and answered before  *)
(* the next one is.                                                          *)
LEMMA RequestsUnmoved ==
    ASSUME RequestInv, DOMAIN up' = DOMAIN up, \A i \in DOMAIN up : up'[i].n = up[i].n,
           UNCHANGED <<replied, sent>>,
           Busy' => Busy /\ Number' = Number
    PROVE  RequestInv'
  BY DEF RequestInv, Ascending, Behind, AnsweredBefore, InHandBetween, Replies

LEMMA RequestsKept ==
    ASSUME ConnectionConstants, ConnTypes, RequestInv, [Next]_vars PROVE RequestInv'
<1>1. ASSUME UNCHANGED <<up, replied, sent, loop, hand>> PROVE RequestInv'
  BY <1>1 DEF RequestInv, Ascending, Behind, AnsweredBefore, InHandBetween, Replies, Busy,
     Answering, Number
<1>2. CASE LoopShutdown \/ ReadEnd
  BY <1>2, RequestsUnmoved DEF LoopShutdown, ReadEnd, Close, Busy, Answering
<1>3. CASE LoopOutbound
  <2>1. DOMAIN up' = DOMAIN up /\ \A i \in DOMAIN up : up'[i].n = up[i].n
    <3>1. half => up # <<>>
      BY DEF ConnTypes
    <3> QED
      BY <1>3, <3>1, Torn DEF LoopOutbound
  <2>2. ~Busy'
    <3>1. Head(sendq) \in EventMsgs
      BY <1>3, Sequences, TakeHead DEF LoopOutbound
    <3>2. loop' = "send" /\ "reply" \notin DOMAIN hand'
      BY <1>3, <3>1, Messages DEF LoopOutbound
    <3> QED
      BY <3>2 DEF Busy, Answering
  <2> QED
    BY <1>3, <2>1, <2>2, RequestsUnmoved DEF LoopOutbound
<1>4. CASE LoopOutboundClosed
  <2>1. DOMAIN up' = DOMAIN up /\ \A i \in DOMAIN up : up'[i].n = up[i].n
    <3>1. half => up # <<>>
      BY DEF ConnTypes
    <3> QED
      BY <1>4, <3>1, Torn DEF LoopOutboundClosed
  <2> QED
    BY <1>4, <2>1, RequestsUnmoved DEF LoopOutboundClosed, Busy, Answering, Number
<1>5. CASE ReadFrame
  <2>1. up' = Tail(up) /\ UNCHANGED <<replied, sent>> /\ loop = "select"
    BY <1>5 DEF ReadFrame, InboundTurn
  <2>2. /\ Head(up) \in Inbound /\ Head(up) = up[1] /\ 1 \in DOMAIN up
        /\ \A i \in DOMAIN Tail(up) : i + 1 \in DOMAIN up /\ i \in Nat \ {0}
                                     /\ Tail(up)[i] = up[i + 1]
    BY <1>5, Sequences, TakeHead DEF ReadFrame
  <2>3. Busy' => Number' = up[1].n
    BY <1>5, <2>2, Messages DEF ReadFrame, Close, InboundTurn, Busy, Answering, Number
  <2>4. Ascending' /\ Behind' /\ AnsweredBefore' /\ Replies'
    BY <2>1, <2>2 DEF RequestInv, Ascending, Behind, AnsweredBefore, Replies
  <2>5. InHandBetween'
    <3>1. up[1].n <= sent /\ \A i \in DOMAIN replied : replied[i].reply < up[1].n
      BY <2>2 DEF RequestInv, Behind, AnsweredBefore
    <3>2. \A j \in DOMAIN up' : up[1].n < up'[j].n
      BY <2>1, <2>2 DEF RequestInv, Ascending
    <3> QED
      BY <2>1, <2>3, <3>1, <3>2 DEF InHandBetween
  <2> QED
    BY <2>4, <2>5 DEF RequestInv
<1>6. CASE Handled
  <2>1. Busy' => Busy /\ Number' = Number
    BY <1>6, Messages DEF Handled, Busy, Answering, Number
  <2> QED
    BY <1>6, <2>1, RequestsUnmoved DEF Handled
<1>7. CASE Send
  <2>1. UNCHANGED <<up, sent>> /\ ~Busy'
    BY <1>7 DEF Send, Close, Busy, Answering
  <2>2. CASE replied' = replied
    BY <2>1, <2>2, RequestsUnmoved
  <2>3. CASE replied' # replied
    <3>1. replied' = Append(replied, hand) /\ Answering
      BY <1>7, <2>3 DEF Send, Answering
    <3>2. hand \in ReplyMsgs
      BY <3>1, Messages DEF Answering, ConnTypes, Outbound
    <3>3. /\ DOMAIN replied \subseteq DOMAIN replied' /\ Len(replied) \in Nat
          /\ replied'[Len(replied) + 1] = hand
          /\ \A i \in DOMAIN replied : i \in Nat /\ i < Len(replied) + 1 /\ replied'[i] = replied[i]
          /\ \A i \in DOMAIN replied' : i \in DOMAIN replied \/ i = Len(replied) + 1
      BY <3>1, <3>2, Sequences, AddLast
    <3>4. /\ hand.reply <= sent /\ \A j \in DOMAIN up : hand.reply < up[j].n
          /\ \A i \in DOMAIN replied : replied[i].reply < hand.reply
      BY <3>1 DEF RequestInv, InHandBetween, Busy, Answering, Number
    <3>5. AnsweredBefore'
      BY <2>1, <3>3, <3>4 DEF RequestInv, AnsweredBefore
    <3>6. Replies'
      BY <3>3, <3>4 DEF RequestInv, Replies
    <3>7. Ascending' /\ Behind' /\ InHandBetween'
      BY <2>1 DEF RequestInv, Ascending, Behind, InHandBetween
    <3> QED
      BY <3>5, <3>6, <3>7 DEF RequestInv
  <2> QED
    BY <2>2, <2>3
<1>8. CASE ClientSends
  <2>1. PICK kind \in FrameKinds \cup Notes : up' = Append(up, Frame(sent + 1, kind))
    BY <1>8 DEF ClientSends
  <2>2. /\ sent' = sent + 1 /\ sent \in Nat /\ sent + 1 \in Frames /\ kind \in InKinds
        /\ UNCHANGED <<replied, loop, hand>>
    <3>1. sent \in Nat /\ sent < MaxFrames /\ MaxFrames \in Int
      BY <1>8 DEF ClientSends, ConnTypes, TypeOK, ConnectionConstants
    <3> QED
      BY <1>8, <3>1 DEF ClientSends, Frames, InKinds, lvars
  <2>3. Frame(sent + 1, kind) \in Inbound /\ Frame(sent + 1, kind).n = sent + 1
    BY <2>2, Messages
  <2>4. /\ \A i \in DOMAIN up : up'[i] = up[i] /\ i \in Nat /\ i < Len(up) + 1
        /\ up'[Len(up) + 1].n = sent + 1 /\ Len(up) \in Nat
        /\ \A i \in DOMAIN up' : i \in DOMAIN up \/ i = Len(up) + 1
    BY <2>1, <2>3, Sequences, AddLast
  <2>5. \A i \in DOMAIN up : up[i].n \in Nat
    BY Sequences, ElementOfSeq, LenProperties, Messages DEF Frames
  <2>6. \A i \in DOMAIN replied : replied[i].reply \in Nat
    BY Sequences, ElementOfSeq, LenProperties, Messages DEF Frames
  <2>7. Busy => Number \in Nat
    BY Messages DEF Busy, Answering, Number, ConnTypes, Outbound, Frames
  <2>8. Ascending' /\ Behind' /\ AnsweredBefore' /\ Replies'
    BY <2>2, <2>4, <2>5, <2>6 DEF RequestInv, Ascending, Behind, AnsweredBefore, Replies
  <2>9. InHandBetween'
    BY <2>2, <2>4, <2>5, <2>6, <2>7 DEF RequestInv, InHandBetween, Busy, Answering, Number
  <2> QED
    BY <2>8, <2>9 DEF RequestInv
<1>9. CASE UNCHANGED vars \/ ReadHalf \/ ForwarderStep \/ Broadcast \/ FireShutdown
           \/ ClientReads \/ ClientLeaves
  BY <1>1, <1>9 DEF vars, lvars, ReadHalf, ForwarderStep, ForwardRecv, ForwardPush,
     ForwardStops, Broadcast, FireShutdown, ClientReads, ClientLeaves
<1> QED
  BY <1>2, <1>3, <1>4, <1>5, <1>6, <1>7, <1>8, <1>9 DEF Next, LoopStep

-----------------------------------------------------------------------------
(* The handshake.  Only the reply to a first initialize welcomes, and the    *)
(* gate lets nothing through before it.                                      *)
LEMMA WelcomeUnmoved ==
    ASSUME WelcomeInv, UNCHANGED <<replied, ran, initialized>>, Welcoming' <=> Welcoming,
           loop' # "closed" => loop # "closed"
    PROVE  WelcomeInv'
  BY DEF WelcomeInv, Welcomed

LEMMA WelcomeKept ==
    ASSUME ConnTypes, RequestInv, WelcomeInv, [Next]_vars PROVE WelcomeInv'
<1>1. ASSUME UNCHANGED <<replied, ran, initialized, loop, hand>> PROVE WelcomeInv'
  BY <1>1, WelcomeUnmoved DEF Welcoming, Answering
<1>2. CASE LoopShutdown \/ ReadEnd
  <2>1. loop = "select" /\ loop' = "closed" /\ UNCHANGED <<replied, ran, initialized>>
    BY <1>2 DEF LoopShutdown, ReadEnd, InboundTurn, Close
  <2> QED
    BY <2>1, WelcomeUnmoved DEF Welcoming, Answering
<1>3. CASE LoopOutbound
  <2>1. Head(sendq) \in EventMsgs
    BY <1>3, Sequences, TakeHead DEF LoopOutbound
  <2>2. loop = "select" /\ loop' = "send" /\ "reply" \notin DOMAIN hand'
    BY <1>3, <2>1, Messages DEF LoopOutbound
  <2> QED
    BY <1>3, <2>2, WelcomeUnmoved DEF LoopOutbound, Welcoming, Answering
<1>4. CASE ReadFrame
  <2> DEFINE m == Head(up)
  <2>1. /\ loop = "select" /\ UNCHANGED replied
        /\ \/ UNCHANGED <<initialized, ran>> /\ loop' # "send"
           \/ /\ loop' = "work" /\ ran' = ran \cup {m.n} /\ UNCHANGED initialized
              /\ initialized
           \/ /\ loop' = "send" /\ hand' = Reply(m.n, Gate(m.kind)) /\ UNCHANGED ran
              /\ initialized' = (initialized \/ Gate(m.kind) = "welcome")
    BY <1>4, Codings DEF ReadFrame, InboundTurn, Close
  <2>2. ~Welcoming /\ (Welcomed => initialized) /\ (initialized => Welcomed)
    BY <2>1 DEF WelcomeInv, Welcoming, Answering
  <2>3. CASE UNCHANGED <<initialized, ran>> /\ loop' # "send"
    BY <2>1, <2>2, <2>3, WelcomeUnmoved DEF Welcoming, Answering
  <2>4. CASE loop' = "work" /\ ran' = ran \cup {m.n} /\ UNCHANGED initialized /\ initialized
    <3>1. PICK i \in DOMAIN replied : replied[i].code = "welcome"
      BY <2>2, <2>4 DEF Welcomed
    <3>2. m = up[1] /\ 1 \in DOMAIN up
      BY <1>4, Sequences, TakeHead DEF ReadFrame
    <3>3. replied[i].reply < m.n
      BY <3>2 DEF RequestInv, AnsweredBefore
    <3> QED
      BY <2>1, <2>2, <2>4, <3>1, <3>3 DEF WelcomeInv, Welcoming, Welcomed, Answering
  <2>5. CASE /\ loop' = "send" /\ hand' = Reply(m.n, Gate(m.kind)) /\ UNCHANGED ran
             /\ initialized' = (initialized \/ Gate(m.kind) = "welcome")
    <3>1. Welcoming' <=> Gate(m.kind) = "welcome"
      BY <2>5, Messages DEF Welcoming, Answering
    <3>2. Gate(m.kind) = "welcome" => ~initialized
      BY Codings
    <3>3. Welcomed' <=> Welcomed
      BY <2>1 DEF Welcomed
    <3>4. initialized \in BOOLEAN
      BY DEF ConnTypes, TypeOK
    <3> QED
      BY <2>1, <2>2, <2>5, <3>1, <3>2, <3>3, <3>4 DEF WelcomeInv
  <2> QED
    BY <2>1, <2>3, <2>4, <2>5
<1>5. CASE Handled
  <2>1. ~Welcoming /\ loop = "work" /\ UNCHANGED <<replied, ran, initialized>>
    BY <1>5 DEF Handled, Welcoming, Answering
  <2>2. ~Welcoming'
    <3>1. CASE loop' = "select"
      BY <3>1 DEF Welcoming, Answering
    <3>2. CASE loop' # "select"
      <4>1. PICK code \in Routed(hand.kind) : hand' = Reply(hand.n, code)
        BY <1>5, <3>2 DEF Handled
      <4> QED
        BY <4>1, Codings, Messages DEF Welcoming
    <3> QED
      BY <3>1, <3>2
  <2> QED
    BY <2>1, <2>2, WelcomeUnmoved
<1>6. CASE Send
  <2>1. UNCHANGED <<ran, initialized>> /\ ~Answering' /\ loop = "send"
    BY <1>6 DEF Send, Close, Answering
  <2>2. CASE clientGone
    <3>1. replied' = replied /\ loop' = "closed"
      BY <1>6, <2>2 DEF Send, Close
    <3> QED
      BY <2>1, <3>1 DEF WelcomeInv, Welcoming, Welcomed
  <2>3. CASE ~clientGone /\ "reply" \notin DOMAIN hand
    <3>1. replied' = replied /\ ~Welcoming
      BY <1>6, <2>3 DEF Send, Welcoming, Answering
    <3> QED
      BY <2>1, <3>1, WelcomeUnmoved DEF Welcoming
  <2>4. CASE ~clientGone /\ "reply" \in DOMAIN hand
    <3>1. replied' = Append(replied, hand) /\ Answering
      BY <1>6, <2>4 DEF Send, Answering
    <3>2. hand \in ReplyMsgs
      BY <3>1, Messages DEF Answering, ConnTypes, Outbound
    <3>3. /\ DOMAIN replied \subseteq DOMAIN replied' /\ Len(replied) \in Nat
          /\ Len(replied) + 1 \in DOMAIN replied' /\ replied'[Len(replied) + 1] = hand
          /\ \A i \in DOMAIN replied : i \in Nat /\ i < Len(replied) + 1 /\ replied'[i] = replied[i]
          /\ \A i \in DOMAIN replied' : i \in DOMAIN replied \/ i = Len(replied) + 1
      BY <3>1, <3>2, Sequences, AddLast
    <3>4. hand.code = "welcome" <=> Welcoming
      BY <3>1 DEF Welcoming
    <3>5. Welcomed' <=> Welcomed \/ Welcoming
      BY <3>3, <3>4 DEF Welcomed
    <3>6. \A i, j \in DOMAIN replied' :
             replied'[i].code = "welcome" /\ replied'[j].code = "welcome" => i = j
      BY <3>3, <3>4 DEF WelcomeInv, Welcomed
    <3>7. ~Welcoming'
      BY <2>1 DEF Welcoming
    <3>8. \A n \in ran' : \E i \in DOMAIN replied' :
             replied'[i].code = "welcome" /\ replied'[i].reply < n
      BY <2>1, <3>3, <3>4 DEF WelcomeInv
    <3> QED
      BY <2>1, <3>5, <3>6, <3>7, <3>8 DEF WelcomeInv
  <2> QED
    BY <2>2, <2>3, <2>4
<1>7. CASE \/ UNCHANGED vars \/ LoopOutboundClosed \/ ReadHalf \/ ForwarderStep \/ Broadcast
           \/ FireShutdown \/ ClientSends \/ ClientReads \/ ClientLeaves
  BY <1>1, <1>7 DEF vars, lvars, LoopOutboundClosed, ReadHalf, ForwarderStep, ForwardRecv,
     ForwardPush, ForwardStops, Broadcast, FireShutdown, ClientSends, ClientReads, ClientLeaves
<1> QED
  BY <1>2, <1>3, <1>4, <1>5, <1>6, <1>7 DEF Next, LoopStep

-----------------------------------------------------------------------------
(* Events.  What the filter let pass may be shown, and stays so while the    *)
(* engine goes on broadcasting.                                              *)
LEMMA VisibleStays ==
    ASSUME ConnTypes, log' = log \/ \E kind \in Kinds : log' = Append(log, kind)
    PROVE  Len(log') \in Nat /\ Len(log) \in Nat /\ Len(log) <= Len(log')
           /\ \A e : Visible(e) => e \in 1..Len(log') /\ log'[e] \notin InternalEvents
<1>1. Len(log) \in Nat /\ DOMAIN log = 1..Len(log)
  BY Sequences, LenProperties
<1>2. CASE log' = log
  BY <1>1, <1>2 DEF Visible
<1>3. ASSUME NEW kind \in Kinds, log' = Append(log, kind)
      PROVE  Len(log') = Len(log) + 1 /\ \A i \in 1..Len(log) : log'[i] = log[i]
  <2>1. log \in Seq(Kinds)
    BY Sequences
  <2>2. /\ Len(Append(log, kind)) = Len(log) + 1
        /\ \A i \in DOMAIN log : Append(log, kind)[i] = log[i]
    BY <2>1, AddLast
  <2> QED
    BY <1>1, <1>3, <2>2
<1>4. CASE log' # log
  <2>1. Len(log') = Len(log) + 1 /\ \A i \in 1..Len(log) : log'[i] = log[i]
    BY <1>3, <1>4
  <2> QED
    BY <1>1, <2>1 DEF Visible
<1> QED
  BY <1>2, <1>4

LEMMA LogGrows ==
    ASSUME [Next]_vars PROVE log' = log \/ \E kind \in Kinds : log' = Append(log, kind)
<1>1. CASE Broadcast
  BY <1>1 DEF Broadcast
<1>2. CASE LoopStep
  BY <1>2 DEF LoopStep, LoopShutdown, LoopOutbound, LoopOutboundClosed, ReadHalf, ReadFrame,
     ReadEnd, Handled, Send
<1>3. CASE ForwarderStep
  BY <1>3 DEF ForwarderStep, ForwardRecv, ForwardPush, ForwardStops
<1>4. CASE UNCHANGED vars \/ FireShutdown \/ ClientSends \/ ClientReads \/ ClientLeaves
  BY <1>4 DEF vars, FireShutdown, ClientSends, ClientReads, ClientLeaves
<1> QED
  BY <1>1, <1>2, <1>3, <1>4 DEF Next

(* The event in hand of the loop                                             *)
Shipping == loop = "send" /\ "event" \in DOMAIN hand

LEMMA VisibleUnmoved ==
    ASSUME ConnTypes, VisibleInv, [Next]_vars, UNCHANGED <<shown, sendq>>,
           Shipping' => Shipping /\ hand' = hand,
           fwd' = "push" => fwd = "push" /\ held' = held
    PROVE  VisibleInv'
<1>1. \A e : Visible(e) => e \in 1..Len(log') /\ log'[e] \notin InternalEvents
  BY LogGrows, VisibleStays
<1> QED
  BY <1>1 DEF VisibleInv, Visible, Shipping

LEMMA VisibleKept ==
    ASSUME ConnectionConstants, ConnTypes, VisibleInv, [Next]_vars PROVE VisibleInv'
<1>1. CASE LoopOutbound
  <2>1. /\ Head(sendq) = sendq[1] /\ 1 \in DOMAIN sendq
        /\ \A i \in DOMAIN Tail(sendq) : i + 1 \in DOMAIN sendq /\ Tail(sendq)[i] = sendq[i + 1]
    BY <1>1, Sequences, TakeHead DEF LoopOutbound
  <2>2. /\ hand' = Head(sendq) /\ sendq' = Tail(sendq)
        /\ UNCHANGED <<shown, log, fwd, held>>
    BY <1>1 DEF LoopOutbound, fvars
  <2> QED
    BY <2>1, <2>2 DEF VisibleInv, Visible
<1>2. CASE Send
  <2>1. ~Shipping' /\ UNCHANGED <<sendq, log, fwd, held>>
    BY <1>2 DEF Send, Close, Shipping, fvars
  <2>2. CASE shown' = shown
    BY <2>1, <2>2, VisibleUnmoved
  <2>3. CASE shown' # shown
    <3>1. shown' = Append(shown, hand.event) /\ "reply" \notin DOMAIN hand /\ loop = "send"
      BY <1>2, <2>3 DEF Send
    <3>2. hand.event \in Events /\ "event" \in DOMAIN hand
      BY <3>1, Messages DEF ConnTypes, Outbound
    <3>3. /\ shown'[Len(shown) + 1] = hand.event
          /\ \A i \in DOMAIN shown : shown'[i] = shown[i]
          /\ \A i \in DOMAIN shown' : i \in DOMAIN shown \/ i = Len(shown) + 1
      BY <3>1, <3>2, Sequences, AddLast
    <3>4. Visible(hand.event)
      BY <3>1, <3>2 DEF VisibleInv
    <3> QED
      BY <2>1, <3>3, <3>4 DEF VisibleInv, Visible, Shipping
  <2> QED
    BY <2>2, <2>3
<1>3. CASE ForwardRecv
  <2>1. UNCHANGED <<shown, sendq, log, loop, hand>> /\ seen < Len(log) /\ seen \in Nat
        /\ Len(log) \in Nat
    BY <1>3, Sequences, LenProperties DEF ForwardRecv, lvars, ConnTypes, TypeOK
  <2>2. CASE fwd' = "push"
    <3>1. held' = seen + 1 /\ EventMethod(log[seen + 1]) # "none"
      BY <1>3, <2>2 DEF ForwardRecv
    <3>2. \A kind \in InternalEvents : EventMethod(kind) = "none"
      BY DEF EventMethod, InternalEvents, ThreadEvents
    <3> QED
      BY <2>1, <3>1, <3>2 DEF VisibleInv, Visible
  <2>3. CASE fwd' # "push"
    BY <2>1, <2>3, VisibleUnmoved DEF Shipping
  <2> QED
    BY <2>2, <2>3
<1>4. CASE ForwardPush
  <2>1. UNCHANGED <<shown, log, loop, hand>> /\ fwd' # "push" /\ fwd = "push"
    BY <1>4 DEF ForwardPush, lvars
  <2>2. CASE sendq' = sendq
    BY <2>1, <2>2, VisibleUnmoved DEF Shipping
  <2>3. CASE sendq' # sendq
    <3>1. sendq' = Append(sendq, Event(held)) /\ held \in Events
      BY <1>4, <2>3 DEF ForwardPush, ConnTypes, TypeOK
    <3>2. Event(held) \in EventMsgs /\ Event(held).event = held
      BY <3>1, Messages
    <3>3. /\ sendq'[Len(sendq) + 1] = Event(held)
          /\ \A i \in DOMAIN sendq : sendq'[i] = sendq[i]
          /\ \A i \in DOMAIN sendq' : i \in DOMAIN sendq \/ i = Len(sendq) + 1
      BY <3>1, <3>2, Sequences, AddLast
    <3> QED
      BY <2>1, <3>2, <3>3 DEF VisibleInv, Visible
  <2> QED
    BY <2>2, <2>3
<1>5. CASE LoopShutdown \/ ReadEnd \/ LoopOutboundClosed \/ ReadHalf
  BY <1>5, VisibleUnmoved DEF LoopShutdown, ReadEnd, LoopOutboundClosed, ReadHalf, Close,
     Shipping, fvars, InboundTurn
<1>6. CASE ReadFrame
  <2>1. ~Shipping' /\ UNCHANGED <<shown, sendq, fwd, held>>
    <3>1. \A n, code : "event" \notin DOMAIN Reply(n, code)
      BY DEF Reply
    <3> QED
      BY <1>6, <3>1 DEF ReadFrame, Close, Shipping, InboundTurn, fvars
  <2> QED
    BY <2>1, VisibleUnmoved
<1>7. CASE Handled
  <2>1. ~Shipping' /\ UNCHANGED <<shown, sendq, fwd, held>>
    <3>1. \A n, code : "event" \notin DOMAIN Reply(n, code)
      BY DEF Reply
    <3> QED
      BY <1>7, <3>1 DEF Handled, Shipping, fvars
  <2> QED
    BY <2>1, VisibleUnmoved
<1>8. CASE \/ UNCHANGED vars \/ ForwardStops \/ Broadcast \/ FireShutdown \/ ClientSends
           \/ ClientReads \/ ClientLeaves
  <2>1. UNCHANGED <<shown, sendq, loop, hand, held>> /\ (fwd' = "push" => fwd = "push")
    BY <1>8 DEF vars, lvars, fvars, ForwardStops, Broadcast, FireShutdown, ClientSends,
       ClientReads, ClientLeaves
  <2> QED
    BY <2>1, VisibleUnmoved DEF Shipping
<1> QED
  BY <1>1, <1>2, <1>3, <1>4, <1>5, <1>6, <1>7, <1>8 DEF Next, LoopStep, ForwarderStep

(* Only a forwarder that is a full channel behind loses events               *)
LEMMA LagKept ==
    ASSUME ConnectionConstants, ConnTypes, LagInv, [Next]_vars PROVE LagInv'
<1>1. Len(log) \in Nat /\ Len(log') \in Nat /\ Len(log) <= Len(log')
  BY LogGrows, VisibleStays
<1>2. skipped \subseteq Nat
  BY DEF ConnTypes, TypeOK, Events
<1>3. CASE skipped' = skipped
  BY <1>1, <1>2, <1>3 DEF LagInv, ConnectionConstants
<1>4. CASE skipped' # skipped
  <2>1. ForwardRecv
    BY <1>4 DEF Next, LoopStep, ForwarderStep, vars, fvars, LoopShutdown, LoopOutbound,
       LoopOutboundClosed, ReadHalf, ReadFrame, ReadEnd, Handled, Send, ForwardPush,
       ForwardStops, Broadcast, FireShutdown, ClientSends, ClientReads, ClientLeaves
  <2>2. /\ skipped' = skipped \cup (seen + 1)..Oldest /\ log' = log /\ seen \in Nat
        /\ seen < Oldest
    BY <1>4, <2>1 DEF ForwardRecv, ConnTypes, TypeOK
  <2>3. \A e \in (seen + 1)..Oldest : e \in Nat /\ e + BroadcastCap <= Len(log)
    BY <1>1, <2>2 DEF Oldest, ConnectionConstants
  <2> QED
    BY <2>2, <2>3 DEF LagInv
<1> QED
  BY <1>3, <1>4

-----------------------------------------------------------------------------
(* Every event has one place: shown, in the loop's hand, queued behind it,   *)
(* or held by the forwarder; moving on changes the place and not the order.  *)
QueuedEvents == [i \in 1..Len(sendq) |-> sendq[i].event]
InHand == IF Shipping THEN <<hand.event>> ELSE <<>>
Held == IF fwd = "push" THEN <<held>> ELSE <<>>
Passed == shown \o ((InHand \o QueuedEvents) \o Held)
Accounted ==
    /\ \A i, j \in 1..Len(Passed) : i < j => Passed[i] < Passed[j]
    /\ ToSet(Passed) \cup skipped \cup barred = 1..seen
    /\ ToSet(Passed) \cap (skipped \cup barred) = {}

LEMMA AccountedIs == EventsAccounted <=> (loop # "closed" => Accounted)
  BY DEF EventsAccounted, InFlight, Accounted, Passed, InHand, QueuedEvents, Held, Shipping

LEMMA AccountedNext == EventsAccounted' <=> (loop' # "closed" => Accounted')
  BY DEF EventsAccounted, InFlight, Accounted, Passed, InHand, QueuedEvents, Held, Shipping

LEMMA Concats == \A s, t, u \in Seq(Nat) :
    (s \o t) \o u = s \o (t \o u) /\ s \o t \in Seq(Nat) /\ s \o <<>> = s /\ <<>> \o s = s
  BY ConcatAssociative, ConcatProperties, ConcatEmptySeq

LEMMA Regroup == \A s, t, u \in Seq(Nat) : (s \o t) \o u = s \o (t \o u)
  BY ConcatAssociative

LEMMA PartsOfPassed ==
    ASSUME ConnTypes
    PROVE  /\ shown \in Seq(Nat) /\ InHand \in Seq(Nat) /\ QueuedEvents \in Seq(Nat)
           /\ Held \in Seq(Nat) /\ Passed \in Seq(Nat)
<1>1. shown \in Seq(Nat)
  <2>1. shown \in Seq(Events) /\ Events \subseteq Nat
    BY Sequences DEF Events
  <2> HIDE DEF Events
  <2> QED
    BY <2>1, SeqMonotonic
<1>2. \A e \in Nat : <<e>> \in Seq(Nat)
  OBVIOUS
<1>3. Held \in Seq(Nat)
  BY <1>2, EmptySeq DEF Held, ConnTypes, TypeOK, Events
<1>4. InHand \in Seq(Nat)
  <2>1. Shipping => hand.event \in Nat
    BY Messages DEF Shipping, ConnTypes, Outbound, Events
  <2> QED
    BY <1>2, <2>1, EmptySeq DEF InHand
<1>5. QueuedEvents \in Seq(Nat)
  <2>1. Len(sendq) \in Nat /\ \A i \in 1..Len(sendq) : sendq[i] \in EventMsgs
    BY Sequences, LenProperties, ElementOfSeq
  <2>2. \A i \in 1..Len(sendq) : sendq[i].event \in Nat
    BY <2>1, Messages DEF Events
  <2> QED
    BY <2>1, <2>2, IsASeq DEF QueuedEvents
<1>6. Passed \in Seq(Nat)
  BY <1>1, <1>3, <1>4, <1>5, ConcatProperties DEF Passed
<1> QED
  BY <1>1, <1>3, <1>4, <1>5, <1>6

LEMMA Regrouped ==
    ASSUME ConnTypes
    PROVE  /\ Passed = shown \o (InHand \o (QueuedEvents \o Held))
           /\ Passed = (shown \o InHand) \o (QueuedEvents \o Held)
           /\ QueuedEvents \o Held \in Seq(Nat) /\ InHand \o (QueuedEvents \o Held) \in Seq(Nat)
<1>1. /\ shown \in Seq(Nat) /\ InHand \in Seq(Nat) /\ QueuedEvents \in Seq(Nat)
      /\ Held \in Seq(Nat)
  BY PartsOfPassed
<1>2. QueuedEvents \o Held \in Seq(Nat)
  BY <1>1, Concats
<1>3. InHand \o (QueuedEvents \o Held) \in Seq(Nat)
  BY <1>1, <1>2, Concats
<1>4. (InHand \o QueuedEvents) \o Held = InHand \o (QueuedEvents \o Held)
  BY <1>1, Regroup, Zenon
<1>5. (shown \o InHand) \o (QueuedEvents \o Held) = shown \o (InHand \o (QueuedEvents \o Held))
  BY <1>1, <1>2, Regroup, Zenon
<1> QED
  BY <1>2, <1>3, <1>4, <1>5 DEF Passed

(* Adding the next event at the end, and moving the boundaries of the parts  *)
LEMMA QueueTail ==
    ASSUME ConnTypes, sendq # <<>>, sendq' = Tail(sendq)
    PROVE  QueuedEvents = <<Head(sendq).event>> \o QueuedEvents'
<1> DEFINE first == <<Head(sendq).event>>
<1>1. /\ Len(Tail(sendq)) = Len(sendq) - 1 /\ Len(sendq) \in Nat /\ Head(sendq) = sendq[1]
      /\ \A i \in 1..Len(Tail(sendq)) : Tail(sendq)[i] = sendq[i + 1]
      /\ Head(sendq) \in EventMsgs /\ Tail(sendq) \in Seq(EventMsgs) /\ Len(sendq) > 0
  BY Sequences, TakeHead, HeadTailProperties, EmptySeq
<1>2. Head(sendq).event \in Nat
  BY <1>1, Messages DEF Events
<1>3. first \in Seq(Nat) /\ Len(first) = 1 /\ first[1] = sendq[1].event
  BY <1>1, <1>2
<1> HIDE DEF first
<1>4. QueuedEvents \in Seq(Nat) /\ Len(QueuedEvents) = Len(sendq)
      /\ \A i \in 1..Len(sendq) : QueuedEvents[i] = sendq[i].event
  <2>1. QueuedEvents \in Seq(Nat)
    BY PartsOfPassed
  <2> QED
    BY <1>1, <2>1, LenProperties DEF QueuedEvents
<1>5. QueuedEvents' \in Seq(Nat) /\ Len(QueuedEvents') = Len(sendq) - 1
      /\ \A i \in 1..(Len(sendq) - 1) : QueuedEvents'[i] = sendq[i + 1].event
  <2>1. QueuedEvents' = [i \in 1..(Len(sendq) - 1) |-> sendq[i + 1].event]
    BY <1>1 DEF QueuedEvents
  <2>2. \A i \in 1..(Len(sendq) - 1) : sendq[i + 1].event \in Nat
    <3>1. \A i \in 1..Len(sendq) : sendq[i] \in EventMsgs
      BY Sequences, ElementOfSeq
    <3>2. \A i \in 1..(Len(sendq) - 1) : i + 1 \in 1..Len(sendq)
      BY <1>1
    <3> QED
      BY <3>1, <3>2, Messages DEF Events
  <2>3. Len(sendq) - 1 \in Nat
    BY <1>1
  <2>4. QueuedEvents' \in Seq(Nat)
    BY <2>1, <2>2, <2>3, IsASeq
  <2> QED
    BY <2>1, <2>3, <2>4, LenProperties
<1>6. /\ first \o QueuedEvents' \in Seq(Nat)
      /\ Len(first \o QueuedEvents') = Len(sendq)
      /\ \A i \in 1..Len(sendq) : (first \o QueuedEvents')[i] = sendq[i].event
  <2>1. /\ first \o QueuedEvents' \in Seq(Nat)
        /\ Len(first \o QueuedEvents') = Len(first) + Len(QueuedEvents')
        /\ \A i \in 1..(Len(first) + Len(QueuedEvents')) :
              (first \o QueuedEvents')[i] =
                 IF i <= Len(first) THEN first[i] ELSE QueuedEvents'[i - Len(first)]
    BY <1>3, <1>5, ConcatProperties
  <2>2. \A i \in 1..Len(sendq) : i <= 1 => i = 1
    OBVIOUS
  <2>3. \A i \in 1..Len(sendq) : ~(i <= 1) => i - 1 \in 1..(Len(sendq) - 1) /\ (i - 1) + 1 = i
    BY <1>1
  <2> QED
    BY <1>1, <1>3, <1>5, <2>1, <2>2, <2>3
<1> QED
  BY <1>4, <1>6, SeqEqual DEF first

LEMMA QueueAppend ==
    ASSUME ConnTypes, NEW e \in Events, sendq' = Append(sendq, Event(e))
    PROVE  QueuedEvents' = QueuedEvents \o <<e>>
<1>1. Event(e) \in EventMsgs /\ Event(e).event = e /\ e \in Nat
  BY Messages DEF Events
<1>2. /\ Len(sendq') = Len(sendq) + 1 /\ Len(sendq) \in Nat /\ sendq' \in Seq(EventMsgs)
      /\ \A i \in 1..Len(sendq) : sendq'[i] = sendq[i]
      /\ sendq'[Len(sendq) + 1] = Event(e)
  BY <1>1, Sequences, AppendProperties, LenProperties
<1>3. QueuedEvents \in Seq(Nat) /\ Len(QueuedEvents) = Len(sendq)
      /\ \A i \in 1..Len(sendq) : QueuedEvents[i] = sendq[i].event
  <2>1. QueuedEvents \in Seq(Nat)
    BY PartsOfPassed
  <2> QED
    BY <1>2, <2>1, LenProperties DEF QueuedEvents
<1>4. QueuedEvents' = [i \in 1..(Len(sendq) + 1) |-> sendq'[i].event]
  BY <1>2 DEF QueuedEvents
<1>5. /\ Append(QueuedEvents, e) \in Seq(Nat)
      /\ Len(Append(QueuedEvents, e)) = Len(sendq) + 1
      /\ \A i \in 1..Len(sendq) : Append(QueuedEvents, e)[i] = sendq[i].event
      /\ Append(QueuedEvents, e)[Len(sendq) + 1] = e
  BY <1>1, <1>3, AppendProperties
<1>6. \A i \in 1..(Len(sendq) + 1) : sendq'[i].event = Append(QueuedEvents, e)[i]
  <2>1. \A i \in 1..(Len(sendq) + 1) : i \in 1..Len(sendq) \/ i = Len(sendq) + 1
    BY <1>2
  <2> QED
    BY <1>1, <1>2, <1>5, <2>1
<1>7. Append(QueuedEvents, e) = [i \in 1..(Len(sendq) + 1) |-> Append(QueuedEvents, e)[i]]
  BY <1>2, <1>5, LenProperties
<1>8. QueuedEvents' = Append(QueuedEvents, e)
  BY <1>4, <1>6, <1>7
<1> QED
  BY <1>1, <1>3, <1>8, AppendIsConcat

(* What the account of a step says, by what the step does to it              *)
LEMMA SameAccount ==
    ASSUME EventsAccounted, loop' # "closed" => loop # "closed" /\ Passed' = Passed,
           UNCHANGED <<seen, skipped, barred>>
    PROVE  EventsAccounted'
<1>1. ASSUME loop' # "closed" PROVE Accounted'
  BY <1>1, AccountedIs DEF Accounted
<1> QED
  BY <1>1, AccountedNext

LEMMA NextEventPassed ==
    ASSUME ConnTypes, Accounted, Passed' = Append(Passed, seen + 1), seen' = seen + 1,
           UNCHANGED <<skipped, barred>>
    PROVE  Accounted'
<1>1. Passed \in Seq(Nat) /\ seen \in Nat /\ seen + 1 \in Nat
  BY PartsOfPassed DEF ConnTypes, TypeOK
<1>2. /\ Len(Passed') = Len(Passed) + 1 /\ Len(Passed) \in Nat
      /\ \A i \in 1..Len(Passed) : Passed'[i] = Passed[i]
      /\ Passed'[Len(Passed) + 1] = seen + 1 /\ Passed' \in Seq(Nat)
  BY <1>1, AppendProperties, LenProperties
<1>3. DOMAIN Passed = 1..Len(Passed) /\ DOMAIN Passed' = 1..(Len(Passed) + 1)
  BY <1>1, <1>2, LenProperties
<1>4. ToSet(Passed') = ToSet(Passed) \cup {seen + 1}
  BY <1>2, <1>3 DEF ToSet
<1>5. \A e \in ToSet(Passed) \cup skipped \cup barred : e \in Nat /\ e < seen + 1
  BY <1>1 DEF Accounted
<1>6. \A i \in 1..Len(Passed) : Passed[i] \in Nat /\ Passed[i] < seen + 1
  BY <1>3, <1>5 DEF ToSet
<1>7. \A i, j \in 1..Len(Passed') : i < j => Passed'[i] < Passed'[j]
  <2> SUFFICES ASSUME NEW i \in 1..(Len(Passed) + 1), NEW j \in 1..(Len(Passed) + 1), i < j
               PROVE  Passed'[i] < Passed'[j]
    BY <1>2
  <2>1. i \in 1..Len(Passed)
    BY <1>2
  <2>2. CASE j = Len(Passed) + 1
    BY <1>2, <1>6, <2>1, <2>2
  <2>3. CASE j # Len(Passed) + 1
    <3>1. j \in 1..Len(Passed)
      BY <1>2, <2>3
    <3> QED
      BY <1>2, <2>1, <3>1 DEF Accounted
  <2> QED
    BY <2>2, <2>3
<1>8. ToSet(Passed') \cup skipped' \cup barred' = 1..seen'
  <2>1. 1..(seen + 1) = (1..seen) \cup {seen + 1}
    BY <1>1
  <2> QED
    BY <1>4, <2>1 DEF Accounted
<1>9. ToSet(Passed') \cap (skipped' \cup barred') = {}
  BY <1>4, <1>5 DEF Accounted
<1> QED
  BY <1>7, <1>8, <1>9 DEF Accounted

LEMMA NextEventsLost ==
    ASSUME ConnTypes, Accounted, Passed' = Passed, NEW last \in Nat, last > seen,
           seen' = last, skipped' \cup barred' = skipped \cup barred \cup (seen + 1)..last
    PROVE  Accounted'
<1>1. seen \in Nat
  BY DEF ConnTypes, TypeOK
<1>2. \A e \in ToSet(Passed) : e \in Nat /\ e < seen + 1
  BY <1>1 DEF Accounted
<1>3. 1..last = (1..seen) \cup (seen + 1)..last
  BY <1>1
<1>4. ToSet(Passed') \cup skipped' \cup barred' = 1..seen'
  BY <1>3 DEF Accounted
<1>5. ToSet(Passed') \cap (skipped' \cup barred') = {}
  <2>1. \A e \in (seen + 1)..last : e \notin ToSet(Passed)
    BY <1>1, <1>2
  <2> QED
    BY <2>1 DEF Accounted
<1> QED
  BY <1>4, <1>5 DEF Accounted

LEMMA AccountKept ==
    ASSUME ConnectionConstants, ConnTypes, EventsAccounted, [Next]_vars PROVE EventsAccounted'
<1>p. /\ shown \in Seq(Nat) /\ InHand \in Seq(Nat) /\ QueuedEvents \in Seq(Nat)
      /\ Held \in Seq(Nat) /\ Passed \in Seq(Nat) /\ InHand \o QueuedEvents \in Seq(Nat)
  BY PartsOfPassed, Concats
<1>1. CASE LoopShutdown \/ ReadEnd
  BY <1>1, SameAccount DEF LoopShutdown, ReadEnd, Close, fvars
<1>2. CASE LoopOutbound
  <2>1. loop = "select" /\ sendq # <<>> /\ hand' = Head(sendq) /\ sendq' = Tail(sendq)
        /\ loop' = "send" /\ UNCHANGED <<shown, fvars>>
    BY <1>2 DEF LoopOutbound
  <2>2. Head(sendq) \in EventMsgs
    BY <2>1, Sequences, TakeHead
  <2>3. InHand = <<>> /\ InHand' = <<Head(sendq).event>> /\ Held' = Held
    BY <2>1, <2>2, Messages DEF InHand, Shipping, Held, fvars
  <2>4. QueuedEvents = InHand' \o QueuedEvents'
    BY <2>1, <2>3, QueueTail
  <2>5. Passed' = Passed
    BY <2>1, <2>3, <2>4, <1>p, Concats DEF Passed
  <2> QED
    BY <2>1, <2>5, SameAccount DEF fvars
<1>3. CASE LoopOutboundClosed \/ ReadHalf
  <2>1. UNCHANGED <<loop, hand, shown, sendq, fvars>>
    BY <1>3 DEF LoopOutboundClosed, ReadHalf
  <2> QED
    BY <2>1, SameAccount DEF Passed, InHand, Shipping, QueuedEvents, Held, fvars
<1>4. CASE ReadFrame \/ Handled
  <2>1. loop # "closed" /\ ~Shipping /\ ~Shipping' /\ UNCHANGED <<shown, sendq, fvars>>
    <3>1. \A n, code : "event" \notin DOMAIN Reply(n, code)
      BY DEF Reply
    <3> QED
      BY <1>4, <3>1 DEF ReadFrame, Handled, Close, Shipping, InboundTurn
  <2> QED
    BY <2>1, SameAccount DEF Passed, InHand, QueuedEvents, Held, fvars
<1>5. CASE Send
  <2>1. loop = "send" /\ hand \in Outbound /\ UNCHANGED <<sendq, fvars>>
    BY <1>5 DEF Send, ConnTypes
  <2>2. CASE clientGone
    BY <1>5, <2>1, <2>2, SameAccount DEF Send, Close, fvars
  <2>3. CASE ~clientGone /\ "reply" \in DOMAIN hand
    <3>1. ~Shipping /\ ~Shipping' /\ shown' = shown
      BY <1>5, <2>1, <2>3, Messages DEF Send, Shipping, Outbound
    <3> QED
      BY <2>1, <3>1, SameAccount DEF Passed, InHand, QueuedEvents, Held, fvars
  <2>4. CASE ~clientGone /\ "reply" \notin DOMAIN hand
    <3>1. Shipping /\ ~Shipping' /\ shown' = Append(shown, hand.event) /\ hand.event \in Nat
      BY <1>5, <2>1, <2>4, Messages DEF Send, Shipping, Outbound, Events
    <3>2. InHand = <<hand.event>> /\ InHand' = <<>> /\ UNCHANGED <<QueuedEvents, Held>>
      BY <2>1, <3>1 DEF InHand, QueuedEvents, Held, fvars
    <3>3. shown' = shown \o InHand
      BY <1>p, <3>1, <3>2, AppendIsConcat
    <3>4. <<>> \o QueuedEvents = QueuedEvents
      BY <1>p, Concats
    <3>5. Passed' = (shown \o InHand) \o (QueuedEvents \o Held)
      BY <3>2, <3>3, <3>4 DEF Passed
    <3>6. Passed' = Passed
      BY <3>5, Regrouped
    <3> QED
      BY <2>1, <3>6, SameAccount DEF fvars
  <2> QED
    BY <2>2, <2>3, <2>4
<1>6. CASE ForwardRecv
  <2>1. /\ fwd = "recv" /\ seen < Len(log) /\ seen \in Nat /\ Len(log) \in Nat
        /\ UNCHANGED <<loop, hand, shown, sendq, log>>
    BY <1>6, Sequences, LenProperties DEF ForwardRecv, lvars, ConnTypes, TypeOK
  <2>2. Held = <<>> /\ UNCHANGED <<InHand, QueuedEvents>>
    BY <2>1 DEF Held, InHand, Shipping, QueuedEvents
  <2> SUFFICES ASSUME Accounted PROVE Accounted'
    BY <2>1, AccountedIs, AccountedNext
  <2>3. CASE seen < Oldest
    <3>1. seen' = Oldest /\ skipped' = skipped \cup (seen + 1)..Oldest
          /\ UNCHANGED <<fwd, held, barred>>
      BY <1>6, <2>3 DEF ForwardRecv
    <3>2. Passed' = Passed
      BY <2>1, <2>2, <3>1 DEF Passed, Held
    <3>3. Oldest \in Nat
      BY <2>1 DEF Oldest, ConnectionConstants
    <3> QED
      BY <2>3, <3>1, <3>2, <3>3, NextEventsLost
  <2>4. CASE ~(seen < Oldest) /\ fwd' = "push"
    <3>1. seen' = seen + 1 /\ UNCHANGED <<skipped, barred>> /\ held' = seen + 1
      BY <1>6, <2>1, <2>4 DEF ForwardRecv
    <3>2. Held' = <<seen + 1>>
      BY <2>4, <3>1 DEF Held
    <3>3. Passed = shown \o (InHand \o QueuedEvents)
      BY <2>2, <1>p, Concats DEF Passed
    <3>4. Passed' = shown \o ((InHand \o QueuedEvents) \o <<seen + 1>>)
      BY <2>1, <2>2, <3>2 DEF Passed
    <3>5. seen + 1 \in Nat /\ <<seen + 1>> \in Seq(Nat) /\ InHand \o QueuedEvents \in Seq(Nat)
      BY <2>1, <1>p, Concats
    <3>6. Passed' = Passed \o <<seen + 1>>
      BY <3>3, <3>4, <3>5, <1>p, Concats
    <3>7. Passed' = Append(Passed, seen + 1)
      BY <1>p, <3>5, <3>6, AppendIsConcat
    <3> QED
      BY <3>1, <3>7, NextEventPassed
  <2>5. CASE ~(seen < Oldest) /\ fwd' # "push"
    <3>1. seen' = seen + 1 /\ skipped' = skipped /\ barred' = barred \cup {seen + 1}
          /\ fwd' = fwd
      BY <1>6, <2>5 DEF ForwardRecv
    <3>2. Passed' = Passed
      BY <2>1, <2>2, <3>1 DEF Passed, Held
    <3>3. seen + 1 \in Nat /\ (seen + 1)..(seen + 1) = {seen + 1} /\ seen + 1 > seen
      BY <2>1
    <3> QED
      BY <3>1, <3>2, <3>3, NextEventsLost
  <2> QED
    BY <2>3, <2>4, <2>5
<1>7. CASE ForwardPush
  <2>1. fwd = "push" /\ held \in Events /\ fwd' # "push"
        /\ UNCHANGED <<loop, hand, shown, seen, skipped, barred>>
    BY <1>7 DEF ForwardPush, lvars, ConnTypes, TypeOK
  <2>2. CASE loop = "closed"
    BY <2>1, <2>2, SameAccount
  <2>3. CASE loop # "closed"
    <3>1. sendq' = Append(sendq, Event(held))
      BY <1>7, <2>3 DEF ForwardPush
    <3>2. Held = <<held>> /\ Held' = <<>> /\ InHand' = InHand
      BY <2>1 DEF Held, InHand, Shipping
    <3>3. QueuedEvents' = QueuedEvents \o Held
      BY <2>1, <3>1, <3>2, QueueAppend
    <3>4. (InHand \o (QueuedEvents \o Held)) \o <<>> = InHand \o (QueuedEvents \o Held)
      BY Regrouped, Concats
    <3>5. Passed' = Passed
      BY <2>1, <3>2, <3>3, <3>4, Regrouped DEF Passed
    <3> QED
      BY <2>1, <3>5, SameAccount
  <2> QED
    BY <2>2, <2>3
<1>8. CASE \/ UNCHANGED vars \/ ForwardStops \/ Broadcast \/ FireShutdown \/ ClientSends
           \/ ClientReads \/ ClientLeaves
  <2>1. UNCHANGED <<loop, hand, shown, sendq, seen, held, skipped, barred>>
        /\ (fwd' = "push" <=> fwd = "push")
    BY <1>8 DEF vars, lvars, fvars, ForwardStops, Broadcast, FireShutdown, ClientSends,
       ClientReads, ClientLeaves
  <2> QED
    BY <2>1, SameAccount DEF Passed, InHand, Shipping, QueuedEvents, Held
<1> QED
  BY <1>1, <1>2, <1>3, <1>4, <1>5, <1>6, <1>7, <1>8 DEF Next, LoopStep, ForwarderStep

LEMMA ConnectionKept ==
    ASSUME ConnectionConstants, ConnInv, [Next]_vars PROVE ConnInv'
  BY TypesKept, RequestsKept, WelcomeKept, VisibleKept, LagKept, AccountKept DEF ConnInv

LEMMA ConnectionImplies == ASSUME ConnInv PROVE TypeOK /\ ConnectionOrder
<1>1. /\ DOMAIN replied = 1..Len(replied) /\ Len(replied) \in Nat
      /\ DOMAIN shown = 1..Len(shown)
  BY Sequences, LenProperties DEF ConnInv
<1>2. RepliesInOrder
  BY <1>1 DEF ConnInv, RequestInv, Replies, RepliesInOrder
<1>3. HandshakeFirst
  <2>1. \A i, j \in Welcomes : i = j
    BY <1>1 DEF Welcomes, ConnInv, WelcomeInv
  <2>2. Cardinality(Welcomes) <= 1
    <3>1. CASE Welcomes = {}
      BY <3>1, FS_EmptySet
    <3>2. CASE Welcomes # {}
      <4>1. PICK i : Welcomes = {i}
        BY <2>1, <3>2
      <4>2. Cardinality({i}) = 1
        BY FS_Singleton
      <4> QED
        BY <4>1, <4>2
    <3> QED
      BY <3>1, <3>2
  <2>3. \A n \in ran : \E i \in Welcomes : replied[i].reply < n
    BY <1>1 DEF Welcomes, ConnInv, WelcomeInv
  <2> QED
    BY <2>2, <2>3 DEF HandshakeFirst
<1>4. LossOnlyBehind
  BY <1>1 DEF LossOnlyBehind, ConnInv, VisibleInv, Visible, LagInv
<1> QED
  BY <1>2, <1>3, <1>4 DEF ConnectionOrder, ConnInv, ConnTypes

(* For any events, any frames and any capacities: replies leave in the order *)
(* of their requests, nothing is carried out before the one welcome, and     *)
(* every event the forwarder passed is shown once and in the engine's order, *)
(* on its way there, filtered out, or lost by a forwarder that was a full    *)
(* channel behind (serve_loop.rs, events.rs and initialize.rs).              *)
THEOREM ConnectionIsOrdered ==
    ASSUME ConnectionConstants PROVE Spec => [](TypeOK /\ ConnectionOrder)
<1>1. Init => ConnInv
  BY ConnectionStarts
<1>2. ConnInv /\ [Next]_vars => ConnInv'
  BY ConnectionKept
<1>3. ConnInv => TypeOK /\ ConnectionOrder
  BY ConnectionImplies
<1> QED
  BY <1>1, <1>2, <1>3, PTL DEF Spec
=============================================================================
