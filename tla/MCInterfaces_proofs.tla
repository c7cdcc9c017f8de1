------------------------- MODULE MCInterfaces_proofs -------------------------
(***************************************************************************)
(* The properties of the components at the edges, as MCInterfaces states   *)
(* them of the four side by side, from what is proved of each component:   *)
(* a behaviour is about one of them, and the others stand still.  The      *)
(* proof about ServerListener is given here, those of the others in        *)
(* modules of their own.                                                   *)
(***************************************************************************)
EXTENDS MCInterfaces, TLAPS

ClientP == INSTANCE NativeClient_proofs
ConnP == INSTANCE ServerConnection_proofs
HandleP == INSTANCE EngineHandle_proofs WITH Api <- Registered, Requests <- HandleRequests

-----------------------------------------------------------------------------
(* Each component of MCInterfaces is the one its proofs are about            *)
LEMMA SameEvents ==
    /\ \A kind : Conn!EventMethod(kind) = ConnP!EventMethod(kind)
    /\ Conn!InternalEvents = ConnP!InternalEvents
  BY DEF Conn!EventMethod, ConnP!EventMethod, Conn!InternalEvents, ConnP!InternalEvents,
     Conn!ThreadEvents, ConnP!ThreadEvents, Conn!TurnEvents, ConnP!TurnEvents

LEMMA SameConnection ==
    /\ Conn!Init => ConnP!Init
    /\ [Conn!Next]_(Conn!vars) => [ConnP!Next]_(ConnP!vars)
  BY SameEvents DEF Conn!FrameKinds, ConnP!FrameKinds, Conn!Notes, ConnP!Notes, Conn!lvars,
     ConnP!lvars, Conn!fvars, ConnP!fvars, Conn!vars, ConnP!vars, Conn!Frame,
     ConnP!Frame, Conn!Event, ConnP!Event, Conn!Reply, ConnP!Reply, Conn!Idle,
     ConnP!Idle, Conn!Init, ConnP!Init, Conn!Allows, ConnP!Allows,
     Conn!HandleInitialize, ConnP!HandleInitialize, Conn!IsInit, ConnP!IsInit,
     Conn!Gate, ConnP!Gate, Conn!Routed, ConnP!Routed, Conn!Close, ConnP!Close,
     Conn!LoopShutdown, ConnP!LoopShutdown, Conn!Tear, ConnP!Tear, Conn!LoopOutbound,
     ConnP!LoopOutbound, Conn!LoopOutboundClosed, ConnP!LoopOutboundClosed,
     Conn!InboundTurn, ConnP!InboundTurn, Conn!ReadHalf, ConnP!ReadHalf,
     Conn!ReadFrame, ConnP!ReadFrame, Conn!ReadEnd, ConnP!ReadEnd, Conn!Handled,
     ConnP!Handled, Conn!Send, ConnP!Send, Conn!Oldest, ConnP!Oldest,
     Conn!ForwardRecv, ConnP!ForwardRecv, Conn!ForwardPush, ConnP!ForwardPush,
     Conn!ForwardStops, ConnP!ForwardStops, Conn!Broadcast, ConnP!Broadcast,
     Conn!FireShutdown, ConnP!FireShutdown, Conn!ClientSends, ConnP!ClientSends,
     Conn!ClientReads, ConnP!ClientReads, Conn!ClientLeaves, ConnP!ClientLeaves,
     Conn!LoopStep, ConnP!LoopStep, Conn!ForwarderStep, ConnP!ForwarderStep,
     Conn!Next, ConnP!Next

LEMMA SameClient ==
    /\ Client!Init => ClientP!Init
    /\ [Client!Next]_(Client!vars) => [ClientP!Next]_(ClientP!vars)
  BY DEF Client!cvars, ClientP!cvars, Client!rvars, ClientP!rvars, Client!evars,
     ClientP!evars, Client!nvars, ClientP!nvars, Client!vars, ClientP!vars,
     Client!AllCalls, ClientP!AllCalls, Client!NoReq, ClientP!NoReq, Client!Msg,
     ClientP!Msg, Client!QueueOpen, ClientP!QueueOpen, Client!InLoop, ClientP!InLoop,
     Client!Init, ClientP!Init, Client!Register, ClientP!Register, Client!Push,
     ClientP!Push, Client!Return, ClientP!Return, Client!HandshakeFails,
     ClientP!HandshakeFails, Client!HandshakeAnswered, ClientP!HandshakeAnswered,
     Client!SendInitialized, ClientP!SendInitialized, Client!DropLast, ClientP!DropLast,
     Client!Shutdown, ClientP!Shutdown, Client!ShutdownReturns, ClientP!ShutdownReturns,
     Client!Resolve, ClientP!Resolve, Client!Drainers, ClientP!Drainers,
     Client!Take, ClientP!Take, Client!Fill, ClientP!Fill, Client!TeardownFill,
     ClientP!TeardownFill, Client!WriterFills, ClientP!WriterFills,
     Client!LeaveLoop, ClientP!LeaveLoop, Client!Read, ClientP!Read,
     Client!ReaderSeesEnd, ClientP!ReaderSeesEnd, Client!ReplyNotFound,
     ClientP!ReplyNotFound, Client!InsertHandle, ClientP!InsertHandle,
     Client!TeardownDrain, ClientP!TeardownDrain, Client!TeardownAbort,
     ClientP!TeardownAbort, Client!TeardownAnnounce, ClientP!TeardownAnnounce,
     Client!TeardownSignal, ClientP!TeardownSignal, Client!SetReverseHandler,
     ClientP!SetReverseHandler, Client!HandlerReplies, ClientP!HandlerReplies,
     Client!HandlerCleansUp, ClientP!HandlerCleansUp, Client!Write, ClientP!Write,
     Client!WriterDrains, ClientP!WriterDrains, Client!WriterDrops, ClientP!WriterDrops,
     Client!Subscribe, ClientP!Subscribe, Client!NextEvent, ClientP!NextEvent,
     Client!PeerAnswers, ClientP!PeerAnswers, Client!PeerSends, ClientP!PeerSends,
     Client!PeerLeaves, ClientP!PeerLeaves, Client!ReaderStep, ClientP!ReaderStep,
     Client!WriterStep, ClientP!WriterStep, Client!Next, ClientP!Next

LEMMA SameHandle ==
    /\ Handle!Init => HandleP!Init
    /\ [Handle!Next]_(Handle!vars) => [HandleP!Next]_(HandleP!vars)
  BY DEF Handle!callv, HandleP!callv, Handle!modelv, HandleP!modelv, Handle!vars,
     HandleP!vars, Handle!NoModel, HandleP!NoModel, Handle!Init, HandleP!Init,
     Handle!Entry, HandleP!Entry, Handle!Switching, HandleP!Switching, Handle!Finish,
     HandleP!Finish, Handle!Ask, HandleP!Ask, Handle!TakesNoParams,
     HandleP!TakesNoParams, Handle!Decode, HandleP!Decode, Handle!FireAndForget,
     HandleP!FireAndForget, Handle!Send, HandleP!Send, Handle!Return, HandleP!Return,
     Handle!Timeout, HandleP!Timeout, Handle!Take, HandleP!Take, Handle!Dispatch,
     HandleP!Dispatch, Handle!BeginShutdown, HandleP!BeginShutdown, Handle!LoopEnds,
     HandleP!LoopEnds, Handle!AskCatalog, HandleP!AskCatalog, Handle!SwapProvider,
     HandleP!SwapProvider, Handle!SetWindow, HandleP!SetWindow, Handle!SetOutputCap,
     HandleP!SetOutputCap, Handle!CallerStep, HandleP!CallerStep, Handle!ActorStep,
     HandleP!ActorStep, Handle!Next, HandleP!Next, Handle!ChannelErrors,
     HandleP!ChannelErrors, Handle!ClientQueueCalls, HandleP!ClientQueueCalls,
     Handle!Declared, HandleP!Declared

LEMMA SameSets ==
    /\ \A s : Conn!ToSet(s) = ConnP!ToSet(s)
    /\ \A S : Conn!Cardinality(S) = ConnP!Cardinality(S)
  BY DEF Conn!ToSet, ConnP!ToSet, Conn!Cardinality, ConnP!Cardinality

LEMMA SameConnectionOrder ==
    ASSUME ConnP!TypeOK, ConnP!ConnectionOrder
    PROVE  Conn!TypeOK /\ Conn!ConnectionOrder
<1>1. Conn!TypeOK
  BY DEF Conn!TypeOK, ConnP!TypeOK, Conn!Events, ConnP!Events, Conn!Frames, ConnP!Frames
<1>2. Conn!RepliesInOrder
  BY DEF ConnP!ConnectionOrder, Conn!RepliesInOrder, ConnP!RepliesInOrder
<1>3. Conn!HandshakeFirst
  BY SameSets DEF ConnP!ConnectionOrder, Conn!HandshakeFirst, ConnP!HandshakeFirst,
     Conn!Welcomes, ConnP!Welcomes
<1>4. Conn!EventsAccounted
  BY SameSets DEF ConnP!ConnectionOrder, Conn!EventsAccounted, ConnP!EventsAccounted,
     Conn!InFlight, ConnP!InFlight
<1>5. Conn!LossOnlyBehind
  BY SameEvents DEF ConnP!ConnectionOrder, Conn!LossOnlyBehind, ConnP!LossOnlyBehind
<1> QED
  BY <1>1, <1>2, <1>3, <1>4, <1>5 DEF Conn!ConnectionOrder

LEMMA SameTeardown == ClientP!ClientTeardown => Client!ClientTeardown
  BY DEF Client!ClientTeardown, ClientP!ClientTeardown, Client!DrainPrecedesDisconnect,
     ClientP!DrainPrecedesDisconnect, Client!EntriesLeaveFilled,
     ClientP!EntriesLeaveFilled, Client!Holders, ClientP!Holders, Client!Drainers,
     ClientP!Drainers, Client!HandlersStopAtTeardown,
     ClientP!HandlersStopAtTeardown, Client!ShutdownAfterTeardown,
     ClientP!ShutdownAfterTeardown, Client!AllCalls, ClientP!AllCalls

LEMMA SameTypes ==
    /\ ClientP!TypeOK => Client!TypeOK
    /\ HandleP!TypeOK => Handle!TypeOK
  BY DEF Client!TypeOK, ClientP!TypeOK, Client!AllCalls, ClientP!AllCalls,
     Client!Outcomes, ClientP!Outcomes, Client!NoReq, ClientP!NoReq, Client!Drainers,
     ClientP!Drainers, Handle!TypeOK,
     HandleP!TypeOK, Handle!Entry, HandleP!Entry, Handle!Declared, HandleP!Declared,
     Handle!ChannelErrors, HandleP!ChannelErrors

LEMMA SameConsistency == HandleP!HandleConsistent => Handle!HandleConsistent
  BY DEF Handle!HandleConsistent, HandleP!HandleConsistent, Handle!DropsOnlyAtStop,
     HandleP!DropsOnlyAtStop, Handle!LimitsMatchModel, HandleP!LimitsMatchModel,
     Handle!Switching, HandleP!Switching

LEMMA SameClientCalls ==
    /\ ClientP!Remote!Init => Client!Remote!Init
    /\ [ClientP!Remote!Next]_(ClientP!Remote!vars) =>
          UNCHANGED Client!Remote!vars \/ Client!Remote!Next
  BY DEF Client!Remote!vars, ClientP!Remote!vars, Client!Remote!Init,
     ClientP!Remote!Init, Client!Remote!To, ClientP!Remote!To, Client!Remote!Issue,
     ClientP!Remote!Issue, Client!Remote!Execute, ClientP!Remote!Execute,
     Client!Remote!Answer, ClientP!Remote!Answer, Client!Remote!Refuse,
     ClientP!Remote!Refuse, Client!Remote!Fail, ClientP!Remote!Fail, Client!Remote!Next,
     ClientP!Remote!Next, Client!CallState, ClientP!CallState, Client!AllCalls,
     ClientP!AllCalls

LEMMA SameHandleCalls ==
    /\ HandleP!Remote!Init => Handle!Remote!Init
    /\ [HandleP!Remote!Next]_(HandleP!Remote!vars) =>
          UNCHANGED Handle!Remote!vars \/ Handle!Remote!Next
  BY DEF Handle!Remote!vars, HandleP!Remote!vars, Handle!Remote!Init,
     HandleP!Remote!Init, Handle!Remote!To, HandleP!Remote!To, Handle!Remote!Issue,
     HandleP!Remote!Issue, Handle!Remote!Execute, HandleP!Remote!Execute,
     Handle!Remote!Answer, HandleP!Remote!Answer, Handle!Remote!Refuse,
     HandleP!Remote!Refuse, Handle!Remote!Fail, HandleP!Remote!Fail, Handle!Remote!Next,
     HandleP!Remote!Next, Handle!CallState, HandleP!CallState, Handle!Executed,
     HandleP!Executed, Handle!Awaited, HandleP!Awaited, Handle!Entry, HandleP!Entry,
     Handle!FireAndForget, HandleP!FireAndForget, Handle!ClientQueueCalls,
     HandleP!ClientQueueCalls

-----------------------------------------------------------------------------
(* The servers that share a socket path: a server that serves stays          *)
(* reachable at the path, and no permit is lost or made up.                  *)

(* max_connections is at least 1, and no process is the absence of one *)
ListenerConstants ==
    /\ MaxConnections \in Nat \ {0} /\ Backlog \in Nat /\ MaxStarts \in Nat
    /\ Listener!Nobody \notin Procs

(* The startup lock is held from its acquisition until the socket is guarded *)
Starting == {"probe", "stale", "bind", "guard"}
LockInv == \A p \in Procs : lock = p <=> at[p] \in Starting

(* A command that is not running has no server, and only a loop that serves  *)
(* or drains has connections                                                 *)
CommandInv == \A p \in Procs : main[p] = "off" => at[p] = "off"
TasksInv == \A p \in Procs : at[p] \notin {"permit", "accept", "drain"} => open[p] = 0

(* What a starting server found stale stays so: whoever could bind the path  *)
(* would need the lock                                                       *)
StaleInv == \A p \in Procs : at[p] = "stale" => file \notin listening

(* From its bind to its unlink, a server whose file no command took owns the *)
(* path                                                                      *)
Bound == {"guard", "permit", "accept", "drain", "unlink"}
OwnInv == \A p \in Procs : at[p] \in Bound /\ p \notin taken => file = p /\ p \in listening

(* The permits add up in every stage of a start, not only while serving      *)
PermitHeld(p) == IF at[p] = "accept" THEN 1 ELSE 0
PermitInv == \A p \in Procs :
    at[p] # "off" => permits[p] + open[p] + PermitHeld(p) = MaxConnections

ListenerInv ==
    /\ Listener!TypeOK /\ LockInv /\ CommandInv /\ TasksInv /\ StaleInv /\ OwnInv /\ PermitInv

LEMMA ListenerStarts == ASSUME ListenerConstants, Listener!Init PROVE ListenerInv
  BY DEF ListenerConstants, Listener!Init, ListenerInv, Listener!TypeOK, LockInv,
     CommandInv, TasksInv, StaleInv, OwnInv, PermitInv, Listener!Stages, Starting, Bound,
     Listener!Nobody

(* Where the processes are and what they hold is well typed after a step *)
LEMMA ListenerTypesKept ==
    ASSUME ListenerConstants, ListenerInv, [Listener!Next]_(Listener!vars)
    PROVE  Listener!TypeOK'
<1> USE DEF ListenerConstants, ListenerInv, Listener!TypeOK, Listener!Stages
<1>1. ASSUME NEW p \in Procs, Listener!Start(p) PROVE Listener!TypeOK'
  BY <1>1 DEF Listener!Start, Listener!Go
<1>2. ASSUME NEW p \in Procs, Listener!Lock(p) \/ Listener!Probe(p) PROVE Listener!TypeOK'
  BY <1>2 DEF Listener!Lock, Listener!Probe, Listener!Go
<1>3. ASSUME NEW p \in Procs, Listener!RemoveStale(p) \/ Listener!Bind(p)
             \/ Listener!Guard(p)
      PROVE  Listener!TypeOK'
  BY <1>3 DEF Listener!RemoveStale, Listener!Bind, Listener!Guard, Listener!Go,
     Listener!Leave
<1>4. ASSUME NEW p \in Procs, Listener!AcquirePermit(p) PROVE Listener!TypeOK'
  BY <1>4 DEF Listener!AcquirePermit, Listener!Go
<1>5. ASSUME NEW p \in Procs, Listener!Accept(p) PROVE Listener!TypeOK'
  BY <1>5 DEF Listener!Accept, Listener!Go, PermitInv, PermitHeld
<1>6. ASSUME NEW p \in Procs, Listener!AcceptFails(p) \/ Listener!LeaveLoop(p)
      PROVE  Listener!TypeOK'
  BY <1>6 DEF Listener!AcceptFails, Listener!LeaveLoop, Listener!Go, PermitInv, PermitHeld
<1>7. ASSUME NEW p \in Procs, Listener!ConnectionEnds(p) PROVE Listener!TypeOK'
  BY <1>7 DEF Listener!ConnectionEnds, PermitInv, TasksInv, PermitHeld
<1>8. ASSUME NEW p \in Procs, Listener!Drain(p) \/ Listener!Unlink(p) \/ Listener!Close(p)
      PROVE  Listener!TypeOK'
  BY <1>8 DEF Listener!Drain, Listener!Unlink, Listener!Close, Listener!Go, Listener!Leave
<1>9. ASSUME NEW p \in Procs, Listener!StopWatching(p) \/ Listener!Sweep(p)
             \/ Listener!Return(p) \/ Listener!Kill(p)
      PROVE  Listener!TypeOK'
  BY <1>9 DEF Listener!StopWatching, Listener!Sweep, Listener!Return, Listener!Kill,
     Listener!Go, Listener!Leave
<1>10. CASE Listener!Connect
  BY <1>10 DEF Listener!Connect
<1>11. CASE UNCHANGED Listener!vars
  BY <1>11 DEF Listener!vars
<1> QED
  BY <1>1, <1>2, <1>3, <1>4, <1>5, <1>6, <1>7, <1>8, <1>9, <1>10,
     <1>11 DEF Listener!Next, Listener!ServerStep

(* The lock, the command and its server, and the connection tasks *)
LEMMA StagesKept ==
    ASSUME ListenerConstants, ListenerInv, [Listener!Next]_(Listener!vars)
    PROVE  LockInv' /\ CommandInv' /\ TasksInv'
<1> USE DEF ListenerConstants, ListenerInv, Listener!TypeOK, LockInv, CommandInv,
   TasksInv, Starting
<1> DEFINE Goal == LockInv' /\ CommandInv' /\ TasksInv'
<1>1. ASSUME NEW p \in Procs, Listener!Start(p) PROVE Goal
  BY <1>1 DEF Listener!Start, Listener!Go
<1>2. ASSUME NEW p \in Procs, Listener!Lock(p) \/ Listener!Probe(p) PROVE Goal
  BY <1>2 DEF Listener!Lock, Listener!Probe, Listener!Go
<1>3. ASSUME NEW p \in Procs, Listener!RemoveStale(p) \/ Listener!Bind(p)
             \/ Listener!Guard(p)
      PROVE  Goal
  BY <1>3 DEF Listener!RemoveStale, Listener!Bind, Listener!Guard, Listener!Go,
     Listener!Leave
<1>4. ASSUME NEW p \in Procs, Listener!AcquirePermit(p) \/ Listener!Accept(p) PROVE Goal
  BY <1>4 DEF Listener!AcquirePermit, Listener!Accept, Listener!Go
<1>5. ASSUME NEW p \in Procs, Listener!AcceptFails(p) \/ Listener!LeaveLoop(p) PROVE Goal
  BY <1>5 DEF Listener!AcceptFails, Listener!LeaveLoop, Listener!Go
<1>6. ASSUME NEW p \in Procs, Listener!ConnectionEnds(p) PROVE Goal
  BY <1>6 DEF Listener!ConnectionEnds
<1>7. ASSUME NEW p \in Procs, Listener!Drain(p) \/ Listener!Unlink(p) \/ Listener!Close(p)
      PROVE  Goal
  BY <1>7 DEF Listener!Drain, Listener!Unlink, Listener!Close, Listener!Go, Listener!Leave
<1>8. ASSUME NEW p \in Procs, Listener!StopWatching(p) \/ Listener!Sweep(p)
             \/ Listener!Return(p) \/ Listener!Kill(p)
      PROVE  Goal
  BY <1>8 DEF Listener!StopWatching, Listener!Sweep, Listener!Return, Listener!Kill,
     Listener!Go, Listener!Leave
<1>9. CASE Listener!Connect \/ UNCHANGED Listener!vars
  BY <1>9 DEF Listener!Connect, Listener!vars
<1> QED
  BY <1>1, <1>2, <1>3, <1>4, <1>5, <1>6, <1>7, <1>8, <1>9 DEF Listener!Next,
     Listener!ServerStep

(* Who owns the path.  Of the steps of other processes, a removal of a stale *)
(* socket and a bind meet the invariant of the path's owner, an unlink by a  *)
(* server that still owns its file is the owner's, and any other removal     *)
(* enters the owner in taken.                                                *)
LEMMA PathKept ==
    ASSUME ListenerConstants, ListenerInv, [Listener!Next]_(Listener!vars)
    PROVE  StaleInv' /\ OwnInv'
<1> USE DEF ListenerConstants, ListenerInv, Listener!TypeOK, StaleInv, OwnInv, Starting,
   Bound
<1> DEFINE Goal == StaleInv' /\ OwnInv'
<1>1. ASSUME NEW p \in Procs, Listener!Start(p) PROVE Goal
  BY <1>1 DEF Listener!Start, Listener!Go, CommandInv
<1>2. ASSUME NEW p \in Procs, Listener!Lock(p) \/ Listener!Probe(p) PROVE Goal
  BY <1>2 DEF Listener!Lock, Listener!Probe, Listener!Go
<1>3. ASSUME NEW p \in Procs, Listener!RemoveStale(p) PROVE Goal
  BY <1>3 DEF Listener!RemoveStale, Listener!Go, Listener!Leave, LockInv
<1>4. ASSUME NEW p \in Procs, Listener!Bind(p) PROVE Goal
  <2>1. \A q \in Procs : at[q] = "stale" => q = p
    BY <1>4 DEF Listener!Bind, LockInv
  <2> QED
    BY <1>4, <2>1 DEF Listener!Bind, Listener!Go, Listener!Leave
<1>5. ASSUME NEW p \in Procs, Listener!Guard(p) PROVE Goal
  BY <1>5 DEF Listener!Guard, Listener!Go, Listener!Leave
<1>6. ASSUME NEW p \in Procs, Listener!AcquirePermit(p) \/ Listener!Accept(p) PROVE Goal
  BY <1>6 DEF Listener!AcquirePermit, Listener!Accept, Listener!Go
<1>7. ASSUME NEW p \in Procs, Listener!AcceptFails(p) \/ Listener!LeaveLoop(p) PROVE Goal
  BY <1>7 DEF Listener!AcceptFails, Listener!LeaveLoop, Listener!Go
<1>8. ASSUME NEW p \in Procs, Listener!Drain(p) \/ Listener!ConnectionEnds(p) PROVE Goal
  BY <1>8 DEF Listener!Drain, Listener!ConnectionEnds, Listener!Go
<1>9. ASSUME NEW p \in Procs, Listener!Unlink(p) PROVE Goal
  BY <1>9 DEF Listener!Unlink, Listener!Go
<1>10. ASSUME NEW p \in Procs, Listener!Close(p) PROVE Goal
  BY <1>10 DEF Listener!Close, Listener!Go, Listener!Leave
<1>11. ASSUME NEW p \in Procs, Listener!StopWatching(p) \/ Listener!Return(p) PROVE Goal
  BY <1>11 DEF Listener!StopWatching, Listener!Return
<1>12. ASSUME NEW p \in Procs, Listener!Sweep(p) PROVE Goal
  BY <1>12 DEF Listener!Sweep
<1>13. ASSUME NEW p \in Procs, Listener!Kill(p) PROVE Goal
  BY <1>13 DEF Listener!Kill, Listener!Go, Listener!Leave
<1>14. CASE Listener!Connect \/ UNCHANGED Listener!vars
  BY <1>14 DEF Listener!Connect, Listener!vars
<1> QED
  BY <1>1, <1>2, <1>3, <1>4, <1>5, <1>6, <1>7, <1>8, <1>9, <1>10, <1>11, <1>12, <1>13,
     <1>14 DEF Listener!Next, Listener!ServerStep

(* The permits.  A start is given all of them and meets no connection task   *)
LEMMA PermitsKept ==
    ASSUME ListenerConstants, ListenerInv, [Listener!Next]_(Listener!vars)
    PROVE  PermitInv'
<1> USE DEF ListenerConstants, ListenerInv, Listener!TypeOK, PermitInv, PermitHeld
<1>1. ASSUME NEW p \in Procs, Listener!Start(p) PROVE PermitInv'
  BY <1>1 DEF Listener!Start, Listener!Go, CommandInv, TasksInv
<1>2. ASSUME NEW p \in Procs, Listener!Lock(p) \/ Listener!Probe(p) PROVE PermitInv'
  BY <1>2 DEF Listener!Lock, Listener!Probe, Listener!Go
<1>3. ASSUME NEW p \in Procs, Listener!RemoveStale(p) \/ Listener!Bind(p)
             \/ Listener!Guard(p)
      PROVE  PermitInv'
  BY <1>3 DEF Listener!RemoveStale, Listener!Bind, Listener!Guard, Listener!Go,
     Listener!Leave
<1>4. ASSUME NEW p \in Procs, Listener!AcquirePermit(p) \/ Listener!Accept(p)
      PROVE  PermitInv'
  BY <1>4 DEF Listener!AcquirePermit, Listener!Accept, Listener!Go
<1>5. ASSUME NEW p \in Procs, Listener!AcceptFails(p) PROVE PermitInv'
  BY <1>5 DEF Listener!AcceptFails, Listener!Go
<1>6. ASSUME NEW p \in Procs, Listener!LeaveLoop(p) PROVE PermitInv'
  BY <1>6 DEF Listener!LeaveLoop, Listener!Go
<1>7. ASSUME NEW p \in Procs, Listener!ConnectionEnds(p) PROVE PermitInv'
  BY <1>7 DEF Listener!ConnectionEnds
<1>8. ASSUME NEW p \in Procs, Listener!Drain(p) \/ Listener!Unlink(p) \/ Listener!Close(p)
      PROVE  PermitInv'
  BY <1>8 DEF Listener!Drain, Listener!Unlink, Listener!Close, Listener!Go, Listener!Leave
<1>9. ASSUME NEW p \in Procs, Listener!StopWatching(p) \/ Listener!Sweep(p)
             \/ Listener!Return(p) \/ Listener!Kill(p)
      PROVE  PermitInv'
  BY <1>9 DEF Listener!StopWatching, Listener!Sweep, Listener!Return, Listener!Kill,
     Listener!Go, Listener!Leave
<1>10. CASE Listener!Connect \/ UNCHANGED Listener!vars
  BY <1>10 DEF Listener!Connect, Listener!vars
<1> QED
  BY <1>1, <1>2, <1>3, <1>4, <1>5, <1>6, <1>7, <1>8, <1>9, <1>10 DEF Listener!Next,
     Listener!ServerStep

LEMMA ListenerKept ==
    ASSUME ListenerConstants, ListenerInv, [Listener!Next]_(Listener!vars)
    PROVE  ListenerInv'
  BY ListenerTypesKept, StagesKept, PathKept, PermitsKept DEF ListenerInv

LEMMA ListenerImplies == ListenerInv => Listener!TypeOK /\ Listener!ListenerSafe
  BY DEF ListenerInv, Listener!ListenerSafe, Listener!ServingReachable,
     Listener!PermitsBalance, Listener!Serving, OwnInv, Bound, PermitInv, PermitHeld

-----------------------------------------------------------------------------
(* The constants are those the proofs of the components assume               *)
LEMMA ClientConstantsHold == ClientP!ClientConstants
  BY EdgeConstants DEF ClientP!ClientConstants

LEMMA ConnectionConstantsHold == ConnP!ConnectionConstants
  BY EdgeConstants DEF ConnP!ConnectionConstants

LEMMA ListenerConstantsHold == ListenerConstants
  BY EdgeConstants DEF ListenerConstants, Listener!Nobody

LEMMA HandleConstantsHold == HandleP!HandleConstants
<1>1. QueueCap \in Nat /\ Callers \cap {"idle", "stopping", "stopped"} = {}
  BY EdgeConstants
<1>2. ASSUME NEW c \in Callers PROVE HandleRequests[c] \subseteq DOMAIN Registered
  BY AnswersTold DEF HandleRequests, ClientQueueCalls
<1>3. \A r \in DOMAIN Registered :
         (Registered[r].ok \cup Registered[r].err) \cap HandleP!Reserved = {}
  BY AnswersTold DEF HandleP!Reserved, HandleP!ChannelErrors, ChannelErrors
<1>4. \A r \in DOMAIN Registered \cap HandleP!ClientQueueCalls : "accepted" \in Registered[r].ok
  BY AnswersTold DEF HandleP!ClientQueueCalls, ClientQueueCalls
<1> QED
  BY <1>1, <1>2, <1>3, <1>4, AnswersTold DEF HandleP!HandleConstants

-----------------------------------------------------------------------------
(* The component a behaviour is about keeps its invariant; a step of another *)
(* component is not a step of this behaviour.                                *)
EdgesInv ==
    /\ part = "client" => ClientP!ClientInv /\ ClientP!OnceInv
    /\ part = "conn" => ConnP!ConnInv
    /\ part = "listener" => ListenerInv
    /\ part = "handle" => HandleP!HandleInv

LEMMA EdgesStart == Init => EdgesInv
<1> SUFFICES ASSUME Init PROVE EdgesInv
  OBVIOUS
<1>1. ClientP!Init /\ ConnP!Init /\ Listener!Init /\ HandleP!Init
  BY SameClient, SameConnection, SameHandle DEF Init
<1>2. ClientP!ClientInv /\ ClientP!OnceInv
  BY <1>1, ClientConstantsHold, ClientP!ClientStarts, ClientP!OnceStarts
<1>3. ListenerInv
  BY <1>1, ListenerConstantsHold, ListenerStarts
<1>4. HandleP!HandleInv
  BY <1>1, HandleConstantsHold, HandleP!HandleStarts
<1>5. ConnP!ConnInv
  BY <1>1, ConnectionConstantsHold, ConnP!ConnectionStarts
<1> QED
  BY <1>2, <1>3, <1>4, <1>5 DEF EdgesInv

LEMMA StepOfItsPart ==
    ASSUME [Next]_vars
    PROVE  /\ part' = part
           /\ part = "client" => [ClientP!Next]_(ClientP!vars)
           /\ part = "conn" => [ConnP!Next]_(ConnP!vars)
           /\ part = "listener" => [Listener!Next]_(Listener!vars)
           /\ part = "handle" => [HandleP!Next]_(HandleP!vars)
<1>1. part' = part
  BY DEF Next, ClientNext, ConnNext, ListenerNext, HandleNext, vars, OthersClient, OthersConn,
     OthersListener, OthersHandle
<1>2. CASE UNCHANGED vars
  <2>1. UNCHANGED <<clientVars, connVars, listenerVars, handleVars>>
    BY <1>2 DEF vars
  <2>2. UNCHANGED Client!vars
    BY <2>1 DEF clientVars, Client!vars, Client!cvars, Client!rvars, Client!evars, Client!nvars
  <2>3. UNCHANGED Listener!vars
    BY <2>1 DEF listenerVars, Listener!vars
  <2>4. UNCHANGED Handle!vars
    BY <2>1 DEF handleVars, Handle!vars, Handle!callv, Handle!modelv
  <2>5. UNCHANGED Conn!vars
    BY <2>1 DEF connVars, Conn!vars, Conn!lvars, Conn!fvars
  <2> QED
    BY <1>1, <2>2, <2>3, <2>4, <2>5, SameClient, SameConnection, SameHandle
<1>3. CASE Next
  <2>1. part = "client" => Client!Next
    BY <1>3 DEF Next, ClientNext, ConnNext, ListenerNext, HandleNext
  <2>2. part = "listener" => Listener!Next
    BY <1>3 DEF Next, ClientNext, ConnNext, ListenerNext, HandleNext
  <2>3. part = "handle" => Handle!Next
    BY <1>3 DEF Next, ClientNext, ConnNext, ListenerNext, HandleNext
  <2>4. part = "conn" => Conn!Next
    BY <1>3 DEF Next, ClientNext, ConnNext, ListenerNext, HandleNext
  <2> QED
    BY <1>1, <2>1, <2>2, <2>3, <2>4, SameClient, SameConnection, SameHandle
<1> QED
  BY <1>2, <1>3

LEMMA EdgesKept == EdgesInv /\ [Next]_vars => EdgesInv'
<1> SUFFICES ASSUME EdgesInv, [Next]_vars PROVE EdgesInv'
  OBVIOUS
<1>1. part' = part
  BY StepOfItsPart
<1>2. ASSUME part = "client" PROVE ClientP!ClientInv' /\ ClientP!OnceInv'
  <2>1. ClientP!ClientInv /\ ClientP!OnceInv /\ [ClientP!Next]_(ClientP!vars)
    BY <1>2, StepOfItsPart DEF EdgesInv
  <2>2. ClientP!ClientInv'
    BY <2>1, ClientConstantsHold, ClientP!ClientKept
  <2>3. ClientP!OnceInv'
    BY <2>1, <2>2, ClientP!OnceKept DEF ClientP!ClientInv
  <2> QED
    BY <2>2, <2>3
<1>3. ASSUME part = "listener" PROVE ListenerInv'
  BY <1>3, StepOfItsPart, ListenerConstantsHold, ListenerKept DEF EdgesInv
<1>4. ASSUME part = "handle" PROVE HandleP!HandleInv'
  BY <1>4, StepOfItsPart, HandleConstantsHold, HandleP!HandleKept DEF EdgesInv
<1>5. ASSUME part = "conn" PROVE ConnP!ConnInv'
  BY <1>5, StepOfItsPart, ConnectionConstantsHold, ConnP!ConnectionKept DEF EdgesInv
<1> QED
  BY <1>1, <1>2, <1>3, <1>4, <1>5 DEF EdgesInv

LEMMA EdgesImply ==
    EdgesInv => TypesOK /\ ClientTeardown /\ ConnectionOrder /\ ListenerSafe /\ HandleConsistent
<1> SUFFICES ASSUME EdgesInv
             PROVE  /\ TypesOK /\ ClientTeardown /\ ConnectionOrder
                    /\ ListenerSafe /\ HandleConsistent
  OBVIOUS
<1>1. part = "client" => Client!TypeOK /\ Client!ClientTeardown
  BY ClientP!ClientImplies, SameTeardown, SameTypes DEF EdgesInv
<1>2. part = "conn" => Conn!TypeOK /\ Conn!ConnectionOrder
  BY ConnP!ConnectionImplies, SameConnectionOrder DEF EdgesInv
<1>3. part = "listener" => Listener!TypeOK /\ Listener!ListenerSafe
  BY ListenerImplies DEF EdgesInv
<1>4. part = "handle" => Handle!TypeOK /\ Handle!HandleConsistent
  BY HandleP!HandleImplies, SameConsistency, SameTypes DEF EdgesInv
<1> QED
  BY <1>1, <1>2, <1>3, <1>4 DEF TypesOK, ClientTeardown, ConnectionOrder, ListenerSafe,
     HandleConsistent

(* A step of a component is a step of the calls it implements, or none       *)
CallsStep ==
    /\ part = "client" => UNCHANGED Client!Remote!vars \/ Client!Remote!Next
    /\ part = "handle" => UNCHANGED Handle!Remote!vars \/ Handle!Remote!Next

LEMMA EdgesRefine == EdgesInv /\ EdgesInv' /\ [Next]_vars => CallsStep
<1> SUFFICES ASSUME EdgesInv, EdgesInv', [Next]_vars PROVE CallsStep
  OBVIOUS
<1>1. part' = part
  BY StepOfItsPart
<1>2. ASSUME part = "client" PROVE UNCHANGED Client!Remote!vars \/ Client!Remote!Next
  <2>1. ClientP!ClientInv /\ ClientP!OnceInv /\ [ClientP!Next]_(ClientP!vars)
    BY <1>2, StepOfItsPart DEF EdgesInv
  <2>2. ClientP!ClientInv'
    BY <1>1, <1>2 DEF EdgesInv
  <2>3. [ClientP!Remote!Next]_(ClientP!Remote!vars)
    BY <2>1, <2>2, ClientP!ClientRefines DEF ClientP!ClientInv
  <2> QED
    BY <2>3, SameClientCalls
<1>3. ASSUME part = "handle" PROVE UNCHANGED Handle!Remote!vars \/ Handle!Remote!Next
  <2>1. HandleP!HandleInv /\ [HandleP!Next]_(HandleP!vars)
    BY <1>3, StepOfItsPart DEF EdgesInv
  <2>2. [HandleP!Remote!Next]_(HandleP!Remote!vars)
    BY <2>1, HandleConstantsHold, HandleP!HandleRefines
  <2> QED
    BY <2>2, SameHandleCalls
<1> QED
  BY <1>2, <1>3 DEF CallsStep

-----------------------------------------------------------------------------
(* The teardown of a connection leaves nothing behind, whatever the calls,   *)
(* the requests of the server and the capacities: when the disconnect is     *)
(* broadcast a call registered while the reader read has its outcome or its  *)
(* sender is in the writer's hand, a sender is in one place until it is      *)
(* used, once, no handler outlives the announcement, shutdown() is notified  *)
(* last (NativeClient).                                                      *)
THEOREM TeardownsLeaveNothing == Spec => []ClientTeardown
  BY EdgesStart, EdgesKept, EdgesImply, PTL DEF Spec

(* What a client sees of a connection is in order and complete, for any      *)
(* frames, any events and any capacities: replies leave in the order of      *)
(* their requests, nothing is carried out before the one welcome, and every  *)
(* event the forwarder has passed is sent, queued, filtered out or lost to a *)
(* full channel, once and in the order of the engine (ServerConnection).     *)
THEOREM ConnectionsStayOrdered == Spec => []ConnectionOrder
  BY EdgesStart, EdgesKept, EdgesImply, PTL DEF Spec

(* A server that serves keeps its socket and its permits, whatever other     *)
(* servers start, fail, stop or are killed beside it, for any number of      *)
(* processes, starts and connections (ServerListener).                       *)
THEOREM ServersStaySafe == Spec => []ListenerSafe
  BY EdgesStart, EdgesKept, EdgesImply, PTL DEF Spec

(* A reply is dropped only by the end of the actor's loop, and the limits in *)
(* force belong to the active model, for any callers and any capacity of the *)
(* submission channel (EngineHandle).                                        *)
THEOREM HandlesStayConsistent == Spec => []HandleConsistent
  BY EdgesStart, EdgesKept, EdgesImply, PTL DEF Spec

(* Every component keeps its types: the queues and the streams their         *)
(* capacity, a call its outcomes, a caller the errors declared for its       *)
(* request, a connection its events and frames.                              *)
THEOREM TypesAlwaysOK == Spec => []TypesOK
  BY EdgesStart, EdgesKept, EdgesImply, PTL DEF Spec

(* Both ends of a call implement RemoteCalls: what a client sends, and what  *)
(* a caller hands to the engine, is carried out at most once, never after it *)
(* was refused, and answered only if it was carried out.                     *)
THEOREM CallsHappenAtMostOnce == Spec => AtMostOnce
<1>1. Init => Client!Remote!Init /\ Handle!Remote!Init
  <2> SUFFICES ASSUME Init PROVE Client!Remote!Init /\ Handle!Remote!Init
    OBVIOUS
  <2>1. ClientP!Init /\ HandleP!Init
    BY SameClient, SameHandle DEF Init
  <2>2. ClientP!Remote!Init
    BY <2>1, ClientP!RemoteStarts
  <2>3. HandleP!Remote!Init
    BY <2>1, HandleP!RemoteStarts
  <2> QED
    BY <2>2, <2>3, SameClientCalls, SameHandleCalls
<1>2. Spec => [][CallsStep]_vars
  BY EdgesStart, EdgesKept, EdgesRefine, PTL DEF Spec
<1>3. Spec => Init
  BY DEF Spec
<1> QED
  BY <1>1, <1>2, <1>3, PTL DEF AtMostOnce, CallsStep
=============================================================================
