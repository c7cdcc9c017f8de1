-------------------------------- MODULE Host --------------------------------
(*****************************************************************************)
(* The commands that run the engine inside their own process: the terminal   *)
(* interface and the headless exec, which serve it on a socket of their own  *)
(* and drive it as a client (engine_host.rs), and the ACP bridge on standard *)
(* input and output (run.rs).  What is started, in which order it is torn    *)
(* down on each way out, and when exec takes its turn to be over.            *)
(*                                                                           *)
(* The engine is what it sends of turns: the command's own and those of      *)
(* subagents on other threads.  The serving task is ServerListener in short, *)
(* the connection ServerConnection and NativeClient.                         *)
(*****************************************************************************)
EXTENDS Naturals, Sequences

CONSTANTS
    FeedCap,    \* the client's broadcast capacity
    MaxNews     \* bound: events of turns that are not an ending

VARIABLES
    command,    \* the command given
    hostAt,     \* where its function is
    closing,       \* the steps of the teardown still to come
    alive,      \* what runs: mcp, engine, client
    serveTask,  \* none, starting, serving or ended
    tokenFired, \* whether the serving task's token fired
    sockFile,   \* what is at the socket's path
    ownTurn,    \* the turn exec asked for
    news,       \* events so far
    eventFeed,  \* events for exec's subscription
    subscribed, \* whether it is subscribed
    dropped,    \* whether it lost an event to a full buffer
    verdict     \* how the command returned

controlVars == <<hostAt, closing, verdict>>
serveVars == <<serveTask, tokenFired, sockFile>>
execVars == <<ownTurn, news, eventFeed, subscribed, dropped>>
hostVars == <<command, alive, controlVars, serveVars, execVars>>

Over == {"completed", "failed"}

Init ==
    /\ command \in {"tui", "exec", "acp"}
    /\ hostAt = "build" /\ closing = <<>> /\ alive = {}
    /\ serveTask = "none" /\ tokenFired = FALSE
    /\ sockFile \in {"none", "stale"}
    /\ ownTurn = "none" /\ news = 0 /\ eventFeed = <<>> /\ subscribed = FALSE /\ dropped = FALSE
    /\ verdict = "none"

Leave(steps, v) == hostAt' = "teardown" /\ closing' = steps /\ verdict' = v

-----------------------------------------------------------------------------
(* Starting.                                                                *)

(* The configuration or the provider is no good: nothing was started. *)
BuildFails ==
    /\ hostAt = "build" /\ Leave(<<>>, "error")
    /\ UNCHANGED <<command, alive, serveVars, execVars>>

(* `build_runtime`: the connections to MCP servers are up; a store that     *)
(* cannot be opened is done without.                                        *)
BuildRuntime ==
    /\ hostAt = "build"
    /\ hostAt' = "start" /\ alive' = {"mcp"}
    /\ UNCHANGED <<command, closing, verdict, serveVars, execVars>>

(* `Host::start`: the path is cleared, the engine and the serving task are  *)
(* spawned.                                                                 *)
StartHost ==
    /\ hostAt = "start" /\ command # "acp"
    /\ sockFile' = "none" /\ alive' = alive \cup {"engine"} /\ serveTask' = "starting"
    /\ hostAt' = "wait"
    /\ UNCHANGED <<command, closing, tokenFired, verdict, execVars>>

(* `run_acp` needs no socket. *)
StartAcp ==
    /\ hostAt = "start" /\ command = "acp"
    /\ alive' = alive \cup {"engine"} /\ hostAt' = "drive"
    /\ UNCHANGED <<command, closing, verdict, serveVars, execVars>>

(* `wait_for_socket` sees the file. *)
SeeSocket ==
    /\ hostAt = "wait" /\ sockFile = "own"
    /\ hostAt' = "connect"
    /\ UNCHANGED <<command, closing, alive, verdict, serveVars, execVars>>

ConnectClient ==
    /\ hostAt = "connect" /\ serveTask = "serving"
    /\ alive' = alive \cup {"client"}
    /\ hostAt' = IF command = "exec" THEN "subscribe" ELSE "drive"
    /\ UNCHANGED <<command, closing, verdict, serveVars, execVars>>

(* The deadline for the file, or the handshake: what was started so far is  *)
(* torn down by hand, there being no Host to drop.                          *)
StartFails ==
    /\ hostAt \in {"wait", "connect"}
    /\ Leave(<<"token", "engine", "mcp", "unlink">>, "error")
    /\ UNCHANGED <<command, alive, serveVars, execVars>>

-----------------------------------------------------------------------------
(* The serving task.                                                        *)

ServeBinds ==
    /\ serveTask = "starting" /\ sockFile = "none"
    /\ serveTask' = "serving" /\ sockFile' = "own"
    /\ UNCHANGED <<command, alive, tokenFired, controlVars, execVars>>

(* It cannot bind, its accept loop fails, its token fired or the process    *)
(* ends around it: its guard unlinks a path it bound.                       *)
ServeEnds ==
    /\ serveTask \in {"starting", "serving"}
    /\ serveTask' = "ended"
    /\ sockFile' = IF serveTask = "serving" THEN "none" ELSE sockFile
    /\ UNCHANGED <<command, alive, tokenFired, controlVars, execVars>>

-----------------------------------------------------------------------------
(* exec.                                                                    *)

(* While connected; a full buffer loses its oldest event. *)
Deliver(e) ==
    IF subscribed /\ "client" \in alive /\ serveTask = "serving"
    THEN /\ eventFeed' = Append(IF Len(eventFeed) < FeedCap THEN eventFeed ELSE Tail(eventFeed), e)
         /\ dropped' = (dropped \/ Len(eventFeed) = FeedCap)
    ELSE UNCHANGED <<eventFeed, dropped>>

Subscribe ==
    /\ hostAt = "subscribe"
    /\ subscribed' = TRUE /\ hostAt' = "call"
    /\ UNCHANGED <<command, closing, alive, ownTurn, news, eventFeed, dropped, verdict, serveVars>>

(* The engine takes the turn; the reply is still on its way. *)
AcceptTurn ==
    /\ hostAt = "call" /\ ownTurn = "none"
    /\ ownTurn' = "running"
    /\ UNCHANGED <<command, alive, news, eventFeed, subscribed, dropped, controlVars, serveVars>>

StartTurnReplies ==
    /\ hostAt = "call" /\ ownTurn # "none"
    /\ hostAt' = "listen"
    /\ UNCHANGED <<command, closing, alive, verdict, serveVars, execVars>>

(* The call failed: the Host is dropped as it is. *)
StartTurnFails ==
    /\ hostAt = "call" /\ Leave(<<"drop">>, "bailed")
    /\ UNCHANGED <<command, alive, serveVars, execVars>>

(* The engine reports something of the turn, or anything of a subagent's. *)
EngineReports ==
    /\ "engine" \in alive /\ ownTurn = "running" /\ news < MaxNews
    /\ \E e \in {[of |-> "own", what |-> "item"], [of |-> "child", what |-> "completed"]} : Deliver(e)
    /\ news' = news + 1
    /\ UNCHANGED <<command, alive, ownTurn, subscribed, controlVars, serveVars>>

EngineEndsTurn ==
    /\ "engine" \in alive /\ ownTurn = "running"
    /\ \E v \in Over : ownTurn' = v /\ Deliver([of |-> "own", what |-> v])
    /\ UNCHANGED <<command, alive, news, subscribed, controlVars, serveVars>>

StopSteps == <<"client", "mcp", "engine", "token", "unlink", "drop">>

(* Mutant: any turn's end will do *)
NextEventAny ==
    /\ hostAt = "listen" /\ eventFeed # <<>>
    /\ eventFeed' = Tail(eventFeed)
    /\ LET e == Head(eventFeed)
       IN  IF e.what \in Over THEN Leave(StopSteps, e.what)
           ELSE UNCHANGED <<controlVars>>
    /\ UNCHANGED <<command, alive, ownTurn, news, subscribed, dropped, serveVars>>

(* The loop of `run_exec`: only the end of its own thread's turn counts. *)
NextEvent ==
    /\ hostAt = "listen" /\ eventFeed # <<>>
    /\ eventFeed' = Tail(eventFeed)
    /\ LET e == Head(eventFeed)
       IN  IF e.of = "own" /\ e.what \in Over THEN Leave(StopSteps, e.what)
           ELSE UNCHANGED <<controlVars>>
    /\ UNCHANGED <<command, alive, ownTurn, news, subscribed, dropped, serveVars>>

(* The connection ended first, once what it delivered has been read. *)
Disconnected ==
    /\ hostAt = "listen" /\ eventFeed = <<>> /\ serveTask = "ended"
    /\ Leave(<<"drop">>, "bailed")
    /\ UNCHANGED <<command, alive, serveVars, execVars>>

-----------------------------------------------------------------------------
(* Leaving.                                                                 *)

(* The interface, or the editor at the other end of the ACP bridge, is done. *)
DriveEnds ==
    /\ hostAt = "drive"
    /\ Leave(IF command = "acp" THEN <<"mcp", "engine">> ELSE StopSteps, "ok")
    /\ UNCHANGED <<command, alive, serveVars, execVars>>

(* One step of `Host::stop`, of a start undone, or of the drop.  A shutdown *)
(* of the engine cancels its turn.                                          *)
TearDown ==
    /\ hostAt = "teardown" /\ closing # <<>>
    /\ closing' = Tail(closing)
    /\ LET step == Head(closing)
       IN  /\ alive' = alive \ {step}
           /\ tokenFired' = (tokenFired \/ step = "token")
           /\ sockFile' = IF step \in {"unlink", "drop"} THEN "none" ELSE sockFile
           /\ ownTurn' = IF step = "engine" /\ ownTurn = "running" THEN "cancelled" ELSE ownTurn
    /\ UNCHANGED <<command, hostAt, serveTask, news, eventFeed, subscribed, dropped, verdict>>

(* The runtime goes down with the command: the serving task is dropped. *)
Exit ==
    /\ hostAt = "teardown" /\ closing = <<>> /\ serveTask \in {"none", "ended"}
    /\ hostAt' = "gone"
    /\ UNCHANGED <<command, closing, alive, verdict, serveVars, execVars>>

Next ==
    \/ BuildFails \/ BuildRuntime \/ StartHost \/ StartAcp \/ SeeSocket \/ ConnectClient \/ StartFails
    \/ ServeBinds \/ ServeEnds
    \/ Subscribe \/ AcceptTurn \/ StartTurnReplies \/ StartTurnFails
    \/ EngineReports \/ EngineEndsTurn \/ NextEvent \/ Disconnected
    \/ DriveEnds \/ TearDown \/ Exit

Spec == Init /\ [][Next]_hostVars

-----------------------------------------------------------------------------
Places == {"build", "start", "wait", "connect", "subscribe", "call", "listen", "drive",
           "teardown", "gone"}

(* The command and what it started have their types. *)
TypeOK ==
    /\ command \in {"tui", "exec", "acp"} /\ hostAt \in Places
    /\ alive \subseteq {"mcp", "engine", "client"}
    /\ serveTask \in {"none", "starting", "serving", "ended"} /\ tokenFired \in BOOLEAN
    /\ sockFile \in {"none", "stale", "own"}
    /\ ownTurn \in Over \cup {"none", "running", "cancelled"}
    /\ Len(eventFeed) <= FeedCap /\ news \in 0..MaxNews
    /\ verdict \in Over \cup {"none", "ok", "error", "bailed"}

(* A process that left by its own leaves no socket behind that it bound,    *)
(* and unless exec gave up in the middle nothing it started still runs,     *)
(* however far the start had come.                                          *)
LeavesNothing ==
    hostAt = "gone" => /\ sockFile # "own"
                       /\ verdict # "bailed" => alive = {}

(* exec reports what became of its own turn, never of a subagent's.         *)
VerdictIsOwn == verdict \in Over => ownTurn = verdict

(* exec waits in vain only for an end it lost to a full buffer: subscribing *)
(* before the call leaves no gap, however fast the turn, and a connection   *)
(* that is gone is noticed.                                                 *)
NoSilentWait ==
    hostAt = "listen" /\ ownTurn \in Over /\ eventFeed = <<>> => dropped \/ serveTask = "ended"

(* The commands that host the engine. *)
HostSafe == LeavesNothing /\ VerdictIsOwn /\ NoSilentWait
=============================================================================
