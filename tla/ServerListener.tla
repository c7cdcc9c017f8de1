--------------------------- MODULE ServerListener ---------------------------
(***************************************************************************)
(* Server processes that start, serve and stop on one socket path          *)
(* (server.rs): the startup lock, the probe for a live server, the removal *)
(* of a stale socket file, the accept loop under its connection limit, the *)
(* drain at shutdown and the guard that unlinks the file; and the command  *)
(* that runs it (`zhive serve`, run_serve), which watches the task and the *)
(* keyboard and removes the path itself on its way out.                    *)
(*                                                                         *)
(* The file at the path is known by the process that bound it.  Clients,   *)
(* the kernel's backlog and kills are external.                            *)
(***************************************************************************)
EXTENDS Naturals, FiniteSets

CONSTANTS
    Procs,          \* processes that run the server
    MaxConnections, \* max_connections, at least 1
    Backlog,        \* bound: connections the kernel holds for a listener
    MaxStarts       \* bound: starts of each process

VARIABLES
    at,         \* where each process is
    starts,     \* how often it was started
    lock,       \* the holder of the startup lock file
    file,       \* whose socket is at the path
    listening,  \* the processes whose listener is open
    waiting,    \* connections in each listener's backlog
    permits, open,      \* free permits of the semaphore, connection tasks
    stop,       \* the processes whose shutdown token fired
    main,       \* where the command around each server is
    taken       \* servers whose file a leaving command took, its own included

vars == <<at, starts, lock, file, listening, waiting, permits, open, stop, main, taken>>

Nobody == "nobody"
Stages == {"off", "lock", "probe", "stale", "bind", "guard", "permit", "accept", "drain",
           "unlink", "close"}
Serving == {p \in Procs : at[p] \in {"permit", "accept", "drain"}}

Init ==
    /\ at = [p \in Procs |-> "off"] /\ starts = [p \in Procs |-> 0]
    /\ lock = Nobody /\ file = Nobody /\ listening = {}
    /\ waiting = [p \in Procs |-> 0] /\ open = [p \in Procs |-> 0]
    /\ permits = [p \in Procs |-> MaxConnections] /\ stop = {}
    /\ main = [p \in Procs |-> "off"] /\ taken = {}

Go(p, s) == at' = [at EXCEPT ![p] = s]

(* The function returns: its locals are dropped, the lock among them. *)
Leave(p) ==
    /\ Go(p, "off")
    /\ lock' = IF lock = p THEN Nobody ELSE lock
    /\ listening' = listening \ {p}
    /\ waiting' = [waiting EXCEPT ![p] = 0]
-----------------------------------------------------------------------------
Start(p) ==
    /\ main[p] = "off" /\ starts[p] < MaxStarts
    /\ starts' = [starts EXCEPT ![p] = @ + 1]
    /\ Go(p, "lock") /\ stop' = stop \ {p}
    /\ main' = [main EXCEPT ![p] = "watching"] /\ taken' = taken \ {p}
    /\ permits' = [permits EXCEPT ![p] = MaxConnections]
    /\ UNCHANGED <<lock, file, listening, waiting, open>>

(* Mutant: the lock is not waited for *)
BargeIn(p) ==
    /\ at[p] = "lock" /\ lock' = p /\ Go(p, "probe")
    /\ UNCHANGED <<starts, file, listening, waiting, permits, open, stop, main, taken>>

(* acquire_startup_lock *)
Lock(p) ==
    /\ at[p] = "lock" /\ lock = Nobody
    /\ lock' = p /\ Go(p, "probe")
    /\ UNCHANGED <<starts, file, listening, waiting, permits, open, stop, main, taken>>

(* prepare_uds_path: a connection that succeeds means a live server (which  *)
(* sees a peer come and go), one that is refused a stale socket; any other  *)
(* error ends the start unless the file is gone by then.                    *)
Probe(p) ==
    /\ at[p] = "probe"
    /\ \/ file = Nobody /\ Go(p, "bind") /\ UNCHANGED <<lock, listening, waiting>>
       \/ file # Nobody /\ file \notin listening /\ Go(p, "stale")
          /\ UNCHANGED <<lock, listening, waiting>>
       \/ /\ file \in listening
          /\ Go(p, "off") /\ lock' = Nobody /\ UNCHANGED listening
          /\ waiting' = [waiting EXCEPT ![file] = IF @ < Backlog THEN @ + 1 ELSE @]
    /\ UNCHANGED <<starts, file, permits, open, stop, main, taken>>

RemoveStale(p) ==
    /\ at[p] = "stale"
    /\ IF file = Nobody THEN Leave(p) /\ UNCHANGED file
       ELSE file' = Nobody /\ Go(p, "bind") /\ UNCHANGED <<lock, listening, waiting>>
    /\ UNCHANGED <<starts, permits, open, stop, main, taken>>

Bind(p) ==
    /\ at[p] = "bind"
    /\ IF file = Nobody
       THEN /\ file' = p /\ listening' = listening \cup {p}
            /\ Go(p, "guard") /\ UNCHANGED <<lock, waiting>>
       ELSE Leave(p) /\ UNCHANGED file
    /\ UNCHANGED <<starts, permits, open, stop, main, taken>>

(* set_permissions may fail, which leaves the file without a guard; then    *)
(* the lock is released.                                                    *)
Guard(p) ==
    /\ at[p] = "guard"
    /\ \/ Leave(p)
       \/ Go(p, "permit") /\ lock' = Nobody /\ UNCHANGED <<listening, waiting>>
    /\ UNCHANGED <<starts, file, permits, open, stop, main, taken>>
-----------------------------------------------------------------------------
(* The accept loop: a permit first, then a connection; the token is looked  *)
(* at before either.                                                        *)
AcquirePermit(p) ==
    /\ at[p] = "permit" /\ p \notin stop /\ permits[p] > 0
    /\ permits' = [permits EXCEPT ![p] = @ - 1] /\ Go(p, "accept")
    /\ UNCHANGED <<starts, lock, file, listening, waiting, open, stop, main, taken>>

Accept(p) ==
    /\ at[p] = "accept" /\ p \notin stop /\ waiting[p] > 0
    /\ waiting' = [waiting EXCEPT ![p] = @ - 1]
    /\ open' = [open EXCEPT ![p] = @ + 1] /\ Go(p, "permit")
    /\ UNCHANGED <<starts, lock, file, listening, permits, stop, main, taken>>

(* accept_is_transient gives the permit back; another error ends the loop. *)
AcceptFails(p) ==
    /\ at[p] = "accept" /\ p \notin stop
    /\ permits' = [permits EXCEPT ![p] = @ + 1]
    /\ Go(p, "permit") \/ Go(p, "drain")
    /\ UNCHANGED <<starts, lock, file, listening, waiting, open, stop, main, taken>>

(* Mutant: a permit is given back although none is in hand *)
LeaveLoopReturns(p) ==
    /\ at[p] \in {"permit", "accept"} /\ p \in stop /\ Go(p, "drain")
    /\ permits' = [permits EXCEPT ![p] = @ + 1]
    /\ UNCHANGED <<starts, lock, file, listening, waiting, open, stop, main, taken>>

LeaveLoop(p) ==
    /\ at[p] \in {"permit", "accept"} /\ p \in stop /\ Go(p, "drain")
    /\ permits' = IF at[p] = "accept" THEN [permits EXCEPT ![p] = @ + 1] ELSE permits
    /\ UNCHANGED <<starts, lock, file, listening, waiting, open, stop, main, taken>>

(* A connection's task ends (ServerConnection) and drops its permit. *)
ConnectionEnds(p) ==
    /\ open[p] > 0
    /\ open' = [open EXCEPT ![p] = @ - 1] /\ permits' = [permits EXCEPT ![p] = @ + 1]
    /\ UNCHANGED <<at, starts, lock, file, listening, waiting, stop, main, taken>>

Drain(p) ==
    /\ at[p] = "drain" /\ open[p] = 0 /\ Go(p, "unlink")
    /\ UNCHANGED <<starts, lock, file, listening, waiting, permits, open, stop, main, taken>>

(* Locals go in reverse order: the guard unlinks the path, whatever is      *)
(* there, then the listener is closed.                                      *)
Unlink(p) ==
    /\ at[p] = "unlink" /\ file' = Nobody /\ Go(p, "close")
    /\ taken' = IF p \in taken THEN taken \cup ({file} \ {Nobody}) ELSE taken
    /\ UNCHANGED <<starts, lock, listening, waiting, permits, open, stop, main>>

Close(p) ==
    /\ at[p] = "close" /\ Leave(p)
    /\ UNCHANGED <<starts, file, permits, open, stop, main, taken>>
-----------------------------------------------------------------------------
(* The command around the server.                                           *)

(* The select of run_serve: Ctrl-C, or the task ended on its own.  Either   *)
(* way the token fires, and MCP connections and engine are shut down.       *)
StopWatching(p) ==
    /\ main[p] = "watching"
    /\ main' = [main EXCEPT ![p] = "sweeping"] /\ stop' = stop \cup {p}
    /\ UNCHANGED <<at, starts, lock, file, listening, waiting, permits, open, taken>>

(* Then the path is removed, whoever's socket is there. *)
Sweep(p) ==
    /\ main[p] = "sweeping"
    /\ main' = [main EXCEPT ![p] = "joining"]
    /\ file' = Nobody /\ taken' = taken \cup ({file} \ {Nobody})
    /\ UNCHANGED <<at, starts, lock, listening, waiting, permits, open, stop>>

(* The command returns once the task is joined. *)
Return(p) ==
    /\ main[p] = "joining" /\ at[p] = "off"
    /\ main' = [main EXCEPT ![p] = "off"]
    /\ UNCHANGED <<at, starts, lock, file, listening, waiting, permits, open, stop, taken>>
-----------------------------------------------------------------------------
(* External: a client connects, the process is killed. *)
Connect ==
    /\ file \in listening /\ waiting[file] < Backlog
    /\ waiting' = [waiting EXCEPT ![file] = @ + 1]
    /\ UNCHANGED <<at, starts, lock, file, listening, permits, open, stop, main, taken>>

Kill(p) ==
    /\ main[p] # "off" /\ Leave(p)
    /\ open' = [open EXCEPT ![p] = 0] /\ main' = [main EXCEPT ![p] = "off"]
    /\ UNCHANGED <<starts, file, permits, stop, taken>>

ServerStep(p) ==
    Lock(p) \/ Probe(p) \/ RemoveStale(p) \/ Bind(p) \/ Guard(p) \/ AcquirePermit(p)
    \/ Accept(p) \/ AcceptFails(p) \/ LeaveLoop(p) \/ Drain(p) \/ Unlink(p) \/ Close(p)

Next == Connect \/ \E p \in Procs : Start(p) \/ ServerStep(p) \/ ConnectionEnds(p)
                                    \/ StopWatching(p) \/ Sweep(p) \/ Return(p) \/ Kill(p)

Spec == Init /\ [][Next]_vars
-----------------------------------------------------------------------------
TypeOK ==
    /\ at \in [Procs -> Stages] /\ lock \in Procs \cup {Nobody} /\ file \in Procs \cup {Nobody}
    /\ listening \subseteq Procs /\ stop \subseteq Procs
    /\ waiting \in [Procs -> 0..Backlog] /\ permits \in [Procs -> 0..MaxConnections]
    /\ main \in [Procs -> {"off", "watching", "sweeping", "joining"}] /\ taken \subseteq Procs
    /\ open \in [Procs -> 0..MaxConnections] /\ starts \in [Procs -> 0..MaxStarts]

(* A server that serves stays reachable: the socket at the path is its own, *)
(* so no starting, failing, stopping or crashing server ever takes it away  *)
(* and no two serve the path at once, until a command on its way out        *)
(* removes the path, or the guard of a server that lost it that way does.   *)
ServingReachable == \A p \in Serving \ taken : file = p /\ p \in listening

(* No permit is lost or made up: free ones, the one in hand and one for     *)
(* each connection task add up to the limit.                                *)
PermitsBalance ==
    \A p \in Serving : permits[p] + open[p] + (IF at[p] = "accept" THEN 1 ELSE 0) = MaxConnections

(* A server that serves keeps its socket and its permits. *)
ListenerSafe == ServingReachable /\ PermitsBalance
=============================================================================
