# zhive: a TLA+ model of the agent engine and its surroundings

zhive is a coding agent: an engine (crate `zhive-core`) that runs turns of
conversation against a language-model provider and executes the tools the
model asks for, a JSON-RPC server in front of it, and several clients (native
client library, terminal interface, ACP and stdio bridges).  This directory
models the parts whose correctness depends on the order in which concurrent
steps happen, on what fails half way, or on what was read too early; checks
them with TLC on small instances, and proves the most important properties with
TLAPS for every instance.

Paths below are relative to `src/crates/zhive-core/src/` unless they name a
crate.

## 1. Inventory

| Component | State | Operations | Hard behaviour |
|---|---|---|---|
| Engine actor (`engine/inner.rs`, `lifecycle.rs`, `phase.rs`) | engine phase, per-thread slot and status, turn counter, storage sender | `start_turn`, `cancel_turn`, `finish_turn`, injection, shutdown | the actor, the turn tasks and compactions race for the phase; none of the operations is one critical section |
| Turn task (`engine/turn.rs`) | locals of `run_turn`, cancel token | provider call with retry and backoff, streaming, tool phases, follow-up | a cancelled task goes on until it looks at its token; retry moves the shared phase |
| Maintenance (`compaction.rs`, `fork.rs`, `restore.rs`) | transcript snapshot, phase guard | compact (client or automatic), fork, restore | read before claim, two claims in one operation |
| Subagents (`subagent_spawn/`, `subagent.rs`) | child thread, its scope and turn, decision and outcome channels | spawn by client, spawn by tool, narrow, decide, deliver | child turns run outside the phase machine and may outlive the parent; the slot is read afresh at every fold |
| Thread state (`state/thread.rs`, `turn_buffer.rs`) | history buffer with one open turn, injection queues | open, push, close, replace, evict, seed | operations act on whatever turn is open, not on a named one |
| Provider stream, prompt, cache (`provider/stream_fold.rs`, `engine/prompt.rs`, `cache.rs`) | open blocks and tool buffers | fold a part, flush, build the prompt, place breakpoints | truncated, failed and repeated frames; a prompt built from an evicted or compacted buffer |
| Permission (`permission.rs`, `permission/pending.rs`, `engine/tool_dispatch/`) | table of pending requests, key counter, allow-always set | fold votes, enroll, wait, resolve, cancel all, reinstate | an answer races a timeout, a cancel, a drain and a restart; keys are reused across processes |
| Hooks (`hooks/`) | registry, scopes, schemas | register, drop, dispatch, fold | hooks come and go while a dispatch runs; timeouts, crashed subprocesses, rewritten input |
| Built-in tools (`tools/builtin/`) | files, temporary files, process groups | write, edit, read, grep, bash | calls of one turn run concurrently; a dropped call cannot stop an operation in flight |
| Snapshots (`snapshot/`, `restore.rs`) | shadow git repository, checkpoints | track, revert, rewind | other writers during a capture or a revert; git fails or is killed |
| Persistence (`persistence/`) | rollout log per thread, SQLite projection, bounded channel | append, flush, fsync, project, rebuild, delete | crash between log and projection, torn last line, a full channel, a failed statement |
| Resume, administration (`engine/resume.rs`, `thread_admin.rs`) | thread store, rollout files | flush, read, seed history, reinstate prompts, rename, delete | a log cut by a crash, prompts of an earlier process, a delete beside the writer |
| Server (`server.rs`, `server/`) | socket file, lock, permits, connections, filters | listen, accept, handshake, dispatch, forward, drain | several processes on one path, slow clients, disconnect with requests in flight |
| Engine handle (`engine.rs`, `server/handlers.rs`) | bounded submission channel, reply channels | send, await, time out, switch the model | a reply that never comes, an operation that outlives its caller |
| Native client (`zhive-client-native`) | pending map, queues, reverse tasks, event broadcast | call, notify, respond, subscribe, shut down | a response races a disconnect, three tasks tear down together |
| Terminal interface (`zhive-tui`) | conversation, queue of messages, overlays, detached requests | submit, cancel, clear, resume, restore, quit | replies of detached requests arrive after the thread, the turn or the connection is gone |
| ACP bridge (`zhive-bridge-acp`) | sessions, eviction queue, prompt tasks | new, prompt, cancel, permission, slash commands | events lost by a lagging receiver, eviction of a session in use |
| MCP client (`zhive-mcp`) | connections, tool table | connect, discover, call, read, shut down | servers fail one by one, calls time out or are dropped |
| Skills, extensions (`skills/`, `extensions/`) | roots, documents, names | scan, load, resolve | files change between the scan and the load; precedence |
| Command line (`zhive-cli`) | config file, hosted engine | boot, run, serve, save the selection | teardown on every way out, sessions that share one config file |
| Framing, wire data types | none | decode, encode | a frame cut off |
| stdio bridge, auxiliary databases, observability, rendering | files, layout | I/O | not for a model checker |

How they interact.  Clients send requests; the serve loop of a connection, or
code that holds an engine handle, turns them into submissions, and one actor
handles these one at a time.  A started turn is a task of its own that shares
with the actor the engine phase, the slot of its thread (a mutex), the history
buffer and the injection queues.  Tool calls go through the hooks and the
permission reducer, whose table of oneshot channels the turn tasks, the
subagent spawners and the actor share.  Everything durable goes through one
bounded channel to one storage writer, but checkpoints of files, which are git
trees, and deletions, which go to the database directly.  Events go out on a
broadcast channel that each connection forwards through its filter; client
library, terminal interface and ACP bridge each add a bounded buffer of their
own.

What makes each correct: the engine phase has one holder, every turn one
ending, the phase comes back to Idle, what a client injects is in one place
until it has a fate; no tool runs without consent to that very call, no failing
hook lets one through and no subagent runs one its parent could not; what was
acknowledged survives a crash, and the index says what the log says; the model
is shown what was said; a file is whole and the contents a turn overwrote come
back with an undo; a client sees events in order, a call is carried out at most
once and its answer is its own; a message that was typed is sent once or is
still there.  Sections 6 and 7 tell where the code falls short of this.

## 2. Plan

1. `EngineTurns`: engine actor, turn tasks, maintenance, subagents.  *Done;
   every safety property that holds is proved.*
2. `Permission`: tool permissions, child handshake, restart and resume of
   pending requests.  *Done; every safety property that holds is proved.*
3. `Persistence`: channel, writer, rollouts, crash and restart, fork and
   resume over them; `StateIndex`: the SQL projection, rename, delete, backfill
   and rebuild.  *Done; every safety property of `Persistence` that holds is
   proved, `StateIndex` is model-checked.*
4. `ServerConnection`, `ServerListener`, `EngineHandle`, `NativeClient`, with
   the tables of `WireApi` and the abstract `RemoteCalls` that both ends of a
   call implement.  *Done and proved: every invariant of the four, and that both
   ends of a call implement `RemoteCalls`.*
5. `Transcript` (stream folding, history buffer, prompt, cache), `Hooks`,
   `SubagentScope`, `Tools`, `Snapshots`.  *Done; the scope of subagents is
   proved.*
6. `Tui`, `AcpBridge`, `Mcp`, `Discovery`, `Host`, `Selection`.  *Done.*

Left, in order of worth: liveness of the interfaces (a fired token ends every
connection, a call registered in time comes to an end) on instances small
enough for it; the torn line of section 7 as a run of its own; an abstract log
whose saved prefix survives, implemented by `Persistence`; a composition of
`NativeClient` with `ServerConnection`, which now meet in `WireApi` and
`RemoteCalls` only.  Theorems worth adding: that the index follows
the rollout (`StateIndex`) and that hooks fail safe (`Hooks`).

## 3. Modules

| Module | Models |
|---|---|
| `EngineTurns` | turn lifecycle, phase machine, maintenance, subagent turns |
| `Permission` | permission of a tool call, from the votes to the run |
| `Persistence` | storage channel, writer, rollouts, fork and resume |
| `StateIndex` | the SQL index, a projection of the rollouts |
| `Transcript` | provider stream, history buffer, prompt and cache breakpoints |
| `Hooks` | hook registry, dispatch, and the callers that fold its answers |
| `SubagentScope` | what a subagent may do |
| `Tools` | concurrent built-in tools on one file, shell processes |
| `Snapshots` | checkpoints of the workspace and the way back to them |
| `WireApi` | the tables both ends of a connection have to agree on |
| `RemoteCalls` | abstract: what a connection promises about a call |
| `NativeClient` | the client library |
| `ServerConnection` | one connection of the server |
| `ServerListener` | server processes on one socket path |
| `EngineHandle` | the way of a request to the actor and back |
| `Tui` | the terminal client's loop, conversation and detached requests |
| `AcpBridge` | sessions, prompts and permission requests of an editor |
| `Mcp` | MCP servers at boot, calls and shutdown |
| `Discovery` | skills and extensions found on disk |
| `Host` | commands that run the engine inside their own process |
| `Selection` | provider, model and depth, and the file that remembers them |
| `EngineTurns_proofs`, `Permission_proofs`, `Persistence_proofs`, `SubagentScope_proofs`, `NativeClient_proofs`, `ServerConnection_proofs`, `EngineHandle_proofs` | proofs about the module of that name |
| `MCInterfaces_proofs` | the proofs about `ServerListener`, and the properties of the `interfaces` run from those of its components |
| `MCEngineTurns`, `MCPermission`, `MCPersistence` | symmetry, tools of calls and the undisturbed behaviours, for TLC |
| `MCInterfaces` | `NativeClient`, `ServerConnection`, `ServerListener`, `EngineHandle` for TLC |
| `MCParts` | the twelve components around the engine for TLC, two of them on two instances |

`MCInterfaces` and `MCParts` hold several components that share no state.  A
behaviour picks one in its initial state, so one run explores them all one
after the other, each with every interleaving of its own.  In `MCParts` only
the component that was picked has a state, so that the variables of all are
mapped onto one pool by their `INSTANCE`s.  `Modelled` names the instances a run
is about, all of them in `components`.  `MCInterfaces` declares the
constants of its components and `Interfaces.cfg` gives them values, so that
what is proved of it holds for any others; it also assumes of the tables of
`WireApi` what both ends rely on, and TLC evaluates that on every run.

Definitions whose comment starts with `Mutant:` are wrong variants of the
definition that follows them.  Nothing uses them; they are there to show that
the properties notice the bug.

### EngineTurns

A step is one critical section of the code: a lock scope, a compare-and-swap
of the phase, or a send on the storage channel.  So `start_turn` is seven
actions (`StartTurn` claims the phase, `StartDrain` takes the staged items,
`StartInstall` fills the slot, then status, buffer, pushes, spawn),
`cancel_turn` six and `finish_turn` six; between any two of them every other
process may move.  The task of turn `n` is `TaskStep(n)` with its place in
`pc[n]`; a compaction is `CompactStep(c)`, where 0 is the one a client asked
for and `n` the automatic one of turn `n`.

Abstractions.  A transcript entry records the turn that produced it and the
turn it landed in, nothing else.  Items pushed in one loop are one step
(`StartPush`).  `StartChildTurn` is one step because the child id is fresh and
nobody else can address it yet.  Provider, tools, hooks and git succeed or
fail by choice.  The queues drain as configured by default: one item at a time
for steer and follow-up, all for the next turn.  Storage is the status of the
last row and the recorded ending of each turn, not the files.  A send may find
the channel full, and then the engine drops the operation (`Sent`): the row is
`Stale`, the ending `Lost`.  At most `MaxDrops` such losses are there at a time;
what is on disk is then behind what the engine sent, and `ViewsAgree` speaks of
what was sent.

### Permission

A call `c` moves from `hooks` through `asking` (top-level) or `sending` and
`parked` (child) to `approved` or `blocked`, and from `approved` to `ran`.
`ask[c]` follows the request made for it, by its own task
(`resolve_tool_permission_inner`) or by its spawner (`parent_reverse_rpc`):
`enroll`, `announce`, `wait`, `done`.  `map` is the table of
`PendingPermissions`, `mail[c]` what the oneshot of the call holds; the
reinstated request of a call has its own (`rmail`, `resumed`).  A crash keeps
only the rollouts.

Abstractions.  A child turn makes one call; a later call of the same child
shares nothing with it.  A bypass mode is a choice at every fold.  A client's
cancelled outcome and an unknown option count as a reject, as in
`classify_option_id`.  How far the writer got is chosen where it shows, at a
resume or a crash (`WriterGotTo`), instead of step by step; the flush of
`resume_thread` may time out, so nothing more is guaranteed there.  A spawner
that is being dropped may take a last step, because its future may be in the
middle of a poll.  `answer` is a history variable: the answer that was
delivered to the waiter of the very prompt it was given to.  An entry sent to
the rollout, a request or its marker, may be lost (`Send`): the channel is full,
or the writer cannot open or sync the file.  `lost` remembers the entries, at
most `MaxLost` of them.  A timer that elapsed and the drop of the receiver after
it are one step (`TopTimeout`, `ParentTimeout`), so an answer sent in the few
instructions between `permission.rs:282` and `:343`, which the code accepts and
nobody reads, counts as late here.

### Persistence

The engine side (`todo`, `ending`, `stray`, `active`) sends operations one by
one into `queue`; the writer takes one (`WriterTake`: append), syncs at a save
point (`WriterSync`) and updates the index (`WriterIndex`), and a crash may
come between any two of these.  `file[th]` is the rollout as the file system
shows it, `synced[th]` how much of it is on the disk; `Survivors` is what a
crash may leave of the rest, a torn line included.  `rows` and `turns` are the
two tables of the index.  Fork and resume ask for a flush, wait (`busy`), and
read the rollout as their readers do.

Abstractions.  There is one thread started by a client, and forks of it, named
by the counter; an item is its id and its place in the conversation.  Committed
rows survive a crash (write-ahead log).  A failed append that leaves part of a
line in a running process, compaction and name entries, the items table and
the summary of a fork are left out.  Readers of a rollout select lines with
`Pick`, which is `SelectSeq` written as a recursive function so that the proofs
can unfold it.  When a fork is created, its items are
copied up to any cut.  A closed channel ends the engine's part: what its tasks
still send goes nowhere.  `sent`, `owed`, `ended`, `lost` and `reused` are
history variables that say what the log owes to whom.

### StateIndex

`opq` is the channel to the writer, which turns an operation into a line of
`logs` and then into the statements of `todo`; each may fail, and the rest of
the operation still runs.  A deletion (`admin`) removes rows and files beside it.
Two lives let a compaction number repeat and a header be written twice.
`behind` says that statements were lost, so that only a rebuild brings the
index back: the properties are stated for a settled index.  Syncing and torn
lines are left to `Persistence`; a rename and the rebuild are operations of
their own here.

### Transcript

One thread.  `fold` is the `StreamFold` (open blocks, tool buffers, finalized
ids, the sequence of item ids), `active` and `done` the history buffer, `log`
what the rollout would hold, `request` the last prompt with its breakpoints.  A
part of the stream is an action; frames come in any order, also such as a
correct provider would not send.  A delta is a number, so that losing or
repeating one shows.  A client may steer items into a turn or queue them behind
it under ids of its own (`ClientIds`), which the code rewrites for the input of
a turn only; the steer queue is drained before each provider call, the
follow-up queue when the model is done or, with a notice, when the iterations
are used up.  A provider call fails or is answered.  A cancelled turn is drained
before the next one starts: the race is in `EngineTurns`.  `MaxInputs` bounds
turns, frames and injected items together, so that one turn may have a whole
block and the tool call it belongs to; the second instance, `Nameless`, has a
provider that sends tool calls without an id.

### Hooks

`job` is one dispatch: its caller (a tool call, the parent's fold for a
subagent, compaction, a direct user), the snapshot it took, the hooks still to
run and the log of what they answered.  A hook answers, times out, fails or is
stopped; registrations change at every point.  A registration takes its id
(`MintId`) before it waits for the lock of the registry (`InsertRegistration`),
so hooks of one priority may stand in either order of their ids.  `schemas` are
the tools whose argument schema can be checked.

### SubagentScope

`spawn` walks through the steps of `spawn_subagent_awaitable`, `child` is the
child thread with its scope and its calls.  The parent's slot is read at the
spawn and again at every second fold; turns start, finish and are cancelled
meanwhile.  `said` bounds the votes.

### Tools

Two calls of one turn on one file.  Each operation on the blocking pool is an
action; dropping a call (`DropCall`) leaves the one in flight to land
(`GoesOn`).  `edit` matches lines exactly or by trimming, `read` takes a slice,
`grep` a bounded number of matches; what either shows has to be of one content
the file had while the call ran.  `procs` is the process group of a shell, with
children that keep the output pipe or left it.

### Snapshots

`files` gives each path a content; a content is fresh with every write, so that
`authors` tells whose it is.  `git add` reads the files one by one (`GitAdd`)
while anyone writes.  `undo` is the restore in hand: its tree, the paths left,
what the files held before.  Git's pairing of moved files is part of the model
(`Renames`), because the code asks git for names only: a created file that is
identical to a removed one is paired with it, one that is merely similar may be.
`MayBeLost` are the paths such a pair costs (section 7).  The second instance,
`Moves`, has room for a move, a write and a restore.

### WireApi, RemoteCalls, NativeClient, ServerConnection, EngineHandle, ServerListener

`WireApi` has one record per request (its method, the submission it becomes,
the outcomes a caller may see) and maps engine events to notifications;
`ServerConnection` and `EngineHandle` are checked over these tables.

`NativeClient`: `call` and `slot` are a call and its oneshot, `pending` the map;
reader, writer, handler tasks and `shutdown` move separately, and each lock
section is a step.  Reader and writer both empty the map: under the lock one
takes all senders into its hand (`drained`), and fills the slots afterwards.  The peer is external and may answer, send requests and
notifications, or leave at any point.

`ServerConnection`: the serve loop chooses between shutdown, outbound and a
frame, which may be half read; the forwarder copies the broadcast, may lag, and
blocks on a full queue.

`EngineHandle`: callers send, wait or time out; the actor takes one submission
at a time and may report any outcome the table lists.  `set_model` is three
locks.

`ServerListener`: up to three processes and restarts on one path, with lock,
probe, unlink, bind, accept, drain and the guard, and the `serve` command
around them, which removes the path on its way out.

`RemoteCalls` is the abstract specification: a call is new, open, then
answered, refused or failed; it is executed at most once, never after a
refusal, and answered only if executed.  `NativeClient` implements it with the
peer's executions, `EngineHandle` with the actor's (`AtMostOnce`); the
refinement mapping is `CallState` (and `Executed`) of each.  A call is open
until it returns to its caller; one that failed without an answer may have been
carried out, or may be yet.

### Tui, AcpBridge

`Tui`: the loop (`turnOf`) takes a key, a notification or the outcome of a
detached request; `conv` is the conversation, `msgq` the queue, `tasks` the
requests in flight.  The engine and the client's buffer are external.  Every
message is followed from the composer to the engine.

`AcpBridge`: a prompt is a task that subscribes, starts a turn and reads its
receiver, which loses the oldest events when it is too far behind; sessions are
evicted in order of use.  `endOf` is the ending of each turn with its thread: a
prompt stops as the events of its own thread say, though possibly those of an
earlier turn of it.

### Mcp, Discovery, Host, Selection

`Mcp`: connections fail in parallel at boot; `mail` is what is on the way to a
server.  A name is the sequence of its parts, so that two servers may join to
one name.  `Discovery`: the order of the roots is computed from the directory
chain, then scanned, loaded and resolved while the disk may change once.  A
directory seen again in a higher root takes over the slot it had (`Shadows`),
which is where the order of the roots is lost (section 7).
`Host`: every way out of a command is a list of teardown steps.  `Selection`:
sessions load, choose and save; the user edits the file.

## 4. Runs

All passing runs set `CHECK_DEADLOCK FALSE`: after a shutdown, or when every
turn of the bound has ended and no client has anything to say, the system
rests.

| Run | Instance | Shows |
|---|---|---|
| `engine_safety` | 2 client threads (symmetric), 1 subagent thread, 2 turns, 1 retry | one holder of the phase, maintenance alone, one ending per turn and never rewritten, a cancel keeps to its turn, restore loses only to a compaction |
| `engine_no_retry` | 1 thread, 2 turns, 2 iterations, 1 injected item, no retry, 1 dropped storage operation | no swap of the phase fails; status follows slot, and at rest slot, status, buffer and what was sent to the storage say so; an injected item is in one place and survives an abort when staged for the next turn |
| `engine_turn_ends` | 1 client thread, 1 subagent thread that a client may use too, 2 turns, no retry | a turn ends or waits for somebody for ever, a cancelled one ends; the phase comes back, or its holder waits for ever; both but for a client turn on a live subagent |
| `engine_wedge` | 1 thread, 1 turn, 1 retry | *violation*: the phase does not come back (finding 1) |
| `engine_buffer` | 1 thread, 2 turns | *violation*: a finish closes the next turn's buffer (finding 2) |
| `permission_safety` | 2 calls of one tool (symmetric), 2 turns, 2 lives, 1 resume, 1 lost entry | consent for this call, answers honoured, suspended requests durable unless their own entry was lost, keys fresh |
| `permission_child` | 1 parent call, 1 child call, 2 turns | consent through the spawner; every call settles or waits for its user |
| `permission_marker` | 1 call, 1 turn | *violation*: the end of a turn without the marker (finding 3) |
| `persistence_safety` | 2 tasks (turn, fork or resume), 2 events (items or I/O faults), channel of 3, 2 lives, within `Budget` | saved turns survive, rollouts in order, forks are complete, clean exits are durable, the index never leads |
| `persistence_resume` | 3 turns, 3 lives, a resume, nothing goes wrong | *violation*: the resumed transcript is out of order (finding 4) |
| `interfaces` | client, connection, listener, handle | see the next table |
| `components` | twelve components around the engine | see the next table |

| Component | Instance | Property | Shows |
|---|---|---|---|
| `NativeClient` | handshake, 1 call, 1 reverse request, queues of 1 | `ClientTeardown`, `AtMostOnce` | pending calls have failed, or are in the writer's hand to be failed, before subscribers hear of the disconnect; no sender is lost or used twice, handlers stop, `shutdown` returns last; a call is carried out at most once |
| `ServerConnection` | 2 events of 3 kinds, 2 frames, queues of 1 | `ConnectionOrder` | replies in order, handshake first, every event shown, filtered or lost to lag, and lost only by one who is behind |
| `ServerListener` | 3 processes, 1 permit, backlog of 1 | `ListenerSafe` | a serving server keeps the path, two never serve it, permits balance |
| `EngineHandle` | 3 callers, channel of 1, 2 models | `HandleConsistent`, `AtMostOnce` | replies are dropped only at the end, limits match the model, at most once |
| `Tui` | 2 messages, 2 threads, 2 turns, 3 inputs | `ConversationSafe` | a typed message is queued, sent once, in the composer or dropped on purpose; the composer is never busy for nothing |
| `Hooks` | 2 hooks (in process, subprocess) of 2 priorities, 3 registrations, 4 callers | `HooksFailSafe` | hooks run by priority and then as they were inserted, no deny is lost, no hook of the snapshot skipped, no unchecked input runs |
| `AcpBridge` | 2 prompts, 1 session slot, 2 turns, 1 question, 1 cancel | `AcpConsistent` | sessions bounded, a stop reason is true of a turn of the prompt's own thread |
| `SubagentScope` | 3 tools, 3 scopes, 3 definitions, 2 turns, 2 spawns | `ChildNeverWider` | a child is given and runs nothing its turn could not |
| `StateIndex` | 1 turn, 2 items, 3 operations, 2 lives, 1 fault, a fork | `IndexFollowsRollout` | rows, items and checkpoints agree with the log once settled; previews are kept |
| `Transcript` | turns, frames and injected items together 5, 2 iterations, cap of 1, 1 compaction, resumed; 4 with nameless tool calls | `TranscriptFaithful` | the engine's own ids unique, no delta lost, calls run once, history a suffix of the log, calls paired with results, prompts only grow |
| `Tools` | 2 concurrent calls of 6 kinds, 3 contents | `WorkspaceSafe` | the file is whole, results are honest, `read` and `grep` show one content the file had, temporary files owned, no processes left behind by a finished command |
| `Snapshots` | 3 paths (1 ignored), 2 turns, 2 writes or restores; 1 turn, 3 of them | `WorkspaceSafe` | a checkpoint precedes its turn's writes, a revert is exact but for what git takes for renames, files and conversation rewind to the same point |
| `Mcp`, `Discovery`, `Host`, `Selection` | 2 servers, 1 request; 2 directories in 6 placements of roots, 1 edit; 4 events; 2 sessions, 1 edit | `BootSafe` | one server fails alone and is told of an abandoned call; names resolve once, to the highest root unless a directory took over an earlier slot; teardown on every way out, the verdict is of the own turn; selections are kept |

`TypesOK` of the two composite runs is the type invariant of the component that
was picked.

Why the bounds are enough.  The races of the engine are between a turn and its
successor (two turns), between two threads (two threads), between a cancel and
a retry (one retry), between a restore and one compaction.  A third turn or
thread repeats a pair.  Iterations only lengthen a task, so two occur in one run
only, that of the injected items; the two liveness properties are checked
without retries, because with them finding 1 refutes `PhaseReturns`.  One
dropped operation (`MaxDrops`) leaves a row or an ending behind while everything
else goes on, one lost entry (`MaxLost`) a request or a marker; the proofs allow
any number.  For permissions, the interesting clashes
are between an old prompt and a new request (two calls, two lives), between
two requests in the table, and between a parent and a child (one of each).
For the log, a channel of three is full during every fork and most turns; two
items tell an order; two lives let a torn line meet a new writer, and a fork
the name of an old one.  Items and faults share a budget, and the constraint
`Budget` narrows it: a behaviour with a fault has three tasks and events
instead of four, and in the second life a full channel is the last thing a
behaviour sees.  The theorems cover what this leaves out.  Of the interfaces, queues of
one are full at once, so that every wait on a full queue happens; three
processes let one start while another drains and a third holds the lock.  Of
the components, two of a kind (messages, prompts, calls, turns, sessions)
clash in every way two can, and a budget shared by all kinds of input keeps
each combination of two or three.  Two hooks differ in priority or stand in a
tie (`Priorities`).  Five inputs (`MaxInputs`) are a turn and the four frames of
a block and its tool call, or a turn with a steered item, a follow-up and what
the provider says between them.  A checkpoint needs one write to differ, a
move is a change of two files, and two restores chain a rewind.
The theorems below do not depend on any bound.

Fairness.  Only what the runtime does by itself is fair: tokio polls a task
that has been woken, timers fire, a mutex is handed on, the actor goes on with
the submission it took.  Clients owe nothing: no submission, answer, cancel,
crash or resume is fair.  Nor is a step in which a task waits for somebody else.
In `EngineTurns` these are `Awaiting` and `CompactionWaits`:

- the provider call, its stream and a tool have no timeout (`turn.rs:186`,
  `:551`); they are raced against the token of the turn, so they are fair once
  it fired;
- a permission request may be deferred and then waits for its user without
  bound (`permission.rs:302`), and the PreToolUse hooks before it are not raced
  against the token (`tool_dispatch/mod.rs:423`), so this step never is;
- the hooks and the summary of a compaction, which nothing cancels.

So `TurnEnds` says that a turn ends or waits at one of these for ever without
being cancelled (a cancelled turn is ended by `cancel_turn`, whatever its task
waits for), and `PhaseReturns` that the phase comes back or its holder waits for
ever.  In `Permission` the Ask of a hook is a bounded wait and its timer fires;
a deferred request has no timeout, so `CallSettles` lets it wait for its user.
The two composite runs check safety only.

## 5. Proofs

| Theorem | Statement |
|---|---|
| `TypeCorrect` | `Spec => []TypeOK` of `EngineTurns` |
| `PhaseProtocol` | `Spec => []SingleActiveTurn` |
| `MaintenanceProtocol` | `Spec => []MaintenanceAlone` |
| `NoRetryNoDrift` | `MaxProviderRetries = 0` implies `Spec => []NoDrift` |
| `RestoreMeetsCompactionOnly` | `Spec => RestoreLosesOnlyToCompaction` |
| `SingleEnding` | `Spec => []OneEnding` |
| `EndingsAreFinal` | `Spec => EndingIsFinal` |
| `ViewsAgreeAlways` | `Spec => []ViewsAgree` |
| `CancelReachesItsTurn` | `Spec => []CancelKeepsToItsTurn` |
| `NextTurnItemsSurvive` | `Spec => NextTurnSurvivesAbort` |
| `ItemsAccounted` | `Spec => []InjectionAccounted` |
| `KeysAreFresh` | `Spec => []TypeOK` of `Permission`: the counter is above every key |
| `NoToolWithoutConsent` | `Spec => []ConsentForThisCall` |
| `AnswersAreHonoured` | `Spec => []AnswerHonoured` |
| `SuspensionsAreDurable` | `Spec => []SuspendedIsDurable` |
| `DiskBehindFile` | `Spec => []TypeOK` of `Persistence`: no more is on the disk than in the file |
| `SavedTurnsStay` | `Spec => []SavedTurnsSurvive` |
| `CleanExitLosesNothing` | `Spec => []CleanExitIsDurable` |
| `IndexLagsRollout` | `Spec => IndexEndsAfterSave` |
| `RolloutsInOrder` | `Spec => []RolloutInOrder` |
| `ForksAreComplete` | `Spec => []ForkIsComplete` |
| `SubagentsStayWithinScope` | `Spec => []ChildNeverWider` of `SubagentScope` |
| `ClientLeavesNothing` | `Spec => [](TypeOK /\ ClientTeardown)` of `NativeClient` |
| `ClientIsAtMostOnce` | `NativeClient` implements `RemoteCalls` |
| `ConnectionIsOrdered` | `Spec => [](TypeOK /\ ConnectionOrder)` of `ServerConnection` |
| `HandleIsConsistent` | `Spec => [](TypeOK /\ HandleConsistent)` of `EngineHandle` |
| `HandleIsAtMostOnce` | `EngineHandle` implements `RemoteCalls` |
| `TeardownsLeaveNothing`, `ConnectionsStayOrdered`, `ServersStaySafe`, `HandlesStayConsistent`, `TypesAlwaysOK` | `Spec => []ClientTeardown`, `[]ConnectionOrder`, `[]ListenerSafe`, `[]HandleConsistent`, `[]TypesOK` of `MCInterfaces`, the run's own definitions |
| `CallsHappenAtMostOnce` | `Spec => AtMostOnce` of `MCInterfaces`: both ends implement `RemoteCalls` |

### Engine

All in `EngineTurns_proofs`, in this order.

*Types and the phase.*  `TypeOK` is not inductive: a
step indexes per-thread state by the thread its process works on, and a retry
adds one to a counter with a cap.  `Addressed` says that the thread of a
running process is a thread and that the counter is below its cap where it will
be raised.  `PhaseInv` is `SingleActiveTurn /\ MaintenanceAlone`, inductive
together with these two, because the compare-and-swap of a claim needs `Idle`
while every holder implies another phase.  Without retries the phase is never
`Retry` (`RetryFree`), so that a holder implies `Turn` and no compare-and-swap
can fail: the premise is exactly what finding 1 needs to be false.  A restore
claims the phase twice; between the two it is the actor that is busy, so that
no turn can start, and a compaction is the only one to take the phase
(`RestoreGap`).

*Endings.*  What makes an ending single is ownership of
the slot.  `SlotInv`: a turn in a slot is being started by the actor, or its
task runs and was started on that thread; `FreshInv`: turn numbers above the
counter are unused; `CompactInv`: an automatic compaction is that of a task
waiting for it.  `EndInv` then says what each turn may have recorded and
announced by where it is: nothing while the slot names it, one thing once the
slot was taken from it.  Most steps touch none of this state; lemma `StepKind`
sorts the steps of `Next` into a few kinds (`Kinds`) and the later proofs go by
kind.

*Views.*  Slot, status, history buffer, thread row and
recorded endings are changed one after the other, so they agree only at rest.
`ViewInv` says who is going to bring them together: a buffer is open, a row
says Active or an ending is missing only while the slot is taken, a task is on
that step of its `finish_turn` or the actor on that step of its `cancel_turn`.
At rest nobody is there, and the agreement follows (`RestAgrees`).  All this is
about what was sent: an operation the full channel drops leaves a `Stale` row or
a `Lost` ending, and the theorems hold for any number of them (`MaxDrops`).  For a
cancel, `BufferInv` says that the buffer of a thread whose slot is taken has
the turn of the slot open, or none, and that a task of a client turn which lost
its slot has its token fired; so closing the buffer closes the right turn, and
a task that writes into a later turn is a cancelled one.

*Queues.*  `PlaceInv`: an item has at most one place in
the queues and one in the seed of a starting turn, not both, and has one
exactly if its fate is still open.  `ItemsAccounted` states this by counting;
lemma `PlacesCount` derives the count from the places.

### Permissions

*Consent* is a fact about one call at the end of a chain: the outcome in its
oneshot came from the entry the actor found under the key of the prompt the
client answered.  Each link is a conjunct of `IInv`: a live entry of the table
belongs to the call that has its key and has no answer yet (`TableInv`), a
prompt whose key leads to a live entry is the prompt of that call
(`PromptInv`), a listening call has a key below the counter and only its own
entry under it (`ListenInv`), a grant in a oneshot is the recorded answer
(`AnswerInv`), a verdict to allow rests on the votes or on an answer
(`ProgressInv`), a remembered tool on some answer (`AlwaysInv`).  The counter
above every shown key is what makes enrolling keep `PromptInv`, also after a
restart has set it to zero and a resume has brought old keys back.

*Answers.*  `HonourInv`: an answered request has left the table, so that
nothing overwrites its oneshot, neither a timeout nor a drain; the answer is in
the oneshot or in the verdict of the call; a token that fired stays fired.

*Durable suspensions.*  The rollout identifies a request by its key, and keys
repeat over lives.  `LiveInv` says that a resume and a live turn exclude each
other, `KeysInv` that the requests under way have different keys, that a
pending entry names its call and the key the client was told, and that a
reinstated request has the key of no other that is under way, `HeldInv` that
the entry of a waiting request is in the rollout or queued for it with no later
entry that supersedes it, unless that very entry was lost: what is lost of other
requests, a marker or a suspension, disturbs none of it.

### Persistence

`BaseInv` are types, the counters of the bound and what may travel in the
channel.  *Saved turns* and *clean exits* rest on `SavedInv`: an item that was
taken by the channel is in the queue, in the file or counted as lost
(`SentInv`), the items owed since a sync are in the synced part of it
(`OwedInv`), and without a fault a rollout that was not opened in this life,
or whose turn is about to be indexed as ended, is synced to its end
(`SyncInv`).  The *index* follows, because the writer syncs before it projects.

*Order* rests on `OrderedInv`: the file of a thread is behind its lines in the
channel and these behind what its task has still to send (`AtInv`, `OrderInv`),
and a fork that is copying is alone with its rollout (`TodoInv`), which is
exactly what the reuse of a name after a restart breaks (section 7).

*Forks* add `AckInv` (one flush is waited for, and nothing a turn said stands
behind it in the channel), `CopyInv` (each operation that names the parent is
lost, in the file, or goes before the end of the fork's first turn),
`SyncedInv` and `ParentInv` (when that end is synced the first header names the
parent, and that stays on the disk).

What the readers of a rollout compute is defined by recursion over the file.
The induction theorems of the library take an operator as a parameter, which
the provers cannot instantiate; the module proves instead that a set of naturals
that has an element has a least one (`LeastNumber`), that a recursive function
satisfies its equation (`Recursion`, `PickUnfold`), and derives by a least
counterexample that a selection keeps order and content (`PickType`,
`PickEmbeds`).

### Subagents

The danger is that the spawn and every fold read the slot afresh.  `OwnSlot`
says that a spawn by the `agent` tool finds its own turn in the slot as long as
that turn was not cancelled; `PreparedBound` and `ChildBound` carry what the
narrowing established (lemma `NarrowingIsSound`) from the prepared scope to the
child, `Asking` that a call in a fold passed the child's gate, and
`GrantedBound` is the conclusion about every call that ran.

### The edges

*Client* (`NativeClient_proofs`).  `ClientInv` strengthens the teardown.
`EntryInv`: the sender of a call that was made is in exactly one place while its
slot is empty, the map or the hand of the reader or the writer (`drained`), and
in none afterwards; a hand is empty unless its task is filling slots.
`DrainInv` orders the reader's way out: what was registered while it read has
left the map once it is past the drain, the disconnect is in the broadcast
exactly when it is past the announcement, and only then can `shutdown()` be
notified.  So the announcement may be ahead of the slots the writer has in its
hand, and of no others.  `HandlerInv`: a handler's task that
runs is in the map of reverse requests or is about to be entered by the reader
that spawned it, which cannot be tearing down meanwhile.  `OnceInv` is about one
request on its way: it is at most once in the outbound queue or the stream, and
then it was pushed and not carried out; whatever answers a call, in the stream,
in its slot or at its caller, was carried out.  The refinement has one step per
action: the peer's taking a request is `Execute` of the abstract call, the
caller's return is its answer, refusal or failure, every other step is a
stutter.

*Connection* (`ServerConnection_proofs`).  `RequestInv`: frames are numbered as
they are sent, and the one in hand is after those answered and before those that
wait, also when a torn frame is put back in its place; so replies can only
ascend.  `WelcomeInv`: a connection is initialized exactly while its one welcome
is answered or in hand, which is what the gates of later requests rest on.
`VisibleInv` follows an event from the forwarder to the wire, `LagInv` says why
one was skipped.  For `EventsAccounted` the events shown, in hand, queued and
held are one sequence, `Passed`: a step moves the boundary between two of its
parts (lemmas `Regrouped`, `QueueTail`) or adds the next event of the engine at
its end.

*Listener* (`MCInterfaces_proofs`).  `OwnInv`: from its bind to its unlink a
server whose file no `serve` command removed owns the path and listens on it.
A second server could take it only between its own probe and bind, and the
startup lock is held there and until the socket is guarded (`LockInv`); a
socket found stale under the lock therefore stays stale (`StaleInv`).
`PermitInv` adds the permits up in every stage of a start, not only while
serving.

*Handle* (`EngineHandle_proofs`).  `SubmittedInv`: a submission is in one place
of the queue or with the actor, not carried out yet, and its caller waits for
it, has given up, or never would wait.  `AnswerInv`: a reply is dropped when
the loop ends and then nothing was carried out; any other was sent by the one
operation it answers and is an outcome its request declares.  `ModelInv` says
how far a lone `set_model` is: the limits follow the provider one step after
the other.

*The run* (`MCInterfaces_proofs`).  `EdgesInv` is the invariant of the component
the behaviour is about.  The module instantiates the proof modules of the
client, the connection and the handle, shows that their constants are justified
by `EdgeConstants` and `AnswersTold`, and that each component is the one its
proofs are about; the listener's proof is about the instance itself.

### Assumptions, and what is only model-checked

The theorems assume what the modules assume of their constants: disjoint sets
of threads or calls, positive bounds, a tool for every call, at least one
thread, a `None` that is no thread, finitely many injected items.  They hold for
any number of threads, turns, retries, items, calls, lives, forks and lost
storage operations, and any capacity of the channel; the counters of the bound
remain in the guards.  Those about the edges assume `ClientConstants` and
`ConnectionConstants` (capacities and bounds are numbers), `ListenerConstants`
(at least one connection is accepted, the absence of a holder is no process) and
`HandleConstants` (the outcomes in the table of requests differ from what the
handle reports in their place).  `MCInterfaces` takes these from two assumptions
TLC evaluates: `EdgeConstants`, about its constants, and `AnswersTold`, about
the closed tables of `WireApi`.

Only model-checked: the liveness properties (`TurnEnds`, `PhaseReturns`,
`CallSettles`: fairness is out of the prover's reach) and the invariants of the
`components` run, but `ChildNeverWider`, which is proved of its own module.
What the violation runs refute has no theorem, of course.

## 6. Findings

1. *A cancel during a retry backoff wedges the engine* (`engine_wedge`).
   `cancel_turn` gives the phase back from `Turn`, the phase is `Retry`, the
   swap fails and is logged; the task then puts the phase back to `Turn` and
   its `finish_turn` no longer owns the slot.  Every later turn is refused.
2. *A finish may close the buffer of the next turn* (`engine_buffer`).  The
   phase is given back before the history buffer is closed, and closing acts
   on whatever turn is open.
3. *A cancelled turn leaves its deferred request unresolved in the rollout*
   (`permission_marker`).  The cancel arm writes no marker, and the end of the
   turn is enqueued by the actor before the waiter runs.
4. *Turn ids repeat after a restart* (`persistence_resume`).  The counter in a
   turn id starts at zero in every process (`lifecycle.rs:561`, `inner.rs:276`)
   and resume groups items by turn id, so a turn of a later process is
   restored inside an old turn, ahead of what came between.

## 7. Observations

Met while modelling and refuted by no run of its own.  The models take these
behaviours as they are in the code, and the properties except them where they
would stand in the way.

Claims the code does not keep.  Each is written down next to the property that
holds in its place; TLC refutes it when it is given as the invariant of
`MCInterfaces` or `MCParts`.
- `ErrorBeforeDisconnect`: `transport.rs:23` of the native client says that the
  teardown "guarantees that a caller awaiting both a `call` and `next_event`
  sees the request error *before* the disconnect event".  The writer drains the
  same map (`transport.rs:208`) and `drain_with_disconnected` fills the slots
  after it released the lock (`pending.rs:86-94`): the writer takes the senders,
  the reader finds the map empty and broadcasts `Disconnected`, and a subscriber
  sees it while the call still waits.
- `AbortIsHeard`: `lib.rs:903` of the ACP bridge says that an abort "necessarily
  arrives after this subscription and cannot be missed".  When the turn is
  cancelled while the prompt still renders earlier events, the abort is in the
  prompt's first receiver and not in the fresh one of `handle_permission`, and
  the prompt waits for an answer the client need not give.
- `ItemsNameTheirTurn`: `zhive-proto` `domain.rs:83` says that an item id is
  "scoped to a turn, of the form `item:<turn_id>/<seq>`", and
  `lifecycle.rs:147-152` rewrites the input of a turn for that reason.  Steered
  items (`turn.rs:452-466`) and follow-ups (`turn.rs:726-738`) keep the id their
  client chose, which nothing keeps from being used twice.
- `RevertsEveryFile`: `snapshot/mod.rs:153-155` says that "Files present in the
  tree are rewritten from it".  `git diff --name-only` (`:172`) detects renames
  and lists a pair under its new name only, so a file moved, or moved and edited
  as long as git finds the two similar, is deleted under its new name and not
  brought back under the old one.
- `HighestRootWins`: `skills/mod.rs:119-123` says of two skills with one declared
  name that "the one that comes from the higher-priority root (later in the root
  search order) wins", and `skills/discovery.rs:229-232` that "paths from
  higher-priority roots appear later in the returned slice".  A directory seen
  again in a higher root replaces the path in the slot of the lower one
  (`discovery.rs:278-282`), and the last slot of a name wins
  (`skills/mod.rs:209-232`): a document of a root between the two is kept.

Engine.
- A client that starts a turn on the thread id of a live subagent claims the
  phase, and `finish_turn` and `cancel_turn` skip giving it back, because a
  thread with a parent does "NOT own a slot in the global" phase machine
  (`lifecycle.rs:52`, `:306`, `:315`): every later turn, compaction, fork and
  restore is refused.  The start also takes the slot of the subagent's own turn,
  which then ends without a terminal event.  Both are the exception `Overtaken`
  of `TurnEnds` and `PhaseReturns`, and the run reaches them.
- A storage operation is dropped with a warning when the channel is full
  (`inner.rs:469-482`): the row of a thread then stays Active in the store, an
  ending or an item is missing.  The writer drops a line when its file cannot
  be opened or synced (`writer.rs:1182-1200`).  A deferred request whose entry is
  lost cannot be picked up after a restart.
- A provider error and a cancel at the same time broadcast both `TurnFailed`
  and `SessionAborted` for one turn (`turn.rs:525`, `lifecycle.rs:467`).
- The Idle row of a finished turn may be enqueued after the Active row of the
  next one (`lifecycle.rs:411` against `:172`).
- A compaction takes its snapshot before it claims the phase
  (`compaction.rs:217`); items of a turn that ends in between are replaced.
- A cancelled task may drain a steer item and drop it (`turn.rs:452`), and the
  first step of a task persists the items of whatever turn the buffer has open
  (`turn.rs:395`).

Permissions, hooks, subagents.
- `cancel_all` resolves the requests of every thread, reinstated prompts of
  other threads included, whose cleanup then marks them resolved.
- After a restart a new request may take key 0 before an old `perm:0` is
  reinstated; the reinstated one then replaces it in the table, and the new
  call is abandoned, which denies it.  In the rollout the two share a key.
- The spawner's wait for a deferred request is not raced against a token:
  cancelling only the child leaves the parent's `agent` call parked until the
  prompt is answered (`spawner.rs:269`).
- An allow-always on the prompt of a child is an allow-once (`spawner.rs:289`).
- `TurnResumed` is sent twice for a reinstated request (`inner.rs:867`,
  `resume.rs:260`).
- An Ask that timed out leaves its entry in the table (`permission.rs:284`).
- PreToolUse hooks run under a token nobody fires; a subprocess that does not
  read its input is not bounded by the timeout; the parent's fold ignores a
  rewritten input and a stop.
- With no mode on the parent's turn a definition may ask for `Bypass` for the
  child, which the parent's second fold bounds again; a child spawned by a
  client has no spawner and can run no tool; an `agent` call dropped between
  inserting the child and starting it leaves the child's handle behind.

Transcript.
- The fold turns malformed tool arguments into an object without fields, where
  its comment says a string; truncated calls run with no arguments.
- After a compaction the prompt starts with an assistant message.
- Resuming a thread that is in memory repeats its history (`resume.rs:200`).

Storage.
- Fork ids repeat after a restart for the reason of finding 4, and the second
  fork appends to the rollout of the first (`fork.rs:491` says that they never
  collide).  `RolloutInOrder` and `SavedForkKeepsParent` except such forks.
- A rollout that ends in a torn line is appended to as it is: the header the
  next process writes is merged into the torn line, and the line after that
  makes it a corruption in the middle of the file, so that the saved turns
  before it can no longer be resumed (`rollout.rs:218`, `:503`).
- Fork reads with the strict reader, resume with the tolerant one: after a
  crash a thread may be resumed and not forked (`mod.rs:193`).
- The upserts of `start_turn` and `finish_turn` write no name and no parent:
  they erase a rename and the fork link from the index.
- The items table is keyed by item id, so copying an item into a fork moves
  its row; deleting a thread while its turn finishes leaves a row behind, and
  a rebuild forgets previews, names and unfinished turns.
- The acknowledgement of a flush is sent even when the sync failed
  (`writer.rs:680`), and shutdown closes the channel without the end of a live
  turn, which `run_writer` counts on (`writer.rs:365`).

Tools and snapshots.
- `bash.rs:24` says that a cancel kills the process group; dispatch looks at
  the token first and drops the future (`tool_dispatch/mod.rs:1018`), which
  kills the shell only.  `NoOrphans` is about calls that were not dropped.
- Two edits of one file in one turn may lose one of them; a file operation of a
  cancelled call lands after the call was answered, and a cancelled write may
  leave its temporary file.
- A checkout that fails for any reason is taken for a path the tree does not
  have, and the file is deleted; a capture that times out kills git, whose
  `index.lock` may fail every later capture and restore.
- A restore may revert files and then lose the fork to a compaction
  (`restore.rs:236`), and subagents write through it (`restore.rs:204`).

Server and clients.
- A `zhive serve` that fails or ends late removes the socket of a live server
  (`zhive-cli` `run.rs:549`); `taken` of `ServerListener` marks such servers.
- The serve loop drops a frame that is half read when an outbound message is
  ready.  A call that the client registers after its reader left never returns;
  one that could not be sent leaves its entry in the map.
- An operation whose reply timed out is still carried out; an injection is
  acknowledged when it is queued; two concurrent `set_model` calls may leave
  the limits of one with the provider of the other (`engine.rs:643`).
- Terminal interface: a submit that fails after `/clear` puts its text into the
  new thread's queue (`app.rs:1424`); a second question or a late overlay
  replaces an open approval; a late resume or resync resets the busy state.
- ACP: an aborted turn removes its session, though the thread can be used; a
  prompt that subscribes during another turn of its thread takes that turn's
  abort for its own; a receiver that lags may miss the end of its turn.
- MCP: two servers may join to one tool name and the last wins, where the code
  calls the names unique; a dead server's tools stay in the table.
- Skills: a directory that fails to load still hides the one below it.
- Configuration: without a `[provider]` section the built-in providers apply;
  choosing a model then writes an entry without a kind, and the next launch
  refuses the file (`zhive-cli` `config.rs:625`).  Writes are not atomic, and
  one-run overrides may be saved.

## 8. Not modelled

Rendering, editing keys, themes and palettes of the terminal interface;
argument parsing and prompt templates; the contents of messages, results and
content blocks and the options of each provider; glob and directory walks;
logging; the stdio bridge, which copies bytes; the auxiliary databases, which
are opened and never queried; the tracker of reverse requests and the pending
session writes, which nothing in production fills. Operating system, git, MCP
servers, providers and editors are external and behave as the code lets them.
`PROJECT.json` gives the status of every component.
