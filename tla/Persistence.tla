---------------------------- MODULE Persistence ----------------------------
(***************************************************************************)
(* How a conversation reaches the disk, and how it comes back.             *)
(*                                                                         *)
(* The engine never waits for the disk: it puts storage operations on a    *)
(* bounded channel and drops them when the channel is full (`inner.rs`).   *)
(* One writer task takes them in order (`persistence/writer.rs`): it       *)
(* appends a line to the rollout of the thread, syncs the file at the save *)
(* points, and only then updates the SQL index.  A crash may come at any   *)
(* step: it loses the channel and some suffix of the lines that were       *)
(* appended and not synced, and may leave a part of the first lost line.   *)
(*                                                                         *)
(* The next process knows nothing but the files and the index.  Resuming a *)
(* thread reads its rollout (`resume.rs`), forking one copies its items    *)
(* into the rollout of a new thread (`fork.rs`); both first ask the writer *)
(* to flush and wait for its acknowledgement, but not for ever.            *)
(*                                                                         *)
(* One thread is started by the user, Main; the others are forks of it.  A *)
(* fork is named by the number it was given, the value of the engine's     *)
(* turn counter, which also numbers the turns.                             *)
(***************************************************************************)
EXTENDS Integers, Sequences

CONSTANTS Main,         \* the thread the user started
          None,         \* the None of an Option
          ChannelCap,   \* WRITER_CHANNEL_CAP
          MaxTasks,     \* bound: turns, forks and resumes of the whole history
          MaxEvents,    \* bound: items of the conversation, failed opens and
                        \* failed syncs of the whole history
          Lives         \* bound: number of times the process is started

ASSUME PersistenceConstants ==
    /\ ChannelCap \in Nat \ {0}
    /\ MaxTasks \in Nat /\ MaxEvents \in Nat /\ Lives \in Nat \ {0}
    /\ Main # None
    /\ Main \notin Nat /\ None \notin Nat

Forks == 0 .. (MaxTasks - 1)
ThreadIds == {Main} \union Forks

VARIABLES
    life,       \* "up", "closing", "exited" or "crashed"
    lives,      \* how many times the process was started
    counter,    \* EngineInner::turn_counter
    active,     \* the turn in progress, None when there is none
    busy,       \* the fork or resume the actor is in the middle of
    todo,       \* operations the actor is about to send, one by one
    ending,     \* turns that finished and have still to say so to the writer
    stray,      \* cancelled turns whose tasks have not noticed yet
    queue,      \* the channel to the writer
    writer,     \* the operation the writer is applying, and how far it is
    opened,     \* WriterState::rollouts
    header,     \* WriterState::header_written
    file,       \* the rollouts, as the file system shows them
    synced,     \* how many lines of each are on the disk
    rows,       \* table threads: thread -> column forked_from
    turns,      \* table turns: turn -> column status
    resident,   \* threads with a handle in memory
    transcript, \* what the handle of each thread holds
    items,      \* history: number of items of the conversation so far
    tasks,      \* history: number of turns, forks and resumes so far
    faults,     \* history: number of failed opens and failed syncs so far
    sent,       \* history: items the channel accepted in this life, by turn
    owed,       \* history: items of turns that ended with a successful sync
    ended,      \* history: the turns that did
    lost,       \* history: operations that left no line of their own
    reused      \* history: forks that were given the name of an earlier one

process == <<life, lives>>
turnVars == <<counter, active, ending, stray>>
actorVars == <<busy, todo>>
disk == <<file, synced, opened, header>>
index == <<rows, turns>>
memory == <<resident, transcript>>
counts == <<items, tasks>>
saves == <<owed, ended, reused>>
vars == <<life, lives, counter, active, ending, stray, busy, todo, queue, writer, opened,
          header, file, synced, rows, turns, resident, transcript, items, tasks,
          faults, sent, owed, ended, lost, reused>>

-----------------------------------------------------------------------------
(* Names and lines                                                          *)

TurnId(th, n) == [th |-> th, n |-> n]
ForkTurn(th) == TurnId(th, -1)
Turns == [th : ThreadIds, n : -1 .. (MaxTasks - 1)]

(* An item keeps its id when a fork copies it; `at` is its place in the      *)
(* whole conversation, which tells two items with the same id apart.         *)
ItemIds == [turn : Turns, seq : 0 .. MaxEvents]
Items == [id : ItemIds, at : 1 .. MaxEvents]

Session(parent) == [kind |-> "session", parent |-> parent]
ItemLine(u, it) == [kind |-> "item", turn |-> u, item |-> it]
Leaf(target) == [kind |-> "leaf", target |-> target]
Torn == [kind |-> "torn"]   \* part of a line, with no newline after it
Bad == [kind |-> "bad"]     \* a line that does not parse
Lines == [kind : {"session"}, parent : {Main, None}]
         \union [kind : {"item"}, turn : Turns, item : Items]
         \union [kind : {"leaf"}, target : ItemIds \union {None}]
         \union {Torn, Bad}

ThreadUpserted(th, parent) == [op |-> "ThreadUpserted", th |-> th, parent |-> parent]
TurnStarted(u) == [op |-> "TurnStarted", th |-> u.th, turn |-> u]
ItemAppended(u, it) == [op |-> "ItemAppended", th |-> u.th, turn |-> u, item |-> it]
TurnEnded(u) == [op |-> "TurnEnded", th |-> u.th, turn |-> u]
Flush(th, ack) == [op |-> "Flush", th |-> th, ack |-> ack]
ForkHeader(th) == [op |-> "ForkHeader", th |-> th, parent |-> Main]
SetLeaf(th, target) == [op |-> "SetLeaf", th |-> th, target |-> target]

Ops == [op : {"ThreadUpserted"}, th : ThreadIds, parent : {Main, None}]
       \union [op : {"TurnStarted", "TurnEnded"}, th : ThreadIds, turn : Turns]
       \union [op : {"ItemAppended"}, th : ThreadIds, turn : Turns, item : Items]
       \union [op : {"Flush"}, th : ThreadIds, ack : BOOLEAN]
       \union [op : {"ForkHeader"}, th : Forks, parent : {Main}]
       \union [op : {"SetLeaf"}, th : ThreadIds, target : ItemIds \union {None}]

Free == [task |-> "free"]
Idle == [stage |-> "idle"]
Put(f, k, v) == [x \in DOMAIN f \union {k} |-> IF x = k THEN v ELSE f[x]]
Empty == [x \in {} |-> x]


-----------------------------------------------------------------------------
(* Reading a rollout                                                        *)

Parses(line) == line.kind \notin {"torn", "bad"}
ItemOf(line) == line.item
Map(f, Op(_)) == [i \in DOMAIN f |-> Op(f[i])]

(* read_all fails on any line that does not parse, read_all_tolerant does    *)
(* not mind the last one.                                                    *)
StrictlyReadable(f) == \A i \in 1 .. Len(f) : Parses(f[i])
Readable(f) == \A i \in 1 .. (Len(f) - 1) : Parses(f[i])

(* The elements of a sequence at the given places, in their order: what      *)
(* SelectSeq does, by a recursive function that proofs can unfold            *)
Pick(f, places) ==
    LET upTo[i \in 0 .. Len(f)] ==
            IF i = 0 THEN <<>>
            ELSE IF i \in places THEN Append(upTo[i - 1], f[i]) ELSE upTo[i - 1]
    IN  upTo[Len(f)]

(* The lines with an item, the only ones the readers take an item from       *)
ItemLines(f) == Pick(f, {i \in 1 .. Len(f) : f[i].kind = "item"})

(* The items of a rollout, in file order (replay_thread_items)               *)
Replay(f) == Map(ItemLines(f), ItemOf)

(* The items turn by turn, the turns in the order of their first item        *)
(* (read_rollout_turns)                                                      *)
Grouped(f) ==
    LET s == ItemLines(f)
        firsts == Pick(s, {i \in 1 .. Len(s) :
                               \A j \in 1 .. (i - 1) : s[j].turn # s[i].turn})
        upTo[i \in 0 .. Len(firsts)] ==
            IF i = 0 THEN <<>>
            ELSE upTo[i - 1] \o Pick(s, {j \in 1 .. Len(s) : s[j].turn = firsts[i].turn})
    IN  Map(upTo[Len(firsts)], ItemOf)

-----------------------------------------------------------------------------
(* Sending to the writer                                                    *)

(* The sender of an operation that leaves no line is not told.  The history  *)
(* keeps the ones that carried an item or the parent of a fork.              *)
Miss(op) == IF \/ op.op \in {"ItemAppended", "ForkHeader"}
               \/ op.op = "ThreadUpserted" /\ op.parent = Main
            THEN {op} ELSE {}

Accepts == Len(queue) < ChannelCap

(* Mutant: a channel without a bound *)
TrySendUnbounded(op) ==
    /\ queue' = Append(queue, op)
    /\ sent' = sent \union IF op.op = "ItemAppended"
                           THEN {[turn |-> op.turn, item |-> op.item]} ELSE {}
    /\ UNCHANGED lost

(* Mutant: an operation for which the channel is full overtakes the others *)
TrySendOvertakes(op) ==
    /\ queue' = IF Accepts THEN Append(queue, op) ELSE <<op>> \o queue
    /\ sent' = sent \union IF op.op = "ItemAppended"
                           THEN {[turn |-> op.turn, item |-> op.item]} ELSE {}
    /\ UNCHANGED lost

(* enqueue_storage_op: try_send, and a full channel loses the operation      *)
TrySend(op) ==
    IF Accepts
    THEN /\ queue' = Append(queue, op)
         /\ sent' = sent \union IF op.op = "ItemAppended"
                                THEN {[turn |-> op.turn, item |-> op.item]} ELSE {}
         /\ UNCHANGED lost
    ELSE /\ lost' = lost \union Miss(op)
         /\ UNCHANGED <<queue, sent>>

(* The actor sends the operations of one submission one after the other,     *)
(* while the writer goes on.                                                 *)
SendNext ==
    /\ life = "up"
    /\ todo # <<>>
    /\ TrySend(Head(todo))
    /\ todo' = Tail(todo)
    /\ UNCHANGED <<process, turnVars, busy, writer, disk, index, memory, counts,
                   faults, saves>>

InBound == items + faults < MaxEvents
ActorFree == life = "up" /\ busy = Free /\ todo = <<>>

-----------------------------------------------------------------------------
(* Turns                                                                    *)

Init ==
    /\ life = "up" /\ lives = 1
    /\ counter = 0 /\ active = None /\ ending = {} /\ stray = {}
    /\ busy = Free /\ todo = <<>> /\ queue = <<>>
    /\ writer = Idle /\ opened = {} /\ header = {}
    /\ file = [th \in ThreadIds |-> <<>>]
    /\ synced = [th \in ThreadIds |-> 0]
    /\ rows = Empty /\ turns = Empty
    /\ resident = {} /\ transcript = [th \in ThreadIds |-> <<>>]
    /\ items = 0 /\ tasks = 0 /\ faults = 0
    /\ sent = {} /\ owed = {} /\ ended = {} /\ lost = {} /\ reused = {}

(* start_turn: the snapshot it upserts never names a parent                  *)
StartTurn(th) ==
    /\ ActorFree
    /\ active = None
    /\ tasks < MaxTasks
    /\ tasks' = tasks + 1
    /\ th \in {Main} \union DOMAIN rows \union resident
    /\ counter' = counter + 1
    /\ active' = [turn |-> TurnId(th, counter), seq |-> 0]
    /\ resident' = resident \union {th}
    /\ todo' = <<ThreadUpserted(th, None), TurnStarted(TurnId(th, counter))>>
    /\ UNCHANGED <<process, ending, stray, busy, queue, writer, disk, index, transcript,
                   items, faults, sent, saves, lost>>

(* A turn says something: the item goes to the channel and to the transcript *)
(* (push_item), if a turn of the thread is open there.                       *)
Say(a) ==
    LET u == a.turn
        it == [id |-> [turn |-> u, seq |-> a.seq], at |-> items + 1]
    IN  /\ InBound
        /\ items' = items + 1
        /\ TrySend(ItemAppended(u, it))
        /\ transcript' = IF active # None /\ active.turn.th = u.th
                         THEN [transcript EXCEPT ![u.th] = Append(@, it)] ELSE transcript
Spoken(a) == [a EXCEPT !.seq = @ + 1]

AppendItem ==
    /\ life = "up"
    /\ todo = <<>>
    /\ active # None
    /\ Say(active)
    /\ active' = Spoken(active)
    /\ UNCHANGED <<process, counter, ending, stray, actorVars, writer, disk, index,
                   resident, tasks, faults, saves>>

(* The task of a cancelled turn is between two looks at its token.           *)
StrayItem(a) ==
    /\ life = "up"
    /\ a \in stray
    /\ Say(a)
    /\ stray' = (stray \ {a}) \union {Spoken(a)}
    /\ UNCHANGED <<process, counter, active, ending, actorVars, writer, disk, index,
                   resident, tasks, faults, saves>>

(* finish_turn frees the slot and the phase before it writes.                *)
FinishTurn ==
    /\ life = "up"
    /\ todo = <<>>
    /\ active # None
    /\ active' = None
    /\ ending' = ending \union {[turn |-> active.turn, send |-> "ended"]}
    /\ UNCHANGED <<process, counter, stray, actorVars, queue, writer, disk, index, memory,
                   counts, faults, sent, saves, lost>>

(* So does cancel_turn, in the actor: it does not wait for the task.         *)
CancelTurn ==
    /\ ActorFree
    /\ active # None
    /\ active' = None
    /\ stray' = stray \union {active}
    /\ todo' = <<TurnEnded(active.turn), ThreadUpserted(active.turn.th, None)>>
    /\ UNCHANGED <<process, counter, ending, busy, queue, writer, disk, index, memory,
                   counts, faults, sent, saves, lost>>

(* The save point, then the thread row, back to idle                         *)
SendEnded(e) ==
    /\ life = "up"
    /\ e \in ending
    /\ \/ /\ e.send = "ended"
          /\ TrySend(TurnEnded(e.turn))
          /\ ending' = (ending \ {e}) \union {[e EXCEPT !.send = "idle"]}
       \/ /\ e.send = "idle"
          /\ TrySend(ThreadUpserted(e.turn.th, None))
          /\ ending' = ending \ {e}
    /\ UNCHANGED <<process, counter, active, stray, actorVars, writer, disk, index,
                   memory, counts, faults, saves>>

-----------------------------------------------------------------------------
(* Forking and resuming                                                     *)

(* Mutant: the flush is asked for and not waited for *)
AskingNoWait(task, th) ==
    /\ TrySend(Flush(IF task = "fork" THEN Main ELSE th, FALSE))
    /\ busy' = [task |-> task, th |-> th, wait |-> "acked"]

Asking(task, th) ==
    /\ TrySend(Flush(IF task = "fork" THEN Main ELSE th, TRUE))
    /\ busy' = [task |-> task, th |-> th, wait |-> IF Accepts THEN "waiting" ELSE "gone"]

(* fork_thread claims the phase, names the fork and asks for a flush of the  *)
(* source.  A flush the channel did not take drops its oneshot.              *)
ForkBegin ==
    /\ ActorFree
    /\ active = None
    /\ tasks < MaxTasks
    /\ tasks' = tasks + 1
    /\ counter' = counter + 1
    /\ Asking("fork", counter)
    /\ UNCHANGED <<process, active, ending, stray, todo, writer, disk, index, memory, items,
                   faults, saves>>

(* resume_thread wants a row of the index and an idle engine.                *)
ResumeBegin(th) ==
    /\ ActorFree
    /\ active = None
    /\ th \in DOMAIN rows
    /\ tasks < MaxTasks
    /\ tasks' = tasks + 1
    /\ Asking("resume", th)
    /\ UNCHANGED <<process, turnVars, todo, writer, disk, index, memory, items,
                   faults, saves>>

(* The wait for the acknowledgement times out; its receiver is dropped, so a *)
(* later acknowledgement reaches nobody.                                     *)
Unheard(op) == IF op.op = "Flush" THEN [op EXCEPT !.ack = FALSE] ELSE op
FlushTimeout ==
    /\ life = "up"
    /\ busy # Free /\ busy.wait = "waiting"
    /\ busy' = [busy EXCEPT !.wait = "gone"]
    /\ queue' = Map(queue, Unheard)
    /\ writer' = IF writer = Idle THEN Idle ELSE [writer EXCEPT !.op = Unheard(@)]
    /\ UNCHANGED <<process, turnVars, todo, disk, index, memory, counts, faults, sent,
                   saves, lost>>

Ready(task) == life = "up" /\ busy # Free /\ busy.task = task
               /\ busy.wait \in {"acked", "gone"}

(* persist_fork *)
Plan(th, copy) ==
    LET u == ForkTurn(th)
        Copied(it) == ItemAppended(u, it)
    IN  <<ForkHeader(th), ThreadUpserted(th, Main), TurnStarted(u)>>
        \o Map(copy, Copied)
        \o <<TurnEnded(u),
             SetLeaf(th, IF copy = <<>> THEN None ELSE copy[Len(copy)].id),
             Flush(th, FALSE)>>

Taken(th) == th \in resident \/ th \in DOMAIN rows \/ file[th] # <<>>

(* The history up to a cut is read with the strict reader; an empty cut      *)
(* reads nothing.  The new handle replaces any of the same name.             *)
ForkCopy ==
    /\ Ready("fork")
    /\ \E m \in 0 .. Len(Replay(file[Main])) :
           /\ m > 0 => StrictlyReadable(file[Main])
           /\ LET copy == SubSeq(Replay(file[Main]), 1, m)
              IN  /\ transcript' = [transcript EXCEPT ![busy.th] = copy]
                  /\ todo' = Plan(busy.th, copy)
    /\ resident' = resident \union {busy.th}
    /\ reused' = IF Taken(busy.th) THEN reused \union {busy.th} ELSE reused
    /\ busy' = Free
    /\ UNCHANGED <<process, turnVars, queue, writer, disk, index, counts, faults, sent,
                   owed, ended, lost>>

ForkFails ==
    /\ Ready("fork")
    /\ \/ ~StrictlyReadable(file[Main])
       \/ Replay(file[Main]) = <<>> /\ Main \notin resident
    /\ busy' = Free
    /\ UNCHANGED <<process, turnVars, todo, queue, writer, disk, index, memory, counts,
                   faults, sent, saves, lost>>

(* The tolerant reader, then seed_history pushes every turn it found onto    *)
(* the handle of the thread, new or not.  An unreadable rollout is an error. *)
ResumeRead ==
    /\ Ready("resume")
    /\ IF Readable(file[busy.th])
       THEN /\ resident' = resident \union {busy.th}
            /\ transcript' = [transcript EXCEPT ![busy.th] = @ \o Grouped(file[busy.th])]
       ELSE UNCHANGED memory
    /\ busy' = Free
    /\ UNCHANGED <<process, turnVars, todo, queue, writer, disk, index, counts, faults,
                   sent, saves, lost>>

-----------------------------------------------------------------------------
(* The writer task                                                          *)

WriterRuns == life \in {"up", "closing"}

(* Which operations append a line: a session header once per process and     *)
(* thread, the others always.                                                *)
Heads(op) == op.op \in {"ThreadUpserted", "ForkHeader"}
Writes(op) ==
    \/ Heads(op) /\ op.th \notin header
    \/ op.op \in {"ItemAppended", "TurnEnded", "SetLeaf"}
LineOf(op) ==
    CASE Heads(op) -> Session(op.parent)
      [] op.op = "ItemAppended" -> ItemLine(op.turn, op.item)
      [] op.op = "TurnEnded" -> Leaf(None)
      [] op.op = "SetLeaf" -> Leaf(op.target)

Indexed(op) == op.op \in {"ThreadUpserted", "TurnStarted", "TurnEnded"}
ToIndex(op) == IF Indexed(op) THEN [stage |-> "index", op |-> op] ELSE Idle

(* Mutant: the index hears of the end of a turn, and the file is not synced *)
AfterAppendIndexFirst(op) ==
    IF op.op \in {"SetLeaf", "Flush"} THEN [stage |-> "sync", op |-> op] ELSE ToIndex(op)

(* The save points are synced before the index hears of them.                *)
AfterAppend(op) ==
    IF op.op \in {"TurnEnded", "SetLeaf", "Flush"} THEN [stage |-> "sync", op |-> op]
    ELSE ToIndex(op)

EndsTorn(f) == f # <<>> /\ f[Len(f)] = Torn

(* RolloutWriter::append: the file is opened in append mode and what it ends *)
(* with is not looked at, so a line after a torn one is merged into it.      *)
WriterTake ==
    /\ WriterRuns
    /\ writer = Idle
    /\ queue # <<>>
    /\ queue' = Tail(queue)
    /\ LET op == Head(queue)
           f == file[op.th]
           n == Len(f)
       IN  /\ writer' = AfterAppend(op)
           /\ IF Writes(op)
              THEN /\ opened' = opened \union {op.th}
                   /\ header' = header \union IF Heads(op) THEN {op.th} ELSE {}
                   /\ IF EndsTorn(f)
                      THEN /\ file' = [file EXCEPT ![op.th][n] = Bad]
                           /\ synced' = [synced EXCEPT ![op.th] = n - 1]
                           /\ lost' = lost \union Miss(op)
                      ELSE /\ file' = [file EXCEPT ![op.th] = Append(@, LineOf(op))]
                           /\ UNCHANGED <<synced, lost>>
              ELSE UNCHANGED <<disk, lost>>
    /\ UNCHANGED <<process, turnVars, actorVars, index, memory, counts, faults, sent,
                   saves>>

(* rollout_for fails: the line is skipped, with its sync, and the index is   *)
(* updated all the same.                                                     *)
OpenFails ==
    /\ WriterRuns
    /\ writer = Idle
    /\ queue # <<>>
    /\ Writes(Head(queue)) /\ Head(queue).th \notin opened
    /\ InBound
    /\ faults' = faults + 1
    /\ queue' = Tail(queue)
    /\ writer' = ToIndex(Head(queue))
    /\ lost' = lost \union Miss(Head(queue))
    /\ UNCHANGED <<process, turnVars, actorVars, disk, index, memory, counts, sent,
                   saves>>

(* What a turn that ends with a successful sync is owed: its items that the  *)
(* channel took, less those whose lines were lost and those of a stray task  *)
(* that are queued behind the end.                                           *)
Written(s) == ItemAppended(s.turn, s.item) \notin
                  lost \union {queue[i] : i \in 1 .. Len(queue)}
Due(u) == {[th |-> u.th, item |-> s.item] : s \in {r \in sent : r.turn = u /\ Written(r)}}

(* After the sync, or the attempt: the acknowledgement of a flush is sent,   *)
(* the end of a turn goes on to the index.                                   *)
AfterSync(op) ==
    /\ writer' = ToIndex(op)
    /\ busy' = IF op.op = "Flush" /\ op.ack THEN [busy EXCEPT !.wait = "acked"] ELSE busy

(* Mutant: the end of a turn is only flushed to the kernel *)
WriterSyncNotAtEnds ==
    /\ WriterRuns
    /\ writer # Idle /\ writer.stage = "sync"
    /\ LET op == writer.op
       IN  /\ synced' = IF op.th \in opened /\ op.op # "TurnEnded"
                        THEN [synced EXCEPT ![op.th] = Len(file[op.th])] ELSE synced
           /\ IF op.op = "TurnEnded"
              THEN owed' = owed \union Due(op.turn) /\ ended' = ended \union {op.turn}
              ELSE UNCHANGED <<owed, ended>>
           /\ AfterSync(op)
    /\ UNCHANGED <<process, turnVars, todo, queue, opened, header, file, index, memory,
                   counts, faults, sent, lost, reused>>

WriterSync ==
    /\ WriterRuns
    /\ writer # Idle /\ writer.stage = "sync"
    /\ LET op == writer.op
       IN  /\ synced' = IF op.th \in opened
                        THEN [synced EXCEPT ![op.th] = Len(file[op.th])] ELSE synced
           /\ IF op.op = "TurnEnded"
              THEN owed' = owed \union Due(op.turn) /\ ended' = ended \union {op.turn}
              ELSE UNCHANGED <<owed, ended>>
           /\ AfterSync(op)
    /\ UNCHANGED <<process, turnVars, todo, queue, opened, header, file, index, memory,
                   counts, faults, sent, lost, reused>>

(* A failed sync is logged.                                                  *)
SyncFails ==
    /\ WriterRuns
    /\ writer # Idle /\ writer.stage = "sync"
    /\ writer.op.th \in opened
    /\ InBound
    /\ faults' = faults + 1
    /\ AfterSync(writer.op)
    /\ UNCHANGED <<process, turnVars, todo, queue, disk, index, memory, counts, sent,
                   saves, lost>>

(* The index: a row is overwritten by an upsert, a turn is recorded once and *)
(* only for a thread with a row, and only a recorded turn can end.           *)
WriterIndex ==
    /\ WriterRuns
    /\ writer # Idle /\ writer.stage = "index"
    /\ writer' = Idle
    /\ LET op == writer.op
       IN  /\ rows' = IF op.op = "ThreadUpserted" THEN Put(rows, op.th, op.parent) ELSE rows
           /\ turns' =
                CASE op.op = "TurnStarted" /\ op.th \in DOMAIN rows
                         /\ op.turn \notin DOMAIN turns -> Put(turns, op.turn, "inProgress")
                  [] op.op = "TurnEnded" /\ op.turn \in DOMAIN turns ->
                         Put(turns, op.turn, "completed")
                  [] OTHER -> turns
    /\ UNCHANGED <<process, turnVars, actorVars, queue, disk, memory, counts, faults,
                   sent, saves, lost>>

-----------------------------------------------------------------------------
(* The process                                                              *)

(* The state of EngineInner and of WriterState is gone with the process, and *)
(* nothing reads it once the channel is closed.                              *)
ForgetEngine ==
    /\ counter' = 0 /\ active' = None /\ ending' = {} /\ stray' = {}
    /\ busy' = Free /\ todo' = <<>>
    /\ resident' = {} /\ transcript' = [th \in ThreadIds |-> <<>>]
ForgetWriter ==
    /\ queue' = <<>> /\ writer' = Idle
    /\ opened' = {} /\ header' = {}

(* Shutdown drops the sender and leaves the loop: what a turn still says, its *)
(* end included, goes nowhere.                                               *)
Close ==
    /\ ActorFree
    /\ life' = "closing"
    /\ ForgetEngine
    /\ UNCHANGED <<lives, queue, writer, disk, index, counts, faults, sent, saves, lost>>

(* Mutant: the writer leaves without the last syncs *)
WriterExitsUnsynced ==
    /\ life = "closing"
    /\ queue = <<>> /\ writer = Idle
    /\ life' = "exited"
    /\ ForgetWriter
    /\ UNCHANGED <<lives, turnVars, actorVars, file, synced, index, memory, counts,
                   faults, sent, saves, lost>>

(* The writer has drained the channel and syncs every rollout it opened; a   *)
(* sync that fails is logged.                                                *)
WriterExits ==
    /\ life = "closing"
    /\ queue = <<>> /\ writer = Idle
    /\ \E failed \in SUBSET opened :
           /\ failed # {} => InBound
           /\ faults' = IF failed = {} THEN faults ELSE faults + 1
           /\ synced' = [th \in ThreadIds |-> IF th \in opened \ failed
                                              THEN Len(file[th]) ELSE synced[th]]
    /\ life' = "exited"
    /\ ForgetWriter
    /\ UNCHANGED <<lives, turnVars, actorVars, file, index, memory, counts, sent, saves,
                   lost>>

(* What a crash can leave of a rollout: a prefix with every synced line, and *)
(* perhaps a part of the next one.  A line that was merged into a torn one   *)
(* leaves at least that.                                                     *)
Survivors(f, n) ==
    {SubSeq(f, 1, k) : k \in {j \in n .. Len(f) : j = Len(f) \/ f[j + 1] # Bad}}
    \union {Append(SubSeq(f, 1, k), Torn) : k \in n .. (Len(f) - 1)}

Dirty == {th \in ThreadIds : synced[th] < Len(file[th])}

(* A crash, also one after the writer has exited: committed rows survive.    *)
Crash ==
    /\ life # "crashed"
    /\ life = "exited" => Dirty # {}
    /\ \E left \in [Dirty -> UNION {Survivors(file[th], synced[th]) : th \in Dirty}] :
           /\ \A th \in Dirty : left[th] \in Survivors(file[th], synced[th])
           /\ file' = [th \in ThreadIds |-> IF th \in Dirty THEN left[th] ELSE file[th]]
           /\ synced' = [th \in ThreadIds |-> Len(file'[th])]
    /\ life' = "crashed"
    /\ ForgetEngine
    /\ ForgetWriter
    /\ sent' = {}
    /\ UNCHANGED <<lives, index, counts, faults, saves, lost>>

Restart ==
    /\ life \in {"exited", "crashed"}
    /\ lives < Lives
    /\ tasks < MaxTasks    \* the model has something left to do
    /\ life' = "up" /\ lives' = lives + 1
    /\ sent' = {}
    /\ UNCHANGED <<turnVars, actorVars, queue, writer, disk, index, memory,
                   counts, faults, saves, lost>>

Next ==
    \/ SendNext
    \/ \E th \in ThreadIds : StartTurn(th)
    \/ AppendItem
    \/ \E a \in stray : StrayItem(a)
    \/ FinishTurn
    \/ CancelTurn
    \/ \E e \in ending : SendEnded(e)
    \/ ForkBegin
    \/ \E th \in ThreadIds : ResumeBegin(th)
    \/ FlushTimeout
    \/ ForkCopy
    \/ ForkFails
    \/ ResumeRead
    \/ WriterTake
    \/ OpenFails
    \/ WriterSync
    \/ SyncFails
    \/ WriterIndex
    \/ Close
    \/ WriterExits
    \/ Crash
    \/ Restart

Spec == Init /\ [][Next]_vars

-----------------------------------------------------------------------------
(* Properties                                                               *)

(* The types of the state; the channel is within its capacity and no more of *)
(* a rollout is on the disk than it has lines.                               *)
TypeOK ==
    /\ life \in {"up", "closing", "exited", "crashed"} /\ lives \in 1 .. Lives
    /\ counter \in 0 .. MaxTasks
    /\ active \in [turn : Turns, seq : 0 .. MaxEvents] \union {None}
    /\ stray \subseteq [turn : Turns, seq : 0 .. MaxEvents]
    /\ ending \subseteq [turn : Turns, send : {"ended", "idle"}]
    /\ busy \in [task : {"fork", "resume"}, th : ThreadIds,
                 wait : {"waiting", "acked", "gone"}] \union {Free}
    /\ todo \in Seq(Ops) /\ queue \in Seq(Ops) /\ Len(queue) <= ChannelCap
    /\ writer \in [stage : {"sync", "index"}, op : Ops] \union {Idle}
    /\ opened \subseteq ThreadIds /\ header \subseteq opened
    /\ file \in [ThreadIds -> Seq(Lines)]
    /\ \A th \in ThreadIds : synced[th] \in 0 .. Len(file[th])
    /\ DOMAIN rows \subseteq ThreadIds
    /\ DOMAIN turns \subseteq Turns
    /\ resident \subseteq ThreadIds
    /\ transcript \in [ThreadIds -> Seq(Items)]
    /\ sent \subseteq [turn : Turns, item : Items]
    /\ owed \subseteq [th : ThreadIds, item : Items]

(* "data survives a crash as long as the most recent turn completed": once   *)
(* the end of a turn was synced, every item of it that the channel took has  *)
(* its line in the rollout, whatever crashes, restarts and later turns do,   *)
(* but for lines the writer could not open the file for or merged into a     *)
(* torn one.                                                                 *)
SavedTurnsSurvive == \A o \in owed : o.item \in {Replay(file[o.th])[i] :
                                                   i \in 1 .. Len(Replay(file[o.th]))}

(* A rollout tells the conversation in order and tells nothing twice, also   *)
(* across crashes, dropped operations and the copying of a fork: the items   *)
(* stand in it in the order in which they were said, unless two forks share  *)
(* it.                                                                       *)
RolloutInOrder ==
    \A th \in ThreadIds \ reused :
        LET r == Replay(file[th])
        IN  \A i, j \in 1 .. Len(r) : i < j => r[i].at < r[j].at

(* The header that a rebuild believes, the first of the rollout, names the   *)
(* parent of a fork whose first turn was saved.  ForkHeader and the upsert   *)
(* behind it both carry the name, so one of the two may get lost.  (A fork   *)
(* that was given the name of an earlier one writes into that one's rollout.)*)
SavedForkKeepsParent ==
    \A th \in Forks \ reused :
        ForkTurn(th) \in ended
        /\ ~({ForkHeader(th), ThreadUpserted(th, Main)} \subseteq lost) =>
        \E i \in 1 .. Len(file[th]) :
            /\ file[th][i] = Session(Main)
            /\ \A j \in 1 .. (i - 1) : file[th][j].kind # "session"

(* A fork that heard the acknowledgement of its flush reads every item of    *)
(* the source that the channel took: nothing it could copy is still queued,  *)
(* unless the task of a cancelled turn is still talking.                     *)
ForkSeesEverything ==
    busy # Free /\ busy.task = "fork" /\ busy.wait = "acked" /\ WriterRuns =>
        \A s \in sent :
            s.turn.th = Main /\ s.turn \notin {a.turn : a \in stray}
            /\ ItemAppended(s.turn, s.item) \notin lost =>
            ItemLine(s.turn, s.item) \in {file[Main][i] : i \in 1 .. Len(file[Main])}

(* A fork is complete: it names its parent and saw all of it. *)
ForkIsComplete == SavedForkKeepsParent /\ ForkSeesEverything

(* After a clean shutdown every line is on the disk, and the writer has      *)
(* applied every operation the channel took, unless an open or a sync failed.*)
CleanExitIsDurable ==
    life = "exited" /\ faults = 0 =>
        /\ \A th \in ThreadIds : synced[th] = Len(file[th])
        /\ \A s \in sent : ItemAppended(s.turn, s.item) \notin lost =>
               \E i \in 1 .. Len(file[s.turn.th]) :
                   file[s.turn.th][i] = ItemLine(s.turn, s.item)

(* The index calls a turn completed only when the items of the turn are on   *)
(* the disk, unless a sync failed: the index lags the rollout, never leads.  *)
IndexEndsAfterSave ==
    [][\A u \in DOMAIN turns' :
           /\ turns'[u] = "completed"
           /\ u \in DOMAIN turns => turns[u] # "completed"
           /\ faults = 0
           => \A s \in sent : s.turn = u /\ Written(s) =>
                  \E i \in 1 .. synced[u.th] : file[u.th][i] = ItemLine(u, s.item)]_vars

(* "the restored transcript faithfully mirrors the persisted one": the        *)
(* rollout tells the conversation in order (RolloutInOrder), and so does the *)
(* transcript that read_rollout_turns and seed_history make of it.           *)
RestoredInOrder ==
    \A th \in ThreadIds : LET r == transcript[th]
                          IN  \A i, j \in 1 .. Len(r) : i < j => r[i].at < r[j].at
=============================================================================
