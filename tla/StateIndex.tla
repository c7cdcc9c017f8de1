----------------------------- MODULE StateIndex -----------------------------
(*****************************************************************************)
(* The SQL index of threads, turns, items and checkpoints, a projection of   *)
(* the rollouts.                                                             *)
(*                                                                           *)
(* The engine queues operations; the writer turns each into a rollout line   *)
(* and then into SQL statements, every one of which may fail on its own.     *)
(* Deleting a thread runs beside the writer, on the same database and files. *)
(* At start-up missing previews are filled from the rollouts; by hand the    *)
(* whole index can be rebuilt from them.  Here every line that was appended  *)
(* stays: Persistence models syncing, torn lines and crashes of the files.   *)
(*                                                                           *)
(* A turn is named by its thread and a number: 0 for the synthetic turn of a *)
(* fork, a number above every turn's for that of a compaction, whose counter *)
(* starts again with the process; an item by its turn and its place.         *)
(*****************************************************************************)
EXTENDS Naturals, Sequences, FiniteSets, SequencesExt

CONSTANTS
    Main,       \* a thread a client started
    Branch,     \* the fork of it
    Cwds,       \* working directories the process may run in, as given
    MaxTurns,   \* turns of the main thread
    MaxItems,   \* items of a turn
    MaxActs,    \* operations of the engine
    MaxLives,   \* times the process starts
    MaxFaults   \* SQL statements that fail

Logs == {Main, Branch}

VARIABLES
    logs,       \* per thread, its rollout file
    db,         \* the index: rows, turns, items and checkpoints
    opq,        \* operations sent to the writer
    todo,       \* SQL statements of the operation in hand
    headed,     \* header_written
    handles,    \* per thread, the writer's open file
    slots,      \* per thread, its turn
    made,       \* turns started, items of the last one, operations and lives so far
    cwd,        \* the directory the process runs in
    admin,      \* the deletion in hand
    removed,    \* threads a client asked to delete
    behind,     \* statements were lost or refused since the last rebuild
    previewed,  \* a preview was stored in the row of the main thread
    taken       \* ids of the main thread that the fork repeats

indexVars == <<logs, db, opq, todo, headed, handles, slots, made, cwd, admin, removed, behind,
              previewed, taken>>

NoRow == [there |-> FALSE]
NoFile == [there |-> FALSE, lines |-> <<>>]
EmptyDb == [rows |-> [t \in Logs |-> NoRow], turns |-> {}, items |-> {}, snaps |-> {}]

Turn(t, n) == [thread |-> t, n |-> n]
Item(turn, i) == [turn |-> turn, i |-> i]

(* The marker and the summary of a compaction. *)
Replacement(turn) == <<Item(turn, 0), Item(turn, 1)>>

Init ==
    /\ logs = [t \in Logs |-> NoFile]
    /\ db = EmptyDb
    /\ opq = <<>> /\ todo = <<>>
    /\ headed = {}
    /\ handles = [t \in Logs |-> "closed"]
    /\ slots = [t \in Logs |-> "idle"]
    /\ made = [turns |-> 0, items |-> 0, acts |-> 0, seq |-> 0, lives |-> 1, faults |-> 0]
    /\ cwd \in Cwds
    /\ admin = [pc |-> "idle", t |-> Main]
    /\ removed = {}
    /\ behind = FALSE
    /\ previewed = FALSE
    /\ taken = {}

-----------------------------------------------------------------------------
(* The database.                                                            *)

(* `normalize_cwd`. *)
NormalizeCwd(c) == [c EXCEPT !.slash = FALSE]

(* Mutant: a later snapshot without a preview clears the stored one. *)
UpsertThreadClears(old, new) == new

(* `upsert_thread`: an empty preview keeps the stored one; the other columns *)
(* are taken from the snapshot.                                              *)
UpsertThread(old, new) ==
    [new EXCEPT !.preview = @ \/ (old.there /\ old.preview)]

(* The foreign keys: a turn needs its thread, an item its turn. *)
Accepted(d, s) ==
    CASE s.sql = "turnStart" -> d.rows[s.turn.thread].there \/ \E r \in d.turns : r.turn = s.turn
      [] s.sql = "item" -> \E r \in d.turns : r.turn = s.turn
      [] OTHER -> TRUE

(* `delete_thread`, second statement: the cascade follows the foreign keys. *)
Cascade(d, t) ==
    LET gone == {r \in d.turns : r.turn.thread = t}
    IN  [d EXCEPT !.rows[t] = NoRow, !.turns = @ \ gone,
                  !.items = {r \in @ : \A g \in gone : r.turn # g.turn}]

Exec(d, s) ==
    CASE s.sql = "upsert" -> [d EXCEPT !.rows[s.t] = UpsertThread(@, s.row)]
      [] s.sql = "name" -> [d EXCEPT !.rows[s.t] = IF @.there THEN [@ EXCEPT !.name = s.name] ELSE @]
      [] s.sql = "turnStart" ->
           IF \E r \in d.turns : r.turn = s.turn THEN d
           ELSE [d EXCEPT !.turns = @ \union {[turn |-> s.turn, status |-> "inProgress"]}]
      [] s.sql = "turnEnd" ->
           [d EXCEPT !.turns = {IF r.turn = s.turn THEN [r EXCEPT !.status = s.status] ELSE r : r \in @}]
      [] s.sql = "item" ->
           [d EXCEPT !.items = {r \in @ : r.id # s.id}
                                 \union {[id |-> s.id, turn |-> s.turn, seq |-> s.seq]}]
      [] s.sql = "snapshot" -> [d EXCEPT !.snaps = @ \union {s.turn}]

(* `get_turn_items` and `load_items_page`. *)
GetTurnItems(turn) ==
    LET rows == SetToSortSeq({r \in db.items : r.turn = turn}, LAMBDA a, b : a.seq < b.seq)
    IN  [k \in DOMAIN rows |-> rows[k].id]

LoadItemsPage(turn, offset, limit) ==
    LET all == GetTurnItems(turn)
    IN  SubSeq(all, offset + 1, IF offset + limit > Len(all) THEN Len(all) ELSE offset + limit)

(* `list_threads`, and `list_checkpoints` of a thread. *)
ListThreads == {t \in Logs : db.rows[t].there}
ListCheckpoints(t) == {n \in db.snaps : n.thread = t}

-----------------------------------------------------------------------------
(* Operations of the engine, as lines and statements.                       *)

Row(preview, forked, status) ==
    [there |-> TRUE, name |-> "none", preview |-> preview, forked |-> forked, status |-> status,
     cwd |-> NormalizeCwd(cwd)]

Upserted(t, preview, forked, status) ==
    [op |-> "upsert", t |-> t, row |-> Row(preview, forked, status), at |-> cwd]
TurnStarted(turn) == [op |-> "turnStart", t |-> turn.thread, turn |-> turn]
ItemAppended(turn, seq, id) ==
    [op |-> "item", t |-> turn.thread, turn |-> turn, seq |-> seq, id |-> id]
TurnEnded(turn, status) == [op |-> "turnEnd", t |-> turn.thread, turn |-> turn, status |-> status]

(* The line an operation appends; none for those that only touch SQL. *)
LineOf(o) ==
    CASE o.op = "upsert" /\ o.t \notin headed -> <<[line |-> "session", fork |-> o.row.forked, cwd |-> o.at]>>
      [] o.op = "forkHeader" /\ o.t \notin headed -> <<[line |-> "session", fork |-> TRUE, cwd |-> o.at]>>
      [] o.op = "item" -> <<[line |-> "item", turn |-> o.turn, id |-> o.id]>>
      [] o.op = "turnEnd" -> <<[line |-> "leaf"]>>
      [] o.op = "compaction" -> <<[line |-> "compaction", turn |-> o.turn]>>
      [] o.op = "snapshot" -> <<[line |-> "snapshot", turn |-> o.turn]>>
      [] OTHER -> <<>>

Items(turn, ids) == [k \in DOMAIN ids |-> [sql |-> "item", turn |-> turn, seq |-> k - 1, id |-> ids[k]]]

StatementsOf(o) ==
    CASE o.op = "upsert" -> <<[sql |-> "upsert", t |-> o.t, row |-> o.row]>>
      [] o.op = "name" -> <<[sql |-> "name", t |-> o.t, name |-> o.name]>>
      [] o.op = "turnStart" -> <<[sql |-> "turnStart", turn |-> o.turn]>>
      [] o.op = "item" -> <<[sql |-> "item", turn |-> o.turn, seq |-> o.seq, id |-> o.id]>>
      [] o.op = "turnEnd" -> <<[sql |-> "turnEnd", turn |-> o.turn, status |-> o.status]>>
      [] o.op = "compaction" ->
           <<[sql |-> "turnStart", turn |-> o.turn]>> \o Items(o.turn, Replacement(o.turn))
             \o <<[sql |-> "turnEnd", turn |-> o.turn, status |-> "completed"]>>
      [] o.op = "snapshot" -> <<[sql |-> "snapshot", turn |-> o.turn]>>
      [] OTHER -> <<>>

-----------------------------------------------------------------------------
(* The engine.                                                              *)

Acts == made.acts < MaxActs /\ made' = [made EXCEPT !.acts = @ + 1]

(* Turns of a thread go on where its slot is; the branch runs none here. *)
StartTurn(preview, snapshot) ==
    /\ slots[Main] = "idle" /\ made.turns < MaxTurns /\ made.acts < MaxActs
    /\ made' = [made EXCEPT !.acts = @ + 1, !.turns = @ + 1, !.items = 0]
    /\ slots' = [slots EXCEPT ![Main] = "running"]
    /\ LET turn == Turn(Main, made.turns + 1)
       IN  opq' = opq \o <<Upserted(Main, preview, FALSE, "active"), TurnStarted(turn)>>
                      \o (IF snapshot THEN <<[op |-> "snapshot", t |-> Main, turn |-> turn]>> ELSE <<>>)
    /\ UNCHANGED <<logs, db, todo, headed, handles, cwd, admin, removed, behind, previewed, taken>>

AppendItem ==
    /\ slots[Main] = "running" /\ made.items < MaxItems
    /\ made' = [made EXCEPT !.items = @ + 1]
    /\ LET turn == Turn(Main, made.turns)
       IN  opq' = Append(opq, ItemAppended(turn, made.items, Item(turn, made.items)))
    /\ UNCHANGED <<logs, db, todo, headed, handles, slots, cwd, admin, removed, behind, previewed, taken>>

(* The end of a turn empties the slot before it queues anything. *)
ClearSlot ==
    /\ slots[Main] = "running"
    /\ slots' = [slots EXCEPT ![Main] = "ending"]
    /\ UNCHANGED <<logs, db, opq, todo, headed, handles, made, cwd, admin, removed, behind, previewed, taken>>

EndTurn(status) ==
    /\ slots[Main] = "ending"
    /\ slots' = [slots EXCEPT ![Main] = "idle"]
    /\ opq' = opq \o <<TurnEnded(Turn(Main, made.turns), status), Upserted(Main, FALSE, FALSE, "idle")>>
    /\ UNCHANGED <<logs, db, todo, headed, handles, made, cwd, admin, removed, behind, previewed, taken>>

Compact ==
    /\ slots[Main] = "idle" /\ made.turns > 0 /\ made.acts < MaxActs
    /\ made' = [made EXCEPT !.acts = @ + 1, !.seq = @ + 1]
    /\ opq' = Append(opq, [op |-> "compaction", t |-> Main, turn |-> Turn(Main, MaxTurns + made.seq + 1)])
    /\ UNCHANGED <<logs, db, todo, headed, handles, slots, cwd, admin, removed, behind, previewed, taken>>

RenameThread ==
    /\ Acts
    /\ opq' = Append(opq, [op |-> "name", t |-> Main, name |-> "given"])
    /\ UNCHANGED <<logs, db, todo, headed, handles, slots, cwd, admin, removed, behind, previewed, taken>>

(* `replay_thread_items`: a compaction drops what came before it. *)
ReplayThreadItems(lines) ==
    LET last == {k \in DOMAIN lines : lines[k].line = "compaction"}
        from == IF last = {} THEN 0 ELSE CHOOSE k \in last : \A j \in last : j <= k
        kept == SelectSeq(SubSeq(lines, from + 1, Len(lines)), LAMBDA l : l.line = "item")
    IN  (IF from = 0 THEN <<>> ELSE Replacement(lines[from].turn)) \o [k \in DOMAIN kept |-> kept[k].id]

(* `persist_fork`, once the flush it asks for was acknowledged: the branch   *)
(* keeps the ids of the items it repeats.                                    *)
Fork ==
    /\ opq = <<>> /\ todo = <<>>
    /\ slots[Main] = "idle" /\ slots[Branch] = "idle" /\ Branch \notin headed
    /\ logs[Main].there /\ ~logs[Branch].there /\ made.turns > 0 /\ Acts
    /\ LET turn == Turn(Branch, 0)
           ids == ReplayThreadItems(logs[Main].lines)
       IN  /\ opq' = <<[op |-> "forkHeader", t |-> Branch, at |-> cwd],
                        Upserted(Branch, FALSE, TRUE, "idle"), TurnStarted(turn)>>
                         \o [k \in DOMAIN ids |-> ItemAppended(turn, k - 1, ids[k])]
                         \o <<TurnEnded(turn, "completed"), [op |-> "setLeaf", t |-> Branch]>>
           /\ taken' = Range(ids)
    /\ slots' = [slots EXCEPT ![Branch] = "forked"]
    /\ UNCHANGED <<logs, db, todo, headed, handles, cwd, admin, removed, behind, previewed>>

-----------------------------------------------------------------------------
(* The writer: the line first, then the statements.                         *)

(* `rollout_for`: a file is opened once and kept; one that was removed since *)
(* takes the lines with it.                                                  *)
ApplyOp ==
    /\ todo = <<>> /\ opq # <<>>
    /\ LET o == Head(opq)
           line == LineOf(o)
           opens == line # <<>> \/ o.op = "setLeaf"
           file == logs[o.t]
       IN  /\ opq' = Tail(opq)
           /\ todo' = StatementsOf(o)
           /\ headed' = IF o.op \in {"upsert", "forkHeader"} THEN headed \union {o.t} ELSE headed
           /\ handles' = IF opens /\ handles[o.t] = "closed" THEN [handles EXCEPT ![o.t] = "open"] ELSE handles
           /\ logs' = IF opens /\ handles[o.t] # "removed"
                      THEN [logs EXCEPT ![o.t] = [there |-> TRUE, lines |-> file.lines \o line]]
                      ELSE logs
    /\ UNCHANGED <<db, slots, made, cwd, admin, removed, behind, previewed, taken>>

(* A statement the database refuses is logged and the next one goes on. *)
RunStatement ==
    /\ todo # <<>>
    /\ db' = IF Accepted(db, Head(todo)) THEN Exec(db, Head(todo)) ELSE db
    /\ behind' = (behind \/ ~Accepted(db, Head(todo)))
    /\ previewed' = (previewed \/ (Head(todo).sql = "upsert" /\ Head(todo).t = Main /\ Head(todo).row.preview))
    /\ todo' = Tail(todo)
    /\ UNCHANGED <<logs, opq, headed, handles, slots, made, cwd, admin, removed, taken>>

StatementFails ==
    /\ todo # <<>> /\ made.faults < MaxFaults
    /\ made' = [made EXCEPT !.faults = @ + 1]
    /\ behind' = TRUE
    /\ todo' = Tail(todo)
    /\ UNCHANGED <<logs, db, opq, headed, handles, slots, cwd, admin, removed, previewed, taken>>

-----------------------------------------------------------------------------
(* Deleting a thread, a statement or a file at a time.                      *)

DeleteThread(t) ==
    /\ admin.pc = "idle" /\ slots[t] # "running" /\ removed = {}
    /\ admin' = [pc |-> "snaps", t |-> t]
    /\ removed' = {t}
    /\ Acts
    /\ UNCHANGED <<logs, db, opq, todo, headed, handles, slots, cwd, behind, previewed, taken>>

DeleteSnapshots ==
    /\ admin.pc = "snaps"
    /\ \/ /\ db' = [db EXCEPT !.snaps = {n \in @ : n.thread # admin.t}]
          /\ admin' = [admin EXCEPT !.pc = "row"]
          /\ UNCHANGED made
       \/ /\ made.faults < MaxFaults
          /\ made' = [made EXCEPT !.faults = @ + 1]
          /\ admin' = [admin EXCEPT !.pc = "idle"]
          /\ UNCHANGED db
    /\ UNCHANGED <<logs, opq, todo, headed, handles, slots, cwd, removed, behind, previewed, taken>>

DeleteRow ==
    /\ admin.pc = "row"
    /\ \/ /\ db' = Cascade(db, admin.t)
          /\ previewed' = (previewed /\ admin.t # Main)
          /\ admin' = [admin EXCEPT !.pc = "file"]
          /\ UNCHANGED made
       \/ /\ made.faults < MaxFaults
          /\ made' = [made EXCEPT !.faults = @ + 1]
          /\ admin' = [admin EXCEPT !.pc = "idle"]
          /\ UNCHANGED <<db, previewed>>
    /\ UNCHANGED <<logs, opq, todo, headed, handles, slots, cwd, removed, behind, taken>>

(* The file goes, or stays behind as an orphan. *)
RemoveFile ==
    /\ admin.pc = "file"
    /\ \/ /\ logs' = [logs EXCEPT ![admin.t] = NoFile]
          /\ handles' = [handles EXCEPT ![admin.t] = IF @ = "open" THEN "removed" ELSE @]
       \/ UNCHANGED <<logs, handles>>
    /\ admin' = [admin EXCEPT !.pc = "idle"]
    /\ UNCHANGED <<db, opq, todo, headed, slots, made, cwd, removed, behind, previewed, taken>>

-----------------------------------------------------------------------------
(* Restarts and recovery.                                                   *)

(* `backfill_thread_metadata` for one row: the preview from the first user  *)
(* message, which is the first item of a turn, the directory from the first *)
(* header.                                                                  *)
Backfilled(d) ==
    [d EXCEPT !.rows = [t \in Logs |->
       IF t \notin ListThreads \/ @[t].preview \/ ~logs[t].there THEN @[t]
       ELSE LET heads == SelectSeq(logs[t].lines, LAMBDA l : l.line = "session")
                users == SelectSeq(logs[t].lines, LAMBDA l : l.line = "item" /\ l.id.i = 0)
                cut == IF heads = <<>> THEN @[t].cwd ELSE NormalizeCwd(heads[1].cwd)
            IN  [@[t] EXCEPT !.preview = users # <<>>, !.cwd = cut]]]

(* The process dies and starts again in some directory; the statements of an *)
(* operation whose line was written, and the rest of a fork, are lost.       *)
Restart(where) ==
    /\ made.lives < MaxLives
    /\ made' = [made EXCEPT !.lives = @ + 1, !.seq = 0]
    /\ behind' = (behind \/ todo # <<>> \/ \E k \in DOMAIN opq : opq[k].t = Branch)
    /\ opq' = <<>> /\ todo' = <<>>
    /\ headed' = {}
    /\ handles' = [t \in Logs |-> "closed"]
    /\ slots' = [t \in Logs |-> IF slots[t] = "forked" THEN "forked" ELSE "idle"]
    /\ admin' = [admin EXCEPT !.pc = "idle"]
    /\ cwd' = where
    /\ db' = Backfilled(db)
    /\ UNCHANGED <<logs, removed, previewed, taken>>

(* `rebuild_state_from_entries`, line by line. *)
HeaderRow(l) ==
    [there |-> TRUE, name |-> "none", preview |-> FALSE, forked |-> l.fork, status |-> "idle",
     cwd |-> NormalizeCwd(l.cwd)]

EarlierOf(lines, k, turn) ==
    {j \in 1..(k - 1) : lines[j].line \in {"item", "compaction"} /\ lines[j].turn = turn}

RebuildLine(t, lines, k) ==
    LET l == lines[k]
    IN  CASE l.line = "session" ->
               IF \E j \in 1..(k - 1) : lines[j].line = "session" THEN <<>>
               ELSE <<[sql |-> "upsert", t |-> t, row |-> HeaderRow(l)]>>
          [] l.line = "item" ->
               <<[sql |-> "turnStart", turn |-> l.turn],
                 [sql |-> "item", turn |-> l.turn, seq |-> Cardinality(EarlierOf(lines, k, l.turn)),
                  id |-> l.id]>>
          [] l.line = "compaction" ->
               <<[sql |-> "turnStart", turn |-> l.turn]>>
                 \o [j \in 1..2 |-> [sql |-> "item", turn |-> l.turn, id |-> Replacement(l.turn)[j],
                       seq |-> 2 * Cardinality(EarlierOf(lines, k, l.turn)) + j - 1]]
          [] l.line = "snapshot" -> <<[sql |-> "snapshot", turn |-> l.turn]>>
          [] OTHER -> <<>>

RebuildStatements(t) ==
    LET lines == logs[t].lines
        turns == {lines[k].turn : k \in {j \in DOMAIN lines : lines[j].line \in {"item", "compaction"}}}
    IN  FlattenSeq([k \in DOMAIN lines |-> RebuildLine(t, lines, k)])
          \o SetToSeq({[sql |-> "turnEnd", turn |-> n, status |-> "completed"] : n \in turns})

(* A statement that is refused ends the walk. *)
Replayed(d, statements) ==
    FoldLeft(LAMBDA acc, s : IF acc.ok /\ Accepted(acc.db, s) THEN [acc EXCEPT !.db = Exec(@, s)]
                             ELSE [acc EXCEPT !.ok = FALSE],
             [ok |-> TRUE, db |-> d], statements)

(* `rebuild_indexes_from_jsonl`, run by hand while no operation is on its    *)
(* way, over the index as it is or after it was lost; in any order of files. *)
Rebuild(first, lost) ==
    /\ opq = <<>> /\ todo = <<>> /\ admin.pc = "idle" /\ Acts
    /\ \A t \in Logs : slots[t] \in {"idle", "forked"}
    /\ LET second == CHOOSE t \in Logs : t # first
           walk == Replayed(IF lost THEN EmptyDb ELSE db, RebuildStatements(first) \o RebuildStatements(second))
       IN  /\ db' = walk.db
           /\ behind' = ~walk.ok
    /\ previewed' = (previewed /\ ~lost)
    /\ UNCHANGED <<logs, opq, todo, headed, handles, slots, cwd, admin, removed, taken>>

Next ==
    \/ \E preview, snapshot \in BOOLEAN : StartTurn(preview, snapshot)
    \/ AppendItem \/ ClearSlot
    \/ \E status \in {"completed", "interrupted"} : EndTurn(status)
    \/ Compact \/ RenameThread \/ Fork
    \/ ApplyOp \/ RunStatement \/ StatementFails
    \/ \E t \in Logs : DeleteThread(t)
    \/ DeleteSnapshots \/ DeleteRow \/ RemoveFile
    \/ \E where \in Cwds : Restart(where)
    \/ \E first \in Logs, lost \in BOOLEAN : Rebuild(first, lost)

Spec == Init /\ [][Next]_indexVars

-----------------------------------------------------------------------------
TypeOK ==
    /\ \A t \in Logs : db.rows[t].there => db.rows[t].status \in {"active", "idle"}
    /\ \A r \in db.turns : r.status \in {"inProgress", "completed", "interrupted"}
    /\ handles \in [Logs -> {"closed", "open", "removed"}]
    /\ slots \in [Logs -> {"idle", "running", "ending", "forked"}]
    /\ admin.pc \in {"idle", "snaps", "row", "file"}

(* Everything sent was applied, and nothing was lost on the way. *)
Settled == opq = <<>> /\ todo = <<>> /\ admin.pc = "idle" /\ ~behind

LinesOf(t, kinds) == SelectSeq(logs[t].lines, LAMBDA l : l.line \in kinds)

(* The ids a rollout gives a turn, each at its last place. *)
WrittenTo(t, turn) ==
    LET lines == SelectSeq(logs[t].lines, LAMBDA l : l.line \in {"item", "compaction"} /\ l.turn = turn)
        ids == FlattenSeq([k \in DOMAIN lines |->
                  IF lines[k].line = "item" THEN <<lines[k].id>> ELSE Replacement(turn)])
        last == {k \in DOMAIN ids : \A j \in DOMAIN ids : ids[j] = ids[k] => j <= k}
    IN  [k \in 1..Cardinality(last) |->
           ids[CHOOSE i \in last : Cardinality({j \in last : j <= i}) = k]]

(* A settled index is the projection of the rollouts: page by page a turn    *)
(* has the items its rollout has, in that order, but for those a fork        *)
(* repeats, which the index keeps once, under one of the two threads.        *)
ItemsProjected ==
    Settled => \A t \in Logs \ removed :
      /\ \A l \in Range(LinesOf(t, {"item", "compaction"})) :
           LET written == SelectSeq(WrittenTo(t, l.turn), LAMBDA id : id \notin taken)
               pages == LoadItemsPage(l.turn, 0, 1) \o LoadItemsPage(l.turn, 1, 2 * MaxItems)
           IN  SelectSeq(pages, LAMBDA id : id \notin taken) = written
      /\ \A l \in Range(LinesOf(t, {"item"})) :
           removed = {} => \E r \in db.items : r.id = l.id

(* So are its rows and checkpoints: a thread with a rollout is listed, under *)
(* a directory the filter finds, and with every checkpoint of its rollout.   *)
RowsProjected ==
    Settled => \A t \in Logs \ removed :
      /\ logs[t].there <=> t \in ListThreads
      /\ t \in ListThreads => ~db.rows[t].cwd.slash
      /\ {l.turn : l \in Range(LinesOf(t, {"snapshot"}))} \subseteq ListCheckpoints(t)

(* A preview the row once had is lost only with the row. *)
PreviewKept == previewed => db.rows[Main].preview

(* The index follows the rollouts through failing statements, restarts,      *)
(* rebuilds and deletions, and what only the index knows of a thread's first *)
(* message outlives every later snapshot (StateDb, PersistenceWriter).       *)
IndexFollowsRollout == ItemsProjected /\ RowsProjected /\ PreviewKept
=============================================================================
