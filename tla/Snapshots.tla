----------------------------- MODULE Snapshots ------------------------------
(*****************************************************************************)
(* Undo: the snapshot of the workspace that every top-level turn takes       *)
(* before its first tool writes (engine/turn.rs, engine/restore.rs), the     *)
(* shadow git repository that holds it (snapshot/mod.rs), and the restore    *)
(* that puts the files back and then forks the conversation to the same      *)
(* point.                                                                    *)
(*                                                                           *)
(* Subagents, the user and the last operation of a cancelled turn write      *)
(* files at any time; `git add` reads them one by one.  A content is a       *)
(* number, fresh with every write and kept by a move.  Git is external: each *)
(* command may fail, one that is killed may leave its index.lock, and what   *)
(* it takes for a rename is what it finds similar.                           *)
(* Phases are EngineTurns' subject, lost storage operations Persistence's.   *)
(*****************************************************************************)
EXTENDS Naturals, Sequences, FiniteSets, FiniteSetsExt

CONSTANTS
    Paths, Ignored,                    \* paths of the workspace, those .gitignore names
    AtFirst,                           \* what they may hold at the start
    MaxTurns, MaxEvents                \* bounds: turns; writes and restores

VARIABLES
    files,      \* the workspace: a content for each path, or Absent
    authors,    \* whose each content is: a turn, or 0
    events,     \* writes and restores so far
    repo,       \* the OnceCell of the shadow repository
    holder,     \* who has the lock of the repository
    staged,     \* the index
    unstaged,   \* what the running `git add` has not read yet
    jammed,     \* is there an index.lock nobody owns?
    held,       \* the engine phase, as far as it matters here
    threadOf,   \* the thread of each turn
    task,       \* where the task of each turn is
    shot,       \* turns whose snapshot_captured is set
    stopped,    \* cancelled turns
    talk,       \* the items of each thread's rollout: [turn, home]
    rows,       \* the turn_snapshots table
    undo,       \* the restore under way; spoilt if others wrote beside it
    branches    \* what each fork made by a restore rewound to

snapVars == <<files, authors, events, repo, holder, staged, unstaged, jammed, held, threadOf, task,
              shot, stopped, talk, rows, undo, branches>>
workVars == <<files, authors, events>>
gitVars == <<repo, holder, staged, unstaged, jammed>>
turnVars == <<threadOf, task, shot, stopped>>
undoVars == <<undo, branches>>

Absent == 0
Blank == [p \in Paths |-> Absent]
Tracked == Paths \ Ignored
Actor == MaxTurns + 1      \* the engine's actor, as a holder of the lock
NoUndo == [pc |-> "none"]

Init ==
    /\ files \in AtFirst /\ authors = [c \in {files[p] : p \in Paths} \ {Absent} |-> 0] /\ events = 0
    /\ repo = "unopened" /\ holder = 0 /\ staged = Blank /\ unstaged = {}
    /\ jammed = FALSE /\ held = "Idle"
    /\ threadOf = <<>> /\ task = <<>> /\ shot = {} /\ stopped = {}
    /\ talk = <<<<>>>> /\ rows = {}
    /\ undo = NoUndo /\ branches = <<>>

-----------------------------------------------------------------------------
(* The workspace.                                                          *)

(* A write, a removal or a move, by a tool of turn n or, for 0, by others. *)
Change(n) ==
    /\ events < MaxEvents /\ events' = events + 1
    /\ undo' = IF undo = NoUndo THEN undo ELSE [undo EXCEPT !.spoilt = TRUE]
    /\ \E p \in Paths :
         LET fresh == Max(DOMAIN authors \union {0}) + 1
         IN  \/ /\ files' = [files EXCEPT ![p] = fresh]
                /\ authors' = [c \in DOMAIN authors \union {fresh} |-> IF c = fresh THEN n ELSE authors[c]]
             \/ /\ files[p] # Absent /\ UNCHANGED authors
                /\ \/ files' = [files EXCEPT ![p] = Absent]
                   \/ \E q \in Paths \ {p} : files' = [files EXCEPT ![p] = Absent, ![q] = files[p]]

OthersWrite == Change(0) /\ UNCHANGED <<gitVars, held, turnVars, talk, rows, branches>>

-----------------------------------------------------------------------------
(* Turns.                                                                  *)

Item(n) == [turn |-> n, home |-> n]
(* The lock is given up.  What is in the index is not looked at before the  *)
(* next `git add` has gone through every file.                              *)
Unlock == holder' = 0 /\ staged' = Blank /\ unstaged' = {}

Goto(n, pc) == task' = [task EXCEPT ![n] = pc]
Say(n) == talk' = [talk EXCEPT ![threadOf[n]] = Append(@, Item(n))]

(* The actor handles one submission at a time, a restore from end to end. *)
StartTurn(th) ==
    /\ undo = NoUndo /\ held = "Idle" /\ Len(task) < MaxTurns
    /\ held' = "Turn"
    /\ threadOf' = Append(threadOf, th) /\ task' = Append(task, "begin")
    /\ talk' = [talk EXCEPT ![th] = Append(@, Item(Len(task) + 1))]
    /\ UNCHANGED <<workVars, gitVars, shot, stopped, rows, undoVars>>

CancelTurn ==
    /\ undo = NoUndo /\ held = "Turn"
    /\ held' = "Idle" /\ stopped' = stopped \union {Len(task)}
    /\ UNCHANGED <<workVars, gitVars, threadOf, task, shot, talk, rows, undoVars>>

(* `shadow_repo`: opened on first use, a failure is remembered. *)
OpenRepo(n) ==
    /\ task[n] = "begin" /\ repo = "unopened"
    /\ repo' \in {"open", "none"}
    /\ UNCHANGED <<workVars, holder, staged, unstaged, jammed, held, turnVars, talk, rows, undoVars>>

(* Mutant: a snapshot before every round of tools *)
CaptureTurnSnapshotAgain(n) ==
    /\ task[n] = "begin" /\ repo # "unopened"
    /\ shot' = shot \union {n}
    /\ Goto(n, IF repo = "none" THEN "tools" ELSE "wait")
    /\ UNCHANGED <<workVars, gitVars, held, threadOf, stopped, talk, rows, undoVars>>

(* One snapshot for the turn, before its first round of tools. *)
CaptureTurnSnapshot(n) ==
    /\ task[n] = "begin" /\ repo # "unopened"
    /\ shot' = shot \union {n}
    /\ Goto(n, IF repo = "none" \/ n \in shot THEN "tools" ELSE "wait")
    /\ UNCHANGED <<workVars, gitVars, held, threadOf, stopped, talk, rows, undoVars>>

Track(n) ==
    /\ task[n] = "wait" /\ holder = 0
    /\ holder' = n /\ unstaged' = Tracked /\ Goto(n, "stage")
    /\ UNCHANGED <<workVars, repo, staged, jammed, held, threadOf, shot, stopped, talk, rows, undoVars>>

(* `write-tree`; the checkpoint is queued for the writer. *)
WriteTree(n) ==
    /\ task[n] = "stage" /\ unstaged = {} /\ ~jammed
    /\ rows' = rows \union {[thread |-> threadOf[n], turn |-> n, tree |-> staged]}
    /\ Unlock /\ Goto(n, "tools")
    /\ UNCHANGED <<workVars, repo, jammed, held, threadOf, shot, stopped, talk, undoVars>>

(* Git failed, or SNAPSHOT_TRACK_TIMEOUT passed and the future was dropped, *)
(* which kills a running git.  The turn goes on without a checkpoint.       *)
TrackFails(n) ==
    /\ task[n] \in {"wait", "stage"} /\ Goto(n, "tools")
    /\ IF task[n] = "stage" THEN Unlock /\ jammed' \in {jammed, TRUE}
       ELSE UNCHANGED <<holder, staged, unstaged, jammed>>
    /\ UNCHANGED <<workVars, repo, held, threadOf, shot, stopped, talk, rows, undoVars>>

ToolWrites(n) ==
    /\ task[n] = "tools" /\ n \notin stopped
    /\ Change(n)
    /\ UNCHANGED <<gitVars, held, turnVars, talk, rows, branches>>

NextIteration(n) ==
    /\ task[n] = "tools" /\ n \notin stopped
    /\ Goto(n, "begin")
    /\ UNCHANGED <<workVars, gitVars, held, threadOf, shot, stopped, talk, rows, undoVars>>

FinishTurn(n) ==
    /\ task[n] = "tools" /\ n \notin stopped
    /\ Goto(n, "done") /\ Say(n) /\ held' = "Idle"
    /\ UNCHANGED <<workVars, gitVars, threadOf, shot, stopped, rows, undoVars>>

(* The task of a cancelled turn: an operation in flight still lands, and so *)
(* does an item.                                                            *)
CancelledEnds(n) ==
    /\ task[n] = "tools" /\ n \in stopped
    /\ Goto(n, "done")
    /\ Change(n) \/ UNCHANGED <<workVars, undo>>
    /\ Say(n) \/ UNCHANGED talk
    /\ UNCHANGED <<gitVars, held, threadOf, shot, stopped, rows, branches>>

-----------------------------------------------------------------------------
(* The shadow repository.                                                  *)

(* `git add -A` reads one file. *)
GitAdd(p) ==
    /\ holder # 0 /\ p \in unstaged /\ ~jammed
    /\ staged' = [staged EXCEPT ![p] = files[p]] /\ unstaged' = unstaged \ {p}
    /\ UNCHANGED <<workVars, repo, holder, jammed, held, turnVars, talk, rows, undoVars>>

(* `git diff --cached --name-only`, with its rename detection: a file that  *)
(* is gone is paired with a new one of the same content, and may be paired  *)
(* with any other new one that is similar enough, moved and edited or not   *)
(* moved at all.  Of a pair only the new name is listed.                    *)
Gone(tree, index) == {p \in Tracked : tree[p] # Absent /\ index[p] = Absent}
New(tree, index) == {p \in Tracked : tree[p] = Absent /\ index[p] # Absent}

Renames(tree, index) ==
    {moved \in SUBSET Gone(tree, index) :
        /\ Cardinality(moved) <= Cardinality(New(tree, index))
        /\ \A p \in Gone(tree, index), q \in New(tree, index) : index[q] = tree[p] => p \in moved}

Diff(tree, index, moved) == {p \in Tracked : index[p] # tree[p]} \ moved

-----------------------------------------------------------------------------
(* Restore.                                                                *)

(* `item:<turn>/<seq>` *)
TurnOfItem(item) == item.turn

FirstOf(items, n) == {i \in DOMAIN items : TurnOfItem(items[i]) = n}

(* How many items to keep, or nothing when the turn is not found. *)
BoundaryBeforeTurn(items, n) ==
    IF FirstOf(items, n) = {} THEN {} ELSE {Min(FirstOf(items, n)) - 1}

KeptTurnsBefore(items, n) ==
    {TurnOfItem(items[i]) : i \in {j \in DOMAIN items : \A k \in FirstOf(items, n) : j < k}}

RestoreToCheckpoint(row) ==
    /\ undo = NoUndo /\ repo = "open" /\ held = "Idle" /\ events < MaxEvents
    /\ held' = "Restore" /\ events' = events + 1
    /\ undo' = [pc |-> "lock", thread |-> row.thread, turn |-> row.turn, tree |-> row.tree,
                keep |-> BoundaryBeforeTurn(talk[row.thread], row.turn), left |-> {}, before |-> files,
                spoilt |-> FALSE]
    /\ UNCHANGED <<files, authors, gitVars, turnVars, talk, rows, branches>>

RestoreLock ==
    /\ undo.pc = "lock" /\ holder = 0
    /\ holder' = Actor /\ unstaged' = Tracked /\ undo' = [undo EXCEPT !.pc = "stage"]
    /\ UNCHANGED <<workVars, repo, staged, jammed, held, turnVars, talk, rows, branches>>

RestoreDiff ==
    /\ undo.pc = "stage" /\ unstaged = {} /\ ~jammed
    /\ \E moved \in Renames(undo.tree, staged) :
         undo' = [undo EXCEPT !.pc = "revert", !.left = Diff(undo.tree, staged, moved),
                              !.before = files]
    /\ UNCHANGED <<workVars, gitVars, held, turnVars, talk, rows, branches>>

(* A checkout that fails is taken for a path the tree does not have: the    *)
(* file is removed.                                                         *)
RestoreFile(p, checkedOut) ==
    /\ undo.pc = "revert" /\ p \in undo.left
    /\ checkedOut => undo.tree[p] # Absent
    /\ files' = [files EXCEPT ![p] = IF checkedOut THEN undo.tree[p] ELSE Absent]
    /\ staged' = IF checkedOut THEN [staged EXCEPT ![p] = undo.tree[p]] ELSE staged
    /\ undo' = [undo EXCEPT !.left = @ \ {p}, !.spoilt = @ \/ (~checkedOut /\ undo.tree[p] # Absent)]
    /\ UNCHANGED <<authors, events, repo, holder, unstaged, jammed, held, turnVars, talk, rows, branches>>

(* Git could not be run, or a file not removed: SnapshotFailed. *)
RestoreFails ==
    /\ undo.pc \in {"stage", "revert"}
    /\ Unlock /\ held' = "Idle" /\ undo' = NoUndo
    /\ UNCHANGED <<workVars, repo, jammed, turnVars, talk, rows, branches>>

RestoreReleases ==
    /\ undo.pc = "revert" /\ undo.left = {}
    /\ Unlock /\ held' = "Idle" /\ undo' = [undo EXCEPT !.pc = "fork"]
    /\ UNCHANGED <<workVars, repo, jammed, turnVars, talk, rows, branches>>

(* The fork files every item under one synthetic turn, 0; the checkpoints   *)
(* of the turns it keeps go with it.                                        *)
RestoreForks ==
    /\ undo.pc = "fork"
    /\ LET items == talk[undo.thread]
           n     == IF undo.keep = {} THEN Len(items) ELSE CHOOSE k \in undo.keep : TRUE
           kept  == {r \in rows : r.thread = undo.thread /\ r.turn \in KeptTurnsBefore(items, undo.turn)}
       IN  /\ talk' = Append(talk, [i \in 1..n |-> [items[i] EXCEPT !.home = 0]])
           /\ rows' = rows \union {[r EXCEPT !.thread = Len(talk) + 1] : r \in kept}
    /\ branches' = Append(branches, undo.turn)
    /\ undo' = NoUndo
    /\ UNCHANGED <<workVars, gitVars, held, turnVars>>

(* A compaction claims the phase first, or the rollout cannot be read:      *)
(* ReplayFailed, with the files reverted.                                   *)
RestoreForkFails ==
    /\ undo.pc = "fork" /\ undo' = NoUndo
    /\ UNCHANGED <<workVars, gitVars, held, turnVars, talk, rows, branches>>

TaskStep(n) ==
    \/ OpenRepo(n) \/ CaptureTurnSnapshot(n) \/ Track(n) \/ WriteTree(n) \/ TrackFails(n)
    \/ ToolWrites(n) \/ NextIteration(n) \/ FinishTurn(n) \/ CancelledEnds(n)

RestoreStep ==
    \/ RestoreLock \/ RestoreDiff
    \/ \E p \in Tracked, checkedOut \in BOOLEAN : RestoreFile(p, checkedOut)
    \/ RestoreFails \/ RestoreReleases \/ RestoreForks \/ RestoreForkFails

Next ==
    \/ OthersWrite \/ CancelTurn \/ RestoreStep
    \/ \E th \in DOMAIN talk : StartTurn(th)
    \/ \E n \in DOMAIN task : TaskStep(n)
    \/ \E p \in Tracked : GitAdd(p)
    \/ \E row \in rows : RestoreToCheckpoint(row)

Spec == Init /\ [][Next]_snapVars
-----------------------------------------------------------------------------
TypeOK ==
    /\ files \in [Paths -> {Absent} \union DOMAIN authors] /\ staged \in [Paths -> {Absent} \union DOMAIN authors]
    /\ events \in 0..MaxEvents /\ repo \in {"unopened", "open", "none"}
    /\ holder \in 0..Actor /\ unstaged \subseteq Tracked /\ jammed \in BOOLEAN
    /\ held \in {"Idle", "Turn", "Restore"}
    /\ threadOf \in Seq(DOMAIN talk) /\ Len(task) = Len(threadOf)
    /\ \A n \in DOMAIN task : task[n] \in {"begin", "wait", "stage", "tools", "done"}
    /\ shot \subseteq DOMAIN task /\ stopped \subseteq DOMAIN task
    /\ \A row \in rows : row.thread \in DOMAIN talk /\ row.turn \in DOMAIN task
    /\ undo.pc \in {"none", "lock", "stage", "revert", "fork"}

(* The checkpoint of a turn holds nothing that turn wrote, so going back to *)
(* it undoes the whole turn, its later rounds of tools included.            *)
SnapshotPrecedesTools ==
    \A row \in rows : \A p \in Tracked : row.tree[p] # Absent => authors[row.tree[p]] # row.turn

(* A file of the tree that git may take for moved: it was gone, and a file  *)
(* the tree does not know was there.                                        *)
MayBeLost(p) ==
    /\ undo.tree[p] # Absent /\ undo.before[p] = Absent
    /\ \E q \in Tracked : undo.tree[q] = Absent /\ undo.before[q] # Absent

(* While files are being reverted, and when a restore stops half way, each  *)
(* is as it was or as the tree has it, and nothing ignored was touched; at  *)
(* the end all are as the tree has them, but for at most as many files that *)
(* were gone as there were new ones, which git may have taken for renames:  *)
(* those stay away.  Checkouts that fail and writers beside the restore are *)
(* excepted: spoilt.                                                        *)
RestoredExactly ==
    undo.pc \in {"revert", "fork"} /\ ~undo.spoilt =>
        /\ \A p \in Tracked : files[p] \in {undo.before[p], undo.tree[p]}
        /\ \A p \in Ignored : files[p] = undo.before[p]
        /\ undo.pc = "fork" =>
             LET lost == {p \in Tracked : files[p] # undo.tree[p]}
             IN  /\ \A p \in lost : MayBeLost(p)
                 /\ Cardinality(lost) <= Cardinality(New(undo.tree, undo.before))

(* What the restore is documented to do: afterwards every file the tree     *)
(* knows is as the tree has it.  Spoilt restores are excepted.              *)
RevertsEveryFile ==
    undo.pc = "fork" /\ ~undo.spoilt =>
        \A p \in Tracked : undo.tree[p] # Absent => files[p] = undo.tree[p]

(* Files and conversation rewind to the same point, also through branches   *)
(* of branches: the turn gone back to is not in the branch, and every       *)
(* checkpoint of a thread is of a turn the thread has items of.             *)
BranchesRewound ==
    /\ \A b \in DOMAIN branches : \A i \in DOMAIN talk[b + 1] : talk[b + 1][i].turn # branches[b]
    /\ \A row \in rows : \E i \in DOMAIN talk[row.thread] : talk[row.thread][i].turn = row.turn

(* Going back to a checkpoint undoes a turn, in files, but for what git     *)
(* takes for renames, and in conversation.                                  *)
SnapshotsSafe == SnapshotPrecedesTools /\ RestoredExactly /\ BranchesRewound
=============================================================================
