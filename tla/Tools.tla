------------------------------- MODULE Tools -------------------------------
(*****************************************************************************)
(* The built-in tools on one file and their child processes.                 *)
(*                                                                           *)
(* The approved calls of a turn run concurrently in one task, each raced     *)
(* against the turn's token.  A file operation runs on the blocking pool: a  *)
(* dropped future cannot stop one in flight, it only never starts the next.  *)
(* `write` and `edit` read the file, stage a temporary sibling and rename it *)
(* over the target, with no lock between them.  `bash` runs a shell in a     *)
(* process group of its own; a command may leave children behind, which keep *)
(* the output pipe or are detached from it.                                  *)
(*                                                                           *)
(* A file is a sequence of lines; a line is a word with or without trailing  *)
(* blanks, and the text an edit looks for is one such line.                  *)
(*****************************************************************************)
EXTENDS Naturals, Sequences, FiniteSets

CONSTANTS
    ToolCalls,  \* the concurrent calls
    Asks,       \* what a call may ask for
    Files,      \* what the target may be at first
    MaxResults  \* the result limit of a search

VARIABLES
    target,     \* the file the calls name
    temps,      \* its temporary siblings
    tmpSeq,     \* TMP_SEQ
    work,       \* per call, how far it is
    procs,      \* per call, the live processes of its group
    fired,      \* the turn's token
    origin,     \* the file at first
    lastRename  \* the call whose rename replaced it last

toolVars == <<target, temps, tmpSeq, work, procs, fired, origin, lastRename>>

Missing == [there |-> FALSE, text |-> TRUE, whole |-> TRUE, lines |-> <<>>]
Text(lines) == [there |-> TRUE, text |-> TRUE, whole |-> TRUE, lines |-> lines]

Init ==
    /\ target \in Files
    /\ origin = target
    /\ temps = {}
    /\ tmpSeq = 0
    /\ \E ask \in [ToolCalls -> Asks] :
         work = [c \in ToolCalls |-> [ask |-> ask[c], pc |-> "new", new |-> <<>>, name |-> 0,
                                      out |-> "none", got |-> <<>>, cut |-> FALSE,
                                      dropped |-> FALSE, landed |-> FALSE]]
    /\ procs = [c \in ToolCalls |-> {}]
    /\ fired = FALSE
    /\ lastRename = "none"

-----------------------------------------------------------------------------
(* The edit: exact match first, then a match up to trailing blanks.         *)

ExactMatches(lines, old) ==
    {i \in DOMAIN lines : lines[i].word = old.word /\ (old.blank => lines[i].blank)}

(* `find_unique_trim_match`. *)
TrimMatches(lines, old) == {i \in DOMAIN lines : lines[i].word = old.word}

(* The lines an edit replaces; none when it is refused. *)
EditPlan(lines, ask) ==
    LET exact == ExactMatches(lines, ask.old)
        trim == TrimMatches(lines, ask.old)
    IN  IF ask.old = ask.new THEN {}
        ELSE IF exact # {} THEN (IF ask.all \/ Cardinality(exact) = 1 THEN exact ELSE {})
        ELSE IF Cardinality(trim) = 1 THEN trim ELSE {}

(* An exact match leaves the blanks it did not name. *)
Replaced(lines, ask) ==
    [i \in DOMAIN lines |->
       IF i \notin EditPlan(lines, ask) THEN lines[i]
       ELSE IF ExactMatches(lines, ask.old) = {} THEN ask.new
       ELSE [ask.new EXCEPT !.blank = @ \/ (lines[i].blank /\ ~ask.old.blank)]]

-----------------------------------------------------------------------------
(* What a reading tool returns.                                             *)

AtMost(a, b) == IF a < b THEN a ELSE b

(* `read`: the lines from a 1-based offset, at most `limit` of them. *)
Slice(lines, ask) ==
    LET first == AtMost((IF ask.offset = 0 THEN 1 ELSE ask.offset) - 1, Len(lines))
        end == AtMost(first + ask.limit, Len(lines))
    IN  [got |-> SubSeq(lines, first + 1, end), cut |-> end < Len(lines)]

(* `grep`: the walk stops at the limit, checked after each result. *)
GrepWalk(lines, ask) ==
    LET found == SelectSeq(lines, LAMBDA l : l.word = ask.word)
        limit == IF MaxResults = 0 THEN 1 ELSE MaxResults
    IN  IF Len(found) >= limit THEN [got |-> SubSeq(found, 1, limit), cut |-> TRUE]
        ELSE [got |-> found, cut |-> FALSE]

Shown(lines, ask) == IF ask.kind = "read" THEN Slice(lines, ask) ELSE GrepWalk(lines, ask)

-----------------------------------------------------------------------------
(* How a call goes on after an operation: not at all when it was dropped.   *)
GoesOn(c, next) ==
    work' = [work EXCEPT ![c] = IF @.dropped THEN [@ EXCEPT !.pc = "done"] ELSE next]

Ends(c, out) == GoesOn(c, [work[c] EXCEPT !.pc = "done", !.out = out])

(* The dispatch starts the call; a search goes straight to its walk. *)
Begin(c) ==
    /\ work[c].pc = "new" /\ ~fired
    /\ work' = [work EXCEPT ![c].pc = IF work[c].ask.kind = "bash" THEN "spawn" ELSE "read"]
    /\ UNCHANGED <<target, temps, tmpSeq, procs, fired, origin, lastRename>>

(* The read: the old text of a diff, the input of an edit, or the result. *)
ReadFile(c) ==
    /\ work[c].pc = "read"
    /\ LET ask == work[c].ask
           plain == target.there /\ target.text
           shown == Shown(target.lines, ask)
       IN  CASE ask.kind = "write" ->
                  GoesOn(c, [work[c] EXCEPT !.pc = "mkdir", !.new = ask.lines])
             [] ask.kind = "edit" ->
                  IF plain /\ EditPlan(target.lines, ask) # {}
                  THEN GoesOn(c, [work[c] EXCEPT !.pc = "mkdir", !.new = Replaced(target.lines, ask)])
                  ELSE Ends(c, "error")
             [] ask.kind = "read" /\ ~plain -> Ends(c, "error")
             [] ask.kind = "grep" /\ ~plain -> Ends(c, "ok")
             [] OTHER -> GoesOn(c, [work[c] EXCEPT !.pc = "done", !.out = "ok",
                                                   !.got = shown.got, !.cut = shown.cut])
    /\ UNCHANGED <<target, temps, tmpSeq, procs, fired, origin, lastRename>>

CreateDirAll(c) ==
    /\ work[c].pc = "mkdir"
    /\ \/ GoesOn(c, [work[c] EXCEPT !.pc = "stage"])
       \/ Ends(c, "error")
    /\ UNCHANGED <<target, temps, tmpSeq, procs, fired, origin, lastRename>>

(* Mutant: the name says nothing about the call. *)
TmpFileNameFixed == 0

(* `tmp_file_name`: a counter of the process. *)
TmpFileName == tmpSeq

(* The temporary file is created, or opened again under the same name. *)
StageTemp(c) ==
    /\ work[c].pc = "stage" /\ ~work[c].dropped
    /\ temps' = {t \in temps : t.name # TmpFileName}
                  \union {[name |-> TmpFileName, by |-> c, lines |-> work[c].new, whole |-> FALSE]}
    /\ tmpSeq' = tmpSeq + 1
    /\ work' = [work EXCEPT ![c].pc = "fill", ![c].name = TmpFileName]
    /\ UNCHANGED <<target, procs, fired, origin, lastRename>>

(* All of it is written, or the disk refuses and a part stays. *)
FillTemp(c) ==
    /\ work[c].pc = "fill"
    /\ \/ /\ temps' = {IF t.name = work[c].name THEN [t EXCEPT !.whole = TRUE] ELSE t : t \in temps}
          /\ GoesOn(c, [work[c] EXCEPT !.pc = "rename"])
       \/ Ends(c, "error") /\ UNCHANGED temps
    /\ UNCHANGED <<target, tmpSeq, procs, fired, origin, lastRename>>

(* The rename replaces the target as a whole. *)
Rename(c) ==
    /\ work[c].pc = "rename"
    /\ \E t \in temps :
         /\ t.name = work[c].name
         /\ target' = [Text(t.lines) EXCEPT !.whole = t.whole]
         /\ temps' = temps \ {t}
    /\ work' = [work EXCEPT ![c].pc = "done", ![c].landed = TRUE,
                            ![c].out = IF work[c].dropped THEN @ ELSE "ok"]
    /\ lastRename' = c
    /\ UNCHANGED <<tmpSeq, procs, fired, origin>>

(* A rename that fails removes the temporary file, unless nobody waits. *)
RenameFails(c) ==
    /\ work[c].pc = "rename"
    /\ temps' = IF work[c].dropped THEN temps ELSE {t \in temps : t.name # work[c].name}
    /\ Ends(c, "error")
    /\ UNCHANGED <<target, tmpSeq, procs, fired, origin, lastRename>>

-----------------------------------------------------------------------------
(* bash.                                                                    *)

SpawnShell(c) ==
    /\ work[c].pc = "spawn"
    /\ \/ /\ work' = [work EXCEPT ![c].pc = "run"]
          /\ procs' = [procs EXCEPT ![c] = {"leader"} \union work[c].ask.leaves]
       \/ Ends(c, "error") /\ UNCHANGED procs
    /\ UNCHANGED <<target, temps, tmpSeq, fired, origin, lastRename>>

ProcessExits(c, p) ==
    /\ p \in procs[c]
    /\ procs' = [procs EXCEPT ![c] = @ \ {p}]
    /\ UNCHANGED <<target, temps, tmpSeq, work, fired, origin, lastRename>>

(* `wait_with_output`: the leader is gone and the pipe is closed. *)
ShellDone(c) ==
    /\ work[c].pc = "run"
    /\ procs[c] \subseteq {"detached"}
    /\ Ends(c, "ok")
    /\ UNCHANGED <<target, temps, tmpSeq, procs, fired, origin, lastRename>>

KillProcessGroup(c) == [procs EXCEPT ![c] = {}]

ShellTimesOut(c) ==
    /\ work[c].pc = "run"
    /\ procs' = KillProcessGroup(c)
    /\ Ends(c, "error")
    /\ UNCHANGED <<target, temps, tmpSeq, fired, origin, lastRename>>

(* The tool sees the token first, if the dispatch has not looked yet. *)
ShellCancelled(c) ==
    /\ work[c].pc = "run" /\ fired
    /\ procs' = KillProcessGroup(c)
    /\ Ends(c, "cancelled")
    /\ UNCHANGED <<target, temps, tmpSeq, fired, origin, lastRename>>

-----------------------------------------------------------------------------
CancelToken ==
    /\ ~fired
    /\ fired' = TRUE
    /\ UNCHANGED <<target, temps, tmpSeq, work, procs, origin, lastRename>>

(* The dispatch looks at the token first and drops the call: an operation  *)
(* in flight still happens, and of a group `kill_on_drop` kills the leader. *)
DropCall(c) ==
    /\ fired /\ work[c].pc # "done" /\ ~work[c].dropped
    /\ \E inFlight \in {FALSE, work[c].pc \in {"read", "mkdir", "fill", "rename"}} :
         work' = [work EXCEPT ![c] = [@ EXCEPT !.out = "cancelled", !.dropped = TRUE,
                                               !.pc = IF inFlight THEN @ ELSE "done"]]
    /\ procs' = [procs EXCEPT ![c] = @ \ {"leader"}]
    /\ UNCHANGED <<target, temps, tmpSeq, fired, origin, lastRename>>

Next ==
    \/ \E c \in ToolCalls :
         \/ Begin(c) \/ ReadFile(c) \/ CreateDirAll(c) \/ StageTemp(c) \/ FillTemp(c)
         \/ Rename(c) \/ RenameFails(c)
         \/ SpawnShell(c) \/ ShellDone(c) \/ ShellTimesOut(c) \/ ShellCancelled(c)
         \/ \E p \in procs[c] : ProcessExits(c, p)
         \/ DropCall(c)
    \/ CancelToken

Spec == Init /\ [][Next]_toolVars

-----------------------------------------------------------------------------
TypeOK ==
    /\ tmpSeq \in 0..Cardinality(ToolCalls)
    /\ lastRename \in ToolCalls \union {"none"}
    /\ \A c \in ToolCalls :
         /\ work[c].pc \in {"new", "read", "mkdir", "stage", "fill", "rename", "spawn", "run", "done"}
         /\ work[c].out \in {"none", "ok", "error", "cancelled"}
         /\ procs[c] \subseteq {"leader", "piped", "detached"}

(* The target is always one whole content, that of the call that renamed    *)
(* last, whatever else runs at the same time (atomic_write).                *)
TargetWhole ==
    IF lastRename = "none" THEN target = origin
    ELSE target = Text(work[lastRename].new)

(* A result tells what happened: a call that reports an error left the file *)
(* alone, one that reports success replaced it, and only a cancelled call   *)
(* may have done either (WriteFileTool, EditFileTool, execute_approved).    *)
ResultsHonest ==
    \A c \in ToolCalls :
      /\ work[c].out = "error" => ~work[c].landed
      /\ work[c].out = "ok" /\ work[c].ask.kind \in {"write", "edit"} => work[c].landed

(* A temporary file outlives its call only if the call was dropped or could *)
(* not write it.                                                            *)
TempsOwned ==
    \A t \in temps :
      \/ work[t.by].pc \in {"fill", "rename"} /\ work[t.by].name = t.name
      \/ work[t.by].dropped
      \/ work[t.by].out = "error" /\ ~t.whole

(* A call that ended on its own, or saw its token, leaves no process behind *)
(* but one its command detached; one that timed out leaves none (BashTool). *)
NoOrphans ==
    \A c \in ToolCalls :
      work[c].pc = "done" /\ ~work[c].dropped =>
        procs[c] \subseteq (IF work[c].out = "ok" THEN {"detached"} ELSE {})

(* A search or a read that succeeds shows a part of one content the file    *)
(* had, at first or by the rename of a call, never of two or of a half      *)
(* written one.                                                             *)
AnswersFromOneFile ==
    \A c \in ToolCalls :
      work[c].out = "ok" /\ work[c].ask.kind \in {"read", "grep"} =>
        \E file \in {origin} \union {Text(work[d].new) : d \in {d \in ToolCalls : work[d].landed}} :
          IF file.there /\ file.text THEN [got |-> work[c].got, cut |-> work[c].cut] = Shown(file.lines, work[c].ask)
          ELSE work[c].ask.kind = "grep" /\ work[c].got = <<>>

(* The file tools and the shell keep their promises under concurrency,      *)
(* failing operations, timeouts and cancellation.                           *)
ToolsSafe == TargetWhole /\ ResultsHonest /\ TempsOwned /\ AnswersFromOneFile /\ NoOrphans
=============================================================================
