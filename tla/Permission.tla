----------------------------- MODULE Permission -----------------------------
(***************************************************************************)
(* How a tool call gets permission.                                        *)
(*                                                                         *)
(* A turn task resolves the permission of its tool calls one after the     *)
(* other (`turn.rs`, phase 1), then runs the approved ones in parallel     *)
(* (phase 2).  Resolving dispatches the hooks and folds their votes        *)
(* (`tool_dispatch/mod.rs`); a vote to ask enrolls a request in the table  *)
(* of pending requests (`permission/pending.rs`), shows the client a       *)
(* prompt and parks the task on a oneshot channel.  A call of a child turn *)
(* never asks the client itself: it reports its decision to the spawner    *)
(* inside the parent's `agent` call, which folds again and asks on its     *)
(* behalf (`subagent_spawn/spawner.rs`).                                   *)
(*                                                                         *)
(* The engine actor delivers answers, cancels turns and resumes threads.   *)
(* A deferred request is written to the rollout of its thread, so that     *)
(* after a restart resuming the thread can put the prompt back.            *)
(*                                                                         *)
(* Each child turn makes one tool call here; a child with several calls is *)
(* several children, since a call shares nothing with the one before it.   *)
(***************************************************************************)
EXTENDS Naturals, Sequences, FiniteSets

CONSTANTS TopCalls,   \* tool calls of top-level turns
          SubCalls,   \* tool calls of child turns
          MaxTurns,   \* bound: number of top-level turns
          Threads,    \* threads of the top-level turns
          Tools,
          ToolOf,     \* the tool each call names
          Lives,      \* bound: number of times the process is started
          MaxResumes, \* bound: number of times a thread is resumed
          MaxLost     \* bound: number of entries that never reach a rollout

Calls == TopCalls \union SubCalls
Turns == 1 .. MaxTurns
NoTurn == 0           \* the None of an Option<TurnId>

ASSUME PermissionConstants ==
    /\ TopCalls \intersect SubCalls = {}
    /\ ToolOf \in [Calls -> Tools]
    /\ MaxTurns \in Nat \ {0}
    /\ Lives \in Nat \ {0}
    /\ MaxResumes \in Nat
    /\ MaxLost \in Nat
    /\ Threads # {}

VARIABLES
    life,     \* which run of the process this is
    resumes,  \* how many times a thread was resumed
    next,     \* PendingPermissions::next
    map,      \* PendingPermissions::map: key -> the waiter of the request
    mail,     \* per call, what its oneshot holds
    rmail,    \* the same for its reinstated request, where any outcome will do
    always,   \* PermissionReducer::allow_always
    turn,     \* the turns: slot, task, thread and cancel token
    call,     \* the calls: progress, turn, folded decision, key
    ask,      \* per call, progress of the request made for it
    verdict,  \* per child call, what its reply oneshot holds
    resumed,  \* per call, the cleanup task of its reinstated request
    queue,    \* storage operations sent to the writer
    log,      \* the entries the rollouts of the threads are known to hold
    lost,     \* history: the entries that never reach a rollout
    prompts,  \* prompts the client was shown in this life
    answer,   \* history: the answer a client gave in this life to the call's
              \* prompt, delivered and acknowledged
    actor     \* what the engine actor is in the middle of

vars == <<life, resumes, next, map, mail, rmail, always, turn, call, ask, verdict,
          resumed, queue, log, lost, prompts, answer, actor>>

reducer == <<next, map, mail, rmail, always>>
storage == <<queue, log, lost>>

Decisions == {"Allow", "Ask", "Defer", "Deny"}
(* What a client answers: a cancelled outcome and an unknown option count as *)
(* a reject.                                                                *)
Answers == {"once", "always", "reject"}
Grants == {"once", "always"}
Outcomes == Answers \union {"none", "cancelled", "dropped"}

(* A waiter is the call itself or the cleanup task of its reinstated request. *)
Waiter == [call : Calls, again : BOOLEAN]
Prompt == [key : Nat, call : Calls, again : BOOLEAN]
Pending == [th : Threads, kind : {"pending"}, key : Nat, call : Calls]
Resolved == [th : Threads, kind : {"resolved"}, key : Nat, call : Calls]
Ended == [th : Threads, kind : {"ended"}, turn : Turns]
Entry == Pending \union Resolved \union Ended

Unsettled == {"hooks", "asking", "sending", "parked"}
Progress == Unsettled \union {"new", "approved", "blocked", "ran", "lost"}
TurnRecord == [slot : {"new", "live", "ended"},
               task : {"none", "resolve", "execute", "done"},
               th : Threads, cancelled : BOOLEAN]
CallRecord == [pc : Progress, turn : Turns \union {NoTurn}, dec : Decisions, key : Nat,
               ctx : Turns \union {NoTurn}, cancelled : BOOLEAN, th : Threads]

Idle == [op |-> "idle"]
EmptyMap == [k \in {} |-> k]
SomeThread == CHOOSE th \in Threads : TRUE   \* for what has no thread yet

Init ==
    /\ life = 1
    /\ resumes = 0
    /\ next = 0
    /\ map = EmptyMap
    /\ mail = [c \in Calls |-> "none"]
    /\ rmail = [c \in Calls |-> "none"]
    /\ always = {}
    /\ turn = [t \in Turns |-> [slot |-> "new", task |-> "none",
                                th |-> SomeThread, cancelled |-> FALSE]]
    /\ call = [c \in Calls |-> [pc |-> "new", turn |-> NoTurn, dec |-> "Deny",
                                key |-> 0, ctx |-> NoTurn, cancelled |-> FALSE,
                                th |-> SomeThread]]
    /\ ask = [c \in Calls |-> "none"]
    /\ verdict = [c \in Calls |-> "none"]
    /\ resumed = [c \in Calls |-> "none"]
    /\ queue = <<>>
    /\ log = <<>>
    /\ lost = {}
    /\ prompts = {}
    /\ answer = [c \in Calls |-> "none"]
    /\ actor = Idle

-----------------------------------------------------------------------------
(* The fold of the votes.                                                  *)

(* `reduce`: the strictest vote, Allow when nobody voted. *)
Reduce(votes) ==
    IF "Deny" \in votes THEN "Deny"
    ELSE IF "Defer" \in votes THEN "Defer"
    ELSE IF "Ask" \in votes THEN "Ask" ELSE "Allow"

(* `evaluate`: the BypassPermissions mode skips the votes. *)
Evaluate(bypass, votes) == IF bypass THEN "Allow" ELSE Reduce(votes)

-----------------------------------------------------------------------------
(* Helpers.                                                                *)

TurnOf(c) == call[c].turn
ThreadOf(c) == call[c].th
LiveTurns == {t \in Turns : turn[t].slot = "live"}
CallsOf(t) == {c \in Calls : call[c].turn = t}
Resolving(t) == \E c \in TopCalls \intersect CallsOf(t) : call[c].pc \in Unsettled

(* The call has a result and nobody waits for an answer on its behalf. *)
Over(c) == call[c].pc \in {"ran", "blocked"} /\ ask[c] \in {"none", "done"}

(* The receiver of the waiter is alive. *)
Listening(w) == IF w.again THEN resumed[w.call] = "wait"
                ELSE ask[w.call] \in {"announce", "wait"}

(* The oneshots after the senders in `ws` sent, or were dropped: `o`. *)
Deliver(box, again, ws, o) ==
    [c \in Calls |-> LET w == [call |-> c, again |-> again]
                    IN  IF w \in ws /\ Listening(w) THEN o ELSE box[c]]

Drop(f, k) == [x \in DOMAIN f \ {k} |-> f[x]]
Put(f, k, v) == [x \in DOMAIN f \union {k} |-> IF x = k THEN v ELSE f[x]]

Deferred(c) == call[c].dec = "Defer"
PendingEntry(c) == [th |-> ThreadOf(c), kind |-> "pending", key |-> call[c].key, call |-> c]
Marker(c) == [th |-> ThreadOf(c), kind |-> "resolved", key |-> call[c].key, call |-> c]

(* enqueue_storage_op never waits: a full channel drops the entry.  Nor does *)
(* the writer try again: an entry it cannot append is skipped.  An entry     *)
(* that meets either fate is lost from the moment it is sent.                *)
Send(e) ==
    \/ queue' = Append(queue, e) /\ UNCHANGED lost
    \/ /\ Cardinality(lost) < MaxLost
       /\ lost' = lost \union {e}
       /\ UNCHANGED queue

SendNothing == UNCHANGED <<queue, lost>>

(* The result of a call; the decision of a blocked one is of no more use. *)
Result(r, pc, dec) == [r EXCEPT !.pc = pc, !.dec = IF pc = "blocked" THEN "Deny" ELSE dec]

(* The end of resolve_tool_permission in the turn task: the result of the   *)
(* call, unless the token has fired by then, which ends the task.           *)
Settle(c, result, dec) ==
    LET t == TurnOf(c)
    IN  /\ call' = [call EXCEPT ![c] =
                       Result(@, IF turn[t].cancelled THEN "blocked" ELSE result, dec)]
        /\ turn' = [turn EXCEPT ![t] = IF @.task = "resolve" /\ @.cancelled
                                       THEN [@ EXCEPT !.task = "done"] ELSE @]

-----------------------------------------------------------------------------
(* The turn task.                                                          *)

(* The actor accepts a turn: the engine is idle, the task starts. *)
StartTurn(t, th) ==
    /\ actor = Idle
    /\ LiveTurns = {}
    /\ turn[t].slot = "new"
    /\ \A u \in Turns : u < t => turn[u].slot # "new"
    /\ turn' = [turn EXCEPT ![t] = [slot |-> "live", task |-> "resolve",
                                    th |-> th, cancelled |-> FALSE]]
    /\ UNCHANGED <<life, resumes, reducer, call, ask, verdict, resumed, storage, prompts,
                   answer, actor>>

(* The next tool call of phase 1; a further model iteration starts phase 1  *)
(* again once every call of the one before is settled.                      *)
BeginCall(t, c) ==
    /\ c \in TopCalls
    /\ call[c].pc = "new"
    /\ \/ turn[t].task = "resolve"
       \/ /\ turn[t].task = "execute"
          /\ ~turn[t].cancelled
          /\ \A d \in CallsOf(t) : Over(d)
    /\ ~Resolving(t)
    /\ call' = [call EXCEPT ![c] = [@ EXCEPT !.pc = "hooks", !.turn = t, !.ctx = t,
                                            !.th = turn[t].th]]
    /\ turn' = [turn EXCEPT ![t] = [@ EXCEPT !.task = "resolve"]]
    /\ UNCHANGED <<life, resumes, reducer, ask, verdict, resumed, storage, prompts,
                   answer, actor>>

(* The scope gate, a failing hook and a rejected rewrite of the arguments   *)
(* all block the call before any vote is folded.                            *)
GateBlocks(c) ==
    /\ c \in TopCalls
    /\ call[c].pc = "hooks"
    /\ Settle(c, "blocked", "Deny")
    /\ UNCHANGED <<life, resumes, reducer, ask, verdict, resumed, storage, prompts,
                   answer, actor>>

(* Mutant: an allow-always also answers a Defer. *)
HooksDecideDefer(c) ==
    /\ c \in TopCalls
    /\ call[c].pc = "hooks"
    /\ \E bypass \in BOOLEAN, votes \in SUBSET Decisions :
         LET dec == Evaluate(bypass, votes)
         IN  /\ dec \in {"Allow", "Deny"} \/ ToolOf[c] \in always
             /\ Settle(c, IF dec = "Deny" THEN "blocked" ELSE "approved", dec)
    /\ UNCHANGED <<life, resumes, reducer, ask, verdict, resumed, storage, prompts,
                   answer, actor>>

(* A call whose vote needs no question: Allow, Deny, or Ask for a tool the  *)
(* user allowed always.                                                     *)
HooksDecide(c) ==
    /\ c \in TopCalls
    /\ call[c].pc = "hooks"
    /\ \E bypass \in BOOLEAN, votes \in SUBSET Decisions :
         LET dec == Evaluate(bypass, votes)
         IN  /\ dec \in {"Allow", "Deny"} \/ (dec = "Ask" /\ ToolOf[c] \in always)
             /\ Settle(c, IF dec = "Deny" THEN "blocked" ELSE "approved", dec)
    /\ UNCHANGED <<life, resumes, reducer, ask, verdict, resumed, storage, prompts,
                   answer, actor>>

(* A call that must ask. *)
HooksAsk(c) ==
    /\ c \in TopCalls
    /\ call[c].pc = "hooks"
    /\ \E bypass \in BOOLEAN, votes \in SUBSET Decisions :
         LET dec == Evaluate(bypass, votes)
         IN  /\ dec = "Defer" \/ (dec = "Ask" /\ ToolOf[c] \notin always)
             /\ call' = [call EXCEPT ![c] = [@ EXCEPT !.dec = dec, !.pc = "asking"]]
    /\ ask' = [ask EXCEPT ![c] = "enroll"]
    /\ UNCHANGED <<life, resumes, reducer, turn, verdict, resumed, storage, prompts,
                   answer, actor>>

(* Phase 2 starts when every call of the turn has its permission result. *)
BeginExecution(t) ==
    /\ turn[t].task = "resolve"
    /\ ~Resolving(t)
    /\ turn' = [turn EXCEPT ![t] = [@ EXCEPT !.task = "execute"]]
    /\ UNCHANGED <<life, resumes, reducer, call, ask, verdict, resumed, storage, prompts,
                   answer, actor>>

(* execute_resolved_tool looks at the token before the tool body.  What the *)
(* body does, fail or name no tool included, counts as run.                 *)
Run(c) ==
    /\ c \in TopCalls
    /\ call[c].pc = "approved"
    /\ turn[TurnOf(c)].task = "execute"
    /\ call' = [call EXCEPT ![c] =
                   Result(@, IF turn[TurnOf(c)].cancelled THEN "blocked" ELSE "ran", @.dec)]
    /\ UNCHANGED <<life, resumes, reducer, turn, ask, verdict, resumed, storage, prompts,
                   answer, actor>>

(* finish_turn: the end is persisted by whoever empties the slot. *)
Finish(t) ==
    /\ turn[t].task = "execute"
    /\ \A c \in CallsOf(t) :
         \/ Over(c)
         \/ turn[t].cancelled /\ c \in SubCalls /\ verdict[c] # "none"
    /\ turn' = [turn EXCEPT ![t] = [@ EXCEPT !.task = "done", !.slot = "ended"]]
    /\ IF turn[t].slot = "live"
       THEN Send([th |-> turn[t].th, kind |-> "ended", turn |-> t]) ELSE SendNothing
    /\ UNCHANGED <<life, resumes, reducer, call, ask, verdict, resumed, log, prompts,
                   answer, actor>>

-----------------------------------------------------------------------------
(* The request made for a call, by its own task or by its spawner.         *)

(* `PendingPermissions::insert`: a fresh key, the waiter under it. *)
Enroll(c) ==
    /\ ask[c] = "enroll"
    /\ map' = Put(map, next, [call |-> c, again |-> FALSE])
    /\ next' = next + 1
    /\ call' = [call EXCEPT ![c] = [@ EXCEPT !.key = next]]
    /\ ask' = [ask EXCEPT ![c] = "announce"]
    /\ UNCHANGED <<life, resumes, mail, rmail, always, turn, verdict, resumed, storage,
                   prompts, answer, actor>>

(* PermissionRequested to the client; a deferred request is also persisted, *)
(* when the turn it belongs to is known.                                    *)
Announce(c) ==
    /\ ask[c] = "announce"
    /\ prompts' = prompts \union {[key |-> call[c].key, call |-> c, again |-> FALSE]}
    /\ ask' = [ask EXCEPT ![c] = "wait"]
    /\ IF Deferred(c) /\ call[c].ctx # NoTurn THEN Send(PendingEntry(c)) ELSE SendNothing
    /\ UNCHANGED <<life, resumes, reducer, turn, call, verdict, resumed, log, answer, actor>>

(* What an outcome means: only an allow option lets the call through. *)
Granted(outcome) == outcome \in Grants

(* The outcome arrives at the turn task: an allow-always is remembered, the *)
(* marker of a deferred request is persisted.                               *)
TopOutcome(c) ==
    /\ c \in TopCalls
    /\ ask[c] = "wait"
    /\ mail[c] # "none"
    /\ ask' = [ask EXCEPT ![c] = "done"]
    /\ IF Deferred(c) THEN Send(Marker(c)) ELSE SendNothing
    /\ always' = IF mail[c] = "always" THEN always \union {ToolOf[c]} ELSE always
    /\ mail' = [mail EXCEPT ![c] = "none"]
    /\ Settle(c, IF Granted(mail[c]) THEN "approved" ELSE "blocked", call[c].dec)
    /\ UNCHANGED <<life, resumes, next, map, rmail, verdict, resumed, log, prompts,
                   answer, actor>>

(* Mutant: only the bounded wait is raced against the token. *)
TopCancelledOnlyAsk(c) ==
    /\ c \in TopCalls
    /\ ask[c] = "wait"
    /\ turn[TurnOf(c)].cancelled
    /\ call[c].dec = "Ask"
    /\ ask' = [ask EXCEPT ![c] = "done"]
    /\ Settle(c, "blocked", "Deny")
    /\ UNCHANGED <<life, resumes, reducer, verdict, resumed, storage, prompts, answer, actor>>

(* The token of the turn wins the race: the wait is given up. *)
TopCancelled(c) ==
    /\ c \in TopCalls
    /\ ask[c] = "wait"
    /\ turn[TurnOf(c)].cancelled
    /\ ask' = [ask EXCEPT ![c] = "done"]
    /\ Settle(c, "blocked", "Deny")
    /\ UNCHANGED <<life, resumes, reducer, verdict, resumed, storage, prompts, answer, actor>>

(* Mutant: the timer is looked at before the oneshot. *)
TopTimeoutFirst(c) ==
    /\ c \in TopCalls
    /\ ask[c] = "wait"
    /\ call[c].dec = "Ask"
    /\ ask' = [ask EXCEPT ![c] = "done"]
    /\ Settle(c, "blocked", "Deny")
    /\ UNCHANGED <<life, resumes, reducer, verdict, resumed, storage, prompts, answer, actor>>

(* The bounded wait of an Ask elapses: the receiver goes away, the entry    *)
(* stays in the map.  A oneshot that already holds the answer wins.         *)
TopTimeout(c) ==
    /\ c \in TopCalls
    /\ ask[c] = "wait"
    /\ mail[c] = "none"
    /\ call[c].dec = "Ask"
    /\ ask' = [ask EXCEPT ![c] = "done"]
    /\ Settle(c, "blocked", "Deny")
    /\ UNCHANGED <<life, resumes, reducer, verdict, resumed, storage, prompts, answer, actor>>

-----------------------------------------------------------------------------
(* A child turn and the spawner that supervises it.                        *)

(* The body of an approved `agent` call starts a child turn, whose model    *)
(* asks for a tool.                                                         *)
BeginChild(t, c) ==
    /\ c \in SubCalls
    /\ call[c].pc = "new"
    /\ turn[t].task = "execute"
    /\ ~turn[t].cancelled
    /\ \E d \in TopCalls \intersect CallsOf(t) : call[d].pc = "ran"
    /\ call' = [call EXCEPT ![c] = [@ EXCEPT !.pc = "hooks", !.turn = t,
                                            !.th = turn[t].th]]
    /\ UNCHANGED <<life, resumes, reducer, turn, ask, verdict, resumed, storage, prompts,
                   answer, actor>>

(* The child folds its own votes: Deny ends here, anything else is reported. *)
ChildHooks(c) ==
    /\ c \in SubCalls
    /\ call[c].pc = "hooks"
    /\ \/ call' = [call EXCEPT ![c] = Result(@, "blocked", "Deny")]
       \/ \E bypass \in BOOLEAN, votes \in SUBSET Decisions :
            LET dec == Evaluate(bypass, votes)
            IN  call' = [call EXCEPT ![c] =
                           Result(@, IF dec = "Deny" THEN "blocked" ELSE "sending", dec)]
    /\ UNCHANGED <<life, resumes, reducer, turn, ask, verdict, resumed, storage, prompts,
                   answer, actor>>

(* handshake_with_parent sends the decision; a closed channel denies. *)
ChildSend(c) ==
    /\ call[c].pc = "sending"
    /\ call' = [call EXCEPT ![c] =
                   Result(@, IF verdict[c] = "dropped" THEN "blocked" ELSE "parked", @.dec)]
    /\ UNCHANGED <<life, resumes, reducer, turn, ask, verdict, resumed, storage, prompts,
                   answer, actor>>

(* parent_second_fold: the turn that is active on the parent thread now,    *)
(* the parent's hooks, and the child's vote as the last one.                *)
ParentFold(c) ==
    /\ call[c].pc = "parked"
    /\ verdict[c] = "none"
    /\ ask[c] = "none"
    /\ LET now == {t \in LiveTurns : turn[t].th = ThreadOf(c)}
           ctx == IF now = {} THEN NoTurn ELSE CHOOSE t \in now : TRUE
       IN  \/ /\ verdict' = [verdict EXCEPT ![c] = "deny"]   \* the hooks failed
              /\ UNCHANGED <<call, ask>>
           \/ \E bypass \in BOOLEAN, votes \in SUBSET Decisions :
                LET dec == Evaluate(bypass, votes \union {call[c].dec})
                IN  /\ call' = [call EXCEPT ![c] = [@ EXCEPT !.dec = dec, !.ctx = ctx]]
                    /\ verdict' = [verdict EXCEPT ![c] = CASE dec = "Allow" -> "allow"
                                                           [] dec = "Deny" -> "deny"
                                                           [] OTHER -> "none"]
                    /\ ask' = [ask EXCEPT ![c] = IF dec \in {"Ask", "Defer"}
                                                 THEN "enroll" ELSE "none"]
    /\ UNCHANGED <<life, resumes, reducer, turn, resumed, storage, prompts, answer, actor>>

(* Mutant: everything but a reject lets the child through. *)
ParentOutcomeNotRejected(c) ==
    /\ c \in SubCalls
    /\ ask[c] = "wait"
    /\ mail[c] # "none"
    /\ ask' = [ask EXCEPT ![c] = "done"]
    /\ IF Deferred(c) THEN Send(Marker(c)) ELSE SendNothing
    /\ verdict' = [verdict EXCEPT ![c] = IF mail[c] # "reject" THEN "allow" ELSE "deny"]
    /\ mail' = [mail EXCEPT ![c] = "none"]
    /\ UNCHANGED <<life, resumes, next, map, rmail, always, turn, call, resumed, log,
                   prompts, answer, actor>>

(* The outcome arrives at the spawner.  It looks at no cancel token and     *)
(* remembers no allow-always; the marker of a deferred request is persisted *)
(* whether or not the request was.                                          *)
ParentOutcome(c) ==
    /\ c \in SubCalls
    /\ ask[c] = "wait"
    /\ mail[c] # "none"
    /\ ask' = [ask EXCEPT ![c] = "done"]
    /\ IF Deferred(c) THEN Send(Marker(c)) ELSE SendNothing
    /\ verdict' = [verdict EXCEPT ![c] = IF Granted(mail[c]) THEN "allow" ELSE "deny"]
    /\ mail' = [mail EXCEPT ![c] = "none"]
    /\ UNCHANGED <<life, resumes, next, map, rmail, always, turn, call, resumed, log,
                   prompts, answer, actor>>

ParentTimeout(c) ==
    /\ c \in SubCalls
    /\ ask[c] = "wait"
    /\ mail[c] = "none"
    /\ call[c].dec = "Ask"
    /\ ask' = [ask EXCEPT ![c] = "done"]
    /\ verdict' = [verdict EXCEPT ![c] = "deny"]
    /\ UNCHANGED <<life, resumes, reducer, turn, call, resumed, storage, prompts, answer, actor>>

(* The parent turn was cancelled: the future of the `agent` call, with the  *)
(* spawner and every channel end it holds, is dropped where it stands.      *)
DropSpawner(c) ==
    /\ c \in SubCalls
    /\ call[c].pc \in Unsettled
    /\ turn[TurnOf(c)].cancelled
    /\ verdict[c] = "none"
    /\ verdict' = [verdict EXCEPT ![c] = "dropped"]
    /\ ask' = [ask EXCEPT ![c] = "done"]
    /\ UNCHANGED <<life, resumes, reducer, turn, call, resumed, storage, prompts, answer, actor>>

(* The child wakes up: its own token first, then the verdict; a reply that  *)
(* was dropped denies.                                                      *)
ChildVerdict(c) ==
    /\ call[c].pc = "parked"
    /\ verdict[c] # "none" \/ call[c].cancelled
    /\ call' = [call EXCEPT ![c] =
                   Result(@, IF verdict[c] = "allow" /\ ~@.cancelled
                             THEN "approved" ELSE "blocked", @.dec)]
    /\ UNCHANGED <<life, resumes, reducer, turn, ask, verdict, resumed, storage, prompts,
                   answer, actor>>

(* The child runs the tool, or not, after looking at its token. *)
ChildRun(c) ==
    /\ c \in SubCalls
    /\ call[c].pc = "approved"
    /\ call' = [call EXCEPT ![c] = Result(@, IF @.cancelled THEN "blocked" ELSE "ran", @.dec)]
    /\ UNCHANGED <<life, resumes, reducer, turn, ask, verdict, resumed, storage, prompts,
                   answer, actor>>

-----------------------------------------------------------------------------
(* The engine actor.                                                       *)

(* resume_permission: the entry leaves the map, the outcome goes to its     *)
(* waiter.  The client answers a prompt it was shown, any number of times.  *)
Answer(p, o) ==
    /\ actor = Idle
    /\ p.key \in DOMAIN map
    /\ LET w == map[p.key]
       IN  /\ map' = Drop(map, p.key)
           /\ mail' = Deliver(mail, FALSE, {w}, o)
           /\ rmail' = Deliver(rmail, TRUE, {w}, "answered")
           /\ answer' = IF Listening(w) /\ w = [call |-> p.call, again |-> FALSE]
                        THEN [answer EXCEPT ![p.call] = o] ELSE answer
    /\ UNCHANGED <<life, resumes, next, always, turn, call, ask, verdict, resumed, storage,
                   prompts, actor>>

(* cancel_turn empties the slot and fires the token, ... *)
CancelTurn(t) ==
    /\ actor = Idle
    /\ turn[t].slot = "live"
    /\ turn' = [turn EXCEPT ![t] = [@ EXCEPT !.slot = "ended", !.cancelled = TRUE]]
    /\ actor' = [op |-> "drain", turn |-> t]
    /\ UNCHANGED <<life, resumes, reducer, call, ask, verdict, resumed, storage, prompts, answer>>

(* ... or those of a child turn, ... *)
CancelChild(c) ==
    /\ actor = Idle
    /\ c \in SubCalls
    /\ call[c].pc \in Unsettled \union {"approved"}
    /\ ~call[c].cancelled
    /\ call' = [call EXCEPT ![c] = [@ EXCEPT !.cancelled = TRUE]]
    /\ actor' = [op |-> "drain", turn |-> NoTurn]
    /\ UNCHANGED <<life, resumes, reducer, turn, ask, verdict, resumed, storage, prompts, answer>>

(* ... then `cancel_all` resolves every pending request there is, ... *)
CancelAll ==
    /\ actor.op = "drain"
    /\ LET ws == {map[k] : k \in DOMAIN map}
       IN  /\ mail' = Deliver(mail, FALSE, ws, "cancelled")
           /\ rmail' = Deliver(rmail, TRUE, ws, "answered")
    /\ map' = EmptyMap
    /\ actor' = IF actor.turn = NoTurn THEN Idle ELSE [op |-> "persist", turn |-> actor.turn]
    /\ UNCHANGED <<life, resumes, next, always, turn, call, ask, verdict, resumed, storage,
                   prompts, answer>>

(* ... and persists the end of the turn. *)
CancelPersist ==
    /\ actor.op = "persist"
    /\ Send([th |-> turn[actor.turn].th, kind |-> "ended", turn |-> actor.turn])
    /\ actor' = Idle
    /\ UNCHANGED <<life, resumes, reducer, turn, call, ask, verdict, resumed, log, prompts, answer>>

-----------------------------------------------------------------------------
(* Storage, crash and resume.                                              *)

(* read_rollout_turns: the pending requests of the thread that no later     *)
(* marker of the same key supersedes; a later pending entry of the key      *)
(* replaces an earlier one.                                                 *)
Unresolved(th, entries) ==
    LET superseded(i) == \E j \in (i + 1) .. Len(entries) :
                            /\ entries[j].th = th
                            /\ entries[j].kind # "ended"
                            /\ entries[j].key = entries[i].key
    IN  {entries[i] : i \in {j \in DOMAIN entries :
                                /\ entries[j].th = th
                                /\ entries[j].kind = "pending"
                                /\ ~superseded(j)}}

(* The storage writer applies the operations in order and fsyncs each of    *)
(* these entries.  How far it got shows only where a rollout is read or the *)
(* process dies: there the first `n` operations are in the files.  The      *)
(* operations it gives up on never entered this queue, see `Send`.          *)
WriterGotTo(n) == log' = log \o SubSeq(queue, 1, n)

(* resume_thread: an idle engine, a flush that is acknowledged or times     *)
(* out, and the rollout read from disk.                                     *)
ResumeThread(th) ==
    /\ actor = Idle
    /\ LiveTurns = {}
    /\ resumes < MaxResumes
    /\ resumes' = resumes + 1
    /\ \E n \in 0 .. Len(queue) :
         /\ WriterGotTo(n)
         /\ queue' = SubSeq(queue, n + 1, Len(queue))
    /\ actor' = [op |-> "reinstate", found |-> Unresolved(th, log')]
    /\ UNCHANGED <<life, lost, reducer, turn, call, ask, verdict, resumed, prompts, answer>>

(* Mutant: the counter is not raised above the reinstated key. *)
ReinstateNoBump(e) ==
    LET old == {map[k] : k \in DOMAIN map \intersect {e.key}}
    IN  /\ next' = next
        /\ map' = Put(map, e.key, [call |-> e.call, again |-> TRUE])
        /\ mail' = Deliver(mail, FALSE, old, "dropped")
        /\ rmail' = [Deliver(rmail, TRUE, old, "dropped") EXCEPT ![e.call] = "none"]
        /\ resumed' = [resumed EXCEPT ![e.call] = "wait"]
        /\ prompts' = prompts \union {[key |-> e.key, call |-> e.call, again |-> TRUE]}
        /\ UNCHANGED always

(* Each unresolved request is put back under its old key, over whatever is  *)
(* there, and shown again; a cleanup task waits for its answer.             *)
Reinstate(e) ==
    LET old == {map[k] : k \in DOMAIN map \intersect {e.key}}
    IN  /\ next' = IF next > e.key THEN next ELSE e.key + 1
        /\ map' = Put(map, e.key, [call |-> e.call, again |-> TRUE])
        /\ mail' = Deliver(mail, FALSE, old, "dropped")
        /\ rmail' = [Deliver(rmail, TRUE, old, "dropped") EXCEPT ![e.call] = "none"]
        /\ resumed' = [resumed EXCEPT ![e.call] = "wait"]
        /\ prompts' = prompts \union {[key |-> e.key, call |-> e.call, again |-> TRUE]}
        /\ UNCHANGED always

ReinstateNext ==
    /\ actor.op = "reinstate"
    /\ \/ \E e \in actor.found :
            /\ Reinstate(e)
            /\ actor' = [actor EXCEPT !.found = @ \ {e}]
       \/ /\ actor.found = {}
          /\ actor' = Idle
          /\ UNCHANGED <<reducer, resumed, prompts>>
    /\ UNCHANGED <<life, resumes, turn, call, ask, verdict, storage, answer>>

(* The cleanup task persists the marker of an answered request; it does not *)
(* run the call.                                                            *)
Cleanup(c) ==
    /\ resumed[c] = "wait"
    /\ rmail[c] # "none"
    /\ resumed' = [resumed EXCEPT ![c] = "done"]
    /\ IF rmail[c] = "dropped" THEN SendNothing ELSE Send(Marker(c))
    /\ UNCHANGED <<life, resumes, reducer, turn, call, ask, verdict, log, prompts, answer, actor>>

(* The process dies and is started again: only the rollouts are left. *)
Crash ==
    /\ life < Lives
    /\ life' = life + 1
    /\ next' = 0
    /\ map' = EmptyMap
    /\ mail' = [c \in Calls |-> "none"]
    /\ rmail' = [c \in Calls |-> "none"]
    /\ always' = {}
    /\ turn' = [t \in Turns |-> IF turn[t].slot = "new" THEN turn[t]
                                ELSE [slot |-> "ended", task |-> "done",
                                      th |-> turn[t].th, cancelled |-> FALSE]]
    /\ call' = [c \in Calls |-> IF call[c].pc = "new" THEN call[c]
                                ELSE [pc |-> "lost", turn |-> TurnOf(c), dec |-> "Deny",
                                      key |-> call[c].key, ctx |-> NoTurn,
                                      cancelled |-> FALSE, th |-> ThreadOf(c)]]
    /\ ask' = [c \in Calls |-> "none"]
    /\ verdict' = [c \in Calls |-> "none"]
    /\ resumed' = [c \in Calls |-> "none"]
    /\ \E n \in 0 .. Len(queue) : WriterGotTo(n)
    /\ queue' = <<>>
    /\ prompts' = {}
    /\ answer' = [c \in Calls |-> "none"]
    /\ actor' = Idle
    /\ UNCHANGED <<resumes, lost>>

-----------------------------------------------------------------------------
TurnStep(t) ==
    \/ BeginExecution(t)
    \/ Finish(t)

CallStep(c) ==
    \/ GateBlocks(c) \/ HooksDecide(c) \/ HooksAsk(c) \/ Run(c)
    \/ Enroll(c) \/ Announce(c) \/ TopOutcome(c) \/ TopCancelled(c) \/ TopTimeout(c)
    \/ ChildHooks(c) \/ ChildSend(c) \/ ChildVerdict(c) \/ ChildRun(c)

SpawnerStep(c) ==
    \/ ParentFold(c) \/ ParentOutcome(c) \/ ParentTimeout(c) \/ DropSpawner(c)

ActorStep == CancelAll \/ CancelPersist \/ ReinstateNext

Next ==
    \/ \E t \in Turns, th \in Threads : StartTurn(t, th)
    \/ \E t \in Turns, c \in Calls : BeginCall(t, c) \/ BeginChild(t, c)
    \/ \E t \in Turns : TurnStep(t) \/ CancelTurn(t)
    \/ \E c \in Calls : CallStep(c) \/ SpawnerStep(c) \/ CancelChild(c) \/ Cleanup(c)
    \/ \E p \in prompts, o \in Answers : Answer(p, o)
    \/ ActorStep
    \/ \E th \in Threads : ResumeThread(th)
    \/ Crash

(* The runtime polls a task that can go on; timers fire. *)
Fairness ==
    /\ WF_vars(ActorStep)
    /\ \A c \in Calls : WF_vars(CallStep(c)) /\ WF_vars(SpawnerStep(c))
    /\ \A t \in Turns : WF_vars(TurnStep(t))

Spec == Init /\ [][Next]_vars
FairSpec == Spec /\ Fairness

-----------------------------------------------------------------------------
(* Properties.                                                             *)

(* Types, and the point of the key counter: it is above every key of the    *)
(* table and of the prompts on the screen, so that a new request never      *)
(* takes the place of a pending one (`PendingPermissions`).                 *)
TypeOK ==
    /\ life \in 1 .. Lives
    /\ resumes \in 0 .. MaxResumes
    /\ next \in Nat
    /\ DOMAIN map \subseteq 0 .. (next - 1)
    /\ \A k \in DOMAIN map : map[k] \in Waiter
    /\ mail \in [Calls -> Outcomes]
    /\ rmail \in [Calls -> {"none", "answered", "dropped"}]
    /\ always \subseteq Tools
    /\ turn \in [Turns -> TurnRecord]
    /\ call \in [Calls -> CallRecord]
    /\ ask \in [Calls -> {"none", "enroll", "announce", "wait", "done"}]
    /\ verdict \in [Calls -> {"none", "allow", "deny", "dropped"}]
    /\ resumed \in [Calls -> {"none", "wait", "done"}]
    /\ queue \in Seq(Entry)
    /\ log \in Seq(Entry)
    /\ lost \subseteq Entry
    /\ prompts \subseteq Prompt
    /\ \A p \in prompts : p.key < next
    /\ answer \in [Calls -> Answers \union {"none"}]
    /\ \/ actor = Idle
       \/ actor \in [op : {"drain"}, turn : Turns \union {NoTurn}]
       \/ actor \in [op : {"persist"}, turn : Turns]
       \/ actor \in [op : {"reinstate"}, found : SUBSET Pending]

(* The user allowed the tool of this call for good. *)
AllowedForGood(c) ==
    c \in TopCalls /\ \E d \in TopCalls : ToolOf[d] = ToolOf[c] /\ answer[d] = "always"

(* No tool runs without consent: the hooks allowed it, the user answered    *)
(* the prompt of this very call with an allow option, or an earlier         *)
(* allow-always for the same tool covers an Ask.  An answer to another      *)
(* prompt, an earlier life or a timeout never lets it through               *)
(* (`resolve_tool_permission_inner`, `parent_reverse_rpc`, `reinstate`).    *)
ConsentForThisCall ==
    \A c \in Calls : call[c].pc \in {"approved", "ran"} =>
        \/ call[c].dec = "Allow"
        \/ call[c].dec = "Ask" /\ AllowedForGood(c)
        \/ answer[c] \in Grants

(* An acknowledged answer is what happens: a call the user allowed is       *)
(* blocked only when its turn is cancelled, whatever the timeout does, and  *)
(* a call the user refused never runs (`resolve_with_context`, `wait`).     *)
AnswerHonoured ==
    \A c \in Calls :
        /\ answer[c] \in Grants /\ call[c].pc = "blocked" =>
               turn[TurnOf(c)].cancelled \/ call[c].cancelled
        /\ answer[c] = "reject" => call[c].pc \notin {"approved", "ran"}

(* The rollouts as they will be once the queue is written. *)
Rollouts == log \o queue

(* A suspended turn can be picked up after a crash: as long as a deferred   *)
(* request waits for its answer and its turn is not cancelled, the rollout  *)
(* of the thread holds it as unresolved, whatever other requests and        *)
(* reinstated ones of the same thread do and whichever entries of theirs    *)
(* are lost.  Only when the entry of this very request was dropped, or      *)
(* could not be written, is it missing (`PermissionSuspended`,              *)
(* `enqueue_storage_op`, `read_rollout_turns`).                             *)
SuspendedIsDurable ==
    \A c \in Calls :
        (/\ Deferred(c) /\ ask[c] = "wait" /\ mail[c] = "none"
         /\ call[c].ctx # NoTurn /\ ~turn[TurnOf(c)].cancelled) =>
            PendingEntry(c) \in Unresolved(ThreadOf(c), Rollouts) \union lost

(* The call waits, in a turn that goes on, for an answer nobody has given. *)
AwaitsUser(c) ==
    Deferred(c) /\ ask[c] = "wait" /\ mail[c] = "none" /\ ~turn[TurnOf(c)].cancelled

(* Every call gets a result, however the timeout, the cancel, the drain of  *)
(* the table and the end of the spawner fall; only a deferred request may   *)
(* wait for its user (`resolve_tool_permission_inner`, the race window of   *)
(* its comment at the select; `handshake_with_parent`).                     *)
CallSettles ==
    \A c \in Calls : call[c].pc \in Unsettled ~>
                         (call[c].pc \notin Unsettled \/ AwaitsUser(c))

(* What the comment at the marker of a deferred request says: when the end  *)
(* of a turn is written, no request of the turn is left unresolved.         *)
MarkerPrecedesEnd ==
    \A i \in DOMAIN Rollouts : Rollouts[i].kind = "ended" =>
        \A e \in Unresolved(Rollouts[i].th, SubSeq(Rollouts, 1, i)) :
            TurnOf(e.call) # Rollouts[i].turn
=============================================================================
