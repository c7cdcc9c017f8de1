------------------------------- MODULE Hooks -------------------------------
(*****************************************************************************)
(* The hook host and the callers that fold its answers.                      *)
(*                                                                           *)
(* Extensions register hooks and hold a scope whose drop removes the hook.   *)
(* A caller dispatches an event: it takes a snapshot of the matching hooks   *)
(* and runs them one after the other, outside the lock, so hooks come and go *)
(* while it runs; callers of different threads share nothing else, so one    *)
(* caller is modelled at a time.  Four callers exist: a tool call            *)
(* (PreToolUse, the tool, PostToolUse or PostToolUseFailure), the second     *)
(* fold a parent makes for a tool call of its subagent, compaction           *)
(* (PreCompact, PostCompact), and a direct user of `dispatch_with_signal`.   *)
(*****************************************************************************)
EXTENDS Naturals, Sequences, FiniteSets, SequencesExt

CONSTANTS
    Attr,       \* [hook -> [exec, budget, tools]]
    Priorities, \* the priorities a registration may ask for
    Callers,    \* who may dispatch: [kind, tool]
    Answers,    \* what a hook may answer: [stop, vote, input]
    MaxRegs     \* bound: registrations in one behaviour

ExtensionHooks == DOMAIN Attr

(* An answer without an opinion is not an answer: the hook is skipped. *)
NoAnswer == [stop |-> FALSE, vote |-> "none", input |-> "keep"]

VARIABLES
    registry,   \* the registrations: [id, hook, priority, seq], seq being history
    nextReg,    \* the id allocator
    minted,     \* per hook, the id its scope holds (0 without a scope)
    owner,      \* per hook, its scope: none, minted, held, leaked, dropped
    schemas,    \* the tools whose schema is in the cache
    job         \* the call in progress

hookVars == <<registry, nextReg, minted, owner, schemas, job>>

NewJob(caller) ==
    [caller |-> caller, pc |-> "new", event |-> "none", snap |-> <<>>, rest |-> <<>>,
     at |-> "between", log |-> <<>>, args |-> "asked", stop |-> FALSE, token |-> FALSE]

Init ==
    /\ registry = <<>>
    /\ nextReg = 0
    /\ minted = [h \in ExtensionHooks |-> 0]
    /\ owner = [h \in ExtensionHooks |-> "none"]
    /\ schemas = {}
    /\ \E caller \in Callers : job = NewJob(caller)

-----------------------------------------------------------------------------
(* Registration.  The id is allocated before the write lock is taken, so    *)
(* two registrations may enter the registry in the other order.            *)

MintId(h) ==
    /\ nextReg < MaxRegs
    /\ owner[h] \in {"none", "dropped"}
    /\ minted' = [minted EXCEPT ![h] = nextReg]
    /\ nextReg' = nextReg + 1
    /\ owner' = [owner EXCEPT ![h] = "minted"]
    /\ UNCHANGED <<registry, schemas, job>>

(* `partition_point`: how many entries have at least this priority. *)
Before(priority) ==
    Cardinality({i \in DOMAIN registry : registry[i].priority >= priority})

(* How many registrations were inserted so far. *)
Inserted == nextReg - Cardinality({h \in ExtensionHooks : owner[h] = "minted"})

(* A plausible slip: ties are inserted before the entries they tie with. *)
InsertsAhead(h, priority) ==
    /\ owner[h] = "minted"
    /\ registry' = InsertAt(registry,
                     Cardinality({i \in DOMAIN registry : registry[i].priority > priority}) + 1,
                     [id |-> minted[h], hook |-> h, priority |-> priority, seq |-> Inserted])
    /\ owner' = [owner EXCEPT ![h] = "held"]
    /\ UNCHANGED <<nextReg, minted, schemas, job>>

InsertRegistration(h, priority) ==
    /\ owner[h] = "minted"
    /\ registry' = InsertAt(registry, Before(priority) + 1,
                     [id |-> minted[h], hook |-> h, priority |-> priority, seq |-> Inserted])
    /\ owner' = [owner EXCEPT ![h] = "held"]
    /\ UNCHANGED <<nextReg, minted, schemas, job>>

(* Dropping the scope, or `unregister` once it was leaked. *)
Unregister(h) ==
    /\ owner[h] \in {"held", "leaked"}
    /\ registry' = SelectSeq(registry, LAMBDA r : r.id # minted[h])
    /\ owner' = [owner EXCEPT ![h] = "dropped"]
    /\ minted' = [minted EXCEPT ![h] = 0]
    /\ UNCHANGED <<nextReg, schemas, job>>

Leak(h) ==
    /\ owner[h] = "held"
    /\ owner' = [owner EXCEPT ![h] = "leaked"]
    /\ UNCHANGED <<registry, nextReg, minted, schemas, job>>

(* A schema enters the cache from a manifest or, when none is there, from   *)
(* the tool itself; one that does not compile leaves the tool without.      *)
RegisterSchema(t) ==
    /\ t \notin schemas
    /\ schemas' = schemas \union {t}
    /\ UNCHANGED <<registry, nextReg, minted, owner, job>>

-----------------------------------------------------------------------------
(* Dispatch.                                                               *)

(* `HookFilter::matches`: only the tool events name a tool. *)
ToolEvents == {"PreToolUse", "PostToolUse", "PostToolUseFailure"}
Matches(h, event, tool) ==
    Attr[h].tools = {} \/ (event \in ToolEvents /\ tool \in Attr[h].tools)

(* The snapshot is taken under the read lock, which is released before the *)
(* first hook runs.                                                        *)
Dispatching(event) ==
    LET snap == SelectSeq(registry, LAMBDA r : Matches(r.hook, event, job.caller.tool))
    IN [job EXCEPT !.pc = "hooks", !.event = event, !.snap = snap, !.rest = snap,
                      !.at = "between", !.log = <<>>]

Set(new) ==
    /\ job' = new
    /\ UNCHANGED <<registry, nextReg, minted, owner, schemas>>

FirstEvent == [tool |-> "PreToolUse", fold |-> "PreToolUse", compact |-> "PreCompact", direct |-> "Stop"]

Begin ==
    /\ job.pc = "new"
    /\ Set(Dispatching(FirstEvent[job.caller.kind]))

(* Only a direct caller passes a token; the engine's own calls use a token  *)
(* that never fires.                                                       *)
Signalled == job.caller.kind = "direct" /\ job.token

Running(at) == job.pc = "hooks" /\ job.rest # <<>> /\ job.at = at
Exec == Attr[Head(job.rest).hook].exec

(* A subprocess hook is spawned only if the token has not fired; its stdin  *)
(* is written before anything bounds the wait.                             *)
StartHook ==
    /\ Running("between")
    /\ Exec = "subprocess" => ~Signalled
    /\ Set([job EXCEPT !.at = IF Exec = "subprocess" THEN "feeding" ELSE "running"])

FedStdin ==
    /\ Running("feeding")
    /\ Set([job EXCEPT !.at = "running"])

(* The hook at the head has ended, with an answer or with none. *)
HookEnded(answer) ==
    Set([job EXCEPT !.rest = Tail(@), !.at = "between",
                          !.log = Append(@, [reg |-> Head(job.rest), answer |-> answer])])

(* The in-process arms poll the token first. *)
HookAnswers ==
    /\ Running("running")
    /\ Exec = "process" => ~Signalled
    /\ \E answer \in Answers : HookEnded(answer)

(* No opinion, a caught panic, an unparsable or informational output, an    *)
(* exit code other than 0 and 2, exit 2 without a reason.                   *)
HookHasNoOpinion ==
    /\ Running("running")
    /\ Exec = "process" => ~Signalled
    /\ HookEnded(NoAnswer)

(* A program that cannot be spawned, or that does not take its input. *)
SubprocessFails ==
    /\ Running("feeding")
    /\ HookEnded(NoAnswer)

(* A plausible slip: a hook that times out ends the chain. *)
TimeoutEndsChain ==
    /\ Running("running")
    /\ Set([job EXCEPT !.rest = <<>>, !.at = "between"])

(* An in-process hook without a budget is never timed out. *)
HookTimesOut ==
    /\ Running("running")
    /\ Exec = "subprocess" \/ Attr[Head(job.rest).hook].budget
    /\ Exec = "process" => ~Signalled
    /\ HookEnded(NoAnswer)

(* `interpret_exit`, exit 2 with a reason: what it blocks depends on the    *)
(* event, and after the tool has run nothing can be blocked.                *)
EventCanBlock(event) == event \notin {"PostToolUse", "PostToolUseFailure"}
BlockOutput(event) ==
    IF ~EventCanBlock(event) THEN NoAnswer
    ELSE IF event = "PreToolUse" THEN [stop |-> FALSE, vote |-> "Deny", input |-> "keep"]
    ELSE [stop |-> TRUE, vote |-> "none", input |-> "keep"]

SubprocessBlocks ==
    /\ Running("running")
    /\ Exec = "subprocess"
    /\ HookEnded(BlockOutput(job.event))

(* The token ends the chain; the answers so far are the result. *)
SignalStops ==
    /\ Running("between") \/ Running("running")
    /\ Signalled
    /\ Set([job EXCEPT !.rest = <<>>, !.at = "between"])

-----------------------------------------------------------------------------
(* What the callers make of the answers.                                   *)

AnswersOf == {job.log[i].answer : i \in DOMAIN job.log}
Stops == \E a \in AnswersOf : a.stop
Votes == {a.vote : a \in AnswersOf} \ {"none"}

(* The strictest vote; Allow when nobody voted. *)
Fold(votes) ==
    IF "Deny" \in votes THEN "Deny" ELSE IF "Ask" \in votes THEN "Ask" ELSE "Allow"

(* The last hook that changes the input wins. *)
UpdatedInput(log) ==
    LET ups == SelectSeq(log, LAMBDA e : e.answer.input # "keep")
    IN IF ups = <<>> THEN "asked" ELSE Last(ups).answer.input

Revalidates(input) == job.caller.tool \in schemas /\ input # "malformed"

Folding(kind, event) ==
    /\ job.caller.kind = kind
    /\ job.pc = "hooks" /\ job.event = event
    /\ job.rest = <<>>

(* Steps b to d of `resolve_tool_permission`, and the turn's own check of   *)
(* the token after it.  An Ask ends in the user's answer.                   *)
ResolveToolPermission ==
    /\ Folding("tool", "PreToolUse")
    /\ LET input   == UpdatedInput(job.log)
           valid   == input = "asked" \/ Revalidates(input)
           verdict == Fold(Votes)
       IN \E allowed \in CASE ~valid \/ verdict = "Deny"  -> {FALSE}
                           [] valid /\ verdict = "Allow" -> {TRUE}
                           [] OTHER                      -> BOOLEAN :
            Set([job EXCEPT
                !.pc = IF job.token THEN "torn" ELSE IF allowed THEN "execute" ELSE "blocked",
                !.args = IF valid THEN input ELSE @,
                !.stop = Stops])

(* The fold a parent makes for its subagent takes the votes only. *)
ParentSecondFold ==
    /\ Folding("fold", "PreToolUse")
    /\ \E allowed \in CASE Fold(Votes) = "Deny"  -> {FALSE}
                        [] Fold(Votes) = "Allow" -> {TRUE}
                        [] OTHER                    -> BOOLEAN :
         Set([job EXCEPT !.pc = IF allowed THEN "done" ELSE "blocked"])

(* A stop or a deny blocks a compaction before it starts. *)
PreCompactVerdict ==
    /\ Folding("compact", "PreCompact")
    /\ Set([job EXCEPT !.pc = IF Stops \/ "Deny" \in Votes THEN "blocked" ELSE "execute"])

DirectResult ==
    /\ Folding("direct", "Stop")
    /\ Set([job EXCEPT !.pc = "done", !.stop = Stops])

(* The body runs, then the second event is dispatched.  A cancelled turn    *)
(* drops the running tool or the running post hook and the call's result.   *)
ExecuteResolvedTool ==
    /\ job.caller.kind = "tool" /\ job.pc = "execute" /\ ~job.token
    /\ \E event \in {"PostToolUse", "PostToolUseFailure"} :
         Set(Dispatching(event))

Compact ==
    /\ job.caller.kind = "compact" /\ job.pc = "execute"
    /\ Set(Dispatching("PostCompact"))

PostToolUse ==
    /\ \E event \in {"PostToolUse", "PostToolUseFailure"} : Folding("tool", event)
    /\ ~job.token
    /\ Set([job EXCEPT !.pc = "done", !.stop = @ \/ Stops])

(* A block after the compaction is only logged. *)
PostCompact ==
    /\ Folding("compact", "PostCompact")
    /\ Set([job EXCEPT !.pc = "done"])

CancelledDuringExecution ==
    /\ job.caller.kind = "tool" /\ job.token
    /\ job.pc = "execute" \/ (job.pc = "hooks" /\ job.event # "PreToolUse")
    /\ Set([job EXCEPT !.pc = "cancelled", !.rest = <<>>, !.at = "between"])

CancelTurn ==
    /\ ~job.token /\ job.caller.kind \in {"tool", "direct"}
    /\ Set([job EXCEPT !.token = TRUE])

-----------------------------------------------------------------------------
CallStep ==
    \/ Begin \/ StartHook \/ FedStdin \/ HookAnswers \/ HookHasNoOpinion
    \/ SubprocessFails \/ HookTimesOut \/ SubprocessBlocks \/ SignalStops
    \/ ResolveToolPermission \/ ParentSecondFold \/ PreCompactVerdict \/ DirectResult
    \/ ExecuteResolvedTool \/ Compact \/ PostToolUse \/ PostCompact
    \/ CancelledDuringExecution \/ CancelTurn

Next ==
    \/ \E h \in ExtensionHooks :
         \/ MintId(h) \/ Unregister(h) \/ Leak(h)
         \/ \E priority \in Priorities : InsertRegistration(h, priority)
    \/ RegisterSchema(job.caller.tool)
    \/ CallStep

Spec == Init /\ [][Next]_hookVars

-----------------------------------------------------------------------------
TypeOK ==
    /\ nextReg \in 0 .. MaxRegs
    /\ minted \in [ExtensionHooks -> 0 .. MaxRegs - 1]
    /\ owner \in [ExtensionHooks -> {"none", "minted", "held", "leaked", "dropped"}]
    /\ \A i \in DOMAIN registry :
         registry[i] \in [id : 0 .. MaxRegs - 1, hook : ExtensionHooks,
                         priority : Priorities, seq : 0 .. MaxRegs - 1]
    /\ job.pc \in {"new", "hooks", "execute", "blocked", "torn", "cancelled", "done"}
    /\ job.args \in {"asked"} \union {a.input : a \in Answers}

(* The hooks that may be called are exactly the ones an extension still     *)
(* owns, each once, and a dispatch that ran to its end consulted every hook *)
(* of its snapshot, the higher priority first and on a tie the one inserted *)
(* first, whatever their ids: a hook that panics, times out or goes away is *)
(* skipped alone.                                                           *)
Precedes(r, s) ==
    \/ r.priority > s.priority
    \/ r.priority = s.priority /\ r.seq < s.seq
Ordered(regs) == \A i, j \in DOMAIN regs : i < j => Precedes(regs[i], regs[j])
ConsultedAll == [i \in DOMAIN job.log |-> job.log[i].reg] = job.snap
RegistryIsOrdered ==
    /\ {registry[i].hook : i \in DOMAIN registry} = {h \in ExtensionHooks : owner[h] \in {"held", "leaked"}}
    /\ Ordered(registry)
    /\ Ordered([i \in DOMAIN job.log |-> job.log[i].reg])
    /\ job.pc \in {"execute", "blocked"} => ConsultedAll

(* What ran was allowed: no hook consulted on the way denied it, a          *)
(* compaction that ran was not stopped either, and an input a hook wrote    *)
(* reached the tool only in the last form given and only past the schema.   *)
Denied(log) == \E i \in DOMAIN log : log[i].answer.vote = "Deny"
Stopped(log) == \E i \in DOMAIN log : log[i].answer.stop
RunsWhatWasAllowed ==
    /\ job.pc = "done" /\ job.caller.kind = "fold" => ~Denied(job.log)
    /\ job.pc = "execute" =>
        /\ ~Denied(job.log)
        /\ job.caller.kind = "compact" => ~Stopped(job.log)
        /\ job.caller.kind = "tool" =>
             /\ job.args = UpdatedInput(job.log)
             /\ job.args # "asked" => job.args # "malformed" /\ job.caller.tool \in schemas
             /\ Stopped(job.log) => job.stop

(* Together: no deny is lost, no hook is skipped, no unchecked input runs,  *)
(* whatever fails, comes or goes while the hooks run.                       *)
HooksFailSafe == RegistryIsOrdered /\ RunsWhatWasAllowed
=============================================================================
