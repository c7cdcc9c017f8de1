-------------------------- MODULE Permission_proofs --------------------------
(***************************************************************************)
(* Proofs for any number of calls, turns, threads, tools, restarts and     *)
(* resumes: no tool call runs without consent to that very call; what the  *)
(* user answered is what happens; the request of a suspended turn whose    *)
(* entry is not lost is in the rollout, and nothing behind it supersedes   *)
(* it.                                                                     *)
(***************************************************************************)
EXTENDS Permission, SequenceTheorems, TLAPS

(* Which live call a key of the table stands for: the call that enrolled    *)
(* under it, which nobody has answered yet.                                 *)
TableInv ==
    \A k \in DOMAIN map : ~map[k].again =>
        /\ call[map[k].call].key = k
        /\ ask[map[k].call] \in {"announce", "wait", "done"}
        /\ answer[map[k].call] = "none"

(* A prompt on the screen whose key is held by a live call is the prompt of *)
(* that call.                                                               *)
PromptInv ==
    \A p \in prompts : p.key \in DOMAIN map /\ ~map[p.key].again =>
        p.call = map[p.key].call /\ ~p.again

(* A call that listens has a key below the counter, and a live entry under  *)
(* that key is its own.                                                     *)
ListenInv ==
    \A c \in Calls : ask[c] \in {"announce", "wait"} =>
        /\ call[c].key < next
        /\ call[c].key \in DOMAIN map /\ ~map[call[c].key].again =>
               map[call[c].key].call = c

(* What the oneshots hold was answered to the prompt of the call; before a  *)
(* request is enrolled there is no answer.                                  *)
AnswerInv ==
    \A c \in Calls :
        /\ mail[c] \in Grants => answer[c] = mail[c]
        /\ ask[c] \in {"none", "enroll"} => answer[c] = "none"

(* A call asks for nothing before its hooks have voted; the handshake of a  *)
(* child call has not begun before it is parked, and a verdict to allow     *)
(* rests on the votes or on an answer.                                      *)
ProgressInv ==
    \A c \in Calls :
        /\ c \in TopCalls /\ call[c].pc \in {"new", "hooks"} => ask[c] = "none"
        /\ c \in SubCalls /\ call[c].pc \in {"new", "hooks", "sending"} =>
               verdict[c] \in {"none", "dropped"} /\ ask[c] \in {"none", "done"}
        /\ c \in TopCalls => call[c].pc \notin {"sending", "parked"}
        /\ call[c].pc = "parked" /\ verdict[c] = "allow" =>
               call[c].dec = "Allow" \/ answer[c] \in Grants

(* Each remembered tool was allowed for good by some answer. *)
AlwaysInv ==
    \A x \in always : \E d \in TopCalls : ToolOf[d] = x /\ answer[d] = "always"

IInv ==
    /\ TypeOK /\ TableInv /\ PromptInv /\ ListenInv /\ AnswerInv /\ ProgressInv
    /\ AlwaysInv /\ ConsentForThisCall

-----------------------------------------------------------------------------
(* Updates of the records.                                                 *)

(* An entry that is sent is queued or lost, and nothing else is touched. *)
LEMMA SendFacts ==
    ASSUME queue \in Seq(Entry), lost \subseteq Entry, NEW e \in Entry,
           Send(e) \/ SendNothing
    PROVE  /\ queue' \in Seq(Entry)
           /\ lost' \subseteq Entry
           /\ lost \subseteq lost'
           /\ \/ queue' = Append(queue, e)
              \/ queue' = queue /\ (SendNothing \/ e \in lost')
<1>1. CASE queue' = Append(queue, e) /\ lost' = lost
  BY <1>1
<1>2. CASE queue' = queue /\ lost' = lost \union {e}
  BY <1>2
<1>3. CASE SendNothing
  BY <1>3 DEF SendNothing
<1> QED
  BY <1>1, <1>2, <1>3 DEF Send

(* An action that leaves the table, the keys and the answers alone, and moves *)
(* no call back from its wait, keeps what the table says.                     *)
LEMMA TableKept ==
    ASSUME TypeOK, TableInv, map' = map, answer' = answer,
           \A d \in Calls : call'[d].key = call[d].key,
           \A d \in Calls : ask[d] \in {"announce", "wait", "done"} =>
               ask'[d] \in {"announce", "wait", "done"}
    PROVE  TableInv'
<1> SUFFICES ASSUME NEW k \in DOMAIN map, ~map[k].again
             PROVE  /\ call'[map[k].call].key = k
                    /\ ask'[map[k].call] \in {"announce", "wait", "done"}
                    /\ answer'[map[k].call] = "none"
  BY DEF TableInv
<1>1. map[k].call \in Calls
  BY DEF TypeOK, Waiter
<1>2. /\ call[map[k].call].key = k
      /\ ask[map[k].call] \in {"announce", "wait", "done"}
      /\ answer[map[k].call] = "none"
  BY DEF TableInv
<1> QED
  BY <1>1, <1>2

(* Replacing the record of one call leaves the others alone. *)
LEMMA CallUpdate ==
    ASSUME TypeOK, NEW c \in Calls, NEW r \in CallRecord, call' = [call EXCEPT ![c] = r]
    PROVE  /\ call' \in [Calls -> CallRecord]
           /\ call'[c] = r
           /\ \A d \in Calls : d # c => call'[d] = call[d]
BY DEF TypeOK

(* Replacing the record of one turn keeps the type. *)
LEMMA TurnUpdate ==
    ASSUME TypeOK, NEW t \in Turns, NEW r \in TurnRecord, turn' = [turn EXCEPT ![t] = r]
    PROVE  turn' \in [Turns -> TurnRecord]
BY DEF TypeOK

(* What Result does to a record. *)
LEMMA ResultRecord ==
    ASSUME NEW r \in CallRecord, NEW q \in Progress, NEW d \in Decisions
    PROVE  /\ Result(r, q, d) \in CallRecord
           /\ Result(r, q, d).pc = q
           /\ q # "blocked" => Result(r, q, d).dec = d
           /\ Result(r, q, d).key = r.key
<1>1. (IF q = "blocked" THEN "Deny" ELSE d) \in Decisions
  BY DEF Decisions
<1> QED
  BY <1>1 DEF Result, CallRecord

(* What the end of resolve_tool_permission does to the call and its turn. *)
LEMMA SettleFacts ==
    ASSUME TypeOK, NEW c \in Calls, NEW q \in Progress, NEW d \in Decisions,
           Settle(c, q, d)
    PROVE  /\ call' \in [Calls -> CallRecord]
           /\ turn' \in [Turns -> TurnRecord]
           /\ \A e \in Calls : e # c => call'[e] = call[e]
           /\ call'[c].pc \in {q, "blocked"}
           /\ call'[c].pc # "blocked" => call'[c].dec = d
           /\ call'[c].key = call[c].key
<1> DEFINE t == TurnOf(c)
           p == IF turn[t].cancelled THEN "blocked" ELSE q
           x == IF turn[t].task = "resolve" /\ turn[t].cancelled
                THEN [turn[t] EXCEPT !.task = "done"] ELSE turn[t]
<1>1. p \in Progress
  BY DEF Progress
<1>2. call[c] \in CallRecord
  BY DEF TypeOK
<1>3. call' = [call EXCEPT ![c] = Result(call[c], p, d)]
  BY DEF Settle
<1>4. /\ Result(call[c], p, d) \in CallRecord
      /\ Result(call[c], p, d).pc = p
      /\ p # "blocked" => Result(call[c], p, d).dec = d
      /\ Result(call[c], p, d).key = call[c].key
  BY <1>1, <1>2, ResultRecord
<1>5. /\ call' \in [Calls -> CallRecord]
      /\ call'[c] = Result(call[c], p, d)
      /\ \A e \in Calls : e # c => call'[e] = call[e]
  <2> HIDE DEF p
  <2> QED
    BY <1>3, <1>4, CallUpdate
<1>6. turn' = [turn EXCEPT ![t] = x]
  BY DEF Settle
<1>7. turn' \in [Turns -> TurnRecord]
  <2>1. turn \in [Turns -> TurnRecord]
    BY DEF TypeOK
  <2>2. CASE t \in Turns
    <3>1. turn[t] \in TurnRecord
      BY <2>1, <2>2
    <3>2. x \in TurnRecord
      BY <3>1 DEF TurnRecord
    <3> HIDE DEF t, x
    <3> QED
      BY <1>6, <2>2, <3>2, TurnUpdate
  <2>3. CASE t \notin Turns
    <3> HIDE DEF t, x
    <3> QED
      BY <1>6, <2>1, <2>3
  <2> QED
    BY <2>2, <2>3
<1> QED
  BY <1>4, <1>5, <1>7

(* A delivery keeps the type of the oneshots. *)
LEMMA DeliverType ==
    ASSUME NEW S, NEW box \in [Calls -> S], NEW o \in S, NEW again, NEW ws
    PROVE  Deliver(box, again, ws, o) \in [Calls -> S]
BY DEF Deliver

-----------------------------------------------------------------------------
(* The invariant is kept: one lemma per action.                            *)

(* Accepting a turn touches nothing of the table. *)
LEMMA StartTurnStep ==
    ASSUME IInv, NEW t \in Turns, NEW th \in Threads, StartTurn(t, th)
    PROVE  IInv'
<1>1. /\ TypeOK /\ TableInv /\ PromptInv /\ ListenInv /\ AnswerInv
      /\ ProgressInv /\ AlwaysInv /\ ConsentForThisCall
  BY DEF IInv
<1>2. UNCHANGED <<life, resumes, next, map, mail, rmail, always, call, ask, verdict,
                  resumed, queue, log, lost, prompts, answer, actor>>
  BY DEF StartTurn, reducer, storage
<1>3. turn' = [turn EXCEPT ![t] = [slot |-> "live", task |-> "resolve", th |-> th,
    cancelled |-> FALSE]]
  BY DEF StartTurn
<1>4. turn[t] \in TurnRecord
  BY <1>1 DEF TypeOK
<1>5. [slot |-> "live", task |-> "resolve", th |-> th,
    cancelled |-> FALSE] \in TurnRecord
  BY <1>4 DEF TurnRecord
<1>6. turn' \in [Turns -> TurnRecord]
  BY <1>1, <1>3, <1>5, TurnUpdate
<1>7. TypeOK'
  BY <1>1, <1>2, <1>6 DEF TypeOK
<1>8. TableInv'
  BY <1>1, <1>2 DEF TableInv, Waiter
<1>9. PromptInv'
  BY <1>1, <1>2 DEF PromptInv
<1>10. ListenInv'
  BY <1>1, <1>2 DEF ListenInv
<1>11. AnswerInv'
  BY <1>1, <1>2 DEF AnswerInv, Grants
<1>12. ProgressInv'
  BY <1>1, <1>2 DEF ProgressInv, Grants
<1>13. AlwaysInv'
  BY <1>1, <1>2 DEF AlwaysInv
<1>14. ConsentForThisCall'
  BY <1>1, <1>2 DEF ConsentForThisCall, AllowedForGood, Grants
<1> QED
  BY <1>7, <1>8, <1>9, <1>10, <1>11, <1>12, <1>13, <1>14 DEF IInv

(* A call that begins has no result yet. *)
LEMMA BeginCallStep ==
    ASSUME IInv, NEW t \in Turns, NEW c \in Calls, BeginCall(t, c)
    PROVE  IInv'
<1>1. /\ TypeOK /\ TableInv /\ PromptInv /\ ListenInv /\ AnswerInv
      /\ ProgressInv /\ AlwaysInv /\ ConsentForThisCall
  BY DEF IInv
<1>2. UNCHANGED <<life, resumes, next, map, mail, rmail, always, ask, verdict,
                  resumed, queue, log, lost, prompts, answer, actor>>
  BY DEF BeginCall, reducer, storage
<1>3. call' = [call EXCEPT ![c] = [call[c] EXCEPT !.pc = "hooks", !.turn = t,
    !.ctx = t, !.th = turn[t].th]]
  BY DEF BeginCall
<1>4. call[c] \in CallRecord
  BY <1>1 DEF TypeOK
<1>5. [call[c] EXCEPT !.pc = "hooks", !.turn = t, !.ctx = t,
    !.th = turn[t].th] \in CallRecord
  BY <1>1, <1>4 DEF CallRecord, Progress, Unsettled, TypeOK, TurnRecord
<1>6. /\ call' \in [Calls -> CallRecord]
      /\ call'[c] = [call[c] EXCEPT !.pc = "hooks", !.turn = t, !.ctx = t,
          !.th = turn[t].th]
      /\ \A d \in Calls : d # c => call'[d] = call[d]
  BY <1>1, <1>3, <1>5, CallUpdate
<1>7. /\ call' \in [Calls -> CallRecord]
      /\ \A d \in Calls : d # c => call'[d] = call[d]
      /\ call'[c].key = call[c].key
      /\ call'[c].pc = "hooks"
  BY <1>4, <1>6 DEF CallRecord
<1>8. \A d \in Calls : call'[d].key = call[d].key
  BY <1>7
<1>9. /\ c \in TopCalls
      /\ call[c].pc = "new"
  BY DEF BeginCall
<1>10. turn' = [turn EXCEPT ![t] = [turn[t] EXCEPT !.task = "resolve"]]
  BY DEF BeginCall
<1>11. turn[t] \in TurnRecord
  BY <1>1 DEF TypeOK
<1>12. [turn[t] EXCEPT !.task = "resolve"] \in TurnRecord
  BY <1>11 DEF TurnRecord
<1>13. turn' \in [Turns -> TurnRecord]
  BY <1>1, <1>10, <1>12, TurnUpdate
<1>14. TypeOK'
  BY <1>1, <1>2, <1>7, <1>8, <1>9, <1>13 DEF TypeOK
<1>15. TableInv'
  BY <1>1, <1>2, <1>8, TableKept
<1>16. PromptInv'
  BY <1>1, <1>2 DEF PromptInv
<1>17. ListenInv'
  BY <1>1, <1>2, <1>8 DEF TypeOK, ListenInv, Waiter
<1>18. AnswerInv'
  BY <1>1, <1>2 DEF AnswerInv, Grants
<1>19. ProgressInv'
  BY <1>1, <1>2, <1>7, <1>8, <1>9, <1>13, PermissionConstants DEF TypeOK, ProgressInv,
      Grants
<1>20. AlwaysInv'
  BY <1>1, <1>2 DEF AlwaysInv
<1>21. ConsentForThisCall'
  BY <1>1, <1>2, <1>7 DEF ConsentForThisCall, AllowedForGood, Grants
<1> QED
  BY <1>14, <1>15, <1>16, <1>17, <1>18, <1>19, <1>20, <1>21 DEF IInv

(* Nor has the call of a child. *)
LEMMA BeginChildStep ==
    ASSUME IInv, NEW t \in Turns, NEW c \in Calls, BeginChild(t, c)
    PROVE  IInv'
<1>1. /\ TypeOK /\ TableInv /\ PromptInv /\ ListenInv /\ AnswerInv
      /\ ProgressInv /\ AlwaysInv /\ ConsentForThisCall
  BY DEF IInv
<1>2. UNCHANGED <<life, resumes, next, map, mail, rmail, always, turn, ask, verdict,
                  resumed, queue, log, lost, prompts, answer, actor>>
  BY DEF BeginChild, reducer, storage
<1>3. call' = [call EXCEPT ![c] = [call[c] EXCEPT !.pc = "hooks", !.turn = t,
    !.th = turn[t].th]]
  BY DEF BeginChild
<1>4. call[c] \in CallRecord
  BY <1>1 DEF TypeOK
<1>5. [call[c] EXCEPT !.pc = "hooks", !.turn = t, !.th = turn[t].th] \in CallRecord
  BY <1>1, <1>4 DEF CallRecord, Progress, Unsettled, TypeOK, TurnRecord
<1>6. /\ call' \in [Calls -> CallRecord]
      /\ call'[c] = [call[c] EXCEPT !.pc = "hooks", !.turn = t, !.th = turn[t].th]
      /\ \A d \in Calls : d # c => call'[d] = call[d]
  BY <1>1, <1>3, <1>5, CallUpdate
<1>7. /\ call' \in [Calls -> CallRecord]
      /\ \A d \in Calls : d # c => call'[d] = call[d]
      /\ call'[c].key = call[c].key
      /\ call'[c].pc = "hooks"
  BY <1>4, <1>6 DEF CallRecord
<1>8. \A d \in Calls : call'[d].key = call[d].key
  BY <1>7
<1>9. /\ c \in SubCalls
      /\ call[c].pc = "new"
  BY DEF BeginChild
<1>10. TypeOK'
  BY <1>1, <1>2, <1>7, <1>8, <1>9 DEF TypeOK
<1>11. TableInv'
  BY <1>1, <1>2, <1>8, TableKept
<1>12. PromptInv'
  BY <1>1, <1>2 DEF PromptInv
<1>13. ListenInv'
  BY <1>1, <1>2, <1>8 DEF TypeOK, ListenInv, Waiter
<1>14. AnswerInv'
  BY <1>1, <1>2 DEF AnswerInv, Grants
<1>15. ProgressInv'
  BY <1>1, <1>2, <1>7, <1>9, PermissionConstants DEF ProgressInv
<1>16. AlwaysInv'
  BY <1>1, <1>2 DEF AlwaysInv
<1>17. ConsentForThisCall'
  BY <1>1, <1>2, <1>7, <1>8, <1>9 DEF TypeOK, ConsentForThisCall, AllowedForGood, Grants
<1> QED
  BY <1>10, <1>11, <1>12, <1>13, <1>14, <1>15, <1>16, <1>17 DEF IInv

(* Phase 2 starts. *)
LEMMA BeginExecutionStep ==
    ASSUME IInv, NEW t \in Turns, BeginExecution(t)
    PROVE  IInv'
<1>1. /\ TypeOK /\ TableInv /\ PromptInv /\ ListenInv /\ AnswerInv
      /\ ProgressInv /\ AlwaysInv /\ ConsentForThisCall
  BY DEF IInv
<1>2. UNCHANGED <<life, resumes, next, map, mail, rmail, always, call, ask, verdict,
                  resumed, queue, log, lost, prompts, answer, actor>>
  BY DEF BeginExecution, reducer, storage
<1>3. turn' = [turn EXCEPT ![t] = [turn[t] EXCEPT !.task = "execute"]]
  BY DEF BeginExecution
<1>4. turn[t] \in TurnRecord
  BY <1>1 DEF TypeOK
<1>5. [turn[t] EXCEPT !.task = "execute"] \in TurnRecord
  BY <1>4 DEF TurnRecord
<1>6. turn' \in [Turns -> TurnRecord]
  BY <1>1, <1>3, <1>5, TurnUpdate
<1>7. TypeOK'
  BY <1>1, <1>2, <1>6 DEF TypeOK
<1>8. TableInv'
  BY <1>1, <1>2 DEF TableInv, Waiter
<1>9. PromptInv'
  BY <1>1, <1>2 DEF PromptInv
<1>10. ListenInv'
  BY <1>1, <1>2 DEF ListenInv
<1>11. AnswerInv'
  BY <1>1, <1>2 DEF AnswerInv, Grants
<1>12. ProgressInv'
  BY <1>1, <1>2 DEF ProgressInv, Grants
<1>13. AlwaysInv'
  BY <1>1, <1>2 DEF AlwaysInv
<1>14. ConsentForThisCall'
  BY <1>1, <1>2 DEF ConsentForThisCall, AllowedForGood, Grants
<1> QED
  BY <1>7, <1>8, <1>9, <1>10, <1>11, <1>12, <1>13, <1>14 DEF IInv

(* The end of a turn. *)
LEMMA FinishStep ==
    ASSUME IInv, NEW t \in Turns, Finish(t)
    PROVE  IInv'
<1>1. /\ TypeOK /\ TableInv /\ PromptInv /\ ListenInv /\ AnswerInv
      /\ ProgressInv /\ AlwaysInv /\ ConsentForThisCall
  BY DEF IInv
<1>2. UNCHANGED <<life, resumes, next, map, mail, rmail, always, call, ask, verdict,
                  resumed, log, prompts, answer, actor>>
  BY DEF Finish, reducer, storage
<1>3. turn' = [turn EXCEPT ![t] = [turn[t] EXCEPT !.task = "done", !.slot = "ended"]]
  BY DEF Finish
<1>4. turn[t] \in TurnRecord
  BY <1>1 DEF TypeOK
<1>5. [turn[t] EXCEPT !.task = "done", !.slot = "ended"] \in TurnRecord
  BY <1>4 DEF TurnRecord
<1>6. turn' \in [Turns -> TurnRecord]
  BY <1>1, <1>3, <1>5, TurnUpdate
<1>7. [th |-> turn[t].th, kind |-> "ended", turn |-> t] \in Entry
  BY <1>1 DEF TypeOK, TurnRecord, Entry, Ended
<1>8. queue' \in Seq(Entry) /\ lost' \subseteq Entry
  BY <1>1, <1>7, SendFacts DEF TypeOK, Finish
<1>9. TypeOK'
  BY <1>1, <1>2, <1>6, <1>8 DEF TypeOK
<1>10. TableInv'
  BY <1>1, <1>2 DEF TableInv, Waiter
<1>11. PromptInv'
  BY <1>1, <1>2 DEF PromptInv
<1>12. ListenInv'
  BY <1>1, <1>2 DEF ListenInv
<1>13. AnswerInv'
  BY <1>1, <1>2 DEF AnswerInv, Grants
<1>14. ProgressInv'
  BY <1>1, <1>2 DEF ProgressInv, Grants
<1>15. AlwaysInv'
  BY <1>1, <1>2 DEF AlwaysInv
<1>16. ConsentForThisCall'
  BY <1>1, <1>2 DEF ConsentForThisCall, AllowedForGood, Grants
<1> QED
  BY <1>9, <1>10, <1>11, <1>12, <1>13, <1>14, <1>15, <1>16 DEF IInv

(* The token of a turn fires. *)
LEMMA CancelTurnStep ==
    ASSUME IInv, NEW t \in Turns, CancelTurn(t)
    PROVE  IInv'
<1>1. /\ TypeOK /\ TableInv /\ PromptInv /\ ListenInv /\ AnswerInv
      /\ ProgressInv /\ AlwaysInv /\ ConsentForThisCall
  BY DEF IInv
<1>2. UNCHANGED <<life, resumes, next, map, mail, rmail, always, call, ask, verdict,
                  resumed, queue, log, lost, prompts, answer>>
  BY DEF CancelTurn, reducer, storage
<1>3. turn' = [turn EXCEPT ![t] = [turn[t] EXCEPT !.slot = "ended", !.cancelled = TRUE]]
  BY DEF CancelTurn
<1>4. turn[t] \in TurnRecord
  BY <1>1 DEF TypeOK
<1>5. [turn[t] EXCEPT !.slot = "ended", !.cancelled = TRUE] \in TurnRecord
  BY <1>4 DEF TurnRecord
<1>6. turn' \in [Turns -> TurnRecord]
  BY <1>1, <1>3, <1>5, TurnUpdate
<1>7. actor' \in [op : {"drain"}, turn : Turns \union {NoTurn}]
  BY DEF CancelTurn
<1>8. TypeOK'
  BY <1>1, <1>2, <1>6, <1>7 DEF TypeOK
<1>9. TableInv'
  BY <1>1, <1>2 DEF TableInv, Waiter
<1>10. PromptInv'
  BY <1>1, <1>2 DEF PromptInv
<1>11. ListenInv'
  BY <1>1, <1>2 DEF ListenInv
<1>12. AnswerInv'
  BY <1>1, <1>2 DEF AnswerInv, Grants
<1>13. ProgressInv'
  BY <1>1, <1>2 DEF ProgressInv, Grants
<1>14. AlwaysInv'
  BY <1>1, <1>2 DEF AlwaysInv
<1>15. ConsentForThisCall'
  BY <1>1, <1>2 DEF ConsentForThisCall, AllowedForGood, Grants
<1> QED
  BY <1>8, <1>9, <1>10, <1>11, <1>12, <1>13, <1>14, <1>15 DEF IInv

(* A call blocked before the votes. *)
LEMMA GateBlocksStep ==
    ASSUME IInv, NEW c \in Calls, GateBlocks(c)
    PROVE  IInv'
<1>1. /\ TypeOK /\ TableInv /\ PromptInv /\ ListenInv /\ AnswerInv
      /\ ProgressInv /\ AlwaysInv /\ ConsentForThisCall
  BY DEF IInv
<1>2. UNCHANGED <<life, resumes, next, map, mail, rmail, always, ask, verdict,
                  resumed, queue, log, lost, prompts, answer, actor>>
  BY DEF GateBlocks, reducer, storage, Settle
<1>3. /\ c \in TopCalls
      /\ call[c].pc = "hooks"
  BY DEF GateBlocks
<1>4. /\ Settle(c, "blocked", "Deny")
      /\ "blocked" \in Progress
      /\ "Deny" \in Decisions
  BY DEF GateBlocks, Progress, Decisions
<1>5. /\ call' \in [Calls -> CallRecord]
      /\ turn' \in [Turns -> TurnRecord]
      /\ \A d \in Calls : d # c => call'[d] = call[d]
      /\ call'[c].pc = "blocked"
      /\ call'[c].key = call[c].key
  BY <1>1, <1>4, SettleFacts
<1>6. \A d \in Calls : call'[d].key = call[d].key
  BY <1>5
<1>7. TypeOK'
  BY <1>1, <1>2, <1>3, <1>5, <1>6 DEF TypeOK
<1>8. TableInv'
  BY <1>1, <1>2, <1>6, TableKept
<1>9. PromptInv'
  BY <1>1, <1>2 DEF PromptInv
<1>10. ListenInv'
  BY <1>1, <1>2, <1>6 DEF TypeOK, ListenInv, Waiter
<1>11. AnswerInv'
  BY <1>1, <1>2 DEF AnswerInv, Grants
<1>12. ProgressInv'
  BY <1>1, <1>2, <1>3, <1>5, <1>6, PermissionConstants DEF TypeOK, ProgressInv, Grants
<1>13. AlwaysInv'
  BY <1>1, <1>2 DEF AlwaysInv
<1>14. ConsentForThisCall'
  BY <1>1, <1>2, <1>3, <1>5, <1>6 DEF TypeOK, ConsentForThisCall, AllowedForGood, Grants
<1> QED
  BY <1>7, <1>8, <1>9, <1>10, <1>11, <1>12, <1>13, <1>14 DEF IInv

(* The votes decide, or an earlier allow-always does. *)
LEMMA HooksDecideStep ==
    ASSUME IInv, NEW c \in Calls, HooksDecide(c)
    PROVE  IInv'
<1>1. /\ TypeOK /\ TableInv /\ PromptInv /\ ListenInv /\ AnswerInv
      /\ ProgressInv /\ AlwaysInv /\ ConsentForThisCall
  BY DEF IInv
<1>2. UNCHANGED <<life, resumes, next, map, mail, rmail, always, ask, verdict,
                  resumed, queue, log, lost, prompts, answer, actor>>
  BY DEF HooksDecide, reducer, storage, Settle
<1>3. /\ c \in TopCalls
      /\ call[c].pc = "hooks"
  BY DEF HooksDecide
<1>4. \E dec \in Decisions : 
        /\ dec \in {"Allow", "Deny"} \/ (dec = "Ask" /\ ToolOf[c] \in always)
        /\ Settle(c, IF dec = "Deny" THEN "blocked" ELSE "approved", dec)
  BY DEF HooksDecide, Decisions, Evaluate, Reduce
<1>5. PICK dec \in Decisions : 
        /\ dec \in {"Allow", "Deny"} \/ (dec = "Ask" /\ ToolOf[c] \in always)
        /\ Settle(c, IF dec = "Deny" THEN "blocked" ELSE "approved", dec)
  BY <1>4
<1>6. (IF dec = "Deny" THEN "blocked" ELSE "approved") \in Progress
  BY DEF Progress
<1>7. /\ call' \in [Calls -> CallRecord]
      /\ turn' \in [Turns -> TurnRecord]
      /\ \A d \in Calls : d # c => call'[d] = call[d]
      /\ call'[c].pc \in {IF dec = "Deny" THEN "blocked" ELSE "approved", "blocked"}
      /\ call'[c].pc # "blocked" => call'[c].dec = dec
      /\ call'[c].key = call[c].key
  BY <1>1, <1>5, <1>6, SettleFacts
<1>8. \A d \in Calls : call'[d].key = call[d].key
  BY <1>7
<1>9. /\ call'[c].pc \notin {"sending", "parked", "new", "hooks", "ran"}
      /\ call'[c].pc = "approved" =>
            \/ call'[c].dec = "Allow"
            \/ call'[c].dec = "Ask" /\ AllowedForGood(c)
  BY <1>1, <1>3, <1>5, <1>7 DEF AlwaysInv, AllowedForGood
<1>10. TypeOK'
  BY <1>1, <1>2, <1>7 DEF TypeOK
<1>11. TableInv'
  BY <1>1, <1>2, <1>8, TableKept
<1>12. PromptInv'
  BY <1>1, <1>2 DEF PromptInv
<1>13. ListenInv'
  BY <1>1, <1>2, <1>8 DEF TypeOK, ListenInv, Waiter
<1>14. AnswerInv'
  BY <1>1, <1>2 DEF AnswerInv, Grants
<1>15. ProgressInv'
  BY <1>1, <1>2, <1>3, <1>7, <1>9, PermissionConstants DEF TypeOK, ProgressInv
<1>16. AlwaysInv'
  BY <1>1, <1>2 DEF AlwaysInv
<1>17. ConsentForThisCall'
  BY <1>1, <1>2, <1>7, <1>9 DEF ConsentForThisCall, AllowedForGood, Grants
<1> QED
  BY <1>10, <1>11, <1>12, <1>13, <1>14, <1>15, <1>16, <1>17 DEF IInv

(* A call that must ask has no result yet. *)
LEMMA HooksAskStep ==
    ASSUME IInv, NEW c \in Calls, HooksAsk(c)
    PROVE  IInv'
<1>1. /\ TypeOK /\ TableInv /\ PromptInv /\ ListenInv /\ AnswerInv
      /\ ProgressInv /\ AlwaysInv /\ ConsentForThisCall
  BY DEF IInv
<1>2. UNCHANGED <<life, resumes, next, map, mail, rmail, always, turn, verdict,
                  resumed, queue, log, lost, prompts, answer, actor>>
  BY DEF HooksAsk, reducer, storage
<1>3. /\ c \in TopCalls
      /\ call[c].pc = "hooks"
  BY DEF HooksAsk
<1>4. ask[c] = "none"
  BY <1>1, <1>3 DEF ProgressInv
<1>5. PICK dec \in Decisions :
        call' = [call EXCEPT ![c] = [call[c] EXCEPT !.dec = dec, !.pc = "asking"]]
  BY DEF HooksAsk, Decisions, Evaluate, Reduce
<1>6. call[c] \in CallRecord
  BY <1>1 DEF TypeOK
<1>7. [call[c] EXCEPT !.dec = dec, !.pc = "asking"] \in CallRecord
  BY <1>6 DEF CallRecord, Progress, Unsettled
<1>8. /\ call' \in [Calls -> CallRecord]
      /\ call'[c] = [call[c] EXCEPT !.dec = dec, !.pc = "asking"]
      /\ \A d \in Calls : d # c => call'[d] = call[d]
  BY <1>1, <1>5, <1>7, CallUpdate
<1>9. /\ call' \in [Calls -> CallRecord]
      /\ \A d \in Calls : d # c => call'[d] = call[d]
      /\ call'[c].key = call[c].key
      /\ call'[c].pc = "asking"
  BY <1>6, <1>8 DEF CallRecord
<1>10. \A d \in Calls : call'[d].key = call[d].key
  BY <1>9
<1>11. /\ ask' \in [Calls -> {"none", "enroll", "announce", "wait", "done"}]
       /\ ask' = [ask EXCEPT ![c] = "enroll"]
  BY <1>1 DEF HooksAsk, TypeOK
<1>12. TypeOK'
  BY <1>1, <1>2, <1>3, <1>4, <1>9, <1>10, <1>11 DEF TypeOK
<1>13. TableInv'
  BY <1>1, <1>2, <1>4, <1>10, <1>11 DEF TypeOK, TableInv, Waiter
<1>14. PromptInv'
  BY <1>1, <1>2 DEF PromptInv
<1>15. ListenInv'
  BY <1>1, <1>2, <1>3, <1>4, <1>9, <1>10, <1>11 DEF TypeOK, ListenInv
<1>16. AnswerInv'
  BY <1>1, <1>2, <1>3, <1>4, <1>9, <1>10, <1>11 DEF TypeOK, AnswerInv, Grants
<1>17. ProgressInv'
  BY <1>1, <1>2, <1>3, <1>4, <1>9, <1>10, <1>11, PermissionConstants DEF TypeOK,
      ProgressInv, Grants
<1>18. AlwaysInv'
  BY <1>1, <1>2 DEF AlwaysInv
<1>19. ConsentForThisCall'
  BY <1>1, <1>2, <1>3, <1>4, <1>9, <1>10, <1>11 DEF TypeOK, ConsentForThisCall,
      AllowedForGood, Grants
<1> QED
  BY <1>12, <1>13, <1>14, <1>15, <1>16, <1>17, <1>18, <1>19 DEF IInv

(* An approved call runs or is cut off. *)
LEMMA RunStep ==
    ASSUME IInv, NEW c \in Calls, Run(c)
    PROVE  IInv'
<1>1. /\ TypeOK /\ TableInv /\ PromptInv /\ ListenInv /\ AnswerInv
      /\ ProgressInv /\ AlwaysInv /\ ConsentForThisCall
  BY DEF IInv
<1>2. UNCHANGED <<life, resumes, next, map, mail, rmail, always, turn, ask, verdict,
                  resumed, queue, log, lost, prompts, answer, actor>>
  BY DEF Run, reducer, storage
<1>3. /\ c \in TopCalls
      /\ call[c].pc = "approved"
  BY DEF Run
<1> DEFINE q == IF turn[TurnOf(c)].cancelled THEN "blocked" ELSE "ran"
             r == Result(call[c], q, call[c].dec)
<1>4. call' = [call EXCEPT ![c] = r]
  BY DEF Run
<1>5. /\ call[c] \in CallRecord
      /\ call[c].dec \in Decisions
  BY <1>1 DEF TypeOK, CallRecord
<1>6. q \in Progress
  BY DEF Progress, Unsettled
<1>7. /\ r \in CallRecord
      /\ r.pc = q
      /\ q # "blocked" => r.dec = call[c].dec
      /\ r.key = call[c].key
  BY <1>5, <1>6, ResultRecord
<1>8. /\ call' \in [Calls -> CallRecord]
      /\ \A d \in Calls : d # c => call'[d] = call[d]
      /\ call'[c].pc = q
      /\ call'[c].pc # "blocked" => call'[c].dec = call[c].dec
      /\ call'[c].key = call[c].key
  BY <1>1, <1>4, <1>7, CallUpdate
<1>9. \A d \in Calls : call'[d].key = call[d].key
  BY <1>8
<1>10. TypeOK'
  BY <1>1, <1>2, <1>3, <1>8, <1>9 DEF TypeOK
<1>11. TableInv'
  BY <1>1, <1>2, <1>9, TableKept
<1>12. PromptInv'
  BY <1>1, <1>2 DEF PromptInv
<1>13. ListenInv'
  BY <1>1, <1>2, <1>9 DEF TypeOK, ListenInv, Waiter
<1>14. AnswerInv'
  BY <1>1, <1>2 DEF AnswerInv, Grants
<1>15. ProgressInv'
  BY <1>1, <1>2, <1>3, <1>8, <1>9, PermissionConstants DEF TypeOK, ProgressInv, Grants
<1>16. AlwaysInv'
  BY <1>1, <1>2 DEF AlwaysInv
<1>17. ConsentForThisCall'
  BY <1>1, <1>2, <1>3, <1>8, <1>9, SMTT(30) DEF TypeOK, ConsentForThisCall, AllowedForGood, Grants
<1> QED
  BY <1>10, <1>11, <1>12, <1>13, <1>14, <1>15, <1>16, <1>17 DEF IInv

(* The child sends its decision. *)
LEMMA ChildSendStep ==
    ASSUME IInv, NEW c \in Calls, ChildSend(c)
    PROVE  IInv'
<1>1. /\ TypeOK /\ TableInv /\ PromptInv /\ ListenInv /\ AnswerInv
      /\ ProgressInv /\ AlwaysInv /\ ConsentForThisCall
  BY DEF IInv
<1>2. UNCHANGED <<life, resumes, next, map, mail, rmail, always, turn, ask, verdict,
                  resumed, queue, log, lost, prompts, answer, actor>>
  BY DEF ChildSend, reducer, storage
<1>3. call[c].pc = "sending"
  BY DEF ChildSend
<1>4. c \in SubCalls
  BY <1>1, <1>3 DEF ProgressInv, Calls
<1> DEFINE q == IF verdict[c] = "dropped" THEN "blocked" ELSE "parked"
             r == Result(call[c], q, call[c].dec)
<1>5. call' = [call EXCEPT ![c] = r]
  BY DEF ChildSend
<1>6. /\ call[c] \in CallRecord
      /\ call[c].dec \in Decisions
  BY <1>1 DEF TypeOK, CallRecord
<1>7. q \in Progress
  BY DEF Progress, Unsettled
<1>8. /\ r \in CallRecord
      /\ r.pc = q
      /\ q # "blocked" => r.dec = call[c].dec
      /\ r.key = call[c].key
  BY <1>6, <1>7, ResultRecord
<1>9. /\ call' \in [Calls -> CallRecord]
      /\ \A d \in Calls : d # c => call'[d] = call[d]
      /\ call'[c].pc = q
      /\ call'[c].pc # "blocked" => call'[c].dec = call[c].dec
      /\ call'[c].key = call[c].key
  BY <1>1, <1>5, <1>8, CallUpdate
<1>10. \A d \in Calls : call'[d].key = call[d].key
  BY <1>9
<1>11. TypeOK'
  BY <1>1, <1>2, <1>3, <1>4, <1>9, <1>10 DEF TypeOK
<1>12. TableInv'
  BY <1>1, <1>2, <1>10, TableKept
<1>13. PromptInv'
  BY <1>1, <1>2 DEF PromptInv
<1>14. ListenInv'
  BY <1>1, <1>2, <1>10 DEF TypeOK, ListenInv, Waiter
<1>15. AnswerInv'
  BY <1>1, <1>2 DEF AnswerInv, Grants
<1>16. ProgressInv'
  BY <1>1, <1>2, <1>3, <1>4, <1>9, <1>10, PermissionConstants DEF TypeOK, ProgressInv,
      Grants
<1>17. AlwaysInv'
  BY <1>1, <1>2 DEF AlwaysInv
<1>18. ConsentForThisCall'
  BY <1>1, <1>2, <1>3, <1>4, <1>9, <1>10 DEF TypeOK, ConsentForThisCall,
      AllowedForGood, Grants
<1> QED
  BY <1>11, <1>12, <1>13, <1>14, <1>15, <1>16, <1>17, <1>18 DEF IInv

(* The child takes the verdict. *)
LEMMA ChildVerdictStep ==
    ASSUME IInv, NEW c \in Calls, ChildVerdict(c)
    PROVE  IInv'
<1>1. /\ TypeOK /\ TableInv /\ PromptInv /\ ListenInv /\ AnswerInv
      /\ ProgressInv /\ AlwaysInv /\ ConsentForThisCall
  BY DEF IInv
<1>2. UNCHANGED <<life, resumes, next, map, mail, rmail, always, turn, ask, verdict,
                  resumed, queue, log, lost, prompts, answer, actor>>
  BY DEF ChildVerdict, reducer, storage
<1>3. call[c].pc = "parked"
  BY DEF ChildVerdict
<1>4. c \in SubCalls
  BY <1>1, <1>3 DEF ProgressInv, Calls
<1> DEFINE q == IF verdict[c] = "allow" /\ ~call[c].cancelled THEN "approved" ELSE "blocked"
             r == Result(call[c], q, call[c].dec)
<1>5. call' = [call EXCEPT ![c] = r]
  BY DEF ChildVerdict
<1>6. /\ call[c] \in CallRecord
      /\ call[c].dec \in Decisions
  BY <1>1 DEF TypeOK, CallRecord
<1>7. q \in Progress
  BY DEF Progress, Unsettled
<1>8. /\ r \in CallRecord
      /\ r.pc = q
      /\ q # "blocked" => r.dec = call[c].dec
      /\ r.key = call[c].key
  BY <1>6, <1>7, ResultRecord
<1>9. /\ call' \in [Calls -> CallRecord]
      /\ \A d \in Calls : d # c => call'[d] = call[d]
      /\ call'[c].pc = q
      /\ call'[c].pc # "blocked" => call'[c].dec = call[c].dec
      /\ call'[c].key = call[c].key
  BY <1>1, <1>5, <1>8, CallUpdate
<1>10. \A d \in Calls : call'[d].key = call[d].key
  BY <1>9
<1>11. /\ call'[c].pc \in {"approved", "blocked"}
       /\ call'[c].pc = "approved" => call'[c].dec = "Allow" \/ answer[c] \in Grants
  BY <1>1, <1>2, <1>3, <1>9 DEF ProgressInv
<1>12. TypeOK'
  BY <1>1, <1>2, <1>3, <1>4, <1>9, <1>10, <1>11 DEF TypeOK
<1>13. TableInv'
  BY <1>1, <1>2, <1>10, TableKept
<1>14. PromptInv'
  BY <1>1, <1>2 DEF PromptInv
<1>15. ListenInv'
  BY <1>1, <1>2, <1>10 DEF TypeOK, ListenInv, Waiter
<1>16. AnswerInv'
  BY <1>1, <1>2 DEF AnswerInv, Grants
<1>17. ProgressInv'
  BY <1>1, <1>2, <1>3, <1>4, <1>9, PermissionConstants DEF TypeOK, ProgressInv
<1>18. AlwaysInv'
  BY <1>1, <1>2 DEF AlwaysInv
<1>19. ConsentForThisCall'
  BY <1>1, <1>2, <1>9, <1>11 DEF ConsentForThisCall, AllowedForGood
<1> QED
  BY <1>12, <1>13, <1>14, <1>15, <1>16, <1>17, <1>18, <1>19 DEF IInv

(* The child runs its tool or is cut off. *)
LEMMA ChildRunStep ==
    ASSUME IInv, NEW c \in Calls, ChildRun(c)
    PROVE  IInv'
<1>1. /\ TypeOK /\ TableInv /\ PromptInv /\ ListenInv /\ AnswerInv
      /\ ProgressInv /\ AlwaysInv /\ ConsentForThisCall
  BY DEF IInv
<1>2. UNCHANGED <<life, resumes, next, map, mail, rmail, always, turn, ask, verdict,
                  resumed, queue, log, lost, prompts, answer, actor>>
  BY DEF ChildRun, reducer, storage
<1>3. /\ c \in SubCalls
      /\ call[c].pc = "approved"
  BY DEF ChildRun
<1> DEFINE q == IF call[c].cancelled THEN "blocked" ELSE "ran"
             r == Result(call[c], q, call[c].dec)
<1>4. call' = [call EXCEPT ![c] = r]
  BY DEF ChildRun
<1>5. /\ call[c] \in CallRecord
      /\ call[c].dec \in Decisions
  BY <1>1 DEF TypeOK, CallRecord
<1>6. q \in Progress
  BY DEF Progress, Unsettled
<1>7. /\ r \in CallRecord
      /\ r.pc = q
      /\ q # "blocked" => r.dec = call[c].dec
      /\ r.key = call[c].key
  BY <1>5, <1>6, ResultRecord
<1>8. /\ call' \in [Calls -> CallRecord]
      /\ \A d \in Calls : d # c => call'[d] = call[d]
      /\ call'[c].pc = q
      /\ call'[c].pc # "blocked" => call'[c].dec = call[c].dec
      /\ call'[c].key = call[c].key
  BY <1>1, <1>4, <1>7, CallUpdate
<1>9. \A d \in Calls : call'[d].key = call[d].key
  BY <1>8
<1>10. TypeOK'
  BY <1>1, <1>2, <1>3, <1>8, <1>9 DEF TypeOK
<1>11. TableInv'
  BY <1>1, <1>2, <1>9, TableKept
<1>12. PromptInv'
  BY <1>1, <1>2 DEF PromptInv
<1>13. ListenInv'
  BY <1>1, <1>2, <1>9 DEF TypeOK, ListenInv, Waiter
<1>14. AnswerInv'
  BY <1>1, <1>2 DEF AnswerInv, Grants
<1>15. ProgressInv'
  BY <1>1, <1>2, <1>3, <1>8, <1>9, PermissionConstants DEF TypeOK, ProgressInv, Grants
<1>16. AlwaysInv'
  BY <1>1, <1>2 DEF AlwaysInv
<1>17. ConsentForThisCall'
  BY <1>1, <1>2, <1>3, <1>8, <1>9 DEF TypeOK, ConsentForThisCall, AllowedForGood, Grants
<1> QED
  BY <1>10, <1>11, <1>12, <1>13, <1>14, <1>15, <1>16, <1>17 DEF IInv

(* The child folds its own votes. *)
LEMMA ChildHooksStep ==
    ASSUME IInv, NEW c \in Calls, ChildHooks(c)
    PROVE  IInv'
<1>1. /\ TypeOK /\ TableInv /\ PromptInv /\ ListenInv /\ AnswerInv
      /\ ProgressInv /\ AlwaysInv /\ ConsentForThisCall
  BY DEF IInv
<1>2. UNCHANGED <<life, resumes, next, map, mail, rmail, always, turn, ask, verdict,
                  resumed, queue, log, lost, prompts, answer, actor>>
  BY DEF ChildHooks, reducer, storage
<1>3. /\ c \in SubCalls
      /\ call[c].pc = "hooks"
  BY DEF ChildHooks
<1>4. PICK dec \in Decisions, q \in {"blocked",
    "sending"} : call' = [call EXCEPT ![c] = Result(call[c], q, dec)]
  BY DEF ChildHooks, Decisions, Evaluate, Reduce
<1>5. /\ call[c] \in CallRecord
      /\ q \in Progress
  BY <1>1 DEF TypeOK, Progress, Unsettled
<1>6. /\ Result(call[c], q, dec) \in CallRecord
      /\ Result(call[c], q, dec).pc = q
      /\ Result(call[c], q, dec).key = call[c].key
  BY <1>5, ResultRecord
<1>7. /\ call' \in [Calls -> CallRecord]
      /\ \A d \in Calls : d # c => call'[d] = call[d]
      /\ call'[c].pc \in {"blocked", "sending"}
      /\ call'[c].key = call[c].key
  BY <1>1, <1>4, <1>6, CallUpdate
<1>8. \A d \in Calls : call'[d].key = call[d].key
  BY <1>7
<1>9. TypeOK'
  BY <1>1, <1>2, <1>3, <1>7, <1>8 DEF TypeOK
<1>10. TableInv'
  BY <1>1, <1>2, <1>8, TableKept
<1>11. PromptInv'
  BY <1>1, <1>2 DEF PromptInv
<1>12. ListenInv'
  BY <1>1, <1>2, <1>8 DEF TypeOK, ListenInv, Waiter
<1>13. AnswerInv'
  BY <1>1, <1>2 DEF AnswerInv, Grants
<1>14. ProgressInv'
  BY <1>1, <1>2, <1>3, <1>7, <1>8, PermissionConstants DEF TypeOK, ProgressInv, Grants
<1>15. AlwaysInv'
  BY <1>1, <1>2 DEF AlwaysInv
<1>16. ConsentForThisCall'
  BY <1>1, <1>2, <1>3, <1>7, <1>8 DEF TypeOK, ConsentForThisCall, AllowedForGood, Grants
<1> QED
  BY <1>9, <1>10, <1>11, <1>12, <1>13, <1>14, <1>15, <1>16 DEF IInv

(* A request is enrolled under a key nobody holds. *)
LEMMA EnrollStep ==
    ASSUME IInv, NEW c \in Calls, Enroll(c)
    PROVE  IInv'
<1>1. /\ TypeOK /\ TableInv /\ PromptInv /\ ListenInv /\ AnswerInv
      /\ ProgressInv /\ AlwaysInv /\ ConsentForThisCall
  BY DEF IInv
<1>2. UNCHANGED <<life, resumes, mail, rmail, always, turn, verdict, resumed, queue,
                  log, lost, prompts, answer, actor>>
  BY DEF Enroll, reducer, storage
<1>3. /\ ask[c] = "enroll"
      /\ ask' = [ask EXCEPT ![c] = "announce"]
      /\ next' = next + 1
      /\ next \in Nat
  BY <1>1 DEF Enroll, TypeOK
<1>4. call' = [call EXCEPT ![c] = [call[c] EXCEPT !.key = next]]
  BY DEF Enroll
<1>5. call[c] \in CallRecord
  BY <1>1 DEF TypeOK
<1>6. [call[c] EXCEPT !.key = next] \in CallRecord
  BY <1>1, <1>5 DEF CallRecord, Progress, Unsettled, TypeOK
<1>7. /\ call' \in [Calls -> CallRecord]
      /\ call'[c] = [call[c] EXCEPT !.key = next]
      /\ \A d \in Calls : d # c => call'[d] = call[d]
  BY <1>1, <1>4, <1>6, CallUpdate
<1>8. /\ call' \in [Calls -> CallRecord]
      /\ \A d \in Calls : d # c => call'[d] = call[d]
      /\ call'[c].key = next
      /\ call'[c].pc = call[c].pc
      /\ call'[c].dec = call[c].dec
  BY <1>5, <1>7 DEF CallRecord
<1>9. /\ DOMAIN map' = DOMAIN map \union {next}
      /\ map'[next] = [call |-> c, again |-> FALSE]
      /\ \A k \in DOMAIN map : k # next => map'[k] = map[k]
  BY DEF Enroll, Put
<1>10. /\ next \notin DOMAIN map
       /\ \A k \in DOMAIN map : map[k] \in Waiter
  BY <1>1 DEF TypeOK
<1>11. \A k \in DOMAIN map : ~map[k].again => map[k].call # c
  BY <1>1, <1>3 DEF TableInv
<1>12. DOMAIN map' \subseteq 0 .. (next' - 1)
  BY <1>1, <1>3, <1>9 DEF TypeOK
<1>13. [call |-> c, again |-> FALSE] \in Waiter
  BY DEF Waiter
<1>14. \A k \in DOMAIN map' : map'[k] \in Waiter
  BY <1>9, <1>10, <1>13
<1>15. /\ \A d \in Calls : d # c => ask'[d] = ask[d]
       /\ \A d \in Calls : call[d].key \in Nat
  BY <1>1, <1>3 DEF TypeOK, CallRecord
<1>16. \A p \in prompts : p.key < next'
  BY <1>1, <1>3 DEF TypeOK, Prompt
<1>17. ask' \in [Calls -> {"none", "enroll", "announce", "wait", "done"}]
  BY <1>1, <1>3 DEF TypeOK
<1>18. TypeOK'
  BY <1>1, <1>2, <1>3, <1>8, <1>12, <1>14, <1>16, <1>17 DEF TypeOK
<1>19. TableInv'
  BY <1>1, <1>2, <1>3, <1>8, <1>9, <1>10, <1>11 DEF TypeOK, TableInv, AnswerInv, Waiter
<1>20. PromptInv'
  BY <1>1, <1>2, <1>9, <1>10 DEF PromptInv, TypeOK
<1>21. ListenInv'
  BY <1>1, <1>2, <1>3, <1>8, <1>9, <1>10, <1>15 DEF ListenInv
<1>22. AnswerInv'
  BY <1>1, <1>2, <1>3, <1>8, <1>9, <1>10, <1>11, <1>12, <1>14, <1>15, <1>16,
      <1>17 DEF TypeOK, AnswerInv, Grants
<1>23. ProgressInv'
  BY <1>1, <1>2, <1>3, <1>8, <1>9, <1>10, <1>11, <1>12, <1>14, <1>15, <1>16, <1>17,
      PermissionConstants DEF TypeOK, ProgressInv, Grants
<1>24. AlwaysInv'
  BY <1>1, <1>2 DEF AlwaysInv
<1>25. ConsentForThisCall'
  BY <1>1, <1>2, <1>8 DEF ConsentForThisCall, AllowedForGood
<1> QED
  BY <1>18, <1>19, <1>20, <1>21, <1>22, <1>23, <1>24, <1>25 DEF IInv

(* The prompt of a request carries its key. *)
LEMMA AnnounceStep ==
    ASSUME IInv, NEW c \in Calls, Announce(c)
    PROVE  IInv'
<1>1. /\ TypeOK /\ TableInv /\ PromptInv /\ ListenInv /\ AnswerInv
      /\ ProgressInv /\ AlwaysInv /\ ConsentForThisCall
  BY DEF IInv
<1>2. UNCHANGED <<life, resumes, next, map, mail, rmail, always, turn, call, verdict,
                  resumed, log, answer, actor>>
  BY DEF Announce, reducer, storage
<1>3. /\ ask[c] = "announce"
      /\ ask' = [ask EXCEPT ![c] = "wait"]
  BY DEF Announce
<1>4. prompts' = prompts \union {[key |-> call[c].key, call |-> c, again |-> FALSE]}
  BY DEF Announce
<1>5. call[c] \in CallRecord
  BY <1>1 DEF TypeOK
<1>6. /\ call[c].key \in Nat
      /\ call[c].th \in Threads
  BY <1>5 DEF CallRecord
<1>7. PendingEntry(c) \in Entry
  BY <1>6 DEF PendingEntry, ThreadOf, Entry, Pending
<1>8. queue' \in Seq(Entry) /\ lost' \subseteq Entry
  BY <1>1, <1>7, SendFacts DEF TypeOK, Announce
<1>9. [key |-> call[c].key, call |-> c, again |-> FALSE] \in Prompt
  BY <1>6 DEF Prompt
<1>10. prompts' \subseteq Prompt
  BY <1>1, <1>4, <1>9 DEF TypeOK
<1>11. /\ \A k \in DOMAIN map : map[k].call \in Calls
       /\ \A d \in Calls : d # c => ask'[d] = ask[d]
       /\ ask'[c] = "wait"
  BY <1>1, <1>3 DEF TypeOK, Waiter
<1>12. call[c].key < next
  BY <1>1, <1>3 DEF ListenInv
<1>13. \A p \in prompts' : p.key < next
  BY <1>1, <1>4, <1>12 DEF TypeOK
<1>14. TypeOK'
  BY <1>1, <1>2, <1>3, <1>4, <1>6, <1>8, <1>10, <1>11, <1>13 DEF TypeOK
<1>15. TableInv'
  BY <1>1, <1>2, <1>11 DEF TableInv
<1>16. PromptInv'
  BY <1>1, <1>2, <1>3, <1>4 DEF PromptInv, ListenInv
<1>17. ListenInv'
  BY <1>1, <1>2, <1>3, <1>4, <1>6, <1>8, <1>10, <1>11, <1>13 DEF TypeOK, ListenInv
<1>18. AnswerInv'
  BY <1>1, <1>2, <1>3, <1>4, <1>6, <1>8, <1>10, <1>11, <1>13 DEF TypeOK, AnswerInv,
      Grants
<1>19. ProgressInv'
  BY <1>1, <1>2, <1>3, <1>4, <1>6, <1>8, <1>10, <1>11, <1>13,
      PermissionConstants DEF TypeOK, ProgressInv, Grants
<1>20. AlwaysInv'
  BY <1>1, <1>2 DEF AlwaysInv
<1>21. ConsentForThisCall'
  BY <1>1, <1>2 DEF ConsentForThisCall, AllowedForGood, Grants
<1> QED
  BY <1>14, <1>15, <1>16, <1>17, <1>18, <1>19, <1>20, <1>21 DEF IInv

(* A cancelled wait blocks the call. *)
LEMMA TopCancelledStep ==
    ASSUME IInv, NEW c \in Calls, TopCancelled(c)
    PROVE  IInv'
<1>1. /\ TypeOK /\ TableInv /\ PromptInv /\ ListenInv /\ AnswerInv
      /\ ProgressInv /\ AlwaysInv /\ ConsentForThisCall
  BY DEF IInv
<1>2. UNCHANGED <<life, resumes, next, map, mail, rmail, always, verdict, resumed,
                  queue, log, lost, prompts, answer, actor>>
  BY DEF TopCancelled, reducer, storage, Settle
<1>3. /\ c \in TopCalls
      /\ ask[c] = "wait"
      /\ ask' = [ask EXCEPT ![c] = "done"]
  BY DEF TopCancelled
<1>4. /\ call[c] \in CallRecord
      /\ call[c].dec \in Decisions
      /\ call[c].key \in Nat
      /\ call[c].th \in Threads
  BY <1>1 DEF TypeOK, CallRecord
<1>5. /\ Settle(c, "blocked", "Deny")
      /\ "blocked" \in Progress
      /\ "Deny" \in Decisions
  BY <1>4 DEF TopCancelled, Progress, Decisions
<1>6. /\ call' \in [Calls -> CallRecord]
      /\ turn' \in [Turns -> TurnRecord]
      /\ \A d \in Calls : d # c => call'[d] = call[d]
      /\ call'[c].pc \in {"blocked", "blocked"}
      /\ call'[c].pc # "blocked" => call'[c].dec = "Deny"
      /\ call'[c].key = call[c].key
  BY <1>1, <1>5, SettleFacts
<1>7. \A d \in Calls : call'[d].key = call[d].key
  BY <1>6
<1>8. call'[c].pc \in {"approved", "blocked"}
  BY <1>6
<1>9. TypeOK'
  BY <1>1, <1>2, <1>3, <1>6, <1>7, <1>8 DEF TypeOK
<1>10. TableInv'
  <2>1. \A d \in Calls : ask[d] \in {"announce", "wait", "done"} =>
            ask'[d] \in {"announce", "wait", "done"}
    BY <1>1, <1>3 DEF TypeOK
  <2> QED
    BY <1>1, <1>2, <1>7, <2>1, TableKept
<1>11. PromptInv'
  BY <1>1, <1>2 DEF PromptInv
<1>12. ListenInv'
  BY <1>1, <1>2, <1>3, <1>6, <1>7, <1>8 DEF TypeOK, ListenInv
<1>13. AnswerInv'
  BY <1>1, <1>2, <1>3, <1>6, <1>7, <1>8 DEF TypeOK, AnswerInv, Grants
<1>14. ProgressInv'
  BY <1>1, <1>2, <1>3, <1>6, <1>7, <1>8, PermissionConstants DEF TypeOK, ProgressInv,
      Grants
<1>15. AlwaysInv'
  BY <1>1, <1>2 DEF AlwaysInv
<1>16. ConsentForThisCall'
  BY <1>1, <1>2, <1>3, <1>6, <1>7, <1>8 DEF TypeOK, ConsentForThisCall,
      AllowedForGood, Grants
<1> QED
  BY <1>9, <1>10, <1>11, <1>12, <1>13, <1>14, <1>15, <1>16 DEF IInv

(* So does one that times out. *)
LEMMA TopTimeoutStep ==
    ASSUME IInv, NEW c \in Calls, TopTimeout(c)
    PROVE  IInv'
<1>1. /\ TypeOK /\ TableInv /\ PromptInv /\ ListenInv /\ AnswerInv
      /\ ProgressInv /\ AlwaysInv /\ ConsentForThisCall
  BY DEF IInv
<1>2. UNCHANGED <<life, resumes, next, map, mail, rmail, always, verdict, resumed,
                  queue, log, lost, prompts, answer, actor>>
  BY DEF TopTimeout, reducer, storage, Settle
<1>3. /\ c \in TopCalls
      /\ ask[c] = "wait"
      /\ ask' = [ask EXCEPT ![c] = "done"]
  BY DEF TopTimeout
<1>4. /\ call[c] \in CallRecord
      /\ call[c].dec \in Decisions
      /\ call[c].key \in Nat
      /\ call[c].th \in Threads
  BY <1>1 DEF TypeOK, CallRecord
<1>5. /\ Settle(c, "blocked", "Deny")
      /\ "blocked" \in Progress
      /\ "Deny" \in Decisions
  BY <1>4 DEF TopTimeout, Progress, Decisions
<1>6. /\ call' \in [Calls -> CallRecord]
      /\ turn' \in [Turns -> TurnRecord]
      /\ \A d \in Calls : d # c => call'[d] = call[d]
      /\ call'[c].pc \in {"blocked", "blocked"}
      /\ call'[c].pc # "blocked" => call'[c].dec = "Deny"
      /\ call'[c].key = call[c].key
  BY <1>1, <1>5, SettleFacts
<1>7. \A d \in Calls : call'[d].key = call[d].key
  BY <1>6
<1>8. call'[c].pc \in {"approved", "blocked"}
  BY <1>6
<1>9. TypeOK'
  BY <1>1, <1>2, <1>3, <1>6, <1>7, <1>8 DEF TypeOK
<1>10. TableInv'
  <2>1. \A d \in Calls : ask[d] \in {"announce", "wait", "done"} =>
            ask'[d] \in {"announce", "wait", "done"}
    BY <1>1, <1>3 DEF TypeOK
  <2> QED
    BY <1>1, <1>2, <1>7, <2>1, TableKept
<1>11. PromptInv'
  BY <1>1, <1>2 DEF PromptInv
<1>12. ListenInv'
  BY <1>1, <1>2, <1>3, <1>6, <1>7, <1>8 DEF TypeOK, ListenInv
<1>13. AnswerInv'
  BY <1>1, <1>2, <1>3, <1>6, <1>7, <1>8 DEF TypeOK, AnswerInv, Grants
<1>14. ProgressInv'
  BY <1>1, <1>2, <1>3, <1>6, <1>7, <1>8, PermissionConstants DEF TypeOK, ProgressInv,
      Grants
<1>15. AlwaysInv'
  BY <1>1, <1>2 DEF AlwaysInv
<1>16. ConsentForThisCall'
  BY <1>1, <1>2, <1>3, <1>6, <1>7, <1>8 DEF TypeOK, ConsentForThisCall,
      AllowedForGood, Grants
<1> QED
  BY <1>9, <1>10, <1>11, <1>12, <1>13, <1>14, <1>15, <1>16 DEF IInv

(* An outcome lets the call through only when the user granted it. *)
LEMMA TopOutcomeStep ==
    ASSUME IInv, NEW c \in Calls, TopOutcome(c)
    PROVE  IInv'
<1>1. /\ TypeOK /\ TableInv /\ PromptInv /\ ListenInv /\ AnswerInv
      /\ ProgressInv /\ AlwaysInv /\ ConsentForThisCall
  BY DEF IInv
<1>2. UNCHANGED <<life, resumes, next, map, rmail, verdict, resumed, log, prompts,
                  answer, actor>>
  BY DEF TopOutcome, reducer, storage, Settle
<1>3. /\ c \in TopCalls
      /\ ask[c] = "wait"
      /\ ask' = [ask EXCEPT ![c] = "done"]
  BY DEF TopOutcome
<1>4. /\ call[c] \in CallRecord
      /\ call[c].dec \in Decisions
      /\ call[c].key \in Nat
      /\ call[c].th \in Threads
  BY <1>1 DEF TypeOK, CallRecord
<1>5. /\ Settle(c, (IF Granted(mail[c]) THEN "approved" ELSE "blocked"), call[c].dec)
      /\ (IF Granted(mail[c]) THEN "approved" ELSE "blocked") \in Progress
      /\ call[c].dec \in Decisions
  BY <1>4 DEF TopOutcome, Progress, Decisions
<1>6. /\ call' \in [Calls -> CallRecord]
      /\ turn' \in [Turns -> TurnRecord]
      /\ \A d \in Calls : d # c => call'[d] = call[d]
      /\ call'[c].pc \in {(IF Granted(mail[c]) THEN "approved" ELSE "blocked"),
          "blocked"}
      /\ call'[c].pc # "blocked" => call'[c].dec = call[c].dec
      /\ call'[c].key = call[c].key
  BY <1>1, <1>5, SettleFacts
<1>7. \A d \in Calls : call'[d].key = call[d].key
  BY <1>6
<1>8. call'[c].pc \in {"approved", "blocked"}
  BY <1>6
<1>9. Marker(c) \in Entry
  BY <1>4 DEF Marker, ThreadOf, Entry, Resolved
<1>10. queue' \in Seq(Entry) /\ lost' \subseteq Entry
  BY <1>1, <1>9, SendFacts DEF TypeOK, TopOutcome
<1>11. /\ mail' = [mail EXCEPT ![c] = "none"]
       /\ mail' \in [Calls -> Outcomes]
  BY <1>1 DEF TypeOK, TopOutcome, Outcomes
<1>12. ToolOf[c] \in Tools
  BY PermissionConstants
<1>13. /\ always' \subseteq Tools
       /\ \A x \in always' : x \in always \/ (x = ToolOf[c] /\ mail[c] = "always")
  BY <1>1, <1>12 DEF TypeOK, TopOutcome
<1>14. call'[c].pc = "approved" => answer[c] \in Grants
  BY <1>1, <1>6 DEF Granted, AnswerInv
<1>15. TypeOK'
  BY <1>1, <1>2, <1>3, <1>6, <1>7, <1>8, <1>10, <1>11, <1>13, <1>14 DEF TypeOK
<1>16. TableInv'
  <2>1. \A d \in Calls : ask[d] \in {"announce", "wait", "done"} =>
            ask'[d] \in {"announce", "wait", "done"}
    BY <1>1, <1>3 DEF TypeOK
  <2> QED
    BY <1>1, <1>2, <1>7, <2>1, TableKept
<1>17. PromptInv'
  BY <1>1, <1>2 DEF PromptInv
<1>18. ListenInv'
  BY <1>1, <1>2, <1>3, <1>6, <1>7, <1>8, <1>10, <1>11, <1>13, <1>14 DEF TypeOK,
      ListenInv
<1>19. AnswerInv'
  BY <1>1, <1>2, <1>3, <1>6, <1>7, <1>8, <1>10, <1>11, <1>13, <1>14 DEF TypeOK,
      AnswerInv, Grants
<1>20. ProgressInv'
  BY <1>1, <1>2, <1>3, <1>6, <1>7, <1>8, <1>10, <1>11, <1>13, <1>14,
      PermissionConstants DEF TypeOK, ProgressInv, Grants
<1>21. AlwaysInv'
  BY <1>1, <1>2, <1>3, <1>13 DEF AlwaysInv, AnswerInv, Grants
<1>22. ConsentForThisCall'
  BY <1>1, <1>2, <1>6, <1>14 DEF ConsentForThisCall, AllowedForGood, TypeOK
<1> QED
  BY <1>15, <1>16, <1>17, <1>18, <1>19, <1>20, <1>21, <1>22 DEF IInv

(* The bounded wait of the spawner denies. *)
LEMMA ParentTimeoutStep ==
    ASSUME IInv, NEW c \in Calls, ParentTimeout(c)
    PROVE  IInv'
<1>1. /\ TypeOK /\ TableInv /\ PromptInv /\ ListenInv /\ AnswerInv
      /\ ProgressInv /\ AlwaysInv /\ ConsentForThisCall
  BY DEF IInv
<1>2. UNCHANGED <<life, resumes, next, map, mail, rmail, always, turn, call, resumed,
                  queue, log, lost, prompts, answer, actor>>
  BY DEF ParentTimeout, reducer, storage
<1>3. /\ c \in SubCalls
      /\ ask[c] = "wait"
      /\ ask' = [ask EXCEPT ![c] = "done"]
      /\ verdict' = [verdict EXCEPT ![c] = "deny"]
  BY DEF ParentTimeout
<1>4. /\ call[c] \in CallRecord
      /\ call[c].key \in Nat
      /\ call[c].th \in Threads
  BY <1>1 DEF TypeOK, CallRecord
<1>5. TypeOK'
  BY <1>1, <1>2, <1>3 DEF TypeOK
<1>6. TableInv'
  BY <1>1, <1>2, <1>3 DEF TypeOK, TableInv, Waiter
<1>7. PromptInv'
  BY <1>1, <1>2 DEF PromptInv
<1>8. ListenInv'
  BY <1>1, <1>2, <1>3 DEF TypeOK, ListenInv
<1>9. AnswerInv'
  BY <1>1, <1>2, <1>3 DEF TypeOK, AnswerInv, Grants
<1>10. ProgressInv'
  BY <1>1, <1>2, <1>3, PermissionConstants DEF TypeOK, ProgressInv, Granted,
      AnswerInv, Grants
<1>11. AlwaysInv'
  BY <1>1, <1>2 DEF AlwaysInv
<1>12. ConsentForThisCall'
  BY <1>1, <1>2 DEF ConsentForThisCall, AllowedForGood, Grants
<1> QED
  BY <1>5, <1>6, <1>7, <1>8, <1>9, <1>10, <1>11, <1>12 DEF IInv

(* The spawner allows only what the user granted. *)
LEMMA ParentOutcomeStep ==
    ASSUME IInv, NEW c \in Calls, ParentOutcome(c)
    PROVE  IInv'
<1>1. /\ TypeOK /\ TableInv /\ PromptInv /\ ListenInv /\ AnswerInv
      /\ ProgressInv /\ AlwaysInv /\ ConsentForThisCall
  BY DEF IInv
<1>2. UNCHANGED <<life, resumes, next, map, rmail, always, turn, call, resumed, log,
                  prompts, answer, actor>>
  BY DEF ParentOutcome, reducer, storage
<1>3. /\ c \in SubCalls
      /\ ask[c] = "wait"
      /\ ask' = [ask EXCEPT ![c] = "done"]
      /\ verdict' = [verdict EXCEPT ![c] = IF Granted(mail[c]) THEN "allow" ELSE "deny"]
  BY DEF ParentOutcome
<1>4. /\ call[c] \in CallRecord
      /\ call[c].key \in Nat
      /\ call[c].th \in Threads
  BY <1>1 DEF TypeOK, CallRecord
<1>5. Marker(c) \in Entry
  BY <1>4 DEF Marker, ThreadOf, Entry, Resolved
<1>6. queue' \in Seq(Entry) /\ lost' \subseteq Entry
  BY <1>1, <1>5, SendFacts DEF TypeOK, ParentOutcome
<1>7. /\ mail' = [mail EXCEPT ![c] = "none"]
      /\ mail' \in [Calls -> Outcomes]
  BY <1>1 DEF TypeOK, ParentOutcome, Outcomes
<1>8. TypeOK'
  BY <1>1, <1>2, <1>3, <1>6, <1>7 DEF TypeOK
<1>9. TableInv'
  <2>1. \A d \in Calls : ask[d] \in {"announce", "wait", "done"} =>
            ask'[d] \in {"announce", "wait", "done"}
    BY <1>1, <1>3 DEF TypeOK
  <2> QED
    BY <1>1, <1>2, <2>1, TableKept
<1>10. PromptInv'
  BY <1>1, <1>2 DEF PromptInv
<1>11. ListenInv'
  BY <1>1, <1>2, <1>3, <1>6, <1>7 DEF TypeOK, ListenInv
<1>12. AnswerInv'
  BY <1>1, <1>2, <1>3, <1>6, <1>7 DEF TypeOK, AnswerInv, Grants
<1>13. ProgressInv'
  BY <1>1, <1>2, <1>3, <1>6, <1>7, PermissionConstants DEF TypeOK, ProgressInv,
      Granted, AnswerInv, Grants
<1>14. AlwaysInv'
  BY <1>1, <1>2 DEF AlwaysInv
<1>15. ConsentForThisCall'
  BY <1>1, <1>2 DEF ConsentForThisCall, AllowedForGood, Grants
<1> QED
  BY <1>8, <1>9, <1>10, <1>11, <1>12, <1>13, <1>14, <1>15 DEF IInv

(* A dropped spawner leaves no verdict to allow. *)
LEMMA DropSpawnerStep ==
    ASSUME IInv, NEW c \in Calls, DropSpawner(c)
    PROVE  IInv'
<1>1. /\ TypeOK /\ TableInv /\ PromptInv /\ ListenInv /\ AnswerInv
      /\ ProgressInv /\ AlwaysInv /\ ConsentForThisCall
  BY DEF IInv
<1>2. UNCHANGED <<life, resumes, next, map, mail, rmail, always, turn, call, resumed,
                  queue, log, lost, prompts, answer, actor>>
  BY DEF DropSpawner, reducer, storage
<1>3. /\ c \in SubCalls
      /\ call[c].pc \in Unsettled
      /\ ask' = [ask EXCEPT ![c] = "done"]
      /\ verdict' = [verdict EXCEPT ![c] = "dropped"]
  BY DEF DropSpawner
<1>4. TypeOK'
  BY <1>1, <1>2, <1>3 DEF TypeOK
<1>5. TableInv'
  <2>1. \A d \in Calls : ask[d] \in {"announce", "wait", "done"} =>
            ask'[d] \in {"announce", "wait", "done"}
    BY <1>1, <1>3 DEF TypeOK
  <2> QED
    BY <1>1, <1>2, <2>1, TableKept
<1>6. PromptInv'
  BY <1>1, <1>2 DEF PromptInv
<1>7. ListenInv'
  BY <1>1, <1>2, <1>3 DEF TypeOK, ListenInv
<1>8. AnswerInv'
  BY <1>1, <1>2, <1>3 DEF TypeOK, AnswerInv
<1>9. ProgressInv'
  BY <1>1, <1>2, <1>3, PermissionConstants DEF TypeOK, ProgressInv, Grants
<1>10. AlwaysInv'
  BY <1>1, <1>2 DEF AlwaysInv
<1>11. ConsentForThisCall'
  BY <1>1, <1>2 DEF ConsentForThisCall, AllowedForGood, Grants
<1> QED
  BY <1>4, <1>5, <1>6, <1>7, <1>8, <1>9, <1>10, <1>11 DEF IInv

(* What the second fold does to the call, its verdict and its request; the   *)
(* turn it names is the live one of the thread.                              *)
LEMMA FoldShape ==
    ASSUME IInv, NEW c \in Calls, ParentFold(c)
    PROVE  \/ /\ verdict' = [verdict EXCEPT ![c] = "deny"]
              /\ UNCHANGED <<call, ask>>
           \/ \E dec \in Decisions, ctx \in Turns \union {NoTurn} :
                /\ ctx # NoTurn => turn[ctx].slot = "live" /\ turn[ctx].th = ThreadOf(c)
                /\ call' = [call EXCEPT ![c] = [@ EXCEPT !.dec = dec, !.ctx = ctx]]
                /\ verdict' = [verdict EXCEPT ![c] = CASE dec = "Allow" -> "allow"
                                                       [] dec = "Deny" -> "deny"
                                                       [] OTHER -> "none"]
                /\ ask' = [ask EXCEPT ![c] = IF dec \in {"Ask", "Defer"}
                                             THEN "enroll" ELSE "none"]
<1> DEFINE now == {t \in LiveTurns : turn[t].th = ThreadOf(c)}
           x == IF now = {} THEN NoTurn ELSE CHOOSE t \in now : TRUE
<1>1. /\ x \in Turns \union {NoTurn}
      /\ x # NoTurn => turn[x].slot = "live" /\ turn[x].th = ThreadOf(c)
  <2>1. CASE now = {}
    BY <2>1
  <2>2. CASE now # {}
    <3>1. x \in now
      BY <2>2
    <3> HIDE DEF x
    <3> QED
      BY <3>1 DEF LiveTurns
  <2> QED
    BY <2>1, <2>2
<1>2. \A bypass \in BOOLEAN, votes \in SUBSET Decisions :
        Evaluate(bypass, votes \union {call[c].dec}) \in Decisions
  BY DEF Evaluate, Reduce, Decisions
<1> HIDE DEF now
<1>3. CASE \E bypass \in BOOLEAN, votes \in SUBSET Decisions :
             LET dec == Evaluate(bypass, votes \union {call[c].dec})
             IN  /\ call' = [call EXCEPT ![c] = [@ EXCEPT !.dec = dec, !.ctx = x]]
                 /\ verdict' = [verdict EXCEPT ![c] = CASE dec = "Allow" -> "allow"
                                                        [] dec = "Deny" -> "deny"
                                                        [] OTHER -> "none"]
                 /\ ask' = [ask EXCEPT ![c] = IF dec \in {"Ask", "Defer"}
                                              THEN "enroll" ELSE "none"]
  <2> HIDE DEF x
  <2> PICK bypass \in BOOLEAN, votes \in SUBSET Decisions :
             /\ call' = [call EXCEPT ![c] =
                   [@ EXCEPT !.dec = Evaluate(bypass, votes \union {call[c].dec}),
                             !.ctx = x]]
             /\ verdict' = [verdict EXCEPT ![c] =
                   CASE Evaluate(bypass,
                       votes \union {call[c].dec}) = "Allow" -> "allow"
                     [] Evaluate(bypass,
                         votes \union {call[c].dec}) = "Deny" -> "deny"
                     [] OTHER -> "none"]
             /\ ask' = [ask EXCEPT ![c] =
                   IF Evaluate(bypass, votes \union {call[c].dec}) \in {"Ask",
                       "Defer"}
                   THEN "enroll" ELSE "none"]
    BY <1>3
  <2> DEFINE dec == Evaluate(bypass, votes \union {call[c].dec})
  <2>1. dec \in Decisions
    BY <1>2
  <2>2. /\ call' = [call EXCEPT ![c] = [@ EXCEPT !.dec = dec, !.ctx = x]]
        /\ verdict' = [verdict EXCEPT ![c] = CASE dec = "Allow" -> "allow"
                                               [] dec = "Deny" -> "deny"
                                               [] OTHER -> "none"]
        /\ ask' = [ask EXCEPT ![c] = IF dec \in {"Ask", "Defer"}
                                     THEN "enroll" ELSE "none"]
    OBVIOUS
  <2> HIDE DEF dec
  <2> QED
    BY <1>1, <2>1, <2>2, Zenon
<1>4. CASE verdict' = [verdict EXCEPT ![c] = "deny"] /\ UNCHANGED <<call, ask>>
  BY <1>4
<1> QED
  BY <1>3, <1>4 DEF ParentFold, now

(* The second fold allows only by the votes. *)
LEMMA ParentFoldStep ==
    ASSUME IInv, NEW c \in Calls, ParentFold(c)
    PROVE  IInv'
<1>1. /\ TypeOK /\ TableInv /\ PromptInv /\ ListenInv /\ AnswerInv
      /\ ProgressInv /\ AlwaysInv /\ ConsentForThisCall
  BY DEF IInv
<1>2. UNCHANGED <<life, resumes, next, map, mail, rmail, always, turn, resumed, queue,
                  log, lost, prompts, answer, actor>>
  BY DEF ParentFold, reducer, storage
<1>3. /\ call[c].pc = "parked"
      /\ ask[c] = "none"
      /\ call[c] \in CallRecord
      /\ call[c].dec \in Decisions
  BY <1>1 DEF ParentFold, TypeOK, CallRecord
<1>4. /\ c \in SubCalls
      /\ c \notin TopCalls
  BY <1>1, <1>3, PermissionConstants DEF ProgressInv, Calls
<1>5. \/ /\ verdict' = [verdict EXCEPT ![c] = "deny"]
         /\ UNCHANGED <<call, ask>>
      \/ \E dec \in Decisions, ctx \in Turns \union {NoTurn} :
           /\ call' = [call EXCEPT ![c] = [@ EXCEPT !.dec = dec, !.ctx = ctx]]
           /\ verdict' = [verdict EXCEPT ![c] = CASE dec = "Allow" -> "allow"
                                                  [] dec = "Deny" -> "deny"
                                                  [] OTHER -> "none"]
           /\ ask' = [ask EXCEPT ![c] = IF dec \in {"Ask", "Defer"}
                                        THEN "enroll" ELSE "none"]
  BY FoldShape
<1>6. /\ call' \in [Calls -> CallRecord]
      /\ ask' \in [Calls -> {"none", "enroll", "announce", "wait", "done"}]
      /\ verdict' \in [Calls -> {"none", "allow", "deny", "dropped"}]
      /\ \A d \in Calls : d # c =>
           call'[d] = call[d] /\ ask'[d] = ask[d] /\ verdict'[d] = verdict[d]
      /\ call'[c].key = call[c].key
      /\ call'[c].pc = "parked"
      /\ ask'[c] \in {"none", "enroll"}
      /\ verdict'[c] = "allow" => call'[c].dec = "Allow"
  <2>1. CASE verdict' = [verdict EXCEPT ![c] = "deny"] /\ UNCHANGED <<call, ask>>
    BY <1>1, <1>3, <2>1 DEF TypeOK
  <2>2. ASSUME NEW dec \in Decisions, NEW ctx \in Turns \union {NoTurn},
               call' = [call EXCEPT ![c] = [@ EXCEPT !.dec = dec, !.ctx = ctx]],
               verdict' = [verdict EXCEPT ![c] = CASE dec = "Allow" -> "allow"
                                                   [] dec = "Deny" -> "deny"
                                                   [] OTHER -> "none"],
               ask' = [ask EXCEPT ![c] = IF dec \in {"Ask", "Defer"}
                                         THEN "enroll" ELSE "none"]
        PROVE  /\ call' \in [Calls -> CallRecord]
               /\ ask' \in [Calls -> {"none", "enroll", "announce", "wait", "done"}]
               /\ verdict' \in [Calls -> {"none", "allow", "deny", "dropped"}]
               /\ \A d \in Calls : d # c =>
                    call'[d] = call[d] /\ ask'[d] = ask[d] /\ verdict'[d] = verdict[d]
               /\ call'[c].key = call[c].key
               /\ call'[c].pc = "parked"
               /\ ask'[c] \in {"none", "enroll"}
               /\ verdict'[c] = "allow" => call'[c].dec = "Allow"
    <3> DEFINE r == [call[c] EXCEPT !.dec = dec, !.ctx = ctx]
    <3>1. r \in CallRecord /\ r.key = call[c].key /\ r.pc = call[c].pc /\ r.dec = dec
      BY <1>3 DEF CallRecord
    <3>2. call' = [call EXCEPT ![c] = r]
      BY <2>2
    <3> HIDE DEF r
    <3>3. /\ call' \in [Calls -> CallRecord]
          /\ call'[c] = r
          /\ \A d \in Calls : d # c => call'[d] = call[d]
      BY <1>1, <3>1, <3>2, CallUpdate
    <3>4. /\ verdict' \in [Calls -> {"none", "allow", "deny", "dropped"}]
          /\ \A d \in Calls : d # c => verdict'[d] = verdict[d]
          /\ verdict'[c] = "allow" => dec = "Allow"
      BY <1>1, <2>2 DEF TypeOK
    <3>5. /\ ask' \in [Calls -> {"none", "enroll", "announce", "wait", "done"}]
          /\ \A d \in Calls : d # c => ask'[d] = ask[d]
          /\ ask'[c] \in {"none", "enroll"}
      BY <1>1, <2>2 DEF TypeOK
    <3> QED
      BY <1>3, <3>1, <3>3, <3>4, <3>5
  <2> QED
    BY <1>5, <2>1, <2>2
<1>7. \A d \in Calls : call'[d].key = call[d].key
  BY <1>6
<1>8. TypeOK'
  BY <1>1, <1>2, <1>3, <1>4, <1>6, <1>7 DEF TypeOK
<1>9. TableInv'
  BY <1>1, <1>2, <1>3, <1>6, SMTT(30) DEF TypeOK, TableInv, Waiter
<1>10. PromptInv'
  BY <1>1, <1>2 DEF PromptInv
<1>11. ListenInv'
  BY <1>1, <1>2, <1>3, <1>4, <1>6, <1>7 DEF TypeOK, ListenInv
<1>12. AnswerInv'
  BY <1>1, <1>2, <1>3, <1>4, <1>6, <1>7 DEF TypeOK, AnswerInv, Grants
<1>13. ProgressInv'
  BY <1>1, <1>2, <1>3, <1>4, <1>6, <1>7, PermissionConstants DEF TypeOK, ProgressInv,
      Grants
<1>14. AlwaysInv'
  BY <1>1, <1>2 DEF AlwaysInv
<1>15. ConsentForThisCall'
  BY <1>1, <1>2, <1>3, <1>4, <1>6, <1>7 DEF TypeOK, ConsentForThisCall,
      AllowedForGood, Grants
<1> QED
  BY <1>8, <1>9, <1>10, <1>11, <1>12, <1>13, <1>14, <1>15 DEF IInv

(* An answer reaches the call whose prompt it answers, or none. *)
LEMMA AnswerStep ==
    ASSUME IInv, NEW p \in prompts, NEW o \in Answers, Answer(p, o)
    PROVE  IInv'
<1>1. /\ TypeOK /\ TableInv /\ PromptInv /\ ListenInv /\ AnswerInv
      /\ ProgressInv /\ AlwaysInv /\ ConsentForThisCall
  BY DEF IInv
<1>2. UNCHANGED <<life, resumes, next, always, turn, call, ask, verdict, resumed,
                  queue, log, lost, prompts, actor>>
  BY DEF Answer, reducer, storage
<1> DEFINE w == map[p.key]
<1>3. /\ p.key \in DOMAIN map
      /\ w \in Waiter
      /\ map' = Drop(map, p.key)
      /\ mail' = Deliver(mail, FALSE, {w}, o)
      /\ rmail' = Deliver(rmail, TRUE, {w}, "answered")
  BY <1>1 DEF Answer, TypeOK
<1>4. answer' = IF Listening(w) /\ w = [call |-> p.call, again |-> FALSE]
                THEN [answer EXCEPT ![p.call] = o] ELSE answer
  BY DEF Answer
<1>5. /\ DOMAIN map' = DOMAIN map \ {p.key}
      /\ \A k \in DOMAIN map' : map'[k] = map[k]
  BY <1>3 DEF Drop
<1>6. /\ mail \in [Calls -> Outcomes]
      /\ rmail \in [Calls -> {"none", "answered", "dropped"}]
      /\ o \in Outcomes
  BY <1>1 DEF TypeOK, Outcomes
<1>7. /\ mail' \in [Calls -> Outcomes]
      /\ \A c \in Calls : mail'[c] # mail[c] =>
           mail'[c] = o /\ [call |-> c, again |-> FALSE] = w /\ Listening(w)
  <2>1. /\ Deliver(mail, FALSE, {w}, o) \in [Calls -> Outcomes]
        /\ \A c \in Calls : Deliver(mail, FALSE, {w}, o)[c] # mail[c] =>
              /\ Deliver(mail, FALSE, {w}, o)[c] = o
              /\ [call |-> c, again |-> FALSE] \in {w}
              /\ Listening([call |-> c, again |-> FALSE])
    <3> HIDE DEF w
    <3> QED
      BY <1>6 DEF Deliver
  <2>2. \A c \in Calls : [call |-> c, again |-> FALSE] \in {w} =>
          [call |-> c, again |-> FALSE] = w
    OBVIOUS
  <2> HIDE DEF w
  <2> QED
    BY <1>3, <2>1, <2>2, Zenon
<1>8. rmail' \in [Calls -> {"none", "answered", "dropped"}]
  BY <1>3, <1>6, DeliverType
<1>9. answer' \in [Calls -> Answers \union {"none"}]
  BY <1>1, <1>4 DEF TypeOK
<1>10. ~w.again => w = [call |-> p.call, again |-> FALSE] /\ answer[p.call] = "none"
  BY <1>1, <1>3 DEF PromptInv, TableInv, Waiter
<1>11. \A c \in Calls : answer'[c] # answer[c] =>
         /\ answer[c] = "none"
         /\ answer'[c] = o
         /\ w = [call |-> c, again |-> FALSE]
         /\ ask[c] \in {"announce", "wait"}
  <2> SUFFICES ASSUME NEW c \in Calls, answer'[c] # answer[c]
               PROVE  /\ answer[c] = "none"
                      /\ answer'[c] = o
                      /\ w = [call |-> c, again |-> FALSE]
                      /\ ask[c] \in {"announce", "wait"}
    OBVIOUS
  <2>1. /\ Listening(w)
        /\ w = [call |-> p.call, again |-> FALSE]
        /\ answer' = [answer EXCEPT ![p.call] = o]
    BY <1>4
  <2>2. c = p.call /\ answer'[c] = o
    BY <1>1, <2>1 DEF TypeOK
  <2>3. w.again = FALSE /\ w.call = c
    BY <2>1, <2>2
  <2>4. ask[c] \in {"announce", "wait"}
    BY <2>1, <2>3 DEF Listening
  <2> QED
    BY <1>10, <2>1, <2>2, <2>3, <2>4
<1>12. \A c \in Calls : mail'[c] # mail[c] => mail'[c] = answer'[c]
  <2> SUFFICES ASSUME NEW c \in Calls, mail'[c] # mail[c]
               PROVE  mail'[c] = answer'[c]
    OBVIOUS
  <2>1. mail'[c] = o /\ [call |-> c, again |-> FALSE] = w /\ Listening(w)
    BY <1>7
  <2>2. w.again = FALSE /\ w.call = c
    BY <2>1
  <2>3. w = [call |-> p.call, again |-> FALSE]
    BY <1>10, <2>2
  <2>4. c = p.call
    BY <2>2, <2>3
  <2>5. answer' = [answer EXCEPT ![p.call] = o]
    BY <1>4, <2>1, <2>3
  <2> QED
    BY <1>1, <2>1, <2>4, <2>5 DEF TypeOK
<1>13. \A k \in DOMAIN map' : ~map[k].again => answer'[map[k].call] = answer[map[k].call]
  BY <1>1, <1>3, <1>5, <1>11, SMTT(30) DEF TableInv, TypeOK, Waiter
<1> HIDE DEF w
<1>14. TypeOK'
  BY <1>1, <1>2, <1>5, <1>7, <1>8, <1>9 DEF TypeOK
<1>15. TableInv'
  BY <1>1, <1>2, <1>5, <1>13 DEF TableInv
<1>16. PromptInv'
  BY <1>1, <1>2, <1>5 DEF PromptInv
<1>17. ListenInv'
  BY <1>1, <1>2, <1>5 DEF ListenInv
<1>18. AnswerInv'
  BY <1>1, <1>2, <1>11, <1>12 DEF AnswerInv, Grants
<1>19. ProgressInv'
  BY <1>1, <1>2, <1>11 DEF ProgressInv, Grants
<1>20. AlwaysInv'
  BY <1>1, <1>2, <1>11 DEF AlwaysInv, Calls
<1>21. ConsentForThisCall'
  BY <1>1, <1>2, <1>11 DEF ConsentForThisCall, AllowedForGood, Grants, Calls
<1> QED
  BY <1>14, <1>15, <1>16, <1>17, <1>18, <1>19, <1>20, <1>21 DEF IInv

(* The token of a child turn fires. *)
LEMMA CancelChildStep ==
    ASSUME IInv, NEW c \in Calls, CancelChild(c)
    PROVE  IInv'
<1>1. /\ TypeOK /\ TableInv /\ PromptInv /\ ListenInv /\ AnswerInv
      /\ ProgressInv /\ AlwaysInv /\ ConsentForThisCall
  BY DEF IInv
<1>2. UNCHANGED <<life, resumes, next, map, mail, rmail, always, turn, ask, verdict,
                  resumed, queue, log, lost, prompts, answer>>
  BY DEF CancelChild, reducer, storage
<1>3. call' = [call EXCEPT ![c] = [call[c] EXCEPT !.cancelled = TRUE]]
  BY DEF CancelChild
<1>4. call[c] \in CallRecord
  BY <1>1 DEF TypeOK
<1>5. [call[c] EXCEPT !.cancelled = TRUE] \in CallRecord
  BY <1>1, <1>4 DEF CallRecord, Progress, Unsettled, TypeOK
<1>6. /\ call' \in [Calls -> CallRecord]
      /\ call'[c] = [call[c] EXCEPT !.cancelled = TRUE]
      /\ \A d \in Calls : d # c => call'[d] = call[d]
  BY <1>1, <1>3, <1>5, CallUpdate
<1>7. /\ call' \in [Calls -> CallRecord]
      /\ \A d \in Calls : d # c => call'[d] = call[d]
      /\ call'[c].key = call[c].key
      /\ call'[c].pc = call[c].pc
      /\ call'[c].dec = call[c].dec
  BY <1>4, <1>6 DEF CallRecord
<1>8. \A d \in Calls : call'[d].key = call[d].key
  BY <1>7
<1>9. actor' \in [op : {"drain"}, turn : Turns \union {NoTurn}]
  BY DEF CancelChild
<1>10. TypeOK'
  BY <1>1, <1>2, <1>7, <1>8, <1>9 DEF TypeOK
<1>11. TableInv'
  BY <1>1, <1>2, <1>8, TableKept
<1>12. PromptInv'
  BY <1>1, <1>2 DEF PromptInv
<1>13. ListenInv'
  BY <1>1, <1>2, <1>8 DEF TypeOK, ListenInv, Waiter
<1>14. AnswerInv'
  BY <1>1, <1>2 DEF AnswerInv, Grants
<1>15. ProgressInv'
  BY <1>1, <1>2, <1>7, <1>8, <1>9, SMTT(30) DEF TypeOK, ProgressInv, Grants
<1>16. AlwaysInv'
  BY <1>1, <1>2 DEF AlwaysInv
<1>17. ConsentForThisCall'
  BY <1>1, <1>2, <1>7, <1>8, <1>9 DEF TypeOK, ConsentForThisCall, AllowedForGood, Grants
<1> QED
  BY <1>10, <1>11, <1>12, <1>13, <1>14, <1>15, <1>16, <1>17 DEF IInv

(* Draining the table hands out no grant. *)
LEMMA CancelAllStep ==
    ASSUME IInv, CancelAll
    PROVE  IInv'
<1>1. /\ TypeOK /\ TableInv /\ PromptInv /\ ListenInv /\ AnswerInv
      /\ ProgressInv /\ AlwaysInv /\ ConsentForThisCall
  BY DEF IInv
<1>2. UNCHANGED <<life, resumes, next, always, turn, call, ask, verdict, resumed,
                  queue, log, lost, prompts, answer>>
  BY DEF CancelAll, reducer, storage
<1> DEFINE ws == {map[k] : k \in DOMAIN map}
<1>3. /\ mail' = Deliver(mail, FALSE, ws, "cancelled")
      /\ rmail' = Deliver(rmail, TRUE, ws, "answered")
      /\ map' = EmptyMap
  BY DEF CancelAll
<1>4. /\ mail \in [Calls -> Outcomes]
      /\ rmail \in [Calls -> {"none", "answered", "dropped"}]
      /\ "cancelled" \in Outcomes
  BY <1>1 DEF TypeOK, Outcomes
<1> HIDE DEF ws
<1>5. /\ mail' \in [Calls -> Outcomes]
      /\ \A c \in Calls : mail'[c] # mail[c] => mail'[c] = "cancelled"
  <2>1. /\ Deliver(mail, FALSE, ws, "cancelled") \in [Calls -> Outcomes]
        /\ \A c \in Calls : Deliver(mail, FALSE, ws, "cancelled")[c] # mail[c] =>
              Deliver(mail, FALSE, ws, "cancelled")[c] = "cancelled"
    BY <1>4 DEF Deliver
  <2> QED
    BY <1>3, <2>1, Zenon
<1>6. rmail' \in [Calls -> {"none", "answered", "dropped"}]
  BY <1>3, <1>4, DeliverType
<1>7. DOMAIN map' = {}
  BY <1>3 DEF EmptyMap
<1>8. actor' = Idle \/ actor' \in [op : {"persist"}, turn : Turns]
  BY <1>1 DEF TypeOK, CancelAll, Idle
<1>9. TypeOK'
  BY <1>1, <1>2, <1>5, <1>6, <1>7, <1>8 DEF TypeOK
<1>10. TableInv'
  BY <1>7 DEF TableInv
<1>11. PromptInv'
  BY <1>7 DEF PromptInv
<1>12. ListenInv'
  BY <1>1, <1>2, <1>7 DEF ListenInv
<1>13. AnswerInv'
  BY <1>1, <1>2, <1>5 DEF AnswerInv, Grants, Answers
<1>14. ProgressInv'
  BY <1>1, <1>2 DEF ProgressInv, Grants
<1>15. AlwaysInv'
  BY <1>1, <1>2 DEF AlwaysInv
<1>16. ConsentForThisCall'
  BY <1>1, <1>2 DEF ConsentForThisCall, AllowedForGood, Grants
<1> QED
  BY <1>9, <1>10, <1>11, <1>12, <1>13, <1>14, <1>15, <1>16 DEF IInv

(* The end of a cancelled turn is queued. *)
LEMMA CancelPersistStep ==
    ASSUME IInv, CancelPersist
    PROVE  IInv'
<1>1. /\ TypeOK /\ TableInv /\ PromptInv /\ ListenInv /\ AnswerInv
      /\ ProgressInv /\ AlwaysInv /\ ConsentForThisCall
  BY DEF IInv
<1>2. UNCHANGED <<life, resumes, next, map, mail, rmail, always, turn, call, ask,
                  verdict, resumed, log, prompts, answer>>
  BY DEF CancelPersist, reducer, storage
<1>3. /\ actor' = Idle
      /\ actor.turn \in Turns
  BY <1>1 DEF CancelPersist, TypeOK, Idle
<1>4. [th |-> turn[actor.turn].th, kind |-> "ended", turn |-> actor.turn] \in Entry
  BY <1>1, <1>3 DEF TypeOK, TurnRecord, Entry, Ended
<1>5. queue' \in Seq(Entry) /\ lost' \subseteq Entry
  BY <1>1, <1>4, SendFacts DEF TypeOK, CancelPersist
<1>6. TypeOK'
  BY <1>1, <1>2, <1>3, <1>5 DEF TypeOK
<1>7. TableInv'
  BY <1>1, <1>2 DEF TableInv, Waiter
<1>8. PromptInv'
  BY <1>1, <1>2 DEF PromptInv
<1>9. ListenInv'
  BY <1>1, <1>2 DEF ListenInv
<1>10. AnswerInv'
  BY <1>1, <1>2 DEF AnswerInv, Grants
<1>11. ProgressInv'
  BY <1>1, <1>2 DEF ProgressInv, Grants
<1>12. AlwaysInv'
  BY <1>1, <1>2 DEF AlwaysInv
<1>13. ConsentForThisCall'
  BY <1>1, <1>2 DEF ConsentForThisCall, AllowedForGood, Grants
<1> QED
  BY <1>6, <1>7, <1>8, <1>9, <1>10, <1>11, <1>12, <1>13 DEF IInv

(* The cleanup task runs no call. *)
LEMMA CleanupStep ==
    ASSUME IInv, NEW c \in Calls, Cleanup(c)
    PROVE  IInv'
<1>1. /\ TypeOK /\ TableInv /\ PromptInv /\ ListenInv /\ AnswerInv
      /\ ProgressInv /\ AlwaysInv /\ ConsentForThisCall
  BY DEF IInv
<1>2. UNCHANGED <<life, resumes, next, map, mail, rmail, always, turn, call, ask,
                  verdict, log, prompts, answer, actor>>
  BY DEF Cleanup, reducer, storage
<1>3. /\ call[c] \in CallRecord
      /\ call[c].key \in Nat
      /\ call[c].th \in Threads
  BY <1>1 DEF TypeOK, CallRecord
<1>4. Marker(c) \in Entry
  BY <1>3 DEF Marker, ThreadOf, Entry, Resolved
<1>5. queue' \in Seq(Entry) /\ lost' \subseteq Entry
  BY <1>1, <1>4, SendFacts DEF TypeOK, Cleanup
<1>6. resumed' \in [Calls -> {"none", "wait", "done"}]
  BY <1>1 DEF TypeOK, Cleanup
<1>7. TypeOK'
  BY <1>1, <1>2, <1>5, <1>6 DEF TypeOK
<1>8. TableInv'
  BY <1>1, <1>2 DEF TableInv, Waiter
<1>9. PromptInv'
  BY <1>1, <1>2 DEF PromptInv
<1>10. ListenInv'
  BY <1>1, <1>2 DEF ListenInv
<1>11. AnswerInv'
  BY <1>1, <1>2 DEF AnswerInv, Grants
<1>12. ProgressInv'
  BY <1>1, <1>2 DEF ProgressInv, Grants
<1>13. AlwaysInv'
  BY <1>1, <1>2 DEF AlwaysInv
<1>14. ConsentForThisCall'
  BY <1>1, <1>2 DEF ConsentForThisCall, AllowedForGood, Grants
<1> QED
  BY <1>7, <1>8, <1>9, <1>10, <1>11, <1>12, <1>13, <1>14 DEF IInv

(* Resuming reads the requests the rollout still holds. *)
LEMMA ResumeThreadStep ==
    ASSUME IInv, NEW th \in Threads, ResumeThread(th)
    PROVE  IInv'
<1>1. /\ TypeOK /\ TableInv /\ PromptInv /\ ListenInv /\ AnswerInv
      /\ ProgressInv /\ AlwaysInv /\ ConsentForThisCall
  BY DEF IInv
<1>2. UNCHANGED <<life, lost, next, map, mail, rmail, always, turn, call, ask, verdict,
                  resumed, prompts, answer>>
  BY DEF ResumeThread, reducer, storage
<1>3. log' \in Seq(Entry)
  <2>1. queue \in Seq(Entry) /\ log \in Seq(Entry)
    BY <1>1 DEF TypeOK
  <2>2. PICK n \in 0 .. Len(queue) : log' = log \o SubSeq(queue, 1, n)
    BY DEF ResumeThread, WriterGotTo
  <2>3. n <= Len(queue) /\ 1 \in 1 .. Len(queue) + 1
    BY <2>1, LenProperties
  <2>4. SubSeq(queue, 1, n) \in Seq(Entry)
    BY <2>1, <2>3, SubSeqProperties
  <2> QED
    BY <2>1, <2>2, <2>4, ConcatProperties
<1>4. queue' \in Seq(Entry)
  <2>1. queue \in Seq(Entry)
    BY <1>1 DEF TypeOK
  <2>2. PICK n \in 0 .. Len(queue) : queue' = SubSeq(queue, n + 1, Len(queue))
    BY DEF ResumeThread
  <2>3. Len(queue) \in Nat /\ n + 1 \in 1 .. Len(queue) + 1
    BY <2>1, LenProperties
  <2> QED
    BY <2>1, <2>2, <2>3, SubSeqProperties
<1>5. actor' \in [op : {"reinstate"}, found : SUBSET Pending]
  <2>1. \A i \in DOMAIN log' : log'[i] \in Entry
    BY <1>3
  <2>2. \A e \in Entry : e.kind = "pending" => e \in Pending
    BY DEF Entry, Pending, Resolved, Ended
  <2>3. Unresolved(th, log') \subseteq Pending
    BY <2>1, <2>2 DEF Unresolved
  <2>4. actor' = [op |-> "reinstate", found |-> Unresolved(th, log')]
    BY DEF ResumeThread
  <2> QED
    BY <2>3, <2>4
<1>6. resumes' \in 0 .. MaxResumes
  BY <1>1, PermissionConstants DEF TypeOK, ResumeThread
<1>7. TypeOK'
  BY <1>1, <1>2, <1>3, <1>4, <1>5, <1>6 DEF TypeOK
<1>8. TableInv'
  BY <1>1, <1>2 DEF TableInv, Waiter
<1>9. PromptInv'
  BY <1>1, <1>2 DEF PromptInv
<1>10. ListenInv'
  BY <1>1, <1>2 DEF ListenInv
<1>11. AnswerInv'
  BY <1>1, <1>2 DEF AnswerInv, Grants
<1>12. ProgressInv'
  BY <1>1, <1>2 DEF ProgressInv, Grants
<1>13. AlwaysInv'
  BY <1>1, <1>2 DEF AlwaysInv
<1>14. ConsentForThisCall'
  BY <1>1, <1>2 DEF ConsentForThisCall, AllowedForGood, Grants
<1> QED
  BY <1>7, <1>8, <1>9, <1>10, <1>11, <1>12, <1>13, <1>14 DEF IInv

(* A reinstated request stands for no live call. *)
LEMMA ReinstateNextStep ==
    ASSUME IInv, ReinstateNext
    PROVE  IInv'
<1>1. /\ TypeOK /\ TableInv /\ PromptInv /\ ListenInv /\ AnswerInv
      /\ ProgressInv /\ AlwaysInv /\ ConsentForThisCall
  BY DEF IInv
<1>2. UNCHANGED <<life, resumes, turn, call, ask, verdict, queue, log, lost, answer>>
  BY DEF ReinstateNext, reducer, storage
<1>3. actor.op = "reinstate" /\ actor \in [op : {"reinstate"}, found : SUBSET Pending]
  BY <1>1 DEF TypeOK, ReinstateNext, Idle
<1>4. CASE actor' = Idle /\ UNCHANGED <<reducer, resumed, prompts>>
  <2>1. UNCHANGED <<next, map, mail, rmail, always, resumed, prompts>>
    BY <1>4 DEF reducer
  <2>2. TypeOK'
    BY <1>1, <1>2, <1>4, <2>1 DEF TypeOK
  <2>3. TableInv' /\ PromptInv' /\ ListenInv'
    BY <1>1, <1>2, <2>1 DEF TableInv, PromptInv, ListenInv
  <2>4. AnswerInv' /\ ProgressInv'
    BY <1>1, <1>2, <2>1 DEF AnswerInv, ProgressInv
  <2>5. AlwaysInv' /\ ConsentForThisCall'
    BY <1>1, <1>2, <2>1 DEF AlwaysInv, ConsentForThisCall, AllowedForGood
  <2> QED
    BY <2>2, <2>3, <2>4, <2>5 DEF IInv
<1>5. ASSUME NEW e \in actor.found, Reinstate(e),
    actor' = [actor EXCEPT !.found = @ \ {e}]
      PROVE  IInv'
  <2> DEFINE old == {map[k] : k \in DOMAIN map \intersect {e.key}}
  <2>1. e \in Pending /\ e.key \in Nat /\ e.call \in Calls
    BY <1>3 DEF Pending
  <2>2. /\ mail' = Deliver(mail, FALSE, old, "dropped")
        /\ rmail' = [Deliver(rmail, TRUE, old, "dropped") EXCEPT ![e.call] = "none"]
        /\ always' = always
        /\ resumed' = [resumed EXCEPT ![e.call] = "wait"]
        /\ prompts' = prompts \union {[key |-> e.key, call |-> e.call, again |-> TRUE]}
        /\ next' = IF next > e.key THEN next ELSE e.key + 1
    BY <1>5 DEF Reinstate
  <2>3. /\ DOMAIN map' = DOMAIN map \union {e.key}
        /\ map'[e.key] = [call |-> e.call, again |-> TRUE]
        /\ \A k \in DOMAIN map : k # e.key => map'[k] = map[k]
    BY <1>5 DEF Reinstate, Put
  <2> HIDE DEF old
  <2>4. next \in Nat /\ next' \in Nat /\ next <= next' /\ e.key < next'
    BY <1>1, <2>1, <2>2 DEF TypeOK
  <2>5. DOMAIN map' \subseteq 0 .. (next' - 1)
    BY <1>1, <2>1, <2>3, <2>4 DEF TypeOK
  <2>6. \A k \in DOMAIN map' : map'[k] \in Waiter
    <3>1. [call |-> e.call, again |-> TRUE] \in Waiter
      BY <2>1 DEF Waiter
    <3> QED
      BY <1>1, <2>3, <3>1 DEF TypeOK
  <2>7. /\ mail' \in [Calls -> Outcomes]
        /\ \A c \in Calls : mail'[c] # mail[c] => mail'[c] = "dropped"
    <3>1. mail \in [Calls -> Outcomes] /\ "dropped" \in Outcomes
      BY <1>1 DEF TypeOK, Outcomes
    <3>2. /\ Deliver(mail, FALSE, old, "dropped") \in [Calls -> Outcomes]
          /\ \A c \in Calls : Deliver(mail, FALSE, old, "dropped")[c] # mail[c] =>
                Deliver(mail, FALSE, old, "dropped")[c] = "dropped"
      BY <3>1 DEF Deliver
    <3> QED
      BY <2>2, <3>2, Zenon
  <2>8. rmail' \in [Calls -> {"none", "answered", "dropped"}]
    <3>1. rmail \in [Calls -> {"none", "answered", "dropped"}]
      BY <1>1 DEF TypeOK
    <3>2. Deliver(rmail, TRUE, old, "dropped") \in [Calls -> {"none", "answered",
        "dropped"}]
      BY <3>1 DEF Deliver
    <3> QED
      BY <2>2, <3>2
  <2>9. /\ prompts' \subseteq Prompt
        /\ \A p \in prompts' : p.key < next'
    <3>1. [key |-> e.key, call |-> e.call, again |-> TRUE] \in Prompt
      BY <2>1 DEF Prompt
    <3>2. \A p \in prompts : p.key \in Nat /\ p.key < next
      BY <1>1 DEF TypeOK, Prompt
    <3>3. \A p \in prompts : p.key < next'
      BY <2>4, <3>2
    <3>4. [key |-> e.key, call |-> e.call, again |-> TRUE].key < next'
      BY <2>4
    <3>5. prompts \subseteq Prompt
      BY <1>1 DEF TypeOK
    <3> QED
      BY <2>2, <3>1, <3>3, <3>4, <3>5, Zenon
  <2>10. resumed' \in [Calls -> {"none", "wait", "done"}]
    BY <1>1, <2>2 DEF TypeOK
  <2>11. actor' \in [op : {"reinstate"}, found : SUBSET Pending]
    BY <1>3, <1>5
  <2>12. TypeOK'
    BY <1>1, <1>2, <2>2, <2>4, <2>5, <2>6, <2>7, <2>8, <2>9, <2>10, <2>11 DEF TypeOK
  <2>13. TableInv'
    BY <1>1, <1>2, <2>3 DEF TableInv
  <2>14. PromptInv'
    BY <1>1, <1>2, <2>2, <2>3 DEF PromptInv
  <2>15. ListenInv'
    <3>1. \A c \in Calls : call[c].key \in Nat
      BY <1>1 DEF TypeOK, CallRecord
    <3>2. \A c \in Calls : call[c].key < next => call[c].key < next'
      BY <2>4, <3>1
    <3> QED
      BY <1>1, <1>2, <2>3, <3>2 DEF ListenInv
  <2>16. AnswerInv'
    BY <1>1, <1>2, <2>7 DEF AnswerInv, Grants
  <2>17. ProgressInv' /\ AlwaysInv' /\ ConsentForThisCall'
    BY <1>1, <1>2, <2>2 DEF ProgressInv, AlwaysInv, ConsentForThisCall, AllowedForGood
  <2> QED
    BY <2>12, <2>13, <2>14, <2>15, <2>16, <2>17 DEF IInv
<1> QED
  BY <1>4, <1>5 DEF ReinstateNext

(* A restart leaves no call that could run. *)
LEMMA CrashStep ==
    ASSUME IInv, Crash
    PROVE  IInv'
<1>1. /\ TypeOK /\ TableInv /\ PromptInv /\ ListenInv /\ AnswerInv
      /\ ProgressInv /\ AlwaysInv /\ ConsentForThisCall
  BY DEF IInv
<1>2. UNCHANGED <<resumes, lost>>
  BY DEF Crash, reducer, storage
<1>3. log' \in Seq(Entry)
  <2>1. queue \in Seq(Entry) /\ log \in Seq(Entry)
    BY <1>1 DEF TypeOK
  <2>2. PICK n \in 0 .. Len(queue) : log' = log \o SubSeq(queue, 1, n)
    BY DEF Crash, WriterGotTo
  <2>3. n <= Len(queue) /\ 1 \in 1 .. Len(queue) + 1
    BY <2>1, LenProperties
  <2>4. SubSeq(queue, 1, n) \in Seq(Entry)
    BY <2>1, <2>3, SubSeqProperties
  <2> QED
    BY <2>1, <2>2, <2>4, ConcatProperties
<1>4. call' = [c \in Calls |-> IF call[c].pc = "new" THEN call[c]
                              ELSE [pc |-> "lost", turn |-> TurnOf(c), dec |-> "Deny",
                                    key |-> call[c].key, ctx |-> NoTurn,
                                    cancelled |-> FALSE, th |-> ThreadOf(c)]]
  BY DEF Crash
<1>5. \A c \in Calls : call[c] \in CallRecord
  BY <1>1 DEF TypeOK
<1>6. \A c \in Calls : call'[c] \in CallRecord /\ call'[c].pc \in {"new", "lost"}
  BY <1>4, <1>5 DEF CallRecord, Progress, Decisions, TurnOf, ThreadOf
<1>7. /\ call' \in [Calls -> CallRecord]
      /\ \A c \in Calls : call'[c].pc \in {"new", "lost"}
  BY <1>4, <1>6
<1>8. turn' \in [Turns -> TurnRecord]
  BY <1>1 DEF Crash, TypeOK, TurnRecord
<1>9. /\ life' \in 1 .. Lives
      /\ next' = 0
      /\ map' = EmptyMap
      /\ always' = {}
      /\ queue' = <<>>
      /\ prompts' = {}
      /\ actor' = Idle
  BY <1>1, PermissionConstants DEF Crash, TypeOK
<1>10. /\ mail' = [c \in Calls |-> "none"]
       /\ rmail' = [c \in Calls |-> "none"]
       /\ ask' = [c \in Calls |-> "none"]
       /\ verdict' = [c \in Calls |-> "none"]
       /\ resumed' = [c \in Calls |-> "none"]
       /\ answer' = [c \in Calls |-> "none"]
  BY DEF Crash
<1>11. DOMAIN map' = {}
  BY <1>9 DEF EmptyMap
<1>12. /\ mail' \in [Calls -> Outcomes]
       /\ rmail' \in [Calls -> {"none", "answered", "dropped"}]
       /\ answer' \in [Calls -> Answers \union {"none"}]
       /\ ask' \in [Calls -> {"none", "enroll", "announce", "wait", "done"}]
       /\ verdict' \in [Calls -> {"none", "allow", "deny", "dropped"}]
       /\ resumed' \in [Calls -> {"none", "wait", "done"}]
  BY <1>10 DEF Outcomes
<1>13. TypeOK'
  BY <1>1, <1>2, <1>3, <1>7, <1>8, <1>9, <1>11, <1>12 DEF TypeOK
<1>14. TableInv'
  BY <1>11 DEF TableInv
<1>15. PromptInv'
  BY <1>11 DEF PromptInv
<1>16. ListenInv'
  BY <1>10 DEF ListenInv
<1>17. AnswerInv'
  BY <1>10 DEF AnswerInv, Grants
<1>18. ProgressInv'
  BY <1>7, <1>10 DEF ProgressInv
<1>19. AlwaysInv'
  BY <1>9 DEF AlwaysInv
<1>20. ConsentForThisCall'
  BY <1>7 DEF ConsentForThisCall
<1> QED
  BY <1>13, <1>14, <1>15, <1>16, <1>17, <1>18, <1>19, <1>20 DEF IInv

-----------------------------------------------------------------------------
(* The theorems.                                                           *)

(* The invariant holds of a process that has just been started. *)
LEMMA InitInv == Init => IInv
<1> SUFFICES ASSUME Init PROVE IInv
  OBVIOUS
<1>1. SomeThread \in Threads
  BY PermissionConstants DEF SomeThread
<1>2. \A c \in Calls : call[c].pc = "new"
  BY DEF Init
<1>3. DOMAIN map = {} /\ prompts = {} /\ always = {}
  BY DEF Init, EmptyMap
<1>4. /\ mail = [c \in Calls |-> "none"] /\ ask = [c \in Calls |-> "none"]
      /\ answer = [c \in Calls |-> "none"] /\ verdict = [c \in Calls |-> "none"]
  BY DEF Init
<1>5. TypeOK
  <2>1. turn \in [Turns -> TurnRecord]
    BY <1>1 DEF Init, TurnRecord
  <2>2. call \in [Calls -> CallRecord]
    BY <1>1 DEF Init, CallRecord, Progress, Decisions
  <2>3. life \in 1 .. Lives /\ resumes \in 0 .. MaxResumes /\ next = 0
    BY PermissionConstants DEF Init
  <2>4. /\ rmail \in [Calls -> {"none", "answered", "dropped"}]
        /\ resumed \in [Calls -> {"none", "wait", "done"}]
        /\ queue \in Seq(Entry) /\ log \in Seq(Entry) /\ lost \subseteq Entry /\ actor = Idle
    BY DEF Init
  <2>5. /\ mail \in [Calls -> Outcomes]
        /\ answer \in [Calls -> Answers \union {"none"}]
    BY <1>4 DEF Outcomes
  <2> QED
    BY <1>3, <1>4, <2>1, <2>2, <2>3, <2>4, <2>5 DEF TypeOK
<1>6. TableInv /\ PromptInv /\ AlwaysInv
  BY <1>3 DEF TableInv, PromptInv, AlwaysInv
<1>7. ListenInv
  BY <1>4 DEF ListenInv
<1>8. AnswerInv
  BY <1>4 DEF AnswerInv, Grants
<1>9. ProgressInv
  BY <1>2, <1>4 DEF ProgressInv
<1>10. ConsentForThisCall
  BY <1>2 DEF ConsentForThisCall
<1> QED
  BY <1>5, <1>6, <1>7, <1>8, <1>9, <1>10 DEF IInv

(* Every step keeps the invariant. *)
LEMMA NextInv == IInv /\ [Next]_vars => IInv'
<1> SUFFICES ASSUME IInv, [Next]_vars PROVE IInv'
  OBVIOUS
<1>1. ASSUME NEW t \in Turns, NEW th \in Threads, StartTurn(t, th) PROVE IInv'
  BY <1>1, StartTurnStep
<1>2. ASSUME NEW t \in Turns, NEW c \in Calls, BeginCall(t, c) \/ BeginChild(t, c)
      PROVE  IInv'
  BY <1>2, BeginCallStep, BeginChildStep
<1>3. ASSUME NEW t \in Turns, TurnStep(t) \/ CancelTurn(t) PROVE IInv'
  BY <1>3, BeginExecutionStep, FinishStep, CancelTurnStep DEF TurnStep
<1>4. ASSUME NEW c \in Calls, CallStep(c) PROVE IInv'
  BY <1>4, GateBlocksStep, HooksDecideStep, HooksAskStep, RunStep, EnrollStep,
      AnnounceStep,
     TopOutcomeStep, TopCancelledStep, TopTimeoutStep, ChildHooksStep, ChildSendStep,
     ChildVerdictStep, ChildRunStep DEF CallStep
<1>5. ASSUME NEW c \in Calls, SpawnerStep(c) PROVE IInv'
  BY <1>5, ParentFoldStep, ParentOutcomeStep, ParentTimeoutStep, DropSpawnerStep
     DEF SpawnerStep
<1>6. ASSUME NEW c \in Calls, CancelChild(c) \/ Cleanup(c) PROVE IInv'
  BY <1>6, CancelChildStep, CleanupStep
<1>7. ASSUME NEW p \in prompts, NEW o \in Answers, Answer(p, o) PROVE IInv'
  BY <1>7, AnswerStep
<1>8. CASE ActorStep
  BY <1>8, CancelAllStep, CancelPersistStep, ReinstateNextStep DEF ActorStep
<1>9. ASSUME NEW th \in Threads, ResumeThread(th) PROVE IInv'
  BY <1>9, ResumeThreadStep
<1>10. CASE Crash
  BY <1>10, CrashStep
<1>11. CASE UNCHANGED vars
  <2>1. UNCHANGED <<life, resumes, next, map, mail, rmail, always, turn, call, ask,
                    verdict, resumed, queue, log, lost, prompts, answer, actor>>
    BY <1>11 DEF vars
  <2>2. /\ TypeOK /\ TableInv /\ PromptInv /\ ListenInv /\ AnswerInv
        /\ ProgressInv /\ AlwaysInv /\ ConsentForThisCall
    BY DEF IInv
  <2>3. TypeOK'
    BY <2>1, <2>2 DEF TypeOK
  <2>4. TableInv' /\ PromptInv' /\ ListenInv'
    BY <2>1, <2>2 DEF TableInv, PromptInv, ListenInv
  <2>5. AnswerInv' /\ ProgressInv'
    BY <2>1, <2>2 DEF AnswerInv, ProgressInv
  <2>6. AlwaysInv' /\ ConsentForThisCall'
    BY <2>1, <2>2 DEF AlwaysInv, ConsentForThisCall, AllowedForGood
  <2> QED
    BY <2>3, <2>4, <2>5, <2>6 DEF IInv
<1> QED
  BY <1>1, <1>2, <1>3, <1>4, <1>5, <1>6, <1>7, <1>8, <1>9, <1>10, <1>11 DEF Next

(* The table and the screen are well formed in every run: no key is handed  *)
(* out that a pending request or a shown prompt has (`PendingPermissions`). *)
THEOREM KeysAreFresh == Spec => []TypeOK
<1>1. IInv => TypeOK
  BY DEF IInv
<1> QED
  BY <1>1, InitInv, NextInv, PTL DEF Spec

(* No tool call runs without consent, for any number of calls, turns,       *)
(* restarts and resumes (`resolve_tool_permission_inner`,                   *)
(* `parent_reverse_rpc`, `resume_permission`, `reinstate`).                 *)
THEOREM NoToolWithoutConsent == Spec => []ConsentForThisCall
<1>1. IInv => ConsentForThisCall
  BY DEF IInv
<1> QED
  BY <1>1, InitInv, NextInv, PTL DEF Spec

-----------------------------------------------------------------------------
(* An acknowledged answer is honoured.                                     *)

(* Who waits while a request is under way: the task of a top-level call; a   *)
(* child, which has no verdict yet, unless it was cancelled.                 *)
WaitsForAnswer(c) ==
    ask[c] \in {"enroll", "announce", "wait"} =>
        /\ c \in TopCalls => call[c].pc = "asking"
        /\ c \in SubCalls =>
               /\ verdict[c] = "none"
               /\ call[c].pc = "parked" \/ (call[c].pc = "blocked" /\ call[c].cancelled)

(* What an answer does to the request it was given to: it stays in the       *)
(* oneshot until it is read, and the verdict of a child call is what it says *)
(* or was dropped with the spawner of a cancelled turn.                      *)
AnswerTravels(c) ==
    answer[c] # "none" =>
        /\ call[c].pc \notin {"new", "hooks", "sending"}
        /\ ask[c] \in {"announce", "wait"} => mail[c] = answer[c]
        /\ c \in SubCalls /\ answer[c] = "reject" => verdict[c] # "allow"
        /\ c \in SubCalls /\ answer[c] \in Grants /\ ask[c] = "done" =>
               \/ verdict[c] = "allow"
               \/ verdict[c] = "dropped" /\ turn[call[c].turn].cancelled
        /\ answer[c] \in Grants /\ call[c].pc = "blocked" =>
               turn[call[c].turn].cancelled \/ call[c].cancelled
        /\ answer[c] = "reject" => call[c].pc \notin {"approved", "ran"}

HonourAt(c) ==
    /\ call[c].pc # "new" => call[c].turn \in Turns /\ turn[call[c].turn].slot # "new"
    /\ WaitsForAnswer(c)
    /\ AnswerTravels(c)

(* The token of a turn that has not begun has not fired. *)
HonourInv ==
    /\ \A t \in Turns : turn[t].slot = "new" => turn[t].task = "none" /\ ~turn[t].cancelled
    /\ \A c \in Calls : HonourAt(c)

(* A token that fired stays fired, a turn that began has begun, and no token *)
(* fires before.                                                             *)
TurnsOnward ==
    \A t \in Turns :
        /\ turn[t].slot # "new" => turn'[t].slot # "new"
        /\ turn[t].slot # "new" /\ turn[t].cancelled => turn'[t].cancelled
        /\ turn'[t].slot = "new" => turn'[t].task = "none" /\ ~turn'[t].cancelled

(* Nothing the invariant says of a call changes: of the oneshot of a call    *)
(* that was not answered it says nothing.                                    *)
CallQuiet(d) ==
    /\ call'[d] = call[d] /\ ask'[d] = ask[d] /\ verdict'[d] = verdict[d]
    /\ answer'[d] = answer[d]
    /\ answer[d] # "none" => mail'[d] = mail[d]

(* The invariant is kept of a call the step leaves alone. *)
LEMMA HonourQuiet ==
    ASSUME TypeOK, HonourInv, TurnsOnward, NEW d \in Calls, CallQuiet(d)
    PROVE  HonourAt(d)'
<1>1. HonourAt(d)
  BY DEF HonourInv
<1>2. call[d] \in CallRecord
  BY DEF TypeOK
<1>3. call[d].pc # "new" => /\ call'[d].turn \in Turns
                            /\ turn'[call'[d].turn].slot # "new"
                            /\ turn[call[d].turn].cancelled => turn'[call'[d].turn].cancelled
  BY <1>1 DEF HonourAt, TurnsOnward, CallQuiet
<1>4. call'[d].pc # "new" => call'[d].turn \in Turns /\ turn'[call'[d].turn].slot # "new"
  BY <1>3 DEF CallQuiet
<1>5. WaitsForAnswer(d)'
  BY <1>1 DEF HonourAt, WaitsForAnswer, CallQuiet
<1>6. AnswerTravels(d)'
  <2>1. AnswerTravels(d)
    BY <1>1 DEF HonourAt
  <2>2. call[d].pc = "new" => answer[d] = "none"
    BY <2>1 DEF AnswerTravels
  <2> QED
    BY <1>3, <2>1, <2>2 DEF AnswerTravels, CallQuiet
<1> QED
  BY <1>4, <1>5, <1>6 DEF HonourAt

(* A step of one call keeps the invariant if it keeps it of that call. *)
LEMMA HonourOne ==
    ASSUME TypeOK, HonourInv, TurnsOnward, NEW c \in Calls,
           \A d \in Calls : d # c => CallQuiet(d),
           HonourAt(c)'
    PROVE  HonourInv'
<1>1. \A d \in Calls : HonourAt(d)'
  <2> SUFFICES ASSUME NEW d \in Calls PROVE HonourAt(d)'
    OBVIOUS
  <2>1. CASE d = c
    BY <2>1
  <2>2. CASE d # c
    BY <2>2, HonourQuiet
  <2> QED
    BY <2>1, <2>2
<1> QED
  BY <1>1 DEF HonourInv, TurnsOnward

(* A step of no call keeps it. *)
LEMMA HonourNone ==
    ASSUME TypeOK, HonourInv, TurnsOnward,
           \A d \in Calls : CallQuiet(d)
    PROVE  HonourInv'
<1>1. \A d \in Calls : HonourAt(d)'
  BY HonourQuiet
<1> QED
  BY <1>1 DEF HonourInv, TurnsOnward

(* The steps that leave the calls and their requests alone. *)
LEMMA HonourElsewhere ==
    ASSUME IInv, HonourInv,
           \/ \E t \in Turns, th \in Threads : StartTurn(t, th)
           \/ \E t \in Turns : TurnStep(t) \/ CancelTurn(t)
           \/ \E c \in Calls : Cleanup(c)
           \/ \E th \in Threads : ResumeThread(th)
           \/ CancelPersist
           \/ UNCHANGED vars
    PROVE  HonourInv'
<1>1. TypeOK
  BY DEF IInv
<1>2. turn \in [Turns -> TurnRecord]
  BY <1>1 DEF TypeOK
<1>3. \A t \in Turns : turn[t].slot = "new" => turn[t].task = "none" /\ ~turn[t].cancelled
  BY DEF HonourInv
<1>4. \A d \in Calls : CallQuiet(d)
  BY DEF StartTurn, TurnStep, BeginExecution, Finish, CancelTurn, Cleanup, ResumeThread,
      CancelPersist, vars, reducer, CallQuiet
<1>5. TurnsOnward
  <2>1. ASSUME NEW u \in Turns, NEW th \in Threads, StartTurn(u, th) PROVE TurnsOnward
    <3>1. /\ turn[u].slot = "new"
          /\ turn' = [turn EXCEPT ![u] = [slot |-> "live", task |-> "resolve",
                                          th |-> th, cancelled |-> FALSE]]
      BY <2>1 DEF StartTurn
    <3> QED
      BY <1>2, <1>3, <3>1 DEF TurnsOnward
  <2>2. ASSUME NEW u \in Turns, BeginExecution(u) PROVE TurnsOnward
    <3>1. /\ turn[u].task = "resolve"
          /\ turn' = [turn EXCEPT ![u] = [turn[u] EXCEPT !.task = "execute"]]
      BY <2>2 DEF BeginExecution
    <3> QED
      BY <1>2, <1>3, <3>1 DEF TurnsOnward, TurnRecord
  <2>3. ASSUME NEW u \in Turns, Finish(u) PROVE TurnsOnward
    <3>1. turn' = [turn EXCEPT ![u] = [turn[u] EXCEPT !.task = "done", !.slot = "ended"]]
      BY <2>3 DEF Finish
    <3> QED
      BY <1>2, <1>3, <3>1 DEF TurnsOnward, TurnRecord
  <2>4. ASSUME NEW u \in Turns, CancelTurn(u) PROVE TurnsOnward
    <3>1. turn' = [turn EXCEPT ![u] = [turn[u] EXCEPT !.slot = "ended", !.cancelled = TRUE]]
      BY <2>4 DEF CancelTurn
    <3> QED
      BY <1>2, <1>3, <3>1 DEF TurnsOnward, TurnRecord
  <2>5. ASSUME turn' = turn PROVE TurnsOnward
    BY <1>3, <2>5 DEF TurnsOnward
  <2>6. \/ \E c \in Calls : Cleanup(c)
        \/ \E th \in Threads : ResumeThread(th)
        \/ CancelPersist
        \/ UNCHANGED vars
        => turn' = turn
    BY DEF Cleanup, ResumeThread, CancelPersist, vars
  <2> QED
    BY <2>1, <2>2, <2>3, <2>4, <2>5, <2>6 DEF TurnStep
<1> QED
  BY <1>1, <1>4, <1>5, HonourNone

(* The end of resolve_tool_permission leaves the tokens alone; what it makes *)
(* of the call depends on the token of the turn.                             *)
LEMMA SettleOutcome ==
    ASSUME TypeOK, HonourInv, NEW c \in Calls, NEW q \in Progress, NEW d \in Decisions,
           Settle(c, q, d)
    PROVE  /\ TurnsOnward
           /\ \A t \in Turns : /\ turn'[t].cancelled = turn[t].cancelled
                              /\ turn'[t].slot = turn[t].slot
                              /\ turn'[t].task \in {turn[t].task, "done"}
           /\ \A e \in Calls : e # c => call'[e] = call[e]
           /\ call'[c].turn = call[c].turn
           /\ call'[c].cancelled = call[c].cancelled
           /\ call'[c].pc = (IF turn[call[c].turn].cancelled THEN "blocked" ELSE q)
<1> DEFINE t == call[c].turn
           x == IF turn[t].task = "resolve" /\ turn[t].cancelled
                THEN [turn[t] EXCEPT !.task = "done"] ELSE turn[t]
           p == IF turn[t].cancelled THEN "blocked" ELSE q
           e == IF p = "blocked" THEN "Deny" ELSE d
<1>1. turn \in [Turns -> TurnRecord] /\ call \in [Calls -> CallRecord]
  BY DEF TypeOK
<1>2. turn' = [turn EXCEPT ![t] = x]
  BY DEF Settle, TurnOf
<1>3. call' = [call EXCEPT ![c] = [call[c] EXCEPT !.pc = p, !.dec = e]]
  BY DEF Settle, TurnOf, Result
<1>4. /\ call'[c] = [call[c] EXCEPT !.pc = p, !.dec = e]
      /\ \A f \in Calls : f # c => call'[f] = call[f]
  <2> HIDE DEF p, e
  <2> QED
    BY <1>1, <1>3
<1>5. /\ call'[c].turn = call[c].turn
      /\ call'[c].cancelled = call[c].cancelled
      /\ call'[c].pc = p
  <2> HIDE DEF p, e
  <2>1. call[c] \in CallRecord
    BY <1>1
  <2> QED
    BY <1>4, <2>1 DEF CallRecord
<1>6. \A u \in Turns : /\ turn'[u].cancelled = turn[u].cancelled
                       /\ turn'[u].slot = turn[u].slot
                       /\ turn[u].task = "none" => turn'[u].task = "none"
                       /\ turn'[u].task \in {turn[u].task, "done"}
  <2> SUFFICES ASSUME NEW u \in Turns
               PROVE  /\ turn'[u].cancelled = turn[u].cancelled
                      /\ turn'[u].slot = turn[u].slot
                      /\ turn[u].task = "none" => turn'[u].task = "none"
                      /\ turn'[u].task \in {turn[u].task, "done"}
    OBVIOUS
  <2>1. turn[u] \in TurnRecord
    BY <1>1
  <2>2. CASE u = t
    <3>1. turn'[u] = x
      <4> HIDE DEF x, t
      <4> QED
        BY <1>1, <1>2, <2>2
    <3>2. /\ x.cancelled = turn[u].cancelled /\ x.slot = turn[u].slot
          /\ turn[u].task = "none" => x.task = "none"
          /\ x.task \in {turn[u].task, "done"}
      BY <2>1, <2>2 DEF TurnRecord
    <3> QED
      BY <3>1, <3>2
  <2>3. CASE u # t
    <3> HIDE DEF x, t
    <3> QED
      BY <1>1, <1>2, <2>3
  <2> QED
    BY <2>2, <2>3
<1>7. TurnsOnward
  BY <1>6 DEF TurnsOnward, HonourInv
<1> QED
  BY <1>4, <1>5, <1>6, <1>7

(* A call that begins was not answered. *)
LEMMA HonourBegins ==
    ASSUME IInv, HonourInv, NEW t \in Turns, NEW c \in Calls,
           BeginCall(t, c) \/ BeginChild(t, c)
    PROVE  HonourInv'
<1>1. TypeOK /\ HonourAt(c) /\ ProgressInv /\ AnswerInv
  BY DEF IInv, HonourInv
<1>2. turn \in [Turns -> TurnRecord] /\ call \in [Calls -> CallRecord]
  BY <1>1 DEF TypeOK
<1>3. UNCHANGED <<mail, ask, verdict, answer>> /\ call[c].pc = "new"
  BY DEF BeginCall, BeginChild, reducer
<1>4. call[c] \in CallRecord /\ turn[t] \in TurnRecord
  BY <1>2
<1>5. /\ call'[c].pc = "hooks" /\ call'[c].turn = t /\ call'[c].cancelled = call[c].cancelled
      /\ \A d \in Calls : d # c => call'[d] = call[d]
  <2>1. CASE BeginCall(t, c)
    <3>1. call' = [call EXCEPT ![c] = [call[c] EXCEPT !.pc = "hooks", !.turn = t, !.ctx = t,
                                                     !.th = turn[t].th]]
      BY <2>1 DEF BeginCall
    <3> QED
      BY <1>2, <1>4, <3>1 DEF CallRecord
  <2>2. CASE BeginChild(t, c)
    <3>1. call' = [call EXCEPT ![c] = [call[c] EXCEPT !.pc = "hooks", !.turn = t,
                                                     !.th = turn[t].th]]
      BY <2>2 DEF BeginChild
    <3> QED
      BY <1>2, <1>4, <3>1 DEF CallRecord
  <2> QED
    BY <2>1, <2>2
<1>6. turn[t].slot # "new"
  <2>1. turn[t].task # "none"
    BY DEF BeginCall, BeginChild
  <2> QED
    BY <2>1 DEF HonourInv
<1>7. TurnsOnward
  <2>1. turn' = [turn EXCEPT ![t] = [turn[t] EXCEPT !.task = "resolve"]] \/ turn' = turn
    BY DEF BeginCall, BeginChild
  <2>2. turn' = turn => TurnsOnward
    BY DEF TurnsOnward, HonourInv
  <2>3. turn' = [turn EXCEPT ![t] = [turn[t] EXCEPT !.task = "resolve"]] => TurnsOnward
    BY <1>2, <1>4, <1>6 DEF TurnsOnward, HonourInv, TurnRecord
  <2> QED
    BY <2>1, <2>2, <2>3
<1>8. \A d \in Calls : d # c => CallQuiet(d)
  BY <1>3, <1>5 DEF CallQuiet
<1>9. turn'[t].slot # "new"
  BY <1>6, <1>7 DEF TurnsOnward
<1>10. WaitsForAnswer(c)'
  <2>1. ask[c] \notin {"enroll", "announce", "wait"}
    BY <1>1, <1>3, PermissionConstants DEF HonourAt, WaitsForAnswer, Calls
  <2> QED
    BY <1>3, <2>1 DEF WaitsForAnswer
<1>11. AnswerTravels(c)'
  BY <1>1, <1>3 DEF HonourAt, AnswerTravels
<1>12. HonourAt(c)'
  BY <1>5, <1>9, <1>10, <1>11 DEF HonourAt
<1> QED
  BY <1>1, <1>7, <1>8, <1>12, HonourOne

(* The hooks decide of a call that was not answered. *)
LEMMA HonourHooks ==
    ASSUME IInv, HonourInv, NEW c \in Calls, GateBlocks(c) \/ HooksDecide(c)
    PROVE  HonourInv'
<1>1. TypeOK /\ HonourAt(c)
  BY DEF IInv, HonourInv
<1>2. UNCHANGED <<mail, ask, verdict, answer>> /\ call[c].pc = "hooks"
  BY DEF GateBlocks, HooksDecide, reducer
<1>3. PICK q \in Progress, y \in Decisions : Settle(c, q, y)
  <2>1. \A b \in BOOLEAN, v \in SUBSET Decisions : Evaluate(b, v) \in Decisions
    BY DEF Evaluate, Reduce, Decisions
  <2>2. GateBlocks(c) => Settle(c, "blocked", "Deny")
    BY DEF GateBlocks
  <2>3. HooksDecide(c) => \E x \in Decisions :
            Settle(c, IF x = "Deny" THEN "blocked" ELSE "approved", x)
    BY <2>1 DEF HooksDecide
  <2>4. "Deny" \in Decisions /\ "blocked" \in Progress /\ "approved" \in Progress
    BY DEF Decisions, Progress
  <2> QED
    BY <2>2, <2>3, <2>4
<1>4. /\ TurnsOnward
      /\ \A e \in Calls : e # c => call'[e] = call[e]
      /\ call'[c].turn = call[c].turn
  BY <1>1, <1>3, SettleOutcome
<1>5. answer[c] = "none" /\ ask[c] \notin {"enroll", "announce", "wait"}
  BY <1>1, <1>2, PermissionConstants DEF HonourAt, WaitsForAnswer, AnswerTravels, Calls
<1>6. HonourAt(c)'
  BY <1>1, <1>2, <1>4, <1>5
     DEF HonourAt, WaitsForAnswer, AnswerTravels, TurnsOnward, Grants
<1>7. \A d \in Calls : d # c => CallQuiet(d)
  BY <1>2, <1>4 DEF CallQuiet
<1> QED
  BY <1>1, <1>4, <1>6, <1>7, HonourOne

(* The wait of a top-level call ends. *)
LEMMA HonourTopEnds ==
    ASSUME IInv, HonourInv, NEW c \in Calls,
           TopCancelled(c) \/ TopTimeout(c) \/ TopOutcome(c)
    PROVE  HonourInv'
<1>1. TypeOK /\ HonourAt(c) /\ AnswerInv
  BY DEF IInv, HonourInv
<1>2. /\ c \in TopCalls /\ c \notin SubCalls
      /\ ask[c] = "wait" /\ ask' = [ask EXCEPT ![c] = "done"]
      /\ UNCHANGED <<verdict, answer>>
  BY PermissionConstants DEF TopCancelled, TopTimeout, TopOutcome, reducer
<1>3. call[c].pc = "asking" /\ call[c].turn \in Turns
  BY <1>1, <1>2 DEF HonourAt, WaitsForAnswer
<1>4. \A d \in Calls : d # c => ask'[d] = ask[d] /\ mail'[d] = mail[d]
  BY <1>1, <1>2 DEF TypeOK, TopCancelled, TopTimeout, TopOutcome, reducer
<1>5. ask'[c] = "done"
  BY <1>1, <1>2 DEF TypeOK
<1>6. answer[c] # "none" => mail[c] = answer[c]
  BY <1>1, <1>2 DEF HonourAt, AnswerTravels
<1>7. PICK q \in Progress, e \in Decisions :
          /\ Settle(c, q, e)
          /\ q \in {"approved", "blocked"}
          /\ q = "approved" => mail[c] \in Grants
          /\ q = "blocked" /\ mail[c] \in Grants => turn[call[c].turn].cancelled
  <2>1. "blocked" \in Progress /\ "approved" \in Progress /\ "Deny" \in Decisions
    BY DEF Progress, Decisions
  <2>2. CASE TopCancelled(c)
    BY <2>1, <2>2 DEF TopCancelled, TurnOf
  <2>3. CASE TopTimeout(c)
    BY <2>1, <2>3 DEF TopTimeout, Grants
  <2>4. CASE TopOutcome(c)
    <3>1. call[c].dec \in Decisions
      BY <1>1 DEF TypeOK, CallRecord
    <3> QED
      BY <2>1, <2>4, <3>1 DEF TopOutcome, Granted
  <2> QED
    BY <2>2, <2>3, <2>4
<1>8. /\ TurnsOnward
      /\ \A d \in Calls : d # c => call'[d] = call[d]
      /\ call'[c].turn = call[c].turn
      /\ call'[c].pc = (IF turn[call[c].turn].cancelled THEN "blocked" ELSE q)
      /\ turn[call[c].turn].cancelled => turn'[call[c].turn].cancelled
  BY <1>1, <1>3, <1>7, SettleOutcome
<1>9. call'[c].pc # "new" => call'[c].turn \in Turns /\ turn'[call'[c].turn].slot # "new"
  BY <1>1, <1>3, <1>8 DEF HonourAt, TurnsOnward
<1>10. WaitsForAnswer(c)'
  BY <1>5 DEF WaitsForAnswer
<1>11. AnswerTravels(c)'
  BY <1>2, <1>5, <1>6, <1>7, <1>8 DEF AnswerTravels, Grants
<1>12. HonourAt(c)'
  BY <1>9, <1>10, <1>11 DEF HonourAt
<1>13. \A d \in Calls : d # c => CallQuiet(d)
  BY <1>2, <1>4, <1>8 DEF CallQuiet
<1> QED
  BY <1>1, <1>8, <1>12, <1>13, HonourOne

(* The steps that move on the call alone: where they go depends on its token *)
(* and the verdict.                                                          *)
LEMMA HonourCallMoves ==
    ASSUME IInv, HonourInv, NEW c \in Calls,
           Run(c) \/ ChildHooks(c) \/ ChildSend(c) \/ ChildVerdict(c) \/ ChildRun(c)
    PROVE  HonourInv'
<1>1. TypeOK /\ HonourAt(c) /\ AnswerInv /\ ProgressInv
  BY DEF IInv, HonourInv
<1>2. UNCHANGED <<mail, ask, verdict, answer, turn>>
  BY DEF Run, ChildHooks, ChildSend, ChildVerdict, ChildRun, reducer
<1>3. call[c] \in CallRecord /\ call \in [Calls -> CallRecord]
  BY <1>1 DEF TypeOK
<1>4. PICK q, e : call' = [call EXCEPT ![c] = [call[c] EXCEPT !.pc = q, !.dec = e]]
  BY DEF Run, ChildHooks, ChildSend, ChildVerdict, ChildRun, Result
<1>5. /\ call'[c] = [call[c] EXCEPT !.pc = q, !.dec = e]
      /\ \A d \in Calls : d # c => call'[d] = call[d]
  BY <1>3, <1>4
<1>6. call'[c].pc = q /\ call'[c].turn = call[c].turn /\ call'[c].cancelled = call[c].cancelled
  BY <1>3, <1>5 DEF CallRecord
<1>7. \/ c \in TopCalls /\ call[c].pc = "approved"
         /\ q = (IF turn[call[c].turn].cancelled THEN "blocked" ELSE "ran")
      \/ c \in SubCalls /\ call[c].pc = "approved"
         /\ q = (IF call[c].cancelled THEN "blocked" ELSE "ran")
      \/ call[c].pc \in {"hooks", "sending"} /\ c \in SubCalls
         /\ q \in {"blocked", "sending", "parked"}
      \/ c \in SubCalls /\ call[c].pc = "parked"
         /\ (verdict[c] # "none" \/ call[c].cancelled)
         /\ q = (IF verdict[c] = "allow" /\ ~call[c].cancelled THEN "approved" ELSE "blocked")
  <2>1. \A a, b : [call[c] EXCEPT !.pc = a, !.dec = b].pc = a
    BY <1>3 DEF CallRecord
  <2>2. \A a, b : [call EXCEPT ![c] = [call[c] EXCEPT !.pc = a, !.dec = b]] = call' => a = q
    <3> SUFFICES ASSUME NEW a, NEW b,
                        [call EXCEPT ![c] = [call[c] EXCEPT !.pc = a, !.dec = b]] = call'
                 PROVE  a = q
      OBVIOUS
    <3>1. call'[c] = [call[c] EXCEPT !.pc = a, !.dec = b]
      BY <1>3
    <3> QED
      BY <1>6, <2>1, <3>1
  <2>3. CASE Run(c)
    BY <2>2, <2>3 DEF Run, Result, TurnOf
  <2>4. CASE ChildRun(c)
    BY <2>2, <2>4 DEF ChildRun, Result
  <2>5. CASE ChildHooks(c)
    <3>1. \E d : d \in {"blocked", "sending"} /\ \E b :
              call' = [call EXCEPT ![c] = [call[c] EXCEPT !.pc = d, !.dec = b]]
      BY <2>5 DEF ChildHooks, Result
    <3> QED
      BY <2>2, <2>5, <3>1 DEF ChildHooks
  <2>6. c \in TopCalls => call[c].pc \notin {"sending", "parked"}
    BY <1>1 DEF ProgressInv
  <2>7. CASE ChildSend(c)
    BY <2>2, <2>6, <2>7 DEF ChildSend, Result, Calls
  <2>8. CASE ChildVerdict(c)
    BY <2>2, <2>6, <2>8 DEF ChildVerdict, Result, Calls
  <2> QED
    BY <2>3, <2>4, <2>5, <2>7, <2>8
<1>8. call'[c].pc # "new" => call'[c].turn \in Turns /\ turn'[call'[c].turn].slot # "new"
  BY <1>1, <1>2, <1>6, <1>7 DEF HonourAt
<1>9. WaitsForAnswer(c)'
  BY <1>1, <1>2, <1>6, <1>7, PermissionConstants DEF HonourAt, WaitsForAnswer
<1>10. AnswerTravels(c)'
  BY <1>1, <1>2, <1>6, <1>7, PermissionConstants
     DEF HonourAt, AnswerTravels, WaitsForAnswer, AnswerInv, TypeOK, Grants, Answers
<1>11. HonourAt(c)'
  BY <1>8, <1>9, <1>10 DEF HonourAt
<1>12. TurnsOnward
  BY <1>2 DEF TurnsOnward, HonourInv
<1>13. \A d \in Calls : d # c => CallQuiet(d)
  BY <1>2, <1>5 DEF CallQuiet
<1> QED
  BY <1>1, <1>11, <1>12, <1>13, HonourOne

(* A request goes its way: it is made, enrolled and announced, before        *)
(* anybody can have answered it.                                             *)
LEMMA HonourRequest ==
    ASSUME IInv, HonourInv, NEW c \in Calls, HooksAsk(c) \/ Enroll(c) \/ Announce(c)
    PROVE  HonourInv'
<1>1. TypeOK /\ HonourAt(c) /\ AnswerInv /\ ProgressInv
  BY DEF IInv, HonourInv
<1>2. UNCHANGED <<mail, verdict, answer, turn>>
  BY DEF HooksAsk, Enroll, Announce, reducer
<1>3. call[c] \in CallRecord /\ call \in [Calls -> CallRecord]
  BY <1>1 DEF TypeOK
<1>4. TurnsOnward
  BY <1>2 DEF TurnsOnward, HonourInv
<1>5. CASE HooksAsk(c)
  <2>1. /\ c \in TopCalls /\ c \notin SubCalls /\ call[c].pc = "hooks"
        /\ ask' = [ask EXCEPT ![c] = "enroll"]
        /\ \E e \in Decisions : call' = [call EXCEPT ![c] = [call[c] EXCEPT !.dec = e,
                                                                 !.pc = "asking"]]
    <3>1. \A b \in BOOLEAN, v \in SUBSET Decisions : Evaluate(b, v) \in Decisions
      BY DEF Evaluate, Reduce, Decisions
    <3> QED
      BY <1>5, <3>1, PermissionConstants DEF HooksAsk
  <2>2. /\ call'[c].pc = "asking" /\ call'[c].turn = call[c].turn
        /\ \A d \in Calls : d # c => call'[d] = call[d]
    BY <1>3, <2>1 DEF CallRecord
  <2>3. ask'[c] = "enroll" /\ \A d \in Calls : d # c => ask'[d] = ask[d]
    BY <1>1, <2>1 DEF TypeOK
  <2>4. answer[c] = "none" /\ call[c].turn \in Turns /\ turn[call[c].turn].slot # "new"
    BY <1>1, <2>1 DEF HonourAt, AnswerTravels
  <2>5. HonourAt(c)'
    BY <1>2, <2>1, <2>2, <2>3, <2>4 DEF HonourAt, WaitsForAnswer, AnswerTravels, Grants
  <2>6. \A d \in Calls : d # c => CallQuiet(d)
    BY <1>2, <2>2, <2>3 DEF CallQuiet
  <2> QED
    BY <1>1, <1>4, <2>5, <2>6, HonourOne
<1>6. CASE Enroll(c)
  <2>1. /\ ask[c] = "enroll" /\ ask' = [ask EXCEPT ![c] = "announce"]
        /\ call' = [call EXCEPT ![c] = [call[c] EXCEPT !.key = next]]
    BY <1>6 DEF Enroll
  <2>2. /\ call'[c].pc = call[c].pc /\ call'[c].turn = call[c].turn
        /\ call'[c].cancelled = call[c].cancelled
        /\ \A d \in Calls : d # c => call'[d] = call[d]
    BY <1>3, <2>1 DEF CallRecord
  <2>3. ask'[c] = "announce" /\ \A d \in Calls : d # c => ask'[d] = ask[d]
    BY <1>1, <2>1 DEF TypeOK
  <2>4. answer[c] = "none"
    BY <1>1, <2>1 DEF AnswerInv
  <2>5. HonourAt(c)'
    BY <1>1, <1>2, <2>1, <2>2, <2>3, <2>4 DEF HonourAt, WaitsForAnswer, AnswerTravels, Grants
  <2>6. \A d \in Calls : d # c => CallQuiet(d)
    BY <1>2, <2>2, <2>3 DEF CallQuiet
  <2> QED
    BY <1>1, <1>4, <2>5, <2>6, HonourOne
<1>7. CASE Announce(c)
  <2>1. ask[c] = "announce" /\ ask' = [ask EXCEPT ![c] = "wait"] /\ call' = call
    BY <1>7 DEF Announce
  <2>2. ask'[c] = "wait" /\ \A d \in Calls : d # c => ask'[d] = ask[d]
    BY <1>1, <2>1 DEF TypeOK
  <2>3. HonourAt(c)'
    BY <1>1, <1>2, <2>1, <2>2 DEF HonourAt, WaitsForAnswer, AnswerTravels, Grants
  <2>4. \A d \in Calls : d # c => CallQuiet(d)
    BY <1>2, <2>1, <2>2 DEF CallQuiet
  <2> QED
    BY <1>1, <1>4, <2>3, <2>4, HonourOne
<1> QED
  BY <1>5, <1>6, <1>7

(* The spawner of a child call passes on the outcome it read, or is dropped  *)
(* with the turn.                                                            *)
LEMMA HonourSpawner ==
    ASSUME IInv, HonourInv, NEW c \in Calls,
           ParentTimeout(c) \/ ParentOutcome(c) \/ DropSpawner(c)
    PROVE  HonourInv'
<1>1. TypeOK /\ HonourAt(c) /\ AnswerInv
  BY DEF IInv, HonourInv
<1>2. /\ UNCHANGED <<call, answer, turn>>
      /\ c \in SubCalls /\ c \notin TopCalls
      /\ ask' = [ask EXCEPT ![c] = "done"]
  BY PermissionConstants DEF ParentTimeout, ParentOutcome, DropSpawner
<1>3. TurnsOnward
  BY <1>2 DEF TurnsOnward, HonourInv
<1>4. ask'[c] = "done" /\ \A d \in Calls : d # c => ask'[d] = ask[d]
  BY <1>1, <1>2 DEF TypeOK
<1>5. PICK v : /\ verdict' = [verdict EXCEPT ![c] = v]
               /\ v = "allow" => mail[c] \in Grants
               /\ answer[c] \in Grants =>
                      v = "allow" \/ (v = "dropped" /\ turn[call[c].turn].cancelled)
  <2>1. ask[c] = "wait" /\ answer[c] # "none" => mail[c] = answer[c]
    BY <1>1 DEF HonourAt, AnswerTravels
  <2>2. "none" \notin Grants
    BY DEF Grants
  <2>3. CASE ParentTimeout(c)
    BY <2>1, <2>2, <2>3 DEF ParentTimeout
  <2>4. CASE ParentOutcome(c)
    BY <2>1, <2>2, <2>4 DEF ParentOutcome, Granted
  <2>5. CASE DropSpawner(c)
    BY <2>5 DEF DropSpawner, TurnOf
  <2> QED
    BY <2>3, <2>4, <2>5
<1>6. verdict'[c] = v /\ \A d \in Calls : d # c => verdict'[d] = verdict[d]
  BY <1>1, <1>5 DEF TypeOK
<1>7. \A d \in Calls : d # c => mail'[d] = mail[d]
  BY <1>1 DEF TypeOK, ParentTimeout, ParentOutcome, DropSpawner, reducer
<1>8. answer[c] = "reject" => mail[c] \notin Grants
  BY <1>1 DEF AnswerInv, Grants
<1>9. AnswerTravels(c)'
  BY <1>1, <1>2, <1>4, <1>5, <1>6, <1>8 DEF HonourAt, AnswerTravels
<1>10. WaitsForAnswer(c)'
  BY <1>4 DEF WaitsForAnswer
<1>11. HonourAt(c)'
  BY <1>1, <1>2, <1>9, <1>10 DEF HonourAt
<1>12. \A d \in Calls : d # c => CallQuiet(d)
  BY <1>2, <1>4, <1>6, <1>7 DEF CallQuiet
<1> QED
  BY <1>1, <1>3, <1>11, <1>12, HonourOne

(* Nobody has answered a call that is folded again. *)
LEMMA HonourFold ==
    ASSUME IInv, HonourInv, NEW c \in Calls, ParentFold(c)
    PROVE  HonourInv'
<1>1. TypeOK /\ HonourAt(c) /\ AnswerInv /\ ProgressInv
  BY DEF IInv, HonourInv
<1>2. /\ UNCHANGED <<mail, answer, turn>>
      /\ call[c].pc = "parked" /\ ask[c] = "none" /\ verdict[c] = "none"
  BY DEF ParentFold, reducer
<1>3. c \in SubCalls /\ c \notin TopCalls /\ answer[c] = "none"
  BY <1>1, <1>2, PermissionConstants DEF ProgressInv, AnswerInv, Calls
<1>4. call[c] \in CallRecord /\ call \in [Calls -> CallRecord]
  BY <1>1 DEF TypeOK
<1>5. PICK v, r, x : /\ verdict' = [verdict EXCEPT ![c] = v]
                     /\ call' = [call EXCEPT ![c] = r]
                     /\ r.pc = "parked" /\ r.turn = call[c].turn
                     /\ ask' = [ask EXCEPT ![c] = x]
                     /\ x = "none" \/ (x = "enroll" /\ v = "none")
  <2>1. CASE verdict' = [verdict EXCEPT ![c] = "deny"] /\ UNCHANGED <<call, ask>>
    <3>1. call' = [call EXCEPT ![c] = call[c]] /\ ask' = [ask EXCEPT ![c] = "none"]
      BY <1>1, <1>2, <2>1 DEF TypeOK
    <3> QED
      BY <1>2, <2>1, <3>1
  <2>2. ASSUME NEW dec, NEW ctx,
               call' = [call EXCEPT ![c] = [call[c] EXCEPT !.dec = dec, !.ctx = ctx]],
               verdict' = [verdict EXCEPT ![c] = CASE dec = "Allow" -> "allow"
                                                   [] dec = "Deny" -> "deny"
                                                   [] OTHER -> "none"],
               ask' = [ask EXCEPT ![c] = IF dec \in {"Ask", "Defer"} THEN "enroll" ELSE "none"]
        PROVE  \E v, r, x : /\ verdict' = [verdict EXCEPT ![c] = v]
                            /\ call' = [call EXCEPT ![c] = r]
                            /\ r.pc = "parked" /\ r.turn = call[c].turn
                            /\ ask' = [ask EXCEPT ![c] = x]
                            /\ x = "none" \/ (x = "enroll" /\ v = "none")
    <3> DEFINE r == [call[c] EXCEPT !.dec = dec, !.ctx = ctx]
               v == CASE dec = "Allow" -> "allow" [] dec = "Deny" -> "deny"
                      [] OTHER -> "none"
               x == IF dec \in {"Ask", "Defer"} THEN "enroll" ELSE "none"
    <3>1. r.pc = "parked" /\ r.turn = call[c].turn
      BY <1>2, <1>4 DEF CallRecord
    <3>2. x = "none" \/ (x = "enroll" /\ v = "none")
      OBVIOUS
    <3>3. /\ verdict' = [verdict EXCEPT ![c] = v] /\ call' = [call EXCEPT ![c] = r]
          /\ ask' = [ask EXCEPT ![c] = x]
      BY <2>2
    <3> HIDE DEF r, v, x
    <3> QED
      BY <3>1, <3>2, <3>3
  <2> QED
    BY <2>1, <2>2, FoldShape
<1>6. /\ verdict'[c] = v /\ call'[c] = r /\ ask'[c] = x
      /\ \A d \in Calls : d # c => /\ verdict'[d] = verdict[d] /\ call'[d] = call[d]
                                   /\ ask'[d] = ask[d]
  BY <1>1, <1>5 DEF TypeOK
<1>7. HonourAt(c)'
  BY <1>1, <1>2, <1>3, <1>5, <1>6 DEF HonourAt, WaitsForAnswer, AnswerTravels, Grants
<1>8. \A d \in Calls : d # c => CallQuiet(d)
  BY <1>2, <1>6 DEF CallQuiet
<1>9. TurnsOnward
  BY <1>2 DEF TurnsOnward, HonourInv
<1> QED
  BY <1>1, <1>7, <1>8, <1>9, HonourOne

(* The token of a child fires. *)
LEMMA HonourCancelChild ==
    ASSUME IInv, HonourInv, NEW c \in Calls, CancelChild(c)
    PROVE  HonourInv'
<1>1. TypeOK /\ HonourAt(c)
  BY DEF IInv, HonourInv
<1>2. /\ UNCHANGED <<mail, ask, verdict, answer, turn>>
      /\ call' = [call EXCEPT ![c] = [call[c] EXCEPT !.cancelled = TRUE]]
  BY DEF CancelChild, reducer
<1>3. call[c] \in CallRecord /\ call \in [Calls -> CallRecord]
  BY <1>1 DEF TypeOK
<1>4. /\ call'[c].pc = call[c].pc /\ call'[c].turn = call[c].turn /\ call'[c].cancelled
      /\ \A d \in Calls : d # c => call'[d] = call[d]
  BY <1>2, <1>3 DEF CallRecord
<1>5. HonourAt(c)'
  BY <1>1, <1>2, <1>4 DEF HonourAt, WaitsForAnswer, AnswerTravels
<1>6. \A d \in Calls : d # c => CallQuiet(d)
  BY <1>2, <1>4 DEF CallQuiet
<1>7. TurnsOnward
  BY <1>2 DEF TurnsOnward, HonourInv
<1> QED
  BY <1>1, <1>5, <1>6, <1>7, HonourOne

(* No oneshot that holds an answer gets anything more: the request is not in *)
(* the table.                                                                *)
LEMMA AnsweredNotServed ==
    ASSUME TypeOK, TableInv, NEW K \in SUBSET DOMAIN map, NEW o, NEW d \in Calls,
           answer[d] # "none"
    PROVE  Deliver(mail, FALSE, {map[k] : k \in K}, o)[d] = mail[d]
<1>1. [call |-> d, again |-> FALSE] \notin {map[k] : k \in K}
  <2> SUFFICES ASSUME NEW k \in K, map[k] = [call |-> d, again |-> FALSE] PROVE FALSE
    OBVIOUS
  <2>1. ~map[k].again /\ map[k].call = d
    OBVIOUS
  <2> QED
    BY <2>1 DEF TableInv
<1> QED
  BY <1>1 DEF Deliver

(* The table is drained, or a reinstated request takes a key: who was        *)
(* answered does not notice.                                                 *)
LEMMA HonourTable ==
    ASSUME IInv, HonourInv, CancelAll \/ ReinstateNext
    PROVE  HonourInv'
<1>1. TypeOK /\ TableInv
  BY DEF IInv
<1>2. UNCHANGED <<call, ask, verdict, answer, turn>>
  BY DEF CancelAll, ReinstateNext
<1>3. \/ mail' = mail
      \/ \E K \in SUBSET DOMAIN map, o \in {"cancelled", "dropped"} :
             mail' = Deliver(mail, FALSE, {map[k] : k \in K}, o)
  <2>1. CASE CancelAll
    <3>1. mail' = Deliver(mail, FALSE, {map[k] : k \in DOMAIN map}, "cancelled")
      BY <2>1 DEF CancelAll
    <3> QED
      BY <3>1
  <2>2. CASE ReinstateNext
    <3>1. CASE UNCHANGED reducer
      BY <3>1 DEF reducer
    <3>2. ASSUME NEW e, Reinstate(e) PROVE <1>3
      <4>1. mail' = Deliver(mail, FALSE, {map[k] : k \in DOMAIN map \intersect {e.key}}, "dropped")
        BY <3>2 DEF Reinstate
      <4> QED
        BY <4>1
    <3> QED
      BY <2>2, <3>1, <3>2 DEF ReinstateNext
  <2> QED
    BY <2>1, <2>2
<1>4. \A d \in Calls : answer[d] # "none" => mail'[d] = mail[d]
  BY <1>1, <1>3, AnsweredNotServed
<1>5. \A d \in Calls : CallQuiet(d)
  BY <1>2, <1>4 DEF CallQuiet
<1>6. TurnsOnward
  BY <1>2 DEF TurnsOnward, HonourInv
<1> QED
  BY <1>1, <1>5, <1>6, HonourNone

(* The client answers a prompt: the call was waiting, and had no verdict. *)
LEMMA HonourAnswer ==
    ASSUME IInv, HonourInv, NEW p \in prompts, NEW o \in Answers, Answer(p, o)
    PROVE  HonourInv'
<1>1. TypeOK /\ TableInv /\ PromptInv
  BY DEF IInv
<1>2. /\ UNCHANGED <<call, ask, verdict, turn>> /\ p.key \in DOMAIN map
      /\ mail' = Deliver(mail, FALSE, {map[p.key]}, o)
      /\ answer' = IF Listening(map[p.key]) /\ map[p.key] = [call |-> p.call, again |-> FALSE]
                   THEN [answer EXCEPT ![p.call] = o] ELSE answer
  BY DEF Answer
<1>3. TurnsOnward
  BY <1>2 DEF TurnsOnward, HonourInv
<1>4. \A d \in Calls : answer[d] # "none" => mail'[d] = mail[d]
  <2> DEFINE K == {p.key}
  <2>1. {map[p.key]} = {map[k] : k \in K}
    OBVIOUS
  <2>2. mail' = Deliver(mail, FALSE, {map[k] : k \in K}, o)
    BY <1>2, <2>1
  <2>3. K \in SUBSET DOMAIN map
    BY <1>2
  <2> HIDE DEF K
  <2> QED
    BY <1>1, <2>2, <2>3, AnsweredNotServed
<1>5. CASE answer' = answer
  <2>1. \A d \in Calls : CallQuiet(d)
    BY <1>2, <1>4, <1>5 DEF CallQuiet
  <2> QED
    BY <1>1, <1>3, <2>1, HonourNone
<1>6. CASE Listening(map[p.key]) /\ map[p.key] = [call |-> p.call, again |-> FALSE]
  <2> DEFINE c == p.call
  <2>1. map[p.key].call = c /\ ~map[p.key].again /\ c \in Calls
    BY <1>1, <1>2, <1>6 DEF TypeOK, Waiter
  <2>2. ask[c] \in {"announce", "wait"} /\ answer[c] = "none"
    BY <1>1, <1>2, <1>6, <2>1 DEF Listening, TableInv
  <2>3. mail'[c] = o
    BY <1>2, <1>6, <2>1 DEF Deliver
  <2>4. answer'[c] = o /\ \A d \in Calls : d # c => answer'[d] = answer[d]
    BY <1>1, <1>2, <1>6, <2>1 DEF TypeOK
  <2>5. HonourAt(c)
    BY <2>1 DEF HonourInv
  <2>6. \/ call[c].pc = "asking" \/ call[c].pc = "parked"
        \/ call[c].pc = "blocked" /\ call[c].cancelled
    BY <2>1, <2>2, <2>5 DEF HonourAt, WaitsForAnswer, Calls
  <2>7. c \in SubCalls => verdict[c] = "none"
    BY <2>2, <2>5 DEF HonourAt, WaitsForAnswer
  <2>8. WaitsForAnswer(c)'
    BY <1>2, <2>5 DEF HonourAt, WaitsForAnswer
  <2>9. AnswerTravels(c)'
    <3>1. call' = call /\ ask' = ask /\ verdict' = verdict /\ turn' = turn
      BY <1>2
    <3> HIDE DEF c
    <3> QED
      BY <2>2, <2>3, <2>4, <2>6, <2>7, <3>1 DEF AnswerTravels
  <2>10. HonourAt(c)'
    BY <1>2, <2>5, <2>8, <2>9 DEF HonourAt
  <2>11. \A d \in Calls : d # c => CallQuiet(d)
    BY <1>2, <1>4, <2>4 DEF CallQuiet
  <2> HIDE DEF c
  <2> QED
    BY <1>1, <1>3, <2>1, <2>10, <2>11, HonourOne
<1> QED
  BY <1>2, <1>5, <1>6

(* The answers die with the process. *)
LEMMA HonourCrash ==
    ASSUME IInv, HonourInv, Crash
    PROVE  HonourInv'
<1>1. turn \in [Turns -> TurnRecord] /\ call \in [Calls -> CallRecord]
  BY DEF IInv, TypeOK
<1>2. \A c \in Calls : answer'[c] = "none" /\ ask'[c] = "none"
  BY DEF Crash
<1>3. \A t \in Turns : \/ turn[t].slot = "new" /\ turn'[t] = turn[t]
                       \/ turn[t].slot # "new" /\ turn'[t].slot = "ended"
  BY <1>1 DEF Crash
<1>4. \A c \in Calls : \/ call[c].pc = "new" /\ call'[c].pc = "new"
                       \/ call[c].pc # "new" /\ call'[c].turn = call[c].turn
  BY <1>1 DEF Crash, TurnOf
<1>5. \A t \in Turns : turn'[t].slot = "new" => turn'[t].task = "none" /\ ~turn'[t].cancelled
  BY <1>3 DEF HonourInv
<1>6. \A c \in Calls : HonourAt(c)'
  <2> SUFFICES ASSUME NEW c \in Calls PROVE HonourAt(c)'
    OBVIOUS
  <2>1. WaitsForAnswer(c)' /\ AnswerTravels(c)'
    BY <1>2 DEF WaitsForAnswer, AnswerTravels
  <2>2. call'[c].pc # "new" => call'[c].turn \in Turns /\ turn'[call'[c].turn].slot # "new"
    BY <1>3, <1>4 DEF HonourInv, HonourAt
  <2> QED
    BY <2>1, <2>2 DEF HonourAt
<1> QED
  BY <1>5, <1>6 DEF HonourInv

(* Nothing was asked or answered yet. *)
LEMMA HonourInit == Init => HonourInv
<1> SUFFICES ASSUME Init PROVE HonourInv
  OBVIOUS
<1>1. \A c \in Calls : call[c].pc = "new" /\ ask[c] = "none" /\ answer[c] = "none"
  BY DEF Init
<1>2. \A t \in Turns : turn[t].task = "none" /\ ~turn[t].cancelled
  BY DEF Init
<1> QED
  BY <1>1, <1>2 DEF HonourInv, HonourAt, WaitsForAnswer, AnswerTravels

(* Every step keeps it. *)
LEMMA HonourNext == IInv /\ HonourInv /\ [Next]_vars => HonourInv'
<1> SUFFICES ASSUME IInv, HonourInv, [Next]_vars PROVE HonourInv'
  OBVIOUS
<1>1. ASSUME NEW c \in Calls, CallStep(c) PROVE HonourInv'
  BY <1>1, HonourHooks, HonourTopEnds, HonourCallMoves, HonourRequest DEF CallStep
<1>2. ASSUME NEW c \in Calls, SpawnerStep(c) PROVE HonourInv'
  BY <1>2, HonourFold, HonourSpawner DEF SpawnerStep
<1>3. CASE ActorStep
  BY <1>3, HonourTable, HonourElsewhere DEF ActorStep
<1> QED
  BY <1>1, <1>2, <1>3, HonourElsewhere, HonourBegins, HonourCancelChild, HonourAnswer,
     HonourCrash DEF Next

(* An acknowledged answer is what happens, for any number of calls, turns,   *)
(* restarts and resumes: a call the user allowed is blocked only when its    *)
(* turn is cancelled, whatever the timeout does, and a call the user refused *)
(* never runs (`resolve_with_context`, `wait`, `handshake_with_parent`).     *)
THEOREM AnswersAreHonoured == Spec => []AnswerHonoured
<1>1. HonourInv => AnswerHonoured
  BY DEF HonourInv, HonourAt, AnswerTravels, AnswerHonoured, TurnOf, Grants
<1>2. Init => IInv /\ HonourInv
  BY InitInv, HonourInit
<1>3. IInv /\ HonourInv /\ [Next]_vars => IInv' /\ HonourInv'
  BY NextInv, HonourNext
<1> QED
  BY <1>1, <1>2, <1>3, PTL DEF Spec

-----------------------------------------------------------------------------
(* A suspended turn can be picked up after a crash.                        *)

(* The call is not settled, or its request is still under way. *)
Unfinished(c) == call[c].pc \in Unsettled \/ ask[c] \in {"enroll", "announce", "wait"}

(* The client was told of the request, in this life or before it was lost. *)
Announced(c) == call[c].pc # "new" /\ (ask[c] \in {"wait", "done"} \/ call[c].pc = "lost")

(* A turn whose task goes on, and the turn of an unfinished call, is the     *)
(* active one unless it was cancelled; a thread is resumed while none is.    *)
LiveInv ==
    /\ \A t \in Turns : turn[t].task \in {"resolve", "execute"} /\ ~turn[t].cancelled =>
           turn[t].slot = "live"
    /\ \A c \in Calls : Unfinished(c) /\ ~turn[call[c].turn].cancelled =>
           turn[call[c].turn].slot = "live"
    /\ actor.op = "reinstate" => \A t \in Turns : turn[t].slot # "live"

(* The pending entry is that of an announced request, under its key. *)
Told(e) == e.key = call[e.call].key /\ Announced(e.call)

(* Keys tell the requests apart that are under way in this life, ... *)
DistinctInv ==
    \A c, d \in Calls : /\ c # d
                        /\ ask[c] \in {"announce", "wait"}
                        /\ ask[d] \in {"announce", "wait"}
                        => call[c].key # call[d].key

(* ... what the rollouts hold as pending, and what was read from them, is    *)
(* what it says, ...                                                         *)
ToldInv ==
    /\ \A i \in DOMAIN Rollouts : Rollouts[i].kind = "pending" => Told(Rollouts[i])
    /\ actor.op = "reinstate" => \A e \in actor.found : Told(e)

(* ... and a reinstated request has no key of one that is under way. *)
ReinstatedInv ==
    \A d \in Calls : resumed[d] = "wait" =>
        /\ Announced(d) /\ call[d].key < next
        /\ \A c \in Calls : /\ ask[c] \in {"announce", "wait"}
                            /\ ~turn[call[c].turn].cancelled
                            => call[d].key # call[c].key

KeysInv == DistinctInv /\ ToldInv /\ ReinstatedInv

(* The entry of the call's request, and that no later one supersedes it. *)
Held(c, entries) ==
    \E i \in DOMAIN entries :
        /\ entries[i] = PendingEntry(c)
        /\ \A j \in DOMAIN entries : j > i =>
               ~(entries[j].th = ThreadOf(c) /\ entries[j].kind # "ended"
                 /\ entries[j].key = call[c].key)

(* The property, of a request that was already answered too. *)
HeldInv ==
    \A c \in Calls :
        Deferred(c) /\ ask[c] = "wait" /\ call[c].ctx # NoTurn
        /\ ~turn[call[c].turn].cancelled => Held(c, Rollouts) \/ PendingEntry(c) \in lost

(* A step is calm for a call when it neither moves it to another request nor *)
(* lets it take one back.                                                    *)
Calm(d) ==
    /\ call'[d].key = call[d].key
    /\ Announced(d) => Announced(d)'
    /\ ask'[d] \in {"announce", "wait"} =>
           ask[d] = ask'[d] /\ call'[d].turn = call[d].turn /\ call'[d].th = call[d].th
    /\ Deferred(d)' /\ ask'[d] = "wait" /\ call'[d].ctx # NoTurn =>
           Deferred(d) /\ call[d].ctx # NoTurn

(* It does not start the call either. *)
Restful(d) == Unfinished(d)' => Unfinished(d) /\ call'[d].turn = call[d].turn

(* A step is calm for a call it leaves alone. *)
LEMMA CalmSame ==
    ASSUME NEW d \in Calls, call'[d] = call[d], ask'[d] = ask[d]
    PROVE  Calm(d) /\ Restful(d)
BY DEF Calm, Restful, Announced, Unfinished, Deferred

(* The steps of one call, but for its request being enrolled and announced. *)
LEMMA CalmOne ==
    ASSUME NEW c \in Calls,
           \A d \in Calls : d # c => call'[d] = call[d] /\ ask'[d] = ask[d],
           Calm(c) /\ Restful(c)
    PROVE  \A d \in Calls : Calm(d) /\ Restful(d)
BY CalmSame

(* The verdict of the gate and of the hooks *)
LEMMA CalmHooks ==
    ASSUME IInv, HonourInv, NEW c \in Calls, GateBlocks(c) \/ HooksDecide(c)
    PROVE  \A d \in Calls : Calm(d) /\ Restful(d)
<1>1. TypeOK /\ ProgressInv
  BY DEF IInv
<1>2. ask' = ask /\ call[c].pc = "hooks" /\ c \in TopCalls
  BY DEF GateBlocks, HooksDecide
<1>3. PICK q \in {"approved", "blocked"}, y \in Decisions : Settle(c, q, y)
  <2>1. \A b \in BOOLEAN, v \in SUBSET Decisions : Evaluate(b, v) \in Decisions
    BY DEF Evaluate, Reduce, Decisions
  <2>2. GateBlocks(c) => Settle(c, "blocked", "Deny")
    BY DEF GateBlocks
  <2>3. HooksDecide(c) => \E x \in Decisions :
            Settle(c, IF x = "Deny" THEN "blocked" ELSE "approved", x)
    BY <2>1 DEF HooksDecide
  <2>4. "Deny" \in Decisions
    BY DEF Decisions
  <2> QED
    BY <2>2, <2>3, <2>4
<1>4. "approved" \in Progress /\ "blocked" \in Progress
  BY DEF Progress
<1>5. /\ \A e \in Calls : e # c => call'[e] = call[e]
      /\ call'[c].turn = call[c].turn
      /\ call'[c].pc \in {"approved", "blocked"}
  BY <1>1, <1>3, <1>4, SettleOutcome
<1>6. call'[c].key = call[c].key
  BY <1>1, <1>3, <1>4, SettleFacts
<1>7. ask[c] = "none"
  BY <1>1, <1>2 DEF ProgressInv
<1>8. Calm(c) /\ Restful(c)
  BY <1>2, <1>5, <1>6, <1>7 DEF Calm, Restful, Announced, Unfinished, Unsettled
<1> QED
  BY <1>2, <1>5, <1>8, CalmOne

(* The end of a top-level request *)
LEMMA CalmTopEnds ==
    ASSUME IInv, HonourInv, NEW c \in Calls,
           TopCancelled(c) \/ TopTimeout(c) \/ TopOutcome(c)
    PROVE  \A d \in Calls : Calm(d) /\ Restful(d)
<1>1. TypeOK
  BY DEF IInv
<1>2. /\ ask[c] = "wait" /\ ask' = [ask EXCEPT ![c] = "done"]
      /\ \E q \in {"approved", "blocked"}, y \in Decisions : Settle(c, q, y)
  <2>1. "Deny" \in Decisions /\ call[c].dec \in Decisions
    BY <1>1 DEF TypeOK, CallRecord, Decisions
  <2> QED
    BY <2>1 DEF TopCancelled, TopTimeout, TopOutcome
<1>3. PICK q \in {"approved", "blocked"}, y \in Decisions : Settle(c, q, y)
  BY <1>2
<1>4. "approved" \in Progress /\ "blocked" \in Progress
  BY DEF Progress
<1>5. /\ \A e \in Calls : e # c => call'[e] = call[e]
      /\ call'[c].pc \in {"approved", "blocked"}
  BY <1>1, <1>3, <1>4, SettleOutcome
<1>6. call'[c].key = call[c].key
  BY <1>1, <1>3, <1>4, SettleFacts
<1>7. ask'[c] = "done" /\ \A d \in Calls : d # c => ask'[d] = ask[d]
  BY <1>1, <1>2 DEF TypeOK
<1>8. Calm(c) /\ Restful(c)
  BY <1>5, <1>6, <1>7 DEF Calm, Restful, Announced, Unfinished, Unsettled
<1> QED
  BY <1>5, <1>7, <1>8, CalmOne

(* A call that runs, ends, or goes through its handshake *)
LEMMA CalmCallMoves ==
    ASSUME IInv, HonourInv, NEW c \in Calls,
           Run(c) \/ ChildHooks(c) \/ ChildSend(c) \/ ChildVerdict(c) \/ ChildRun(c)
    PROVE  \A d \in Calls : Calm(d) /\ Restful(d)
<1>1. TypeOK /\ HonourAt(c) /\ ProgressInv
  BY DEF IInv, HonourInv
<1>2. ask' = ask
  BY DEF Run, ChildHooks, ChildSend, ChildVerdict, ChildRun
<1>3. call[c] \in CallRecord /\ call \in [Calls -> CallRecord]
  BY <1>1 DEF TypeOK
<1> DEFINE Shape(q, e) ==
               /\ q \in {"blocked", "sending", "parked", "approved", "ran"}
               /\ call' = [call EXCEPT ![c] = Result(call[c], q, e)]
               /\ q \in {"sending", "parked"} => call[c].pc \in {"hooks", "sending"}
               /\ call[c].pc = "parked" /\ q # "blocked" => verdict[c] = "allow"
<1>4. PICK q, e : Shape(q, e)
  <2>1. Run(c) => \E q, e : Shape(q, e)
    <3>1. Run(c) => Shape(IF turn[TurnOf(c)].cancelled THEN "blocked" ELSE "ran",
              call[c].dec)
      BY DEF Run
    <3> QED
      BY <3>1
  <2>2. ChildRun(c) => \E q, e : Shape(q, e)
    <3>1. ChildRun(c) => Shape(IF call[c].cancelled THEN "blocked" ELSE "ran",
              call[c].dec)
      BY DEF ChildRun
    <3> QED
      BY <3>1
  <2>3. ChildHooks(c) => \E q, e : Shape(q, e)
    <3> SUFFICES ASSUME ChildHooks(c) PROVE \E q, e : Shape(q, e)
      OBVIOUS
    <3>1. \E e : \/ call' = [call EXCEPT ![c] = Result(call[c], "blocked", e)]
                 \/ call' = [call EXCEPT ![c] = Result(call[c], "sending", e)]
      BY DEF ChildHooks
    <3>2. PICK e : \/ call' = [call EXCEPT ![c] = Result(call[c], "blocked", e)]
                   \/ call' = [call EXCEPT ![c] = Result(call[c], "sending", e)]
      BY <3>1
    <3>3. Shape("blocked", e) \/ Shape("sending", e)
      BY <3>2 DEF ChildHooks
    <3> QED
      BY <3>3
  <2>4. ChildSend(c) => \E q, e : Shape(q, e)
    <3>1. ChildSend(c) => Shape(IF verdict[c] = "dropped" THEN "blocked" ELSE "parked",
              call[c].dec)
      BY DEF ChildSend
    <3> QED
      BY <3>1
  <2>5. ChildVerdict(c) => \E q, e : Shape(q, e)
    <3>1. ChildVerdict(c) => Shape(
              IF verdict[c] = "allow" /\ ~call[c].cancelled THEN "approved" ELSE "blocked",
              call[c].dec)
      BY DEF ChildVerdict
    <3> QED
      BY <3>1
  <2> HIDE DEF Shape
  <2> QED
    BY <2>1, <2>2, <2>3, <2>4, <2>5
<1> DEFINE f == IF q = "blocked" THEN "Deny" ELSE e
<1>5. /\ call'[c].pc = q /\ call'[c].dec = f
      /\ call'[c].key = call[c].key /\ call'[c].turn = call[c].turn
      /\ call'[c].th = call[c].th /\ call'[c].ctx = call[c].ctx
      /\ \A d \in Calls : d # c => call'[d] = call[d]
  <2>1. call' = [call EXCEPT ![c] = [call[c] EXCEPT !.pc = q, !.dec = f]]
    BY <1>4 DEF Result
  <2> HIDE DEF f
  <2> QED
    BY <1>3, <2>1 DEF CallRecord
<1>6. call[c].pc \in {"hooks", "sending", "parked", "approved"}
  BY DEF Run, ChildHooks, ChildSend, ChildVerdict, ChildRun
<1>7. ask[c] = "wait" => c \in SubCalls /\ call[c].pc = "parked" /\ verdict[c] = "none"
  BY <1>1, <1>6 DEF HonourAt, WaitsForAnswer, Calls
<1>8. ask[c] = "wait" => f = "Deny"
  BY <1>4, <1>7
<1>9. Calm(c)
  BY <1>2, <1>4, <1>5, <1>6, <1>8 DEF Calm, Announced, Deferred
<1>10. Restful(c)
  BY <1>2, <1>4, <1>5, <1>6 DEF Restful, Unfinished, Unsettled
<1> QED
  BY <1>2, <1>5, <1>9, <1>10, CalmOne

(* The steps of a request other than its enrolment and announcement *)
LEMMA CalmAsks ==
    ASSUME IInv, HonourInv, NEW c \in Calls, HooksAsk(c) \/ CancelChild(c)
    PROVE  \A d \in Calls : Calm(d) /\ Restful(d)
<1>1. TypeOK /\ ProgressInv
  BY DEF IInv
<1>2. call[c] \in CallRecord /\ call \in [Calls -> CallRecord]
  BY <1>1 DEF TypeOK
<1>3. CASE HooksAsk(c)
  <2>1. /\ c \in TopCalls /\ call[c].pc = "hooks" /\ ask' = [ask EXCEPT ![c] = "enroll"]
        /\ \E e : call' = [call EXCEPT ![c] = [call[c] EXCEPT !.dec = e, !.pc = "asking"]]
    BY <1>3 DEF HooksAsk
  <2>2. /\ call'[c].pc = "asking" /\ call'[c].turn = call[c].turn
        /\ call'[c].key = call[c].key
        /\ \A d \in Calls : d # c => call'[d] = call[d]
    BY <1>2, <2>1 DEF CallRecord
  <2>3. ask'[c] = "enroll" /\ \A d \in Calls : d # c => ask'[d] = ask[d]
    BY <1>1, <2>1 DEF TypeOK
  <2>4. ask[c] = "none"
    BY <1>1, <2>1 DEF ProgressInv
  <2>5. Calm(c) /\ Restful(c)
    BY <2>1, <2>2, <2>3, <2>4 DEF Calm, Restful, Announced, Unfinished, Unsettled
  <2> QED
    BY <2>2, <2>3, <2>5, CalmOne
<1>4. CASE CancelChild(c)
  <2>1. ask' = ask /\ call' = [call EXCEPT ![c] = [call[c] EXCEPT !.cancelled = TRUE]]
    BY <1>4 DEF CancelChild
  <2>2. /\ call'[c].pc = call[c].pc /\ call'[c].turn = call[c].turn
        /\ call'[c].key = call[c].key /\ call'[c].th = call[c].th
        /\ call'[c].dec = call[c].dec /\ call'[c].ctx = call[c].ctx
        /\ \A d \in Calls : d # c => call'[d] = call[d]
    BY <1>2, <2>1 DEF CallRecord
  <2>3. Calm(c) /\ Restful(c)
    BY <2>1, <2>2 DEF Calm, Restful, Announced, Unfinished, Deferred
  <2> QED
    BY <2>1, <2>2, <2>3, CalmOne
<1> QED
  BY <1>3, <1>4

(* A spawner that is dropped takes its child calls along. *)
LEMMA CalmSpawner ==
    ASSUME IInv, HonourInv, NEW c \in Calls, SpawnerStep(c)
    PROVE  \A d \in Calls : Calm(d) /\ Restful(d)
<1>1. TypeOK
  BY DEF IInv
<1>2. CASE ParentTimeout(c) \/ ParentOutcome(c) \/ DropSpawner(c)
  <2>1. call' = call /\ ask' = [ask EXCEPT ![c] = "done"]
    BY <1>2 DEF ParentTimeout, ParentOutcome, DropSpawner
  <2>2. ask'[c] = "done" /\ \A d \in Calls : d # c => ask'[d] = ask[d]
    BY <1>1, <2>1 DEF TypeOK
  <2>3. Calm(c) /\ Restful(c)
    BY <2>1, <2>2 DEF Calm, Restful, Announced, Unfinished
  <2> QED
    BY <2>1, <2>2, <2>3, CalmOne
<1>3. CASE ParentFold(c)
  <2>1. call[c].pc = "parked" /\ ask[c] = "none"
    BY <1>3 DEF ParentFold
  <2>2. \/ call' = call /\ ask' = ask
        \/ \E e, x, y : /\ call' = [call EXCEPT ![c] = [call[c] EXCEPT !.dec = e, !.ctx = x]]
                        /\ ask' = [ask EXCEPT ![c] = y] /\ y \in {"none", "enroll"}
    BY <1>3, FoldShape
  <2>3. CASE call' = call /\ ask' = ask
    BY <2>3, CalmSame
  <2>4. CASE \E e, x, y : /\ call' = [call EXCEPT ![c] = [call[c] EXCEPT !.dec = e, !.ctx = x]]
                          /\ ask' = [ask EXCEPT ![c] = y] /\ y \in {"none", "enroll"}
    <3>1. PICK e, x, y : /\ call' = [call EXCEPT ![c] = [call[c] EXCEPT !.dec = e, !.ctx = x]]
                         /\ ask' = [ask EXCEPT ![c] = y] /\ y \in {"none", "enroll"}
      BY <2>4
    <3>2. call[c] \in CallRecord /\ call \in [Calls -> CallRecord]
      BY <1>1 DEF TypeOK
    <3>3. /\ call'[c].pc = "parked" /\ call'[c].turn = call[c].turn
          /\ call'[c].key = call[c].key
          /\ \A d \in Calls : d # c => call'[d] = call[d]
      BY <2>1, <3>1, <3>2 DEF CallRecord
    <3>4. ask'[c] \in {"none", "enroll"} /\ \A d \in Calls : d # c => ask'[d] = ask[d]
      BY <1>1, <3>1 DEF TypeOK
    <3>5. Calm(c) /\ Restful(c)
      BY <2>1, <3>3, <3>4 DEF Calm, Restful, Announced, Unfinished, Unsettled
    <3> QED
      BY <3>3, <3>4, <3>5, CalmOne
  <2> QED
    BY <2>2, <2>3, <2>4
<1> QED
  BY <1>2, <1>3 DEF SpawnerStep

(* A call that begins was in no request. *)
LEMMA CalmBegins ==
    ASSUME IInv, HonourInv, NEW t \in Turns, NEW c \in Calls,
           BeginCall(t, c) \/ BeginChild(t, c)
    PROVE  /\ \A d \in Calls : Calm(d)
           /\ \A d \in Calls : d # c => Restful(d)
           /\ call'[c].turn = t
<1>1. TypeOK /\ HonourAt(c)
  BY DEF IInv, HonourInv
<1>2. call[c] \in CallRecord /\ call \in [Calls -> CallRecord]
  BY <1>1 DEF TypeOK
<1>3. ask' = ask /\ call[c].pc = "new"
  BY DEF BeginCall, BeginChild
<1>4. /\ call'[c].key = call[c].key /\ call'[c].turn = t
      /\ \A d \in Calls : d # c => call'[d] = call[d]
  <2>1. CASE BeginCall(t, c)
    <3>1. call' = [call EXCEPT ![c] = [call[c] EXCEPT !.pc = "hooks", !.turn = t, !.ctx = t,
                                                     !.th = turn[t].th]]
      BY <2>1 DEF BeginCall
    <3> QED
      BY <1>2, <3>1 DEF CallRecord
  <2>2. CASE BeginChild(t, c)
    <3>1. call' = [call EXCEPT ![c] = [call[c] EXCEPT !.pc = "hooks", !.turn = t,
                                                     !.th = turn[t].th]]
      BY <2>2 DEF BeginChild
    <3> QED
      BY <1>2, <3>1 DEF CallRecord
  <2> QED
    BY <2>1, <2>2
<1>5. ask[c] \notin {"announce", "wait"}
  BY <1>1, <1>3 DEF HonourAt, WaitsForAnswer, Calls
<1>6. Calm(c)
  BY <1>3, <1>4, <1>5 DEF Calm, Announced
<1>7. \A d \in Calls : d # c => Calm(d) /\ Restful(d)
  BY <1>3, <1>4, CalmSame
<1> QED
  BY <1>4, <1>6, <1>7

(* What can become of the turns. *)
LEMMA TurnShape ==
    ASSUME IInv, [Next]_vars
    PROVE  \/ turn' = turn
           \/ \E t \in Turns, th \in Threads : StartTurn(t, th)
           \/ \E t \in Turns, c \in Calls : BeginCall(t, c)
           \/ \E t \in Turns : BeginExecution(t) \/ Finish(t) \/ CancelTurn(t)
           \/ \E c \in Calls, q \in {"approved", "blocked"}, y \in Decisions : Settle(c, q, y)
           \/ Crash
<1>1. ASSUME NEW c \in Calls, CallStep(c) PROVE
          \/ turn' = turn
          \/ \E q \in {"approved", "blocked"}, y \in Decisions : Settle(c, q, y)
  <2>1. /\ "Deny" \in Decisions /\ call[c].dec \in Decisions
        /\ \A b \in BOOLEAN, v \in SUBSET Decisions : Evaluate(b, v) \in Decisions
    BY DEF IInv, TypeOK, CallRecord, Decisions, Evaluate, Reduce
  <2>2. CASE GateBlocks(c) \/ TopCancelled(c) \/ TopTimeout(c) \/ TopOutcome(c)
    BY <2>1, <2>2 DEF GateBlocks, TopCancelled, TopTimeout, TopOutcome
  <2>3. CASE HooksDecide(c)
    <3>1. \E x \in Decisions : Settle(c, IF x = "Deny" THEN "blocked" ELSE "approved", x)
      BY <2>1, <2>3 DEF HooksDecide
    <3> QED
      BY <3>1
  <2>4. CASE HooksAsk(c) \/ Run(c) \/ Enroll(c) \/ Announce(c) \/ ChildHooks(c)
             \/ ChildSend(c) \/ ChildVerdict(c) \/ ChildRun(c)
    BY <2>4 DEF HooksAsk, Run, Enroll, Announce, ChildHooks, ChildSend, ChildVerdict, ChildRun
  <2> QED
    BY <1>1, <2>2, <2>3, <2>4 DEF CallStep
<1>2. ASSUME NEW c \in Calls, SpawnerStep(c) \/ CancelChild(c) \/ Cleanup(c)
      PROVE  turn' = turn
  BY <1>2 DEF SpawnerStep, ParentFold, ParentOutcome, ParentTimeout, DropSpawner,
      CancelChild, Cleanup
<1>3. ASSUME \/ \E p \in prompts, o \in Answers : Answer(p, o)
             \/ ActorStep
             \/ \E th \in Threads : ResumeThread(th)
             \/ UNCHANGED vars
             \/ \E t \in Turns, c \in Calls : BeginChild(t, c)
      PROVE  turn' = turn
  BY <1>3 DEF Answer, ActorStep, CancelAll, CancelPersist, ReinstateNext, ResumeThread,
      vars, BeginChild
<1> QED
  BY <1>1, <1>2, <1>3 DEF Next, TurnStep

(* The tokens, the tasks and the slots. *)
LEMMA TurnFacts ==
    ASSUME IInv, HonourInv, LiveInv, [Next]_vars, ~Crash, NEW u \in Turns
    PROVE  /\ turn[u].cancelled => turn'[u].cancelled
           /\ turn'[u].task \in {"resolve", "execute"} /\ ~turn'[u].cancelled =>
                  turn'[u].slot = "live"
           /\ turn[u].slot = "live" /\ ~turn'[u].cancelled =>
                  turn'[u].slot = "live" \/ Finish(u)
           /\ turn'[u].slot = "live" => turn[u].slot = "live" \/ actor = Idle
<1>1. TypeOK /\ turn \in [Turns -> TurnRecord] /\ turn[u] \in TurnRecord
  BY DEF IInv, TypeOK
<1>2. /\ turn[u].slot = "new" => turn[u].task = "none" /\ ~turn[u].cancelled
      /\ turn[u].task \in {"resolve", "execute"} /\ ~turn[u].cancelled => turn[u].slot = "live"
  BY DEF HonourInv, LiveInv
<1>3. CASE turn' = turn
  BY <1>2, <1>3
<1>4. ASSUME NEW t \in Turns, NEW th \in Threads, StartTurn(t, th)
      PROVE  /\ turn'[u] = turn[u] \/ (turn'[u].slot = "live" /\ turn[u].slot = "new")
             /\ actor = Idle
  <2>1. /\ actor = Idle /\ turn[t].slot = "new"
        /\ turn' = [turn EXCEPT ![t] = [slot |-> "live", task |-> "resolve",
                                        th |-> th, cancelled |-> FALSE]]
    BY <1>4 DEF StartTurn
  <2> QED
    BY <1>1, <2>1
<1>5. CASE \E t \in Turns, th \in Threads : StartTurn(t, th)
  <2>1. /\ turn'[u] = turn[u] \/ (turn'[u].slot = "live" /\ turn[u].slot = "new")
        /\ actor = Idle
    BY <1>4, <1>5
  <2> QED
    BY <1>2, <2>1
<1>7. ASSUME NEW t \in Turns, NEW c \in Calls, BeginCall(t, c)
      PROVE  /\ turn'[u].slot = turn[u].slot /\ turn'[u].cancelled = turn[u].cancelled
             /\ turn'[u].task = turn[u].task \/ turn[u].task \in {"resolve", "execute"}
  <2>1. /\ turn' = [turn EXCEPT ![t] = [turn[t] EXCEPT !.task = "resolve"]]
        /\ turn[t].task \in {"resolve", "execute"}
    BY <1>7 DEF BeginCall
  <2>2. CASE t = u
    <3>1. turn'[u] = [turn[u] EXCEPT !.task = "resolve"]
      BY <1>1, <2>1, <2>2
    <3> QED
      BY <1>1, <2>1, <2>2, <3>1 DEF TurnRecord
  <2>3. CASE t # u
    <3>1. turn'[u] = turn[u]
      BY <1>1, <2>1, <2>3
    <3> QED
      BY <3>1
  <2> QED
    BY <2>2, <2>3
<1>8. CASE \E t \in Turns, c \in Calls : BeginCall(t, c)
  BY <1>2, <1>7, <1>8
<1>9. ASSUME NEW t \in Turns, BeginExecution(t)
      PROVE  /\ turn'[u].slot = turn[u].slot /\ turn'[u].cancelled = turn[u].cancelled
             /\ turn'[u].task = turn[u].task \/ turn[u].task \in {"resolve", "execute"}
  <2>1. /\ turn' = [turn EXCEPT ![t] = [turn[t] EXCEPT !.task = "execute"]]
        /\ turn[t].task = "resolve"
    BY <1>9 DEF BeginExecution
  <2>2. CASE t = u
    <3>1. turn'[u] = [turn[u] EXCEPT !.task = "execute"]
      BY <1>1, <2>1, <2>2
    <3> QED
      BY <1>1, <2>1, <2>2, <3>1 DEF TurnRecord
  <2>3. CASE t # u
    <3>1. turn'[u] = turn[u]
      BY <1>1, <2>1, <2>3
    <3> QED
      BY <3>1
  <2> QED
    BY <2>2, <2>3
<1>10. CASE \E t \in Turns : BeginExecution(t)
  BY <1>2, <1>9, <1>10
<1>11. ASSUME NEW t \in Turns, Finish(t)
       PROVE  \/ turn'[u] = turn[u]
              \/ /\ t = u /\ turn'[u].task = "done" /\ turn'[u].slot = "ended"
                 /\ turn'[u].cancelled = turn[u].cancelled
  <2>1. turn' = [turn EXCEPT ![t] = [turn[t] EXCEPT !.task = "done", !.slot = "ended"]]
    BY <1>11 DEF Finish
  <2>2. CASE t = u
    <3>1. turn'[u] = [turn[u] EXCEPT !.task = "done", !.slot = "ended"]
      BY <1>1, <2>1, <2>2
    <3> QED
      BY <1>1, <2>2, <3>1 DEF TurnRecord
  <2> QED
    BY <1>1, <2>1, <2>2
<1>12. CASE \E t \in Turns : Finish(t)
  BY <1>2, <1>11, <1>12
<1>13. ASSUME NEW t \in Turns, CancelTurn(t)
       PROVE  turn'[u] = turn[u] \/ (turn'[u].cancelled /\ turn'[u].slot = "ended")
  <2>1. turn' = [turn EXCEPT ![t] = [turn[t] EXCEPT !.slot = "ended", !.cancelled = TRUE]]
    BY <1>13 DEF CancelTurn
  <2>2. CASE t = u
    <3>1. turn'[u] = [turn[u] EXCEPT !.slot = "ended", !.cancelled = TRUE]
      BY <1>1, <2>1, <2>2
    <3> QED
      BY <1>1, <2>2, <3>1 DEF TurnRecord
  <2> QED
    BY <1>1, <2>1, <2>2
<1>14. CASE \E t \in Turns : CancelTurn(t)
  BY <1>2, <1>13, <1>14
<1>15. CASE \E c \in Calls, q \in {"approved", "blocked"}, y \in Decisions : Settle(c, q, y)
  <2>1. "approved" \in Progress /\ "blocked" \in Progress
    BY DEF Progress
  <2>2. /\ turn'[u].cancelled = turn[u].cancelled /\ turn'[u].slot = turn[u].slot
        /\ turn'[u].task \in {turn[u].task, "done"}
    BY <1>1, <1>15, <2>1, SettleOutcome
  <2> QED
    BY <1>2, <2>2
<1> QED
  BY <1>3, <1>5, <1>8, <1>10, <1>12, <1>14, <1>15, TurnShape

(* No step but those that begin a call starts anything. *)
LEMMA CalmSteps ==
    ASSUME IInv, HonourInv, [Next]_vars, ~Crash,
           \A c \in Calls : ~Enroll(c) /\ ~Announce(c)
    PROVE  \A d \in Calls : Calm(d)
<1>1. ASSUME call' = call, ask' = ask PROVE \A d \in Calls : Calm(d)
  BY <1>1, CalmSame
<1>2. ASSUME NEW c \in Calls, CallStep(c) PROVE \A d \in Calls : Calm(d)
  BY <1>2, CalmHooks, CalmAsks, CalmTopEnds, CalmCallMoves DEF CallStep
<1>3. ASSUME NEW c \in Calls, SpawnerStep(c) PROVE \A d \in Calls : Calm(d)
  BY <1>3, CalmSpawner
<1>4. ASSUME NEW c \in Calls, CancelChild(c) PROVE \A d \in Calls : Calm(d)
  BY <1>4, CalmAsks
<1>5. ASSUME NEW t \in Turns, NEW c \in Calls, BeginCall(t, c) \/ BeginChild(t, c)
      PROVE  \A d \in Calls : Calm(d)
  BY <1>5, CalmBegins
<1>6. ASSUME \/ \E t \in Turns, th \in Threads : StartTurn(t, th)
             \/ \E t \in Turns : TurnStep(t) \/ CancelTurn(t)
             \/ \E c \in Calls : Cleanup(c)
             \/ \E p \in prompts, o \in Answers : Answer(p, o)
             \/ ActorStep
             \/ \E th \in Threads : ResumeThread(th)
             \/ UNCHANGED vars
      PROVE  call' = call /\ ask' = ask
  BY <1>6 DEF StartTurn, TurnStep, BeginExecution, Finish, CancelTurn, Cleanup, Answer,
      ActorStep, CancelAll, CancelPersist, ReinstateNext, ResumeThread, vars
<1> QED
  BY <1>1, <1>2, <1>3, <1>4, <1>5, <1>6 DEF Next

(* No step but those that begin a call, and the crash, leaves an unfinished  *)
(* call that was not.                                                        *)
LEMMA RestSteps ==
    ASSUME IInv, HonourInv, [Next]_vars, ~Crash, NEW d \in Calls,
           \A t \in Turns : ~BeginCall(t, d) /\ ~BeginChild(t, d)
    PROVE  Restful(d)
<1>1. CASE \E c \in Calls : Enroll(c) \/ Announce(c)
  <2>1. PICK c \in Calls : Enroll(c) \/ Announce(c)
    BY <1>1
  <2>2. /\ ask[c] \in {"enroll", "announce"}
        /\ \E x : ask' = [ask EXCEPT ![c] = x]
        /\ call' = call \/ call' = [call EXCEPT ![c] = [call[c] EXCEPT !.key = next]]
    BY <2>1 DEF Enroll, Announce
  <2>3. /\ call[c] \in CallRecord /\ call \in [Calls -> CallRecord]
        /\ ask \in [Calls -> {"none", "enroll", "announce", "wait", "done"}]
    BY DEF IInv, TypeOK
  <2>4. /\ call'[d].pc = call[d].pc /\ call'[d].turn = call[d].turn
        /\ d # c => ask'[d] = ask[d]
    BY <2>2, <2>3 DEF CallRecord
  <2> QED
    BY <2>2, <2>4 DEF Restful, Unfinished
<1>2. ASSUME NEW c \in Calls, CallStep(c), ~Enroll(c), ~Announce(c) PROVE Restful(d)
  BY <1>2, CalmHooks, CalmAsks, CalmTopEnds, CalmCallMoves DEF CallStep
<1>3. ASSUME NEW c \in Calls, SpawnerStep(c) \/ CancelChild(c) PROVE Restful(d)
  BY <1>3, CalmSpawner, CalmAsks
<1>4. ASSUME NEW t \in Turns, NEW c \in Calls, BeginCall(t, c) \/ BeginChild(t, c)
      PROVE  Restful(d)
  BY <1>4, CalmBegins
<1>5. ASSUME \/ \E t \in Turns, th \in Threads : StartTurn(t, th)
             \/ \E t \in Turns : TurnStep(t) \/ CancelTurn(t)
             \/ \E c \in Calls : Cleanup(c)
             \/ \E p \in prompts, o \in Answers : Answer(p, o)
             \/ ActorStep
             \/ \E th \in Threads : ResumeThread(th)
             \/ UNCHANGED vars
      PROVE  call' = call /\ ask' = ask
  BY <1>5 DEF StartTurn, TurnStep, BeginExecution, Finish, CancelTurn, Cleanup, Answer,
      ActorStep, CancelAll, CancelPersist, ReinstateNext, ResumeThread, vars
<1>6. call' = call /\ ask' = ask => Restful(d)
  BY CalmSame
<1> QED
  BY <1>1, <1>2, <1>3, <1>4, <1>5, <1>6 DEF Next

(* Only resuming a thread begins to reinstate its requests. *)
LEMMA ReinstateSteps ==
    ASSUME IInv, [Next]_vars, actor'.op = "reinstate"
    PROVE  \/ actor.op = "reinstate" /\ actor'.found \subseteq actor.found
           \/ \E th \in Threads : ResumeThread(th)
<1>1. CASE actor' = actor
  BY <1>1
<1>2. CASE \E t \in Turns : CancelTurn(t)
  BY <1>2 DEF CancelTurn
<1>3. CASE \E c \in Calls : CancelChild(c)
  BY <1>3 DEF CancelChild
<1>4. CASE CancelAll \/ CancelPersist \/ Crash
  <2>1. actor' = Idle \/ actor' = [op |-> "persist", turn |-> actor.turn]
    BY <1>4 DEF CancelAll, CancelPersist, Crash
  <2> QED
    BY <2>1 DEF Idle
<1>5. CASE ReinstateNext
  <2>1. actor \in [op : {"reinstate"}, found : SUBSET Pending]
    BY <1>5 DEF ReinstateNext, IInv, TypeOK, Idle
  <2>2. CASE actor' = Idle
    BY <2>2 DEF Idle
  <2>3. ASSUME NEW e, actor' = [actor EXCEPT !.found = @ \ {e}]
        PROVE  actor.op = "reinstate" /\ actor'.found \subseteq actor.found
    BY <2>1, <2>3
  <2> QED
    BY <1>5, <2>2, <2>3 DEF ReinstateNext
<1>6. CASE \E th \in Threads : ResumeThread(th)
  BY <1>6
<1>7. ASSUME \/ \E t \in Turns, th \in Threads : StartTurn(t, th)
             \/ \E t \in Turns, c \in Calls : BeginCall(t, c) \/ BeginChild(t, c)
             \/ \E t \in Turns : TurnStep(t)
             \/ \E c \in Calls : Cleanup(c) \/ SpawnerStep(c)
             \/ \E p \in prompts, o \in Answers : Answer(p, o)
             \/ UNCHANGED vars
      PROVE  actor' = actor
  BY <1>7 DEF StartTurn, BeginCall, BeginChild, TurnStep, BeginExecution, Finish, Cleanup,
      SpawnerStep, ParentFold, ParentOutcome, ParentTimeout, DropSpawner, Answer, vars
<1>8. ASSUME NEW c \in Calls, CallStep(c) PROVE actor' = actor
  BY <1>8 DEF CallStep, GateBlocks, HooksDecide, HooksAsk, Run, Enroll, Announce, TopOutcome,
      TopCancelled, TopTimeout, ChildHooks, ChildSend, ChildVerdict, ChildRun
<1> QED
  BY <1>1, <1>2, <1>3, <1>4, <1>5, <1>6, <1>7, <1>8 DEF Next, ActorStep

(* Every step keeps LiveInv. *)
LEMMA LiveStep == IInv /\ HonourInv /\ LiveInv /\ [Next]_vars => LiveInv'
<1> SUFFICES ASSUME IInv, HonourInv, LiveInv, [Next]_vars PROVE LiveInv'
  OBVIOUS
<1>1. TypeOK /\ turn \in [Turns -> TurnRecord] /\ call \in [Calls -> CallRecord]
  BY DEF IInv, TypeOK
<1>2. CASE Crash
  <2>1. \A t \in Turns : turn'[t].slot # "live" /\ turn'[t].task \notin {"resolve", "execute"}
    <3> SUFFICES ASSUME NEW t \in Turns
                 PROVE  turn'[t].slot # "live" /\ turn'[t].task \notin {"resolve", "execute"}
      OBVIOUS
    <3>1. CASE turn[t].slot = "new"
      <4>1. turn'[t] = turn[t]
        BY <1>2, <3>1 DEF Crash
      <4> QED
        BY <3>1, <4>1 DEF HonourInv
    <3>2. CASE turn[t].slot # "new"
      <4>1. turn'[t].slot = "ended" /\ turn'[t].task = "done"
        BY <1>2, <3>2 DEF Crash
      <4> QED
        BY <4>1
    <3> QED
      BY <3>1, <3>2
  <2>2. \A c \in Calls : ask'[c] = "none" /\ call'[c].pc \in {"new", "lost"}
    BY <1>2 DEF Crash
  <2>3. actor' = Idle
    BY <1>2 DEF Crash
  <2> QED
    BY <2>1, <2>2, <2>3 DEF LiveInv, Unfinished, Unsettled, Idle
<1>3. CASE ~Crash
  <2>1. \A u \in Turns : turn'[u].task \in {"resolve", "execute"} /\ ~turn'[u].cancelled =>
            turn'[u].slot = "live"
    BY <1>3, TurnFacts
  <2>2. ASSUME NEW c \in Calls, Unfinished(c)', ~turn'[call'[c].turn].cancelled
        PROVE  turn'[call'[c].turn].slot = "live"
    <3>1. CASE \E t \in Turns : BeginCall(t, c) \/ BeginChild(t, c)
      <4>1. PICK t \in Turns : BeginCall(t, c) \/ BeginChild(t, c)
        BY <3>1
      <4>2. call'[c].turn = t
        BY <4>1, CalmBegins
      <4>3. turn[t].task \in {"resolve", "execute"} /\ turn'[t].task \in {"resolve", "execute"}
        BY <1>1, <4>1 DEF BeginCall, BeginChild, TurnRecord
      <4> QED
        BY <2>1, <2>2, <4>2, <4>3
    <3>2. CASE \A t \in Turns : ~BeginCall(t, c) /\ ~BeginChild(t, c)
      <4>1. Unfinished(c) /\ call'[c].turn = call[c].turn
        BY <1>3, <2>2, <3>2, RestSteps DEF Restful
      <4>2. call[c].turn \in Turns
        BY <4>1 DEF HonourInv, HonourAt, WaitsForAnswer, Unfinished, Unsettled, Calls
      <4>3. ~turn[call[c].turn].cancelled
        BY <1>3, <2>2, <4>1, <4>2, TurnFacts
      <4>4. turn[call[c].turn].slot = "live"
        BY <4>1, <4>3 DEF LiveInv
      <4>5. ~Finish(call[c].turn)
        <5> SUFFICES ASSUME Finish(call[c].turn) PROVE FALSE
          OBVIOUS
        <5>1. Over(c)
          BY <4>3 DEF Finish, CallsOf
        <5> QED
          BY <4>1, <5>1 DEF Over, Unfinished, Unsettled
      <4> QED
        BY <1>3, <2>2, <4>1, <4>2, <4>4, <4>5, TurnFacts
    <3> QED
      BY <3>1, <3>2
  <2>3. ASSUME actor'.op = "reinstate", NEW u \in Turns PROVE turn'[u].slot # "live"
    <3>1. turn[u].slot # "live"
      BY <2>3, ReinstateSteps DEF LiveInv, ResumeThread, LiveTurns
    <3>2. CASE actor = Idle
      <4>1. \E th \in Threads : ResumeThread(th)
        BY <2>3, <3>2, ReinstateSteps DEF Idle
      <4>2. turn' = turn
        BY <4>1 DEF ResumeThread
      <4> QED
        BY <3>1, <4>2
    <3> QED
      BY <1>3, <3>1, <3>2, TurnFacts
  <2> QED
    BY <2>1, <2>2, <2>3 DEF LiveInv
<1> QED
  BY <1>2, <1>3

(* The rollouts as they will be: what the writer does shows in them only     *)
(* when the process dies.                                                    *)
LEMMA PrefixOfBoth ==
    ASSUME NEW S, NEW s \in Seq(S), NEW q \in Seq(S), NEW n \in 0 .. Len(q)
    PROVE  /\ s \o SubSeq(q, 1, n) \in Seq(S)
           /\ \A i \in DOMAIN (s \o SubSeq(q, 1, n)) :
                  i \in DOMAIN (s \o q) /\ (s \o SubSeq(q, 1, n))[i] = (s \o q)[i]
<1> DEFINE a == SubSeq(q, 1, n)
<1>1. Len(s) \in Nat /\ Len(q) \in Nat /\ n \in Nat /\ n <= Len(q)
  BY LenProperties
<1>2. a \in Seq(S) /\ Len(a) = n /\ \A i \in 1 .. n : a[i] = q[i]
  <2>1. \A i \in 1 .. n : q[i] \in S
    BY <1>1, ElementOfSeq
  <2>2. /\ a \in Seq(S)
        /\ Len(a) = (IF 1 <= n THEN n - 1 + 1 ELSE 0)
        /\ \A i \in 1 .. n - 1 + 1 : a[i] = q[1 + i - 1]
    BY <1>1, <2>1, SubSeqProperties
  <2> HIDE DEF a
  <2> QED
    BY <1>1, <2>2
<1>3. /\ s \o a \in Seq(S)
      /\ \A i \in DOMAIN (s \o a) : i \in DOMAIN (s \o q) /\ (s \o a)[i] = (s \o q)[i]
  <2> HIDE DEF a
  <2>1. /\ s \o a \in Seq(S) /\ Len(s \o a) = Len(s) + n
        /\ \A i \in 1 .. Len(s) + n : (s \o a)[i] = IF i <= Len(s) THEN s[i] ELSE a[i - Len(s)]
    BY <1>2, ConcatProperties
  <2>2. /\ s \o q \in Seq(S) /\ Len(s \o q) = Len(s) + Len(q)
        /\ \A i \in 1 .. Len(s) + Len(q) : (s \o q)[i] = IF i <= Len(s) THEN s[i] ELSE q[i - Len(s)]
    BY ConcatProperties
  <2>3. DOMAIN (s \o a) = 1 .. Len(s) + n /\ DOMAIN (s \o q) = 1 .. Len(s) + Len(q)
    BY <2>1, <2>2, LenProperties
  <2>4. ASSUME NEW i \in 1 .. Len(s) + n
        PROVE  i \in 1 .. Len(s) + Len(q) /\ (s \o a)[i] = (s \o q)[i]
    <3>1. i \in 1 .. Len(s) + Len(q)
      BY <1>1, <2>4
    <3>2. CASE i <= Len(s)
      BY <1>1, <2>1, <2>2, <3>1, <3>2
    <3>3. CASE ~(i <= Len(s))
      <4>1. i - Len(s) \in 1 .. n
        BY <1>1, <3>3
      <4> QED
        BY <1>2, <2>1, <2>2, <3>1, <3>3, <4>1
    <3> QED
      BY <3>1, <3>2, <3>3
  <2> QED
    BY <2>1, <2>3, <2>4
<1> QED
  BY <1>3

(* A prefix of the queue moved to the log, as when the writer catches up,   *)
(* leaves the two together as they were.                                    *)
LEMMA RejoinBoth ==
    ASSUME NEW S, NEW s \in Seq(S), NEW q \in Seq(S), NEW n \in 0 .. Len(q)
    PROVE  (s \o SubSeq(q, 1, n)) \o SubSeq(q, n + 1, Len(q)) = s \o q
<1> DEFINE a == SubSeq(q, 1, n)
           b == SubSeq(q, n + 1, Len(q))
<1>1. Len(q) \in Nat /\ n \in Nat /\ n <= Len(q)
  BY LenProperties
<1>2. a \in Seq(S) /\ b \in Seq(S)
  <2>1. (\A i \in 1 .. n : q[i] \in S) /\ (\A i \in n + 1 .. Len(q) : q[i] \in S)
    BY <1>1, ElementOfSeq
  <2> QED
    BY <1>1, <2>1, SubSeqProperties
<1>3. a \o b = q
  <2>1. a \o b = SubSeq(q, 1, Len(q))
    <3>1. 1 \in 1 .. Len(q) + 1 /\ n \in 1 - 1 .. Len(q) /\ Len(q) \in n .. Len(q)
      BY <1>1
    <3> QED
      BY <3>1, ConcatAdjacentSubSeq
  <2> QED
    BY <2>1, SubSeqFull
<1>4. (s \o a) \o b = s \o (a \o b)
  <2> HIDE DEF a, b
  <2> QED
    BY <1>2, ConcatAssociative
<1> QED
  BY <1>3, <1>4

(* What is queued is the last of the two together. *)
LEMMA AppendToBoth ==
    ASSUME NEW S, NEW s \in Seq(S), NEW q \in Seq(S), NEW e \in S
    PROVE  s \o Append(q, e) = Append(s \o q, e)
<1>1. s \o q \in Seq(S) /\ Append(q, e) = q \o <<e>> /\ <<e>> \in Seq(S)
      /\ Append(s \o q, e) = (s \o q) \o <<e>>
  BY ConcatProperties, AppendIsConcat
<1> QED
  BY <1>1, ConcatAssociative

(* What a step adds to them. *)
LEMMA RollShape ==
    ASSUME IInv, [Next]_vars, ~Crash
    PROVE  \/ Rollouts' = Rollouts
           \/ \E t \in Turns :
                  Rollouts' = Append(Rollouts, [th |-> turn[t].th, kind |-> "ended", turn |-> t])
           \/ \E c \in Calls : Announce(c) /\ Rollouts' = Append(Rollouts, PendingEntry(c))
           \/ \E c \in Calls : /\ (ask[c] = "wait" /\ ask'[c] = "done") \/ resumed[c] = "wait"
                               /\ Rollouts' = Append(Rollouts, Marker(c))
<1>1. TypeOK /\ log \in Seq(Entry) /\ queue \in Seq(Entry) /\ lost \subseteq Entry
      /\ call \in [Calls -> CallRecord]
      /\ turn \in [Turns -> TurnRecord]
  BY DEF IInv, TypeOK
<1>2. \A e \in Entry : log' = log /\ queue' = Append(queue, e) => Rollouts' = Append(Rollouts, e)
  BY <1>1, AppendToBoth DEF Rollouts
<1>3. \A c \in Calls : Marker(c) \in Entry /\ PendingEntry(c) \in Entry
  BY <1>1 DEF Marker, PendingEntry, Entry, Resolved, Pending, ThreadOf, CallRecord
<1>4. \A t \in Turns : [th |-> turn[t].th, kind |-> "ended", turn |-> t] \in Entry
  BY <1>1 DEF Entry, Ended, TurnRecord
<1>5. log' = log /\ queue' = queue => Rollouts' = Rollouts
  BY DEF Rollouts
<1>6. ASSUME NEW t \in Turns, Finish(t) PROVE
          \/ Rollouts' = Rollouts
          \/ Rollouts' = Append(Rollouts, [th |-> turn[t].th, kind |-> "ended", turn |-> t])
  BY <1>1, <1>2, <1>4, <1>5, <1>6, SendFacts DEF Finish
<1>7. ASSUME CancelPersist PROVE Rollouts' = Rollouts \/ \E t \in Turns :
          Rollouts' = Append(Rollouts, [th |-> turn[t].th, kind |-> "ended", turn |-> t])
  <2>1. actor.turn \in Turns
    BY <1>1, <1>7 DEF CancelPersist, TypeOK, Idle
  <2> QED
    BY <1>1, <1>2, <1>4, <1>5, <1>7, <2>1, SendFacts DEF CancelPersist
<1>8. ASSUME NEW c \in Calls, Announce(c)
      PROVE  Rollouts' = Rollouts \/ Rollouts' = Append(Rollouts, PendingEntry(c))
  BY <1>1, <1>2, <1>3, <1>5, <1>8, SendFacts DEF Announce
<1>9. ASSUME NEW c \in Calls, TopOutcome(c) \/ ParentOutcome(c)
      PROVE  /\ ask[c] = "wait" /\ ask'[c] = "done"
             /\ Rollouts' = Rollouts \/ Rollouts' = Append(Rollouts, Marker(c))
  BY <1>1, <1>2, <1>3, <1>5, <1>9, SendFacts DEF TopOutcome, ParentOutcome, TypeOK
<1>10. ASSUME NEW c \in Calls, Cleanup(c)
       PROVE  /\ resumed[c] = "wait"
              /\ Rollouts' = Rollouts \/ Rollouts' = Append(Rollouts, Marker(c))
  BY <1>1, <1>2, <1>3, <1>5, <1>10, SendFacts DEF Cleanup
<1>11. ASSUME NEW th \in Threads, ResumeThread(th) PROVE Rollouts' = Rollouts
  <2>1. PICK n \in 0 .. Len(queue) : /\ log' = log \o SubSeq(queue, 1, n)
                                     /\ queue' = SubSeq(queue, n + 1, Len(queue))
    BY <1>11 DEF ResumeThread, WriterGotTo
  <2>2. (log \o SubSeq(queue, 1, n)) \o SubSeq(queue, n + 1, Len(queue)) = log \o queue
    BY <1>1, RejoinBoth
  <2> DEFINE a == log \o SubSeq(queue, 1, n)
             b == SubSeq(queue, n + 1, Len(queue))
  <2>3. log' = a /\ queue' = b /\ a \o b = log \o queue
    BY <2>1, <2>2
  <2> HIDE DEF a, b
  <2> QED
    BY <2>3 DEF Rollouts
<1>12. ASSUME NEW c \in Calls, CallStep(c), ~Announce(c), ~TopOutcome(c)
       PROVE  log' = log /\ queue' = queue
  BY <1>12 DEF CallStep, GateBlocks, HooksDecide, HooksAsk, Run, Enroll, TopCancelled,
      TopTimeout, ChildHooks, ChildSend, ChildVerdict, ChildRun, storage
<1>13. ASSUME NEW c \in Calls, SpawnerStep(c) \/ CancelChild(c), ~ParentOutcome(c)
       PROVE  log' = log /\ queue' = queue
  BY <1>13 DEF SpawnerStep, ParentFold, ParentTimeout, DropSpawner, CancelChild, storage
<1>14. ASSUME \/ \E t \in Turns, th \in Threads : StartTurn(t, th)
              \/ \E t \in Turns, c \in Calls : BeginCall(t, c) \/ BeginChild(t, c)
              \/ \E t \in Turns : BeginExecution(t) \/ CancelTurn(t)
              \/ \E p \in prompts, o \in Answers : Answer(p, o)
              \/ CancelAll \/ ReinstateNext
              \/ UNCHANGED vars
       PROVE  log' = log /\ queue' = queue
  BY <1>14 DEF StartTurn, BeginCall, BeginChild, BeginExecution, CancelTurn, Answer,
      CancelAll, ReinstateNext, vars, storage
<1> DEFINE Goal == \/ Rollouts' = Rollouts
                   \/ \E t \in Turns : Rollouts' = Append(Rollouts,
                          [th |-> turn[t].th, kind |-> "ended", turn |-> t])
                   \/ \E c \in Calls : /\ Announce(c)
                                       /\ Rollouts' = Append(Rollouts, PendingEntry(c))
                   \/ \E c \in Calls :
                          /\ (ask[c] = "wait" /\ ask'[c] = "done") \/ resumed[c] = "wait"
                          /\ Rollouts' = Append(Rollouts, Marker(c))
<1>15. ASSUME NEW c \in Calls, CallStep(c) PROVE Goal
  BY <1>5, <1>8, <1>9, <1>12, <1>15
<1>16. ASSUME NEW c \in Calls, SpawnerStep(c) \/ CancelChild(c) \/ Cleanup(c) PROVE Goal
  BY <1>5, <1>9, <1>10, <1>13, <1>16
<1>17. ASSUME NEW t \in Turns, TurnStep(t) \/ CancelTurn(t) PROVE Goal
  BY <1>5, <1>6, <1>14, <1>17 DEF TurnStep
<1>18. ASSUME ActorStep PROVE Goal
  BY <1>5, <1>7, <1>14, <1>18 DEF ActorStep
<1>19. ASSUME NEW th \in Threads, ResumeThread(th) PROVE Goal
  BY <1>11, <1>19
<1>20. ASSUME \/ \E t \in Turns, th \in Threads : StartTurn(t, th)
              \/ \E t \in Turns, c \in Calls : BeginCall(t, c) \/ BeginChild(t, c)
              \/ \E p \in prompts, o \in Answers : Answer(p, o)
              \/ UNCHANGED vars
       PROVE  Goal
  BY <1>5, <1>14, <1>20
<1>21. Goal
  <2> HIDE DEF Goal
  <2> QED
    BY <1>15, <1>16, <1>17, <1>18, <1>19, <1>20 DEF Next
<1> QED
  BY <1>21

(* Which requests are waiting to be cleaned up, and the counter. *)
LEMMA ResumedShape ==
    ASSUME IInv, [Next]_vars, ~Crash, NEW d \in Calls
    PROVE  /\ next' >= next
           /\ resumed'[d] = "wait" =>
                  \/ resumed[d] = "wait"
                  \/ /\ actor.op = "reinstate" /\ call' = call /\ ask' = ask /\ turn' = turn
                     /\ \E e \in actor.found : e.call = d /\ next' > e.key
<1>1. TypeOK /\ next \in Nat /\ resumed \in [Calls -> {"none", "wait", "done"}]
  BY DEF IInv, TypeOK
<1>2. CASE next' = next /\ resumed' = resumed
  BY <1>1, <1>2
<1>3. ASSUME NEW c \in Calls, Enroll(c) PROVE next' = next + 1 /\ resumed' = resumed
  BY <1>3 DEF Enroll
<1>4. ASSUME NEW c \in Calls, Cleanup(c)
      PROVE  next' = next /\ resumed' = [resumed EXCEPT ![c] = "done"]
  BY <1>4 DEF Cleanup, reducer
<1>5. ASSUME NEW e \in actor.found, Reinstate(e), actor.op = "reinstate"
      PROVE  /\ next' >= next /\ next' > e.key
             /\ resumed' = [resumed EXCEPT ![e.call] = "wait"]
  <2>1. e \in Pending
    BY <1>1, <1>5 DEF TypeOK, Idle
  <2>2. e.key \in Nat
    BY <2>1 DEF Pending
  <2> QED
    BY <1>1, <1>5, <2>2 DEF Reinstate
<1>6. CASE ReinstateNext
  <2>1. actor.op = "reinstate" /\ call' = call /\ ask' = ask /\ turn' = turn
    BY <1>6 DEF ReinstateNext
  <2>2. CASE \E e \in actor.found : Reinstate(e)
    <3>1. PICK e \in actor.found : Reinstate(e)
      BY <2>2
    <3>2. /\ next' >= next /\ next' > e.key
          /\ resumed' = [resumed EXCEPT ![e.call] = "wait"]
      BY <1>5, <2>1, <3>1
    <3> QED
      BY <1>1, <2>1, <3>2
  <2>3. CASE UNCHANGED <<reducer, resumed>>
    BY <1>2, <2>3 DEF reducer
  <2> QED
    BY <1>6, <2>2, <2>3 DEF ReinstateNext
<1>7. ASSUME NEW c \in Calls, CallStep(c), ~Enroll(c) PROVE next' = next /\ resumed' = resumed
  BY <1>7 DEF CallStep, GateBlocks, HooksDecide, HooksAsk, Run, Announce, TopOutcome,
      TopCancelled, TopTimeout, ChildHooks, ChildSend, ChildVerdict, ChildRun, reducer
<1>8. ASSUME NEW c \in Calls, SpawnerStep(c) \/ CancelChild(c)
      PROVE  next' = next /\ resumed' = resumed
  BY <1>8 DEF SpawnerStep, ParentFold, ParentOutcome, ParentTimeout, DropSpawner,
      CancelChild, reducer
<1>9. ASSUME \/ \E t \in Turns, th \in Threads : StartTurn(t, th)
             \/ \E t \in Turns, c \in Calls : BeginCall(t, c) \/ BeginChild(t, c)
             \/ \E t \in Turns : TurnStep(t) \/ CancelTurn(t)
             \/ \E p \in prompts, o \in Answers : Answer(p, o)
             \/ CancelAll \/ CancelPersist
             \/ \E th \in Threads : ResumeThread(th)
             \/ UNCHANGED vars
      PROVE  next' = next /\ resumed' = resumed
  BY <1>9 DEF StartTurn, BeginCall, BeginChild, TurnStep, BeginExecution, Finish, CancelTurn,
      Answer, CancelAll, CancelPersist, ResumeThread, vars, reducer
<1>10. ASSUME NEW c \in Calls, Enroll(c) \/ Cleanup(c)
       PROVE  next' >= next /\ (resumed'[d] = "wait" => resumed[d] = "wait")
  BY <1>1, <1>3, <1>4, <1>10
<1> QED
  BY <1>2, <1>6, <1>7, <1>8, <1>9, <1>10 DEF Next, ActorStep

(* Under an enrolled key there is one request of this life. *)
EnrollFacts(c) ==
    /\ call'[c].key = next /\ ask[c] = "enroll" /\ ask'[c] = "announce"
    /\ call'[c].turn = call[c].turn
    /\ \A d \in Calls : d # c => call'[d] = call[d] /\ ask'[d] = ask[d]
    /\ next' = next + 1 /\ turn' = turn /\ resumed' = resumed /\ actor' = actor
    /\ Rollouts' = Rollouts
    /\ ~Announced(c)

(* What enrolling a request does to it *)
LEMMA EnrollShape ==
    ASSUME IInv, HonourInv, NEW c \in Calls, Enroll(c)
    PROVE  EnrollFacts(c)
<1>1. TypeOK /\ HonourAt(c)
  BY DEF IInv, HonourInv
<1>2. call[c] \in CallRecord /\ call \in [Calls -> CallRecord]
  BY <1>1 DEF TypeOK
<1>3. /\ ask[c] = "enroll" /\ ask' = [ask EXCEPT ![c] = "announce"]
      /\ call' = [call EXCEPT ![c] = [call[c] EXCEPT !.key = next]]
      /\ next' = next + 1 /\ UNCHANGED <<turn, resumed, queue, log, lost, actor>>
  BY DEF Enroll, storage
<1>4. /\ call'[c].key = next /\ call'[c].turn = call[c].turn
      /\ \A d \in Calls : d # c => call'[d] = call[d]
  BY <1>2, <1>3 DEF CallRecord
<1>5. ask'[c] = "announce" /\ \A d \in Calls : d # c => ask'[d] = ask[d]
  BY <1>1, <1>3 DEF TypeOK
<1>6. Rollouts' = Rollouts
  BY <1>3 DEF Rollouts
<1>7. ~Announced(c)
  BY <1>1, <1>3 DEF Announced, HonourAt, WaitsForAnswer, Calls
<1> QED
  BY <1>3, <1>4, <1>5, <1>6, <1>7 DEF EnrollFacts

AnnounceFacts(c) ==
    /\ ask[c] = "announce" /\ ask'[c] = "wait" /\ call' = call
    /\ \A d \in Calls : d # c => ask'[d] = ask[d]
    /\ turn' = turn
    /\ Deferred(c) /\ call[c].ctx # NoTurn =>
           Rollouts' = Append(Rollouts, PendingEntry(c)) \/ PendingEntry(c) \in lost'
    /\ Rollouts' = Rollouts \/ Rollouts' = Append(Rollouts, PendingEntry(c))
    /\ call[c].pc # "new"

(* What announcing a request does to it and to the rollouts *)
LEMMA AnnounceShape ==
    ASSUME IInv, HonourInv, NEW c \in Calls, Announce(c)
    PROVE  AnnounceFacts(c)
<1>1. TypeOK /\ HonourAt(c) /\ log \in Seq(Entry) /\ queue \in Seq(Entry) /\ lost \subseteq Entry
  BY DEF IInv, HonourInv, TypeOK
<1>2. /\ ask[c] = "announce" /\ ask' = [ask EXCEPT ![c] = "wait"] /\ call' = call
      /\ turn' = turn /\ log' = log
      /\ IF Deferred(c) /\ call[c].ctx # NoTurn THEN Send(PendingEntry(c)) ELSE SendNothing
  BY DEF Announce
<1>3. PendingEntry(c) \in Entry
  BY <1>1 DEF TypeOK, PendingEntry, Entry, Pending, ThreadOf, CallRecord
<1>4. log \o Append(queue, PendingEntry(c)) = Append(log \o queue, PendingEntry(c))
  BY <1>1, <1>3, AppendToBoth
<1>5. ask'[c] = "wait" /\ \A d \in Calls : d # c => ask'[d] = ask[d]
  BY <1>1, <1>2 DEF TypeOK
<1>6. call[c].pc # "new"
  BY <1>1, <1>2 DEF HonourAt, WaitsForAnswer, Calls
<1>7. CASE Send(PendingEntry(c))
  <2>1. CASE queue' = Append(queue, PendingEntry(c))
    BY <1>2, <1>4, <1>5, <1>6, <2>1 DEF Rollouts, AnnounceFacts
  <2>2. CASE queue' = queue /\ PendingEntry(c) \in lost'
    BY <1>2, <1>5, <1>6, <2>2 DEF Rollouts, AnnounceFacts
  <2> QED
    BY <1>7, <2>1, <2>2 DEF Send
<1>8. CASE ~(Deferred(c) /\ call[c].ctx # NoTurn)
  BY <1>2, <1>5, <1>6, <1>8 DEF Rollouts, SendNothing, AnnounceFacts
<1> QED
  BY <1>2, <1>7, <1>8

(* What a pending entry says stays true. *)
LEMMA ToldKept ==
    ASSUME IInv, HonourInv, [Next]_vars, NEW e, e.call \in Calls, Told(e)
    PROVE  e.key = call'[e.call].key /\ Announced(e.call)'
<1> DEFINE d == e.call
<1>1. e.key = call[d].key /\ Announced(d)
  BY DEF Told
<1>2. CASE Crash
  <2>1. call'[d].key = call[d].key /\ call'[d].pc = "lost"
    BY <1>1, <1>2 DEF Crash, Announced
  <2> QED
    BY <1>1, <2>1 DEF Announced
<1>3. ASSUME NEW c \in Calls, Enroll(c) PROVE e.key = call'[d].key /\ Announced(d)'
  <2>1. call'[d] = call[d] /\ ask'[d] = ask[d]
    BY <1>1, <1>3, EnrollShape DEF EnrollFacts
  <2> QED
    BY <1>1, <2>1 DEF Announced
<1>4. ASSUME NEW c \in Calls, Announce(c) PROVE e.key = call'[d].key /\ Announced(d)'
  <2>1. call' = call /\ (ask'[d] = ask[d] \/ ask'[d] = "wait")
    BY <1>4, AnnounceShape DEF AnnounceFacts
  <2> QED
    BY <1>1, <2>1 DEF Announced
<1>5. CASE ~Crash /\ \A c \in Calls : ~Enroll(c) /\ ~Announce(c)
  <2>1. Calm(d)
    BY <1>5, CalmSteps
  <2> QED
    BY <1>1, <2>1 DEF Calm
<1> QED
  BY <1>2, <1>3, <1>4, <1>5

(* The entries a step adds. *)
LEMMA EntriesTold ==
    ASSUME IInv, HonourInv, KeysInv, [Next]_vars
    PROVE  \A i \in DOMAIN Rollouts' : \A e :
               e = Rollouts'[i] /\ e.kind = "pending" =>
                   e.key = call'[e.call].key /\ Announced(e.call)'
<1> SUFFICES ASSUME NEW i \in DOMAIN Rollouts', NEW e, e = Rollouts'[i], e.kind = "pending"
             PROVE  e.key = call'[e.call].key /\ Announced(e.call)'
  OBVIOUS
<1>1. TypeOK /\ log \in Seq(Entry) /\ queue \in Seq(Entry) /\ Rollouts \in Seq(Entry)
  <2>1. log \in Seq(Entry) /\ queue \in Seq(Entry)
    BY DEF IInv, TypeOK
  <2> QED
    BY <2>1, ConcatProperties DEF Rollouts, IInv
<1>2. e = Rollouts'[i] /\ e.kind = "pending"
  OBVIOUS
<1>4. ASSUME NEW j \in DOMAIN Rollouts, e = Rollouts[j]
      PROVE  e.key = call'[e.call].key /\ Announced(e.call)'
  <2>1. Told(e)
    BY <1>2, <1>4 DEF KeysInv, ToldInv
  <2>2. e \in Entry /\ e.kind = "pending"
    BY <1>1, <1>2, <1>4
  <2>3. e.call \in Calls
    BY <2>2 DEF Entry, Pending, Resolved, Ended
  <2> QED
    BY <2>1, <2>3, ToldKept
<1>5. CASE Crash
  <2>1. PICK n \in 0 .. Len(queue) : log' = log \o SubSeq(queue, 1, n)
    BY <1>5 DEF Crash, WriterGotTo
  <2>2. queue' = <<>>
    BY <1>5 DEF Crash
  <2>3. log \o SubSeq(queue, 1, n) \in Seq(Entry)
    BY <1>1, PrefixOfBoth
  <2>4. Rollouts' = log \o SubSeq(queue, 1, n)
    BY <2>1, <2>2, <2>3, ConcatEmptySeq DEF Rollouts
  <2>5. i \in DOMAIN (log \o queue) /\ (log \o SubSeq(queue, 1, n))[i] = (log \o queue)[i]
    BY <1>1, <2>4, PrefixOfBoth
  <2> QED
    BY <1>2, <1>4, <2>4, <2>5 DEF Rollouts
<1>6. CASE Rollouts' = Rollouts
  BY <1>2, <1>4, <1>6
<1>7. ASSUME NEW x \in Entry, Rollouts' = Append(Rollouts, x)
      PROVE  (\E j \in DOMAIN Rollouts : e = Rollouts[j]) \/ e = x
  BY <1>1, <1>2, <1>7
<1>8. CASE \E t \in Turns :
               Rollouts' = Append(Rollouts, [th |-> turn[t].th, kind |-> "ended", turn |-> t])
  <2>1. PICK t \in Turns :
               Rollouts' = Append(Rollouts, [th |-> turn[t].th, kind |-> "ended", turn |-> t])
    BY <1>8
  <2>2. [th |-> turn[t].th, kind |-> "ended", turn |-> t] \in Entry
    BY <1>1 DEF TypeOK, Entry, Ended, TurnRecord
  <2> QED
    BY <1>2, <1>4, <1>7, <2>1, <2>2
<1>9. CASE \E c \in Calls : Rollouts' = Append(Rollouts, Marker(c))
  <2>1. PICK c \in Calls : Rollouts' = Append(Rollouts, Marker(c))
    BY <1>9
  <2>2. Marker(c) \in Entry /\ Marker(c).kind = "resolved"
    BY <1>1 DEF TypeOK, Marker, Entry, Resolved, ThreadOf, CallRecord
  <2> QED
    BY <1>2, <1>4, <1>7, <2>1, <2>2
<1>10. CASE \E c \in Calls : Announce(c) /\ Rollouts' = Append(Rollouts, PendingEntry(c))
  <2>1. PICK c \in Calls : Announce(c) /\ Rollouts' = Append(Rollouts, PendingEntry(c))
    BY <1>10
  <2>2. PendingEntry(c) \in Entry /\ PendingEntry(c).key = call[c].key /\ PendingEntry(c).call = c
    BY <1>1 DEF TypeOK, PendingEntry, Entry, Pending, ThreadOf, CallRecord
  <2>3. call' = call /\ ask'[c] = "wait" /\ call[c].pc # "new"
    BY <2>1, AnnounceShape DEF AnnounceFacts
  <2>4. call[c].key = call'[c].key /\ Announced(c)'
    BY <2>3 DEF Announced
  <2>5. CASE e = PendingEntry(c)
    <3>1. e.key = call[c].key /\ e.call = c
      BY <2>2, <2>5
    <3> QED
      BY <2>4, <3>1
  <2> QED
    BY <1>4, <1>7, <2>1, <2>2, <2>5
<1> QED
  BY <1>5, <1>6, <1>8, <1>9, <1>10, RollShape

(* Every step keeps the three parts about keys. *)
LEMMA KeysStep ==
    IInv /\ HonourInv /\ LiveInv /\ KeysInv /\ [Next]_vars => KeysInv'
<1> SUFFICES ASSUME IInv, HonourInv, LiveInv, KeysInv, [Next]_vars PROVE KeysInv'
  OBVIOUS
<1>1. TypeOK /\ ListenInv /\ next \in Nat
  BY DEF IInv, TypeOK
<1>2. (\A i \in DOMAIN Rollouts : Rollouts[i].kind = "pending" => Told(Rollouts[i]))'
  <2>1. \A i \in DOMAIN Rollouts' : \A e :
            e = Rollouts'[i] /\ e.kind = "pending" =>
                e.key = call'[e.call].key /\ Announced(e.call)'
    BY EntriesTold
  <2> QED
    BY <2>1 DEF Told, Announced
<1>3. ASSUME NEW c \in Calls, NEW d \in Calls, c # d,
             ask'[c] \in {"announce", "wait"}, ask'[d] \in {"announce", "wait"}
      PROVE  call'[c].key # call'[d].key
  <2>1. ~Crash
    BY <1>3 DEF Crash
  <2>2. ASSUME NEW b \in Calls, Enroll(b) PROVE call'[c].key # call'[d].key
    <3>1. EnrollFacts(b)
      BY <2>2, EnrollShape
    <3>2. \A x \in Calls : x # b /\ ask'[x] \in {"announce", "wait"} =>
              call'[x].key < next /\ call'[x].key = call[x].key /\ ask[x] \in {"announce", "wait"}
      BY <1>1, <3>1 DEF EnrollFacts, ListenInv
    <3>3. CASE c # b /\ d # b
      BY <1>3, <3>2, <3>3 DEF KeysInv, DistinctInv
    <3>4. CASE c = b \/ d = b
      BY <1>1, <1>3, <3>1, <3>2, <3>4 DEF EnrollFacts
    <3> QED
      BY <3>3, <3>4
  <2>3. ASSUME NEW b \in Calls, Announce(b) PROVE call'[c].key # call'[d].key
    BY <1>3, <2>3, AnnounceShape DEF AnnounceFacts, KeysInv, DistinctInv
  <2>4. CASE \A b \in Calls : ~Enroll(b) /\ ~Announce(b)
    <3>1. Calm(c) /\ Calm(d)
      BY <2>1, <2>4, CalmSteps
    <3> QED
      BY <1>3, <3>1 DEF Calm, KeysInv, DistinctInv
  <2> QED
    BY <2>2, <2>3, <2>4
<1>4. ASSUME actor'.op = "reinstate", NEW e \in actor'.found
      PROVE  e.key = call'[e.call].key /\ Announced(e.call)'
  <2>1. CASE actor.op = "reinstate" /\ actor'.found \subseteq actor.found
    <3>1. Told(e) /\ e \in Pending
      BY <1>1, <1>4, <2>1 DEF KeysInv, ToldInv, TypeOK, Idle
    <3>2. e.call \in Calls
      BY <3>1 DEF Pending
    <3> QED
      BY <3>1, <3>2, ToldKept
  <2>2. CASE \E th \in Threads : ResumeThread(th)
    <3>1. PICK th \in Threads : ResumeThread(th)
      BY <2>2
    <3>2. e \in Unresolved(th, log')
      BY <1>4, <3>1 DEF ResumeThread
    <3>3. PICK i \in DOMAIN log' : e = log'[i] /\ e.kind = "pending"
      BY <3>2 DEF Unresolved
    <3>4. PICK n \in 0 .. Len(queue) : log' = log \o SubSeq(queue, 1, n)
      BY <3>1 DEF ResumeThread, WriterGotTo
    <3>5. log \in Seq(Entry) /\ queue \in Seq(Entry)
      BY <1>1 DEF TypeOK
    <3>6. i \in DOMAIN (log \o queue) /\ e = (log \o queue)[i]
      BY <3>3, <3>4, <3>5, PrefixOfBoth
    <3>7. Told(e)
      BY <3>3, <3>6 DEF KeysInv, ToldInv, Rollouts
    <3>8. e \in Entry
      BY <3>5, <3>6, ConcatProperties
    <3>9. e.call \in Calls
      BY <3>3, <3>8 DEF Entry, Pending, Resolved, Ended
    <3> QED
      BY <3>7, <3>9, ToldKept
  <2> QED
    BY <1>4, <2>1, <2>2, ReinstateSteps
<1>5. ASSUME NEW d \in Calls, resumed'[d] = "wait"
      PROVE  /\ Announced(d)' /\ call'[d].key < next'
             /\ \A c \in Calls : /\ ask'[c] \in {"announce", "wait"}
                                 /\ ~turn'[call'[c].turn].cancelled
                                 => call'[d].key # call'[c].key
  <2>1. ~Crash
    BY <1>5 DEF Crash
  <2>2. next' >= next /\ next' \in Nat /\ next \in Nat
    BY <1>1, <2>1, ResumedShape, NextInv DEF IInv, TypeOK
  <2>3. CASE resumed[d] = "wait"
    <3>1. Announced(d) /\ call[d].key < next
      BY <2>3 DEF KeysInv, ReinstatedInv
    <3>2. call[d].key \in Nat
      BY <1>1 DEF TypeOK, CallRecord
    <3>3. call'[d].key = call[d].key /\ Announced(d)'
      <4> DEFINE e == [key |-> call[d].key, call |-> d]
      <4>1. Told(e) /\ e.call \in Calls
        BY <3>1 DEF Told
      <4>2. e.key = call'[e.call].key /\ Announced(e.call)'
        BY <4>1, ToldKept
      <4> QED
        BY <4>2
    <3>4. ASSUME NEW c \in Calls, ask'[c] \in {"announce", "wait"},
                 ~turn'[call'[c].turn].cancelled
          PROVE  call'[d].key # call'[c].key
      <4>1. ASSUME call'[c].turn = call[c].turn, ask[c] \in {"enroll", "announce", "wait"}
            PROVE  ~turn[call[c].turn].cancelled
        <5>1. call[c].turn \in Turns
          BY <4>1 DEF HonourInv, HonourAt, WaitsForAnswer, Calls
        <5> QED
          BY <2>1, <3>4, <4>1, <5>1, TurnFacts
      <4>2. ASSUME NEW b \in Calls, Enroll(b) PROVE call'[d].key # call'[c].key
        <5>1. EnrollFacts(b)
          BY <4>2, EnrollShape
        <5>2. CASE c = b
          BY <1>1, <3>1, <3>2, <3>3, <5>1, <5>2 DEF EnrollFacts
        <5>3. CASE c # b
          BY <2>3, <3>3, <3>4, <4>1, <5>1, <5>3 DEF EnrollFacts, KeysInv, ReinstatedInv
        <5> QED
          BY <5>2, <5>3
      <4>3. ASSUME NEW b \in Calls, Announce(b) PROVE call'[d].key # call'[c].key
        <5>1. AnnounceFacts(b)
          BY <4>3, AnnounceShape
        <5> QED
          BY <2>3, <3>3, <3>4, <4>1, <5>1 DEF AnnounceFacts, KeysInv, ReinstatedInv
      <4>4. CASE \A b \in Calls : ~Enroll(b) /\ ~Announce(b)
        <5>1. Calm(c)
          BY <2>1, <4>4, CalmSteps
        <5>2. /\ ask[c] \in {"announce", "wait"} /\ call'[c].turn = call[c].turn
              /\ call'[c].key = call[c].key
          BY <3>4, <5>1 DEF Calm
        <5> QED
          BY <2>3, <3>3, <4>1, <5>2 DEF KeysInv, ReinstatedInv
      <4> QED
        BY <4>2, <4>3, <4>4
    <3> QED
      BY <2>2, <3>1, <3>2, <3>3, <3>4
  <2>4. CASE resumed[d] # "wait"
    <3>1. PICK e \in actor.found : e.call = d /\ next' > e.key
      BY <1>5, <2>1, <2>4, ResumedShape
    <3>2. actor.op = "reinstate" /\ call' = call /\ ask' = ask /\ turn' = turn
      BY <1>5, <2>1, <2>4, ResumedShape
    <3>3. Told(e)
      BY <3>1, <3>2 DEF KeysInv, ToldInv
    <3>4. Announced(d)' /\ call'[d].key = e.key
      BY <3>1, <3>2, <3>3 DEF Told, Announced
    <3>5. e.key \in Nat
      BY <1>1, <3>2, <3>4 DEF TypeOK, CallRecord
    <3>6. ASSUME NEW c \in Calls, ask'[c] \in {"announce", "wait"},
                 ~turn'[call'[c].turn].cancelled
          PROVE  FALSE
      <4>1. Unfinished(c) /\ ~turn[call[c].turn].cancelled
        BY <3>2, <3>6 DEF Unfinished
      <4>2. turn[call[c].turn].slot = "live"
        BY <4>1 DEF LiveInv
      <4>3. call[c].turn \in Turns
        BY <3>2, <3>6 DEF HonourInv, HonourAt, WaitsForAnswer, Calls
      <4> QED
        BY <3>2, <4>2, <4>3 DEF LiveInv
    <3> QED
      BY <2>2, <3>1, <3>4, <3>5, <3>6
  <2> QED
    BY <2>3, <2>4
<1>7. actor'.op = "reinstate" =>
          \A e \in actor'.found : e.key = call'[e.call].key /\ Announced(e.call)'
  BY <1>4
<1> QED
  <2>1. DistinctInv'
    BY <1>3 DEF DistinctInv
  <2>2. ToldInv'
    BY <1>2, <1>7 DEF ToldInv, Told, Announced
  <2>3. ReinstatedInv'
    BY <1>5 DEF ReinstatedInv
  <2> QED
    BY <2>1, <2>2, <2>3 DEF KeysInv

(* Another request's entry does not supersede the pending one. *)
LEMMA HeldAppend ==
    ASSUME NEW c \in Calls, NEW s \in Seq(Entry), NEW e \in Entry, Held(c, s),
           ~(e.th = ThreadOf(c) /\ e.kind # "ended" /\ e.key = call[c].key)
    PROVE  Held(c, Append(s, e))
<1>1. PICK i \in DOMAIN s :
          /\ s[i] = PendingEntry(c)
          /\ \A j \in DOMAIN s : j > i =>
                 ~(s[j].th = ThreadOf(c) /\ s[j].kind # "ended" /\ s[j].key = call[c].key)
  BY DEF Held
<1>2. /\ Len(s) \in Nat /\ DOMAIN s = 1 .. Len(s)
      /\ DOMAIN Append(s, e) = 1 .. Len(s) + 1
      /\ \A j \in 1 .. Len(s) : Append(s, e)[j] = s[j]
      /\ Append(s, e)[Len(s) + 1] = e
  BY LenProperties, AppendProperties
<1>3. i \in DOMAIN Append(s, e) /\ Append(s, e)[i] = PendingEntry(c)
  BY <1>1, <1>2
<1>4. ASSUME NEW j \in DOMAIN Append(s, e), j > i
      PROVE  ~(Append(s, e)[j].th = ThreadOf(c) /\ Append(s, e)[j].kind # "ended"
               /\ Append(s, e)[j].key = call[c].key)
  <2>1. CASE j \in DOMAIN s
    BY <1>1, <1>2, <1>4, <2>1
  <2>2. CASE j = Len(s) + 1
    BY <1>2, <2>2
  <2> QED
    BY <1>2, <2>1, <2>2
<1> QED
  BY <1>3, <1>4 DEF Held

(* An entry that has just been appended is superseded by none. *)
LEMMA HeldLast ==
    ASSUME NEW c \in Calls, NEW s \in Seq(Entry), PendingEntry(c) \in Entry
    PROVE  Held(c, Append(s, PendingEntry(c)))
<1>1. /\ Len(s) \in Nat /\ DOMAIN Append(s, PendingEntry(c)) = 1 .. Len(s) + 1
      /\ Append(s, PendingEntry(c))[Len(s) + 1] = PendingEntry(c)
  BY LenProperties, AppendProperties
<1> QED
  BY <1>1 DEF Held

(* An entry that is lost stays lost. *)
LEMMA LostGrows ==
    ASSUME IInv, [Next]_vars
    PROVE  lost \subseteq lost'
<1>1. \A e : Send(e) \/ SendNothing => lost \subseteq lost'
  BY DEF Send, SendNothing
<1>2. ASSUME NEW t \in Turns,
             \/ \E th \in Threads : StartTurn(t, th)
             \/ \E c \in Calls : BeginCall(t, c) \/ BeginChild(t, c)
             \/ CancelTurn(t) \/ TurnStep(t)
      PROVE  lost \subseteq lost'
  BY <1>1, <1>2 DEF StartTurn, BeginCall, BeginChild, CancelTurn, TurnStep, BeginExecution,
      Finish, storage
<1>3. ASSUME NEW c \in Calls, CallStep(c) PROVE lost \subseteq lost'
  BY <1>1, <1>3 DEF CallStep, GateBlocks, HooksDecide, HooksAsk, Run, Enroll, Announce,
      TopOutcome, TopCancelled, TopTimeout, ChildHooks, ChildSend, ChildVerdict, ChildRun, storage
<1>4. ASSUME NEW c \in Calls, SpawnerStep(c) \/ CancelChild(c) \/ Cleanup(c)
      PROVE  lost \subseteq lost'
  BY <1>1, <1>4 DEF SpawnerStep, ParentFold, ParentOutcome, ParentTimeout, DropSpawner,
      CancelChild, Cleanup, storage
<1>5. ASSUME \/ \E p \in prompts, o \in Answers : Answer(p, o)
             \/ ActorStep
             \/ \E th \in Threads : ResumeThread(th)
             \/ Crash
             \/ UNCHANGED vars
      PROVE  lost \subseteq lost'
  BY <1>1, <1>5 DEF Answer, ActorStep, CancelAll, CancelPersist, ReinstateNext, ResumeThread,
      Crash, vars, storage
<1> QED
  BY <1>2, <1>3, <1>4, <1>5 DEF Next

(* Every step keeps HeldInv. *)
LEMMA HeldStep ==
    IInv /\ HonourInv /\ LiveInv /\ KeysInv /\ HeldInv /\ [Next]_vars => HeldInv'
<1> SUFFICES ASSUME IInv, HonourInv, LiveInv, KeysInv, HeldInv, [Next]_vars,
                    NEW c \in Calls,
                    Deferred(c)', ask'[c] = "wait", call'[c].ctx # NoTurn,
                    ~turn'[call'[c].turn].cancelled
             PROVE  Held(c, Rollouts)' \/ PendingEntry(c)' \in lost'
  BY DEF HeldInv
<1>1. TypeOK /\ Rollouts \in Seq(Entry)
  <2>1. log \in Seq(Entry) /\ queue \in Seq(Entry)
    BY DEF IInv, TypeOK
  <2> QED
    BY <2>1, ConcatProperties DEF Rollouts, IInv
<1>2. ~Crash
  BY DEF Crash
<1>3. \A b \in Calls : PendingEntry(b) \in Entry /\ Marker(b) \in Entry
  BY <1>1 DEF TypeOK, PendingEntry, Marker, Entry, Pending, Resolved, ThreadOf, CallRecord
<1> DEFINE Kept == Held(c, Rollouts)' \/ PendingEntry(c)' \in lost'
<1>4. ASSUME Held(c, Rollouts') \/ PendingEntry(c) \in lost \/ PendingEntry(c) \in lost',
             call'[c].key = call[c].key, call'[c].th = call[c].th
      PROVE  Kept
  <2>1. PendingEntry(c)' = PendingEntry(c)
    BY <1>4 DEF PendingEntry, ThreadOf
  <2>2. CASE Held(c, Rollouts')
    BY <1>4, <2>1, <2>2 DEF Held, ThreadOf
  <2> QED
    BY <1>4, <2>1, <2>2, LostGrows
<1>5. ASSUME call'[c].turn = call[c].turn, ask[c] = "wait"
      PROVE  ~turn[call[c].turn].cancelled
  <2>1. call[c].turn \in Turns
    BY <1>5 DEF HonourInv, HonourAt, WaitsForAnswer, Calls
  <2> QED
    BY <1>2, <1>5, <2>1, TurnFacts
<1>6. ASSUME NEW b \in Calls, Enroll(b) PROVE Kept
  <2>1. EnrollFacts(b)
    BY <1>6, EnrollShape
  <2>2. c # b /\ call'[c] = call[c] /\ ask[c] = "wait" /\ Rollouts' = Rollouts
    BY <2>1 DEF EnrollFacts
  <2>3. Held(c, Rollouts) \/ PendingEntry(c) \in lost
    BY <1>5, <2>2 DEF HeldInv, Deferred
  <2> QED
    BY <1>4, <2>2, <2>3
<1>7. ASSUME NEW b \in Calls, Announce(b) PROVE Kept
  <2>1. AnnounceFacts(b)
    BY <1>7, AnnounceShape
  <2>2. CASE c = b
    <3>1. Rollouts' = Append(Rollouts, PendingEntry(c)) \/ PendingEntry(c) \in lost'
      BY <2>1, <2>2 DEF AnnounceFacts, Deferred
    <3>2. Held(c, Rollouts') \/ PendingEntry(c) \in lost'
      BY <1>1, <1>3, <3>1, HeldLast
    <3> QED
      BY <1>4, <2>1, <3>2 DEF AnnounceFacts
  <2>3. CASE c # b
    <3>1. call' = call /\ ask[c] = "wait" /\ ask[b] = "announce"
      BY <2>1, <2>3 DEF AnnounceFacts
    <3>2. Held(c, Rollouts) \/ PendingEntry(c) \in lost
      BY <1>5, <3>1 DEF HeldInv, Deferred
    <3>3. call[b].key # call[c].key
      BY <2>3, <3>1 DEF KeysInv, DistinctInv
    <3>4. PendingEntry(b).key # call[c].key
      BY <3>3 DEF PendingEntry
    <3>5. Held(c, Rollouts) => Held(c, Append(Rollouts, PendingEntry(b)))
      BY <1>1, <1>3, <3>4, HeldAppend
    <3>6. Held(c, Rollouts') \/ PendingEntry(c) \in lost
      BY <2>1, <3>2, <3>5 DEF AnnounceFacts
    <3> QED
      BY <1>4, <3>1, <3>6
  <2> QED
    BY <2>2, <2>3
<1>8. CASE \A b \in Calls : ~Enroll(b) /\ ~Announce(b)
  <2>1. Calm(c)
    BY <1>2, <1>8, CalmSteps
  <2>2. /\ ask[c] = "wait" /\ call'[c].turn = call[c].turn /\ call'[c].th = call[c].th
        /\ call'[c].key = call[c].key /\ Deferred(c) /\ call[c].ctx # NoTurn
    BY <2>1 DEF Calm
  <2>3. ~turn[call[c].turn].cancelled
    BY <1>5, <2>2
  <2>4. Held(c, Rollouts) \/ PendingEntry(c) \in lost
    BY <2>2, <2>3 DEF HeldInv
  <2>5. CASE Rollouts' = Rollouts
    BY <1>4, <2>2, <2>4, <2>5
  <2>6. CASE \E t \in Turns :
                 Rollouts' = Append(Rollouts, [th |-> turn[t].th, kind |-> "ended", turn |-> t])
    <3>1. PICK t \in Turns :
                 Rollouts' = Append(Rollouts, [th |-> turn[t].th, kind |-> "ended", turn |-> t])
      BY <2>6
    <3>2. [th |-> turn[t].th, kind |-> "ended", turn |-> t] \in Entry
      BY <1>1 DEF TypeOK, Entry, Ended, TurnRecord
    <3>3. Held(c, Rollouts') \/ PendingEntry(c) \in lost
      BY <1>1, <2>4, <3>1, <3>2, HeldAppend
    <3> QED
      BY <1>4, <2>2, <3>3
  <2>7. ASSUME NEW d \in Calls, (ask[d] = "wait" /\ ask'[d] = "done") \/ resumed[d] = "wait",
               Rollouts' = Append(Rollouts, Marker(d))
        PROVE  Kept
    <3>1. call[d].key # call[c].key
      <4>1. CASE ask[d] = "wait" /\ ask'[d] = "done"
        BY <2>2, <4>1 DEF KeysInv, DistinctInv
      <4>2. CASE resumed[d] = "wait"
        BY <2>2, <2>3, <4>2 DEF KeysInv, ReinstatedInv
      <4> QED
        BY <2>7, <4>1, <4>2
    <3>2. Marker(d).key # call[c].key
      BY <3>1 DEF Marker
    <3>3. Held(c, Rollouts') \/ PendingEntry(c) \in lost
      BY <1>1, <1>3, <2>4, <2>7, <3>2, HeldAppend
    <3> QED
      BY <1>4, <2>2, <3>3
  <2> QED
    BY <1>2, <1>8, <2>5, <2>6, <2>7, RollShape
<1> QED
  BY <1>6, <1>7, <1>8

(* No request is under way, and the rollouts are empty. *)
LEMMA DurableInit == Init => LiveInv /\ KeysInv /\ HeldInv
<1> SUFFICES ASSUME Init PROVE LiveInv /\ KeysInv /\ HeldInv
  OBVIOUS
<1>1. /\ \A c \in Calls : call[c].pc = "new" /\ ask[c] = "none" /\ resumed[c] = "none"
      /\ \A t \in Turns : turn[t].task = "none"
      /\ actor = Idle /\ log = <<>> /\ queue = <<>>
  BY DEF Init
<1>2. Rollouts = <<>>
  BY <1>1 DEF Rollouts
<1>3. LiveInv
  BY <1>1 DEF LiveInv, Unfinished, Unsettled, Idle
<1>4. DistinctInv /\ ReinstatedInv /\ HeldInv
  BY <1>1 DEF DistinctInv, ReinstatedInv, HeldInv
<1>5. ToldInv
  BY <1>1, <1>2 DEF ToldInv, Idle
<1> QED
  BY <1>3, <1>4, <1>5 DEF KeysInv

(* A suspended turn can be picked up after a crash, for any number of calls, *)
(* turns, threads, restarts and resumes: the rollout holds the deferred      *)
(* request as unresolved while it waits, whatever other requests and         *)
(* reinstated ones of the thread do and whichever of their entries are lost, *)
(* unless its own entry was (`PermissionSuspended`, `enqueue_storage_op`,    *)
(* `read_rollout_turns`, `PendingPermissions::insert`, `reinstate`).         *)
THEOREM SuspensionsAreDurable == Spec => []SuspendedIsDurable
<1> DEFINE All == IInv /\ HonourInv /\ LiveInv /\ KeysInv /\ HeldInv
<1>1. All => SuspendedIsDurable
  <2> SUFFICES ASSUME IInv, HeldInv, NEW c \in Calls, Deferred(c), ask[c] = "wait",
                      call[c].ctx # NoTurn, ~turn[TurnOf(c)].cancelled,
                      PendingEntry(c) \notin lost
               PROVE  PendingEntry(c) \in Unresolved(ThreadOf(c), Rollouts)
    BY DEF SuspendedIsDurable
  <2>1. Held(c, Rollouts)
    BY DEF HeldInv, TurnOf
  <2>2. Len(Rollouts) \in Nat /\ DOMAIN Rollouts = 1 .. Len(Rollouts)
    <3>1. log \in Seq(Entry) /\ queue \in Seq(Entry)
      BY DEF IInv, TypeOK
    <3> QED
      BY <3>1, ConcatProperties, LenProperties DEF Rollouts
  <2>3. PICK i \in DOMAIN Rollouts :
            /\ Rollouts[i] = PendingEntry(c)
            /\ \A j \in DOMAIN Rollouts : j > i =>
                   ~(Rollouts[j].th = ThreadOf(c) /\ Rollouts[j].kind # "ended"
                     /\ Rollouts[j].key = call[c].key)
    BY <2>1 DEF Held
  <2>4. /\ Rollouts[i].th = ThreadOf(c) /\ Rollouts[i].kind = "pending"
        /\ Rollouts[i].key = call[c].key
    BY <2>3 DEF PendingEntry
  <2>5. ~\E j \in (i + 1) .. Len(Rollouts) :
              /\ Rollouts[j].th = ThreadOf(c)
              /\ Rollouts[j].kind # "ended"
              /\ Rollouts[j].key = Rollouts[i].key
    BY <2>2, <2>3, <2>4
  <2> QED
    BY <2>3, <2>4, <2>5 DEF Unresolved
<1>2. Init => All
  BY InitInv, HonourInit, DurableInit
<1>3. All /\ [Next]_vars => All'
  BY NextInv, HonourNext, LiveStep, KeysStep, HeldStep
<1> QED
  BY <1>1, <1>2, <1>3, PTL DEF Spec

=============================================================================
