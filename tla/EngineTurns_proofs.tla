------------------------ MODULE EngineTurns_proofs ------------------------
(***************************************************************************)
(* Machine-checked facts about EngineTurns, for any sets of threads, any   *)
(* finite set of inputs and any number of turns, retries and iterations:   *)
(* types and the phase, the endings of turns, the agreement of the views   *)
(* of a thread, the reach of a cancel, and the injected items.             *)
(***************************************************************************)
EXTENDS EngineTurns, SequenceTheorems, FiniteSetTheorems, TLAPS

USE DEF None

StartPcs == {"startDrain", "startInstall", "startStatus", "startBuffer",
             "startPush", "startSpawn"}
CancelPcs == {"cancelAbort", "cancelStatus", "cancelBuffer", "cancelPersist",
              "cancelPhase"}

(* TypeOK is not inductive alone: a step indexes the per-thread state by the *)
(* thread its process works on, so that thread has to be a thread.           *)
Addressed ==
    /\ apc \in StartPcs => athread \in Threads /\ aturn \in Turns
    /\ apc \in CancelPcs => athread \in Threads /\ aturn \in Turns
    /\ \A n \in Turns : pc[n] # "none" \/ cpc[n] # "none" => turnThread[n] \in Threads
    /\ \A c \in Compactors : cpc[c] # "none" => cthread[c] \in Threads
    /\ \A n \in Turns : pc[n] \in {"retryEnter", "backoff", "retryLeave"}
                           => loc[n].attempt < MaxProviderRetries

-----------------------------------------------------------------------------
(* Typing of the helpers *)

(* ThreadHandle::push_item keeps a transcript a set of entries *)
LEMMA PushType ==
    ASSUME TypeOK, NEW t \in Threads, NEW n \in Turns, Push(t, n)
    PROVE  hist' \in [Threads -> SUBSET Entry]
<1> DEFINE e == [by |-> n, into |-> active[t]]
<1>1. active[t] \in Turns \cup {None}
  BY DEF TypeOK
<1>2. e \in Entry
  BY <1>1 DEF Entry
<1>3. hist \in [Threads -> SUBSET Entry]
  BY DEF TypeOK
<1> QED
  BY <1>2, <1>3 DEF Push

(* What a storage operation may leave behind: nothing once the sender is     *)
(* gone, and otherwise the value sent or the mark of a dropped operation     *)
LEMMA RowSent ==
    ASSUME TypeOK, NEW t \in Threads, NEW st \in {"Idle", "Active"}, EnqueueRow(t, st)
    PROVE  /\ row' \in [Threads -> RowValues]
           /\ \A u \in Threads : u # t => row'[u] = row[u]
           /\ row'[t] \in {row[t], st, "Stale"}
           /\ storageOpen => row'[t] \in {st, "Stale"}
<1>1. row \in [Threads -> RowValues]
  BY DEF TypeOK
<1>2. \A r \in Sent(st, "Stale") : r \in {st, "Stale"}
  BY DEF Sent
<1>3. \A r \in {st, "Stale"} : r \in RowValues
  BY DEF RowValues
<1>4. CASE storageOpen
  <2>1. PICK r \in {st, "Stale"} : row' = [row EXCEPT ![t] = r]
    BY <1>2, <1>4 DEF EnqueueRow
  <2> QED
    BY <1>1, <1>3, <2>1
<1>5. CASE ~storageOpen
  BY <1>1, <1>5 DEF EnqueueRow
<1> QED
  BY <1>4, <1>5

LEMMA EndedSent ==
    ASSUME TypeOK, NEW n \in Turns, NEW st \in {"Completed", "Failed", "Interrupted"},
           EnqueueEnded(n, st)
    PROVE  /\ ended' \in [Turns -> EndedValues]
           /\ \A m \in Turns : m # n => ended'[m] = ended[m]
           /\ ended'[n] \in {ended[n], st, "Lost"}
           /\ storageOpen => ended'[n] \in {st, "Lost"}
<1>1. ended \in [Turns -> EndedValues]
  BY DEF TypeOK
<1>2. \A e \in Sent(st, "Lost") : e \in {st, "Lost"}
  BY DEF Sent
<1>3. \A e \in {st, "Lost"} : e \in EndedValues
  BY DEF EndedValues
<1>4. CASE storageOpen
  <2>1. PICK e \in {st, "Lost"} : ended' = [ended EXCEPT ![n] = e]
    BY <1>2, <1>4 DEF EnqueueEnded
  <2> QED
    BY <1>1, <1>3, <2>1
<1>5. CASE ~storageOpen
  BY <1>1, <1>5 DEF EnqueueEnded
<1> QED
  BY <1>4, <1>5

(* The updates run_turn makes to its locals keep their types *)
LEMMA LocType ==
    ASSUME TypeOK, NEW n \in Turns
    PROVE  /\ loc \in [Turns -> Locals]
           /\ [loc EXCEPT ![n].attempt = 0] \in [Turns -> Locals]
           /\ [loc EXCEPT ![n].failed = TRUE] \in [Turns -> Locals]
           /\ [loc EXCEPT ![n].loopEnd = TRUE] \in [Turns -> Locals]
           /\ \A b \in BOOLEAN : [loc EXCEPT ![n].sleepCancelled = b] \in [Turns -> Locals]
           /\ \A m \in Turns \cup {None} : [loc EXCEPT ![n].child = m] \in [Turns -> Locals]
           /\ loc[n].iter # MaxIterations
                 => [loc EXCEPT ![n].iter = @ + 1] \in [Turns -> Locals]
           /\ loc[n].attempt < MaxProviderRetries
                 => [loc EXCEPT ![n].attempt = @ + 1] \in [Turns -> Locals]
<1>1. loc \in [Turns -> Locals] /\ loc[n] \in Locals
  BY DEF TypeOK
<1>2. loc[n].iter \in 1..MaxIterations /\ loc[n].attempt \in 0..MaxProviderRetries
  BY <1>1 DEF Locals
<1>4. [loc EXCEPT ![n].attempt = 0] \in [Turns -> Locals]
  BY <1>1, BoundsAssumption DEF Locals
<1>5. [loc EXCEPT ![n].failed = TRUE] \in [Turns -> Locals]
  BY <1>1 DEF Locals
<1>6. [loc EXCEPT ![n].loopEnd = TRUE] \in [Turns -> Locals]
  BY <1>1 DEF Locals
<1>7. \A b \in BOOLEAN : [loc EXCEPT ![n].sleepCancelled = b] \in [Turns -> Locals]
  BY <1>1 DEF Locals
<1>8. \A m \in Turns \cup {None} : [loc EXCEPT ![n].child = m] \in [Turns -> Locals]
  BY <1>1 DEF Locals
<1>9. loc[n].iter # MaxIterations => [loc EXCEPT ![n].iter = @ + 1] \in [Turns -> Locals]
  BY <1>1, <1>2, BoundsAssumption DEF Locals
<1>10. loc[n].attempt < MaxProviderRetries
          => [loc EXCEPT ![n].attempt = @ + 1] \in [Turns -> Locals]
  BY <1>1, <1>2, BoundsAssumption DEF Locals
<1> QED
  BY <1>1, <1>4, <1>5, <1>6, <1>7, <1>8, <1>9, <1>10

(* A subagent's turn is installed with the right types *)
LEMMA ChildType ==
    ASSUME TypeOK, NEW c \in ChildThreads, StartChildTurn(c), loc' \in [Turns -> Locals]
    PROVE  TypeOK'
<1> DEFINE n == counter + 1
<1>1. n \in Turns /\ c \in Threads /\ counter' \in 0..MaxTurns
  BY BoundsAssumption DEF StartChildTurn, TypeOK, Turns, Threads
<1>2. [by |-> n, into |-> n] \in Entry
  BY <1>1, BoundsAssumption DEF Entry
<1> HIDE DEF n
<1>3. hist' \in [Threads -> SUBSET Entry]
  BY <1>1, <1>2 DEF StartChildTurn, TypeOK, n
<1>4. pc' \in [Turns -> TaskPcs] /\ turnThread' \in [Turns -> Threads \cup {None}]
  BY <1>1 DEF StartChildTurn, TypeOK, Goto, TaskPcs, n
<1>5. slot' \in [Threads -> Turns \cup {None}] /\ active' \in [Threads -> Turns \cup {None}]
  BY <1>1 DEF StartChildTurn, TypeOK, n
<1>6. status' \in [Threads -> {"Idle", "Active"}] /\ row' \in [Threads -> RowValues]
  BY <1>1, RowSent DEF StartChildTurn, TypeOK
<1> QED
  BY <1>1, <1>3, <1>4, <1>5, <1>6
     DEF StartChildTurn, TypeOK, actorVars, compactVars, tokenVars, queueVars

-----------------------------------------------------------------------------
(* Every step keeps the types *)
LEMMA TypeStep ==
    ASSUME TypeOK, Addressed, [Next]_vars
    PROVE  TypeOK'
<1>1. ASSUME NEW t \in Threads, StartTurn(t) PROVE TypeOK'
  <2>1. phase' \in Phases
    BY <1>1 DEF TypeOK, StartTurn, Phases
  <2>2. counter' \in 0..MaxTurns
    BY <1>1, BoundsAssumption DEF TypeOK, StartTurn
  <2>3. apc' \in ActorPcs
    BY <1>1 DEF TypeOK, StartTurn, ActorPcs
  <2>4. athread' \in Threads \cup {None}
    BY <1>1 DEF TypeOK, StartTurn, Threads
  <2>5. aturn' \in Turns \cup {None}
    BY <1>1, BoundsAssumption DEF TypeOK, StartTurn, Turns
  <2> QED
    BY <1>1, <2>1, <2>2, <2>3, <2>4, <2>5 DEF TypeOK, StartTurn, taskVars,
         compactVars, tokenVars, queueVars, storageVars
<1>2. ASSUME NEW t \in Threads, Compact(t) PROVE TypeOK'
  <2>1. apc' \in ActorPcs
    BY <1>2 DEF TypeOK, Compact, ActorPcs
  <2>2. cpc' \in [Compactors -> CompactPcs]
    BY <1>2 DEF TypeOK, Compact, CompactPcs, Compactors, Snapshot
  <2>3. cthread' \in [Compactors -> Threads \cup {None}]
    BY <1>2 DEF TypeOK, Compact, Threads, Snapshot, Compactors
  <2>4. halfRestored' \in BOOLEAN
    BY <1>2 DEF TypeOK, Compact, Snapshot
  <2> QED
    BY <1>2, <2>1, <2>2, <2>3, <2>4 DEF TypeOK, Compact, taskVars, tokenVars,
         queueVars, storageVars
<1>3. ASSUME NEW t \in Threads, CancelTurn(t) PROVE TypeOK'
  <2>1. slot' \in [Threads -> Turns \cup {None}]
    BY <1>3 DEF TypeOK, CancelTurn
  <2>2. fired' \in SUBSET Turns
    BY <1>3 DEF TypeOK, CancelTurn
  <2>3. apc' \in ActorPcs
    BY <1>3 DEF TypeOK, CancelTurn, ActorPcs
  <2>4. athread' \in Threads \cup {None}
    BY <1>3 DEF TypeOK, CancelTurn
  <2>5. aturn' \in Turns \cup {None}
    BY <1>3 DEF TypeOK, CancelTurn
  <2> QED
    BY <1>3, <2>1, <2>2, <2>3, <2>4, <2>5 DEF TypeOK, CancelTurn, taskVars,
         compactVars, queueVars, storageVars
<1>4. ASSUME NEW t \in Threads, NEW q \in Queues, NEW i \in Inputs, Inject(t, q, i) PROVE TypeOK'
  <2>1. queue' \in [Threads -> [Queues -> Seq(Inputs)]]
    BY <1>4 DEF TypeOK, Inject, Threads
  <2>2. fate' \in [Inputs -> Fates]
    BY <1>4 DEF TypeOK, Inject, Fates
  <2> QED
    BY <1>4, <2>1, <2>2 DEF TypeOK, Inject, actorVars, taskVars, compactVars,
         tokenVars, storageVars
<1>5. ASSUME NEW c \in ChildThreads, SpawnSubagent(c) PROVE TypeOK'
  <2>1. StartChildTurn(c) /\ loc' = loc
    BY <1>5 DEF SpawnSubagent
  <2>2. loc' \in [Turns -> Locals]
    BY <2>1 DEF TypeOK
  <2> QED
    BY <2>1, <2>2, ChildType
<1>6. CASE Fork
  <2>1. phase' \in Phases
    BY <1>6 DEF TypeOK, Fork, Phases
  <2>2. apc' \in ActorPcs
    BY <1>6 DEF TypeOK, Fork, ActorPcs
  <2> QED
    BY <1>6, <2>1, <2>2 DEF TypeOK, Fork, taskVars, compactVars, tokenVars,
         queueVars, storageVars
<1>7. CASE Restore
  <2>1. phase' \in Phases
    BY <1>7 DEF TypeOK, Restore, Phases
  <2>2. apc' \in ActorPcs
    BY <1>7 DEF TypeOK, Restore, ActorPcs
  <2> QED
    BY <1>7, <2>1, <2>2 DEF TypeOK, Restore, taskVars, compactVars, tokenVars,
         queueVars, storageVars
<1>8. CASE Shutdown
  <2>1. apc' \in ActorPcs
    BY <1>8 DEF TypeOK, Shutdown, ActorPcs
  <2> QED
    BY <1>8, <2>1 DEF TypeOK, Shutdown, taskVars, compactVars, queueVars
<1>9. CASE StartDrain
  <2>1. athread \in Threads /\ aturn \in Turns
    BY <1>9 DEF StartDrain, Addressed, StartPcs, CancelPcs, TypeOK, Threads
  <2>2. queue' \in [Threads -> [Queues -> Seq(Inputs)]]
    BY <1>9, <2>1 DEF TypeOK, StartDrain, Queues
  <2>3. aseed' \in Seq(Inputs)
    BY <1>9, <2>1 DEF TypeOK, StartDrain, Queues
  <2>4. apc' \in ActorPcs
    BY <1>9, <2>1 DEF TypeOK, StartDrain, ActorPcs
  <2> QED
    BY <1>9, <2>2, <2>3, <2>4 DEF TypeOK, StartDrain, taskVars, compactVars,
         tokenVars, storageVars
<1>10. CASE StartInstall
  <2>1. athread \in Threads /\ aturn \in Turns
    BY <1>10 DEF StartInstall, Addressed, StartPcs, CancelPcs, TypeOK, Threads
  <2>2. slot' \in [Threads -> Turns \cup {None}]
    BY <1>10, <2>1 DEF TypeOK, StartInstall
  <2>3. apc' \in ActorPcs
    BY <1>10, <2>1 DEF TypeOK, StartInstall, ActorPcs
  <2> QED
    BY <1>10, <2>2, <2>3 DEF TypeOK, StartInstall, taskVars, compactVars, tokenVars,
         queueVars, storageVars
<1>11. CASE StartStatus
  <2>1. athread \in Threads /\ aturn \in Turns
    BY <1>11 DEF StartStatus, Addressed, StartPcs, CancelPcs, TypeOK, Threads
  <2>2. status' \in [Threads -> {"Idle", "Active"}]
    BY <1>11, <2>1 DEF TypeOK, StartStatus
  <2>3. apc' \in ActorPcs
    BY <1>11, <2>1 DEF TypeOK, StartStatus, ActorPcs
  <2> QED
    BY <1>11, <2>2, <2>3 DEF TypeOK, StartStatus, taskVars, compactVars, tokenVars,
         queueVars, storageVars
<1>12. CASE StartBuffer
  <2>1. athread \in Threads /\ aturn \in Turns
    BY <1>12 DEF StartBuffer, Addressed, StartPcs, CancelPcs, TypeOK, Threads
  <2>2. active' \in [Threads -> Turns \cup {None}]
    BY <1>12, <2>1 DEF TypeOK, StartBuffer
  <2>3. apc' \in ActorPcs
    BY <1>12, <2>1 DEF TypeOK, StartBuffer, ActorPcs
  <2> QED
    BY <1>12, <2>2, <2>3 DEF TypeOK, StartBuffer, taskVars, compactVars, tokenVars,
         queueVars, storageVars
<1>13. CASE StartPush
  <2>1. athread \in Threads /\ aturn \in Turns
    BY <1>13 DEF StartPush, Addressed, StartPcs, CancelPcs, TypeOK, Threads
  <2>2. hist' \in [Threads -> SUBSET Entry]
    BY <1>13, <2>1, PushType DEF TypeOK, StartPush
  <2>3. fate' \in [Inputs -> Fates]
    BY <1>13, <2>1 DEF TypeOK, StartPush, Landed, Fates
  <2>4. apc' \in ActorPcs
    BY <1>13, <2>1 DEF TypeOK, StartPush, ActorPcs
  <2> QED
    BY <1>13, <2>2, <2>3, <2>4 DEF TypeOK, StartPush, taskVars, compactVars,
         tokenVars, storageVars
<1>14. CASE StartSpawn
  <2>1. athread \in Threads /\ aturn \in Turns
    BY <1>14 DEF StartSpawn, Addressed, StartPcs, CancelPcs, TypeOK, Threads
  <2>2. row' \in [Threads -> RowValues]
    BY <1>14, <2>1, RowSent DEF StartSpawn
  <2>3. pc' \in [Turns -> TaskPcs]
    BY <1>14, <2>1 DEF TypeOK, StartSpawn, Goto, TaskPcs
  <2>4. turnThread' \in [Turns -> Threads \cup {None}]
    BY <1>14, <2>1 DEF TypeOK, StartSpawn
  <2>5. apc' \in ActorPcs
    BY <1>14, <2>1 DEF TypeOK, StartSpawn, ActorPcs
  <2>6. aseed' \in Seq(Inputs)
    BY <1>14, <2>1 DEF TypeOK, StartSpawn
  <2> QED
    BY <1>14, <2>2, <2>3, <2>4, <2>5, <2>6 DEF TypeOK, StartSpawn, compactVars,
         tokenVars, queueVars
<1>15. CASE CancelAbort
  <2>1. athread \in Threads /\ aturn \in Turns
    BY <1>15 DEF CancelAbort, Addressed, StartPcs, CancelPcs, TypeOK, Threads
  <2>2. queue' \in [Threads -> [Queues -> Seq(Inputs)]]
    <3>1. queue \in [Threads -> [Queues -> Seq(Inputs)]] /\ <<>> \in Seq(Inputs)
      BY DEF TypeOK
    <3>2. [queue EXCEPT ![athread]["Steer"] = <<>>] \in [Threads -> [Queues -> Seq(Inputs)]]
      BY <3>1, <2>1 DEF Queues
    <3> QED
      BY <1>15, <3>1, <3>2, <2>1 DEF CancelAbort, Queues
  <2>3. fate' \in [Inputs -> Fates]
    BY <1>15, <2>1 DEF TypeOK, CancelAbort, Fates
  <2>4. apc' \in ActorPcs
    BY <1>15, <2>1 DEF TypeOK, CancelAbort, ActorPcs
  <2> QED
    BY <1>15, <2>2, <2>3, <2>4 DEF TypeOK, CancelAbort, taskVars, compactVars,
         tokenVars, storageVars
<1>16. CASE CancelStatus
  <2>1. athread \in Threads /\ aturn \in Turns
    BY <1>16 DEF CancelStatus, Addressed, StartPcs, CancelPcs, TypeOK, Threads
  <2>2. status' \in [Threads -> {"Idle", "Active"}]
    BY <1>16, <2>1 DEF TypeOK, CancelStatus
  <2>3. terminal' \in [Turns -> SUBSET {"TurnCompleted", "TurnFailed", "SessionAborted"}]
    BY <1>16, <2>1 DEF TypeOK, CancelStatus
  <2>4. apc' \in ActorPcs
    BY <1>16, <2>1 DEF TypeOK, CancelStatus, ActorPcs
  <2> QED
    BY <1>16, <2>2, <2>3, <2>4 DEF TypeOK, CancelStatus, taskVars, compactVars,
         tokenVars, queueVars, storageVars
<1>17. CASE CancelBuffer
  <2>1. athread \in Threads /\ aturn \in Turns
    BY <1>17 DEF CancelBuffer, Addressed, StartPcs, CancelPcs, TypeOK, Threads
  <2>2. active' \in [Threads -> Turns \cup {None}]
    BY <1>17, <2>1 DEF TypeOK, CancelBuffer
  <2>3. apc' \in ActorPcs
    BY <1>17, <2>1 DEF TypeOK, CancelBuffer, ActorPcs
  <2> QED
    BY <1>17, <2>2, <2>3 DEF TypeOK, CancelBuffer, taskVars, compactVars, tokenVars,
         queueVars, storageVars
<1>18. CASE CancelPersist
  <2>1. athread \in Threads /\ aturn \in Turns
    BY <1>18 DEF CancelPersist, Addressed, StartPcs, CancelPcs, TypeOK, Threads
  <2>2. ended' \in [Turns -> EndedValues]
    BY <1>18, <2>1, EndedSent DEF CancelPersist
  <2>3. row' \in [Threads -> RowValues]
    BY <1>18, <2>1, RowSent DEF CancelPersist
  <2>4. apc' \in ActorPcs
    BY <1>18, <2>1 DEF TypeOK, CancelPersist, ActorPcs
  <2> QED
    BY <1>18, <2>2, <2>3, <2>4 DEF TypeOK, CancelPersist, taskVars, compactVars,
         tokenVars, queueVars
<1>19. CASE CancelPhase
  <2>1. phase' \in Phases
    BY <1>19 DEF TypeOK, CancelPhase, SetOrLog, Phases
  <2>2. apc' \in ActorPcs
    BY <1>19 DEF TypeOK, CancelPhase, ActorPcs
  <2> QED
    BY <1>19, <2>1, <2>2 DEF TypeOK, CancelPhase, taskVars, compactVars, tokenVars,
         queueVars, storageVars
<1>20. CASE ForkEnd
  <2>1. phase' \in Phases
    BY <1>20 DEF TypeOK, ForkEnd, SetOrLog, Phases
  <2>2. apc' \in ActorPcs
    BY <1>20 DEF TypeOK, ForkEnd, ActorPcs
  <2> QED
    BY <1>20, <2>1, <2>2 DEF TypeOK, ForkEnd, taskVars, compactVars, tokenVars,
         queueVars, storageVars
<1>21. CASE RestoreFiles
  <2>1. phase' \in Phases
    BY <1>21 DEF TypeOK, RestoreFiles, SetOrLog, Phases
  <2>2. apc' \in ActorPcs
    BY <1>21 DEF TypeOK, RestoreFiles, ActorPcs
  <2> QED
    BY <1>21, <2>1, <2>2 DEF TypeOK, RestoreFiles, taskVars, compactVars, tokenVars,
         queueVars, storageVars
<1>22. CASE RestoreFork
  <2>1. phase' \in Phases
    BY <1>22 DEF TypeOK, RestoreFork, Phases
  <2>2. apc' \in ActorPcs
    BY <1>22 DEF TypeOK, RestoreFork, ActorPcs
  <2>3. halfRestored' \in BOOLEAN
    BY <1>22 DEF TypeOK, RestoreFork
  <2> QED
    BY <1>22, <2>1, <2>2, <2>3 DEF TypeOK, RestoreFork, taskVars, tokenVars,
         queueVars, storageVars
<1>23. ASSUME NEW n \in Turns, Begin(n) PROVE TypeOK'
  <2>1. turnThread[n] \in Threads
    BY <1>23 DEF Begin, Addressed
  <2>2. pc' \in [Turns -> TaskPcs]
    BY <1>23, <2>1 DEF TypeOK, Begin, Goto, TaskPcs
  <2> QED
    BY <1>23, <2>2 DEF TypeOK, Begin, actorVars, compactVars, tokenVars, queueVars,
         storageVars
<1>24. ASSUME NEW n \in Turns, Steer(n) PROVE TypeOK'
  <2>1. turnThread[n] \in Threads
    BY <1>24 DEF Steer, Addressed
  <2>2. queue' \in [Threads -> [Queues -> Seq(Inputs)]]
    BY <1>24, <2>1 DEF TypeOK, Steer, Queues, AllButFirst
  <2>3. fate' \in [Inputs -> Fates]
    BY <1>24, <2>1 DEF TypeOK, Steer, Landed, Fates
  <2>4. hist' \in [Threads -> SUBSET Entry]
    BY <1>24, <2>1, PushType DEF TypeOK, Steer
  <2>5. loc' \in [Turns -> Locals]
    BY <1>24, <2>1, LocType DEF TypeOK, Steer
  <2>6. pc' \in [Turns -> TaskPcs]
    BY <1>24, <2>1 DEF TypeOK, Steer, Goto, TaskPcs
  <2> QED
    BY <1>24, <2>2, <2>3, <2>4, <2>5, <2>6 DEF TypeOK, Steer, actorVars,
         compactVars, tokenVars, storageVars
<1>25. ASSUME NEW n \in Turns, Call(n) PROVE TypeOK'
  <2>1. pc' \in [Turns -> TaskPcs]
    <3>1. \E q \in TaskPcs : pc' = [pc EXCEPT ![n] = q]
      BY <1>25 DEF Call, Goto, TaskPcs
    <3> QED
      BY <1>25, <3>1 DEF TypeOK
  <2> QED
    BY <1>25, <2>1 DEF TypeOK, Call, actorVars, compactVars, tokenVars, queueVars,
         storageVars
<1>26. ASSUME NEW n \in Turns, RetryEnter(n) PROVE TypeOK'
  <2>1. phase' \in Phases
    BY <1>26 DEF TypeOK, RetryEnter, SetOrLog, Phases
  <2>2. pc' \in [Turns -> TaskPcs]
    BY <1>26 DEF TypeOK, RetryEnter, Goto, TaskPcs
  <2> QED
    BY <1>26, <2>1, <2>2 DEF TypeOK, RetryEnter, actorVars, compactVars, tokenVars,
         queueVars, storageVars
<1>27. ASSUME NEW n \in Turns, Backoff(n) PROVE TypeOK'
  <2>1. loc' \in [Turns -> Locals]
    BY <1>27, LocType DEF TypeOK, Backoff, Cancelled
  <2>2. pc' \in [Turns -> TaskPcs]
    BY <1>27 DEF TypeOK, Backoff, Goto, TaskPcs
  <2> QED
    BY <1>27, <2>1, <2>2 DEF TypeOK, Backoff, actorVars, compactVars, tokenVars,
         queueVars, storageVars
<1>28. ASSUME NEW n \in Turns, RetryLeave(n) PROVE TypeOK'
  <2>1. phase' \in Phases
    BY <1>28 DEF TypeOK, RetryLeave, SetOrLog, Phases
  <2>2. loc' \in [Turns -> Locals]
    <3>1. loc[n].attempt < MaxProviderRetries
      BY <1>28 DEF RetryLeave, Addressed
    <3> QED
      BY <1>28, <3>1, LocType DEF RetryLeave
  <2>3. pc' \in [Turns -> TaskPcs]
    <3>1. \E q \in TaskPcs : pc' = [pc EXCEPT ![n] = q]
      BY <1>28 DEF RetryLeave, Goto, TaskPcs
    <3> QED
      BY <1>28, <3>1 DEF TypeOK
  <2> QED
    BY <1>28, <2>1, <2>2, <2>3 DEF TypeOK, RetryLeave, actorVars, compactVars,
         tokenVars, queueVars, storageVars
<1>29. ASSUME NEW n \in Turns, Fail(n) PROVE TypeOK'
  <2>1. terminal' \in [Turns -> SUBSET {"TurnCompleted", "TurnFailed", "SessionAborted"}]
    BY <1>29 DEF TypeOK, Fail
  <2>2. loc' \in [Turns -> Locals]
    BY <1>29, LocType DEF TypeOK, Fail
  <2>3. pc' \in [Turns -> TaskPcs]
    BY <1>29 DEF TypeOK, Fail, Goto, TaskPcs
  <2> QED
    BY <1>29, <2>1, <2>2, <2>3 DEF TypeOK, Fail, actorVars, compactVars, tokenVars,
         queueVars, storageVars
<1>30. ASSUME NEW n \in Turns, Stream(n) PROVE TypeOK'
  <2>1. turnThread[n] \in Threads
    BY <1>30 DEF Stream, Addressed
  <2>2. hist' \in [Threads -> SUBSET Entry]
    BY <1>30, <2>1, PushType DEF TypeOK, Stream
  <2>3. pc' \in [Turns -> TaskPcs]
    BY <1>30, <2>1 DEF TypeOK, Stream, Goto, TaskPcs
  <2> QED
    BY <1>30, <2>2, <2>3 DEF TypeOK, Stream, actorVars, compactVars, tokenVars,
         queueVars, storageVars
<1>31. ASSUME NEW n \in Turns, Fold(n) PROVE TypeOK'
  <2>1. turnThread[n] \in Threads
    BY <1>31 DEF Fold, Addressed
  <2>2. hist' \in [Threads -> SUBSET Entry]
    BY <1>31, <2>1, PushType DEF TypeOK, Fold
  <2>3. pc' \in [Turns -> TaskPcs]
    <3>1. \E l \in {"finish", "followUp", "resolve"} : pc' = [pc EXCEPT ![n] = l]
      BY <1>31 DEF Fold, Goto
    <3> QED
      BY <3>1 DEF TypeOK, TaskPcs
  <2> QED
    BY <1>31, <2>2, <2>3 DEF TypeOK, Fold, actorVars, compactVars, tokenVars,
         queueVars, storageVars
<1>32. ASSUME NEW n \in Turns, FollowUp(n) PROVE TypeOK'
  <2>1. turnThread[n] \in Threads
    BY <1>32 DEF FollowUp, Addressed
  <2>2. queue' \in [Threads -> [Queues -> Seq(Inputs)]]
    BY <1>32, <2>1 DEF TypeOK, FollowUp, Queues, AllButFirst
  <2>3. fate' \in [Inputs -> Fates]
    BY <1>32, <2>1 DEF TypeOK, FollowUp, Landed, Fates
  <2>4. hist' \in [Threads -> SUBSET Entry]
    BY <1>32, <2>1, PushType DEF TypeOK, FollowUp
  <2>5. loc' \in [Turns -> Locals]
    BY <1>32, <2>1, LocType DEF TypeOK, FollowUp
  <2>6. pc' \in [Turns -> TaskPcs]
    BY <1>32, <2>1 DEF TypeOK, FollowUp, Goto, TaskPcs
  <2> QED
    BY <1>32, <2>2, <2>3, <2>4, <2>5, <2>6 DEF TypeOK, FollowUp, actorVars,
         compactVars, tokenVars, storageVars
<1>33. ASSUME NEW n \in Turns, Resolve(n) PROVE TypeOK'
  <2>1. pc' \in [Turns -> TaskPcs]
    BY <1>33 DEF TypeOK, Resolve, Goto, TaskPcs
  <2> QED
    BY <1>33, <2>1 DEF TypeOK, Resolve, actorVars, compactVars, tokenVars,
         queueVars, storageVars
<1>34. ASSUME NEW n \in Turns, Exec(n) PROVE TypeOK'
  <2>1. loc' \in [Turns -> Locals]
    BY <1>34, LocType DEF TypeOK, Exec
  <2>2. pc' \in [Turns -> TaskPcs]
    BY <1>34 DEF TypeOK, Exec, Goto, TaskPcs
  <2> QED
    BY <1>34, <2>1, <2>2 DEF TypeOK, Exec, actorVars, compactVars, tokenVars,
         queueVars, storageVars
<1>35. ASSUME NEW n \in Turns, Commit(n) PROVE TypeOK'
  <2>1. turnThread[n] \in Threads
    BY <1>35 DEF Commit, Addressed
  <2>2. hist' \in [Threads -> SUBSET Entry]
    BY <1>35, <2>1, PushType DEF TypeOK, Commit
  <2>3. loc' \in [Turns -> Locals]
    <3>1. CASE loc' = [loc EXCEPT ![n].loopEnd = TRUE]
      BY <3>1, LocType
    <3>2. CASE loc[n].iter < MaxIterations /\ loc' = [loc EXCEPT ![n].iter = @ + 1]
      <4>1. loc[n].iter # MaxIterations
        BY <3>2, LocType, BoundsAssumption
      <4> QED
        BY <3>2, <4>1, LocType
    <3> QED
      BY <1>35, <3>1, <3>2 DEF Commit
  <2>4. pc' \in [Turns -> TaskPcs]
    <3>1. \E q \in TaskPcs : pc' = [pc EXCEPT ![n] = q]
      BY <1>35, <2>1 DEF Commit, Goto, TaskPcs
    <3> QED
      BY <1>35, <3>1 DEF TypeOK
  <2> QED
    BY <1>35, <2>2, <2>3, <2>4 DEF TypeOK, Commit, actorVars, compactVars,
         tokenVars, queueVars, storageVars
<1>36. ASSUME NEW n \in Turns, Finish(n) PROVE TypeOK'
  <2>1. turnThread[n] \in Threads
    BY <1>36 DEF Finish, Addressed
  <2>2. slot' \in [Threads -> Turns \cup {None}]
    BY <1>36, <2>1 DEF TypeOK, Finish
  <2>3. pc' \in [Turns -> TaskPcs]
    <3>1. \E q \in TaskPcs : pc' = [pc EXCEPT ![n] = q]
      BY <1>36, <2>1 DEF Finish, Goto, TaskPcs, AfterFinish
    <3> QED
      BY <1>36, <3>1 DEF TypeOK
  <2> QED
    BY <1>36, <2>2, <2>3 DEF TypeOK, Finish, actorVars, compactVars, tokenVars,
         queueVars, storageVars
<1>37. ASSUME NEW n \in Turns, FinStatus(n) PROVE TypeOK'
  <2>1. turnThread[n] \in Threads
    BY <1>37 DEF FinStatus, Addressed
  <2>2. status' \in [Threads -> {"Idle", "Active"}]
    BY <1>37, <2>1 DEF TypeOK, FinStatus
  <2>3. pc' \in [Turns -> TaskPcs]
    BY <1>37, <2>1 DEF TypeOK, FinStatus, Goto, TaskPcs
  <2> QED
    BY <1>37, <2>2, <2>3 DEF TypeOK, FinStatus, actorVars, compactVars, tokenVars,
         queueVars, storageVars
<1>38. ASSUME NEW n \in Turns, FinPhase(n) PROVE TypeOK'
  <2>1. phase' \in Phases
    BY <1>38 DEF TypeOK, FinPhase, SetOrLog, Phases
  <2>2. pc' \in [Turns -> TaskPcs]
    BY <1>38 DEF TypeOK, FinPhase, Goto, TaskPcs
  <2> QED
    BY <1>38, <2>1, <2>2 DEF TypeOK, FinPhase, actorVars, compactVars, tokenVars,
         queueVars, storageVars
<1>39. ASSUME NEW n \in Turns, FinBuffer(n) PROVE TypeOK'
  <2>1. turnThread[n] \in Threads
    BY <1>39 DEF FinBuffer, Addressed
  <2>2. active' \in [Threads -> Turns \cup {None}]
    BY <1>39, <2>1 DEF TypeOK, FinBuffer
  <2>3. pc' \in [Turns -> TaskPcs]
    BY <1>39, <2>1 DEF TypeOK, FinBuffer, Goto, TaskPcs
  <2> QED
    BY <1>39, <2>2, <2>3 DEF TypeOK, FinBuffer, actorVars, compactVars, tokenVars,
         queueVars, storageVars
<1>40. ASSUME NEW n \in Turns, FinEvent(n) PROVE TypeOK'
  <2>1. terminal' \in [Turns -> SUBSET {"TurnCompleted", "TurnFailed", "SessionAborted"}]
    BY <1>40 DEF TypeOK, FinEvent
  <2>2. pc' \in [Turns -> TaskPcs]
    BY <1>40 DEF TypeOK, FinEvent, Goto, TaskPcs
  <2> QED
    BY <1>40, <2>1, <2>2 DEF TypeOK, FinEvent, actorVars, compactVars, tokenVars,
         queueVars, storageVars
<1>41. ASSUME NEW n \in Turns, FinPersist(n) PROVE TypeOK'
  <2>1. turnThread[n] \in Threads
    BY <1>41 DEF FinPersist, Addressed
  <2>2. ended' \in [Turns -> EndedValues]
    BY <1>41, <2>1, EndedSent DEF FinPersist
  <2>3. row' \in [Threads -> RowValues]
    BY <1>41, <2>1, RowSent DEF FinPersist
  <2>4. pc' \in [Turns -> TaskPcs]
    BY <1>41, <2>1 DEF TypeOK, FinPersist, Goto, TaskPcs, AfterFinish
  <2> QED
    BY <1>41, <2>2, <2>3, <2>4 DEF TypeOK, FinPersist, actorVars, compactVars,
         tokenVars, queueVars
<1>42. ASSUME NEW n \in Turns, AutoCheck(n) PROVE TypeOK'
  <2>1. turnThread[n] \in Threads /\ n \in Compactors
    BY <1>42 DEF AutoCheck, Addressed, Compactors
  <2>2. CASE pc' = [pc EXCEPT ![n] = "done"] /\ UNCHANGED compactVars
    BY <1>42, <2>2 DEF TypeOK, AutoCheck, TaskPcs, actorVars, compactVars, tokenVars,
         queueVars, storageVars
  <2>3. CASE UNCHANGED pc /\ Snapshot(n, turnThread[n])
    <3>2. cpc' \in [Compactors -> CompactPcs]
      BY <2>1, <2>3 DEF TypeOK, CompactPcs, Snapshot
    <3>3. cthread' \in [Compactors -> Threads \cup {None}]
      BY <2>1, <2>3 DEF TypeOK, Snapshot
    <3>5. halfRestored' \in BOOLEAN /\ pc' \in [Turns -> TaskPcs]
      BY <2>3 DEF TypeOK, Snapshot
    <3> QED
      BY <1>42, <3>2, <3>3, <3>5 DEF TypeOK, AutoCheck, actorVars, tokenVars,
           queueVars, storageVars
  <2> QED
    BY <1>42, <2>2, <2>3 DEF AutoCheck, Goto
<1>43. ASSUME NEW n \in Turns, NEW c \in ChildThreads, ExecSpawn(n, c) PROVE TypeOK'
  <2>1. StartChildTurn(c)
    BY <1>43 DEF ExecSpawn
  <2>3. counter + 1 \in Turns
    BY <2>1, BoundsAssumption DEF StartChildTurn, TypeOK, Turns
  <2>2. loc' \in [Turns -> Locals]
    BY <1>43, <2>3, LocType DEF ExecSpawn
  <2> QED
    BY <2>1, <2>2, ChildType
<1>44. ASSUME NEW c \in Compactors, CompactClaim(c) PROVE TypeOK'
  <2>1. phase' \in Phases
    BY <1>44 DEF TypeOK, CompactClaim, Phases
  <2>2. apc' \in ActorPcs
    BY <1>44 DEF TypeOK, CompactClaim, ActorPcs, ReplyIfManual
  <2>3. cpc' \in [Compactors -> CompactPcs]
    <3>1. \E l \in CompactPcs : cpc' = [cpc EXCEPT ![c] = l]
      BY <1>44 DEF CompactClaim, CompactPcs, CompactionStep, EndCompaction
    <3> QED
      BY <3>1 DEF TypeOK
  <2>4. cthread' \in [Compactors -> Threads \cup {None}]
    BY <1>44 DEF TypeOK, CompactClaim, CompactionStep, EndCompaction
  <2>5. halfRestored' \in BOOLEAN
    BY <1>44 DEF TypeOK, CompactClaim, CompactionStep, EndCompaction
  <2>6. pc' \in [Turns -> TaskPcs]
    <3>1. \/ pc' = pc
          \/ c \in Turns /\ pc' = [pc EXCEPT ![c] = "done"]
      BY <1>44 DEF CompactClaim, Compactors, CompactionStep, EndCompaction
    <3> QED
      BY <3>1 DEF TypeOK, TaskPcs
  <2> QED
    BY <1>44, <2>1, <2>2, <2>3, <2>4, <2>5, <2>6 DEF TypeOK, CompactClaim,
         tokenVars, queueVars, storageVars
<1>45. ASSUME NEW c \in Compactors, CompactHook(c) PROVE TypeOK'
  <2>1. phase' \in Phases
    BY <1>45 DEF TypeOK, CompactHook, SetOrLog, Phases
  <2>2. apc' \in ActorPcs
    BY <1>45 DEF TypeOK, CompactHook, ActorPcs, ReplyIfManual
  <2>3. cpc' \in [Compactors -> CompactPcs]
    <3>1. \E l \in CompactPcs : cpc' = [cpc EXCEPT ![c] = l]
      BY <1>45 DEF CompactHook, CompactPcs, CompactionStep, EndCompaction
    <3> QED
      BY <3>1 DEF TypeOK
  <2>4. cthread' \in [Compactors -> Threads \cup {None}]
    BY <1>45 DEF TypeOK, CompactHook, CompactionStep, EndCompaction
  <2>5. halfRestored' \in BOOLEAN
    BY <1>45 DEF TypeOK, CompactHook, CompactionStep, EndCompaction
  <2>6. pc' \in [Turns -> TaskPcs]
    <3>1. \/ pc' = pc
          \/ c \in Turns /\ pc' = [pc EXCEPT ![c] = "done"]
      BY <1>45 DEF CompactHook, Compactors, CompactionStep, EndCompaction
    <3> QED
      BY <3>1 DEF TypeOK, TaskPcs
  <2> QED
    BY <1>45, <2>1, <2>2, <2>3, <2>4, <2>5, <2>6 DEF TypeOK, CompactHook, tokenVars,
         queueVars, storageVars
<1>46. ASSUME NEW c \in Compactors, CompactSummarize(c) PROVE TypeOK'
  <2>1. phase' \in Phases
    BY <1>46 DEF TypeOK, CompactSummarize, SetOrLog, Phases
  <2>2. cpc' \in [Compactors -> CompactPcs]
    <3>1. \E l \in CompactPcs : cpc' = [cpc EXCEPT ![c] = l]
      BY <1>46 DEF CompactSummarize, CompactPcs, CompactionStep, EndCompaction
    <3> QED
      BY <3>1 DEF TypeOK
  <2>3. cthread' \in [Compactors -> Threads \cup {None}]
    BY <1>46 DEF TypeOK, CompactSummarize, CompactionStep, EndCompaction
  <2>4. halfRestored' \in BOOLEAN
    BY <1>46 DEF TypeOK, CompactSummarize, CompactionStep, EndCompaction
  <2>5. pc' \in [Turns -> TaskPcs]
    <3>1. \/ pc' = pc
          \/ c \in Turns /\ pc' = [pc EXCEPT ![c] = "done"]
      BY <1>46 DEF CompactSummarize, Compactors, CompactionStep, EndCompaction
    <3> QED
      BY <3>1 DEF TypeOK, TaskPcs
  <2> QED
    BY <1>46, <2>1, <2>2, <2>3, <2>4, <2>5 DEF TypeOK, CompactSummarize, actorVars,
         tokenVars, queueVars, storageVars
<1>47. ASSUME NEW c \in Compactors, CompactReplace(c) PROVE TypeOK'
  <2>1. cthread[c] \in Threads
    BY <1>47 DEF CompactReplace, Addressed
  <2>2. hist' \in [Threads -> SUBSET Entry]
    <3>1. Summary \in Entry
      BY BoundsAssumption DEF Summary, Entry
    <3> QED
      BY <1>47, <3>1 DEF TypeOK, CompactReplace
  <2>3. active' \in [Threads -> Turns \cup {None}]
    BY <1>47, <2>1 DEF TypeOK, CompactReplace
  <2>4. cpc' \in [Compactors -> CompactPcs]
    BY <1>47, <2>1 DEF TypeOK, CompactReplace, CompactPcs, CompactionStep, EndCompaction
  <2>5. cthread' \in [Compactors -> Threads \cup {None}]
    BY <1>47, <2>1 DEF TypeOK, CompactReplace, CompactionStep, EndCompaction
  <2>6. halfRestored' \in BOOLEAN
    BY <1>47, <2>1 DEF TypeOK, CompactReplace, CompactionStep, EndCompaction
  <2>7. pc' \in [Turns -> TaskPcs]
    BY <1>47, <2>1 DEF TypeOK, CompactReplace, Compactors, TaskPcs, CompactionStep,
         EndCompaction
  <2> QED
    BY <1>47, <2>2, <2>3, <2>4, <2>5, <2>6, <2>7 DEF TypeOK, CompactReplace,
         actorVars, tokenVars, queueVars, storageVars
<1>48. ASSUME NEW c \in Compactors, CompactPost(c) PROVE TypeOK'
  <2>1. phase' \in Phases
    BY <1>48 DEF TypeOK, CompactPost, SetOrLog, Phases
  <2>2. cpc' \in [Compactors -> CompactPcs]
    <3>1. \E l \in CompactPcs : cpc' = [cpc EXCEPT ![c] = l]
      BY <1>48 DEF CompactPost, CompactPcs, CompactionStep, EndCompaction
    <3> QED
      BY <3>1 DEF TypeOK
  <2>3. cthread' \in [Compactors -> Threads \cup {None}]
    BY <1>48 DEF TypeOK, CompactPost, CompactionStep, EndCompaction
  <2>4. halfRestored' \in BOOLEAN
    BY <1>48 DEF TypeOK, CompactPost, CompactionStep, EndCompaction
  <2>5. pc' \in [Turns -> TaskPcs]
    <3>1. \/ pc' = pc
          \/ c \in Turns /\ pc' = [pc EXCEPT ![c] = "done"]
      BY <1>48 DEF CompactPost, Compactors, CompactionStep, EndCompaction
    <3> QED
      BY <3>1 DEF TypeOK, TaskPcs
  <2> QED
    BY <1>48, <2>1, <2>2, <2>3, <2>4, <2>5 DEF TypeOK, CompactPost, actorVars,
         tokenVars, queueVars, storageVars
<1>49. CASE UNCHANGED vars
  BY <1>49 DEF TypeOK, vars, actorVars, taskVars, compactVars, tokenVars, queueVars,
       storageVars
<1> QED
  BY <1>1, <1>2, <1>3, <1>4, <1>5, <1>6, <1>7, <1>8, <1>9, <1>10, <1>11, <1>12,
       <1>13, <1>14, <1>15, <1>16, <1>17, <1>18, <1>19, <1>20, <1>21, <1>22, <1>23,
       <1>24, <1>25, <1>26, <1>27, <1>28, <1>29, <1>30, <1>31, <1>32, <1>33, <1>34,
       <1>35, <1>36, <1>37, <1>38, <1>39, <1>40, <1>41, <1>42, <1>43, <1>44, <1>45,
       <1>46, <1>47, <1>48, <1>49
     DEF Next, Submit, ActorStep, TaskStep, CompactStep

-----------------------------------------------------------------------------
(* Every step keeps the addresses *)
LEMMA AddressedStep ==
    ASSUME TypeOK, Addressed, [Next]_vars
    PROVE  Addressed'
<1>1. ASSUME NEW t \in Threads, StartTurn(t) PROVE Addressed'
  <2>1. UNCHANGED <<pc, turnThread, loc, cpc, cthread>> /\ apc = "idle"
    BY <1>1 DEF StartTurn, taskVars, compactVars
  <2>2. CASE CanSet("Idle", "Turn")
    <3>1. counter + 1 \in Turns /\ t \in Threads
      BY <1>1, BoundsAssumption DEF StartTurn, TypeOK, Turns, Threads
    <3>2. apc' = "startDrain" /\ athread' = t /\ aturn' = counter + 1
      BY <1>1, <2>2 DEF StartTurn
    <3> QED
      BY <2>1, <3>1, <3>2 DEF Addressed, StartPcs, CancelPcs
  <2>3. CASE ~CanSet("Idle", "Turn")
    BY <1>1, <2>1, <2>3 DEF StartTurn, Addressed, StartPcs, CancelPcs
  <2> QED
    BY <2>2, <2>3
<1>2. ASSUME NEW t \in Threads, Compact(t) PROVE Addressed'
  <2>1. UNCHANGED <<pc, turnThread, loc>> /\ apc' = "compact"
    BY <1>2 DEF Compact, taskVars
  <2>2. /\ cpc' = [cpc EXCEPT ![0] = "claim"] /\ cthread' = [cthread EXCEPT ![0] = t]
        /\ t \in Threads
    BY <1>2 DEF Compact, Snapshot, Threads
  <2>3. \A d \in Compactors : cpc'[d] # "none" => cthread'[d] \in Threads
    BY <2>2 DEF Addressed, TypeOK
  <2>4. \A n \in Turns : n # 0 /\ n \in Compactors
    BY DEF Turns, Compactors
  <2>5. \A n \in Turns : cpc'[n] = cpc[n]
    BY <2>2, <2>4 DEF TypeOK
  <2> QED
    BY <2>1, <2>3, <2>5 DEF Addressed, StartPcs, CancelPcs
<1>3. ASSUME NEW t \in Threads, CancelTurn(t) PROVE Addressed'
  BY <1>3 DEF CancelTurn, Addressed, TypeOK, StartPcs, CancelPcs, Threads,
       Compactors, taskVars, compactVars, queueVars, storageVars
<1>4. ASSUME NEW t \in Threads, NEW q \in Queues, NEW i \in Inputs, Inject(t, q, i) PROVE Addressed'
  BY <1>4 DEF Inject, Addressed, TypeOK, StartPcs, CancelPcs, Threads, Compactors,
       actorVars, taskVars, compactVars, tokenVars, storageVars
<1>5. ASSUME NEW c \in ChildThreads, SpawnSubagent(c) PROVE Addressed'
  BY <1>5 DEF SpawnSubagent, StartChildTurn, Goto, Addressed, TypeOK, StartPcs,
       CancelPcs, Threads, Compactors, actorVars, compactVars, tokenVars, queueVars
<1>6. CASE Fork
  BY <1>6 DEF Fork, Addressed, TypeOK, StartPcs, CancelPcs, Threads, Compactors,
       taskVars, compactVars, tokenVars, queueVars, storageVars
<1>7. CASE Restore
  BY <1>7 DEF Restore, Addressed, TypeOK, StartPcs, CancelPcs, Threads, Compactors,
       taskVars, compactVars, tokenVars, queueVars, storageVars
<1>8. CASE Shutdown
  BY <1>8 DEF Shutdown, Addressed, TypeOK, StartPcs, CancelPcs, Threads, Compactors,
       taskVars, compactVars, queueVars
<1>9. CASE StartDrain
  BY <1>9 DEF StartDrain, Addressed, TypeOK, StartPcs, CancelPcs, Threads,
       Compactors, taskVars, compactVars, tokenVars, storageVars
<1>10. CASE StartInstall
  BY <1>10 DEF StartInstall, Addressed, TypeOK, StartPcs, CancelPcs, Threads,
       Compactors, taskVars, compactVars, tokenVars, queueVars, storageVars
<1>11. CASE StartStatus
  BY <1>11 DEF StartStatus, Addressed, TypeOK, StartPcs, CancelPcs, Threads,
       Compactors, taskVars, compactVars, tokenVars, queueVars, storageVars
<1>12. CASE StartBuffer
  BY <1>12 DEF StartBuffer, Addressed, TypeOK, StartPcs, CancelPcs, Threads,
       Compactors, taskVars, compactVars, tokenVars, queueVars, storageVars
<1>13. CASE StartPush
  BY <1>13 DEF StartPush, Addressed, TypeOK, StartPcs, CancelPcs, Threads,
       Compactors, taskVars, compactVars, tokenVars, storageVars
<1>14. CASE StartSpawn
  BY <1>14 DEF StartSpawn, Goto, Addressed, TypeOK, StartPcs, CancelPcs, Threads,
       Compactors, compactVars, tokenVars, queueVars
<1>15. CASE CancelAbort
  BY <1>15 DEF CancelAbort, Addressed, TypeOK, StartPcs, CancelPcs, Threads,
       Compactors, taskVars, compactVars, tokenVars, storageVars
<1>16. CASE CancelStatus
  BY <1>16 DEF CancelStatus, Addressed, TypeOK, StartPcs, CancelPcs, Threads,
       Compactors, taskVars, compactVars, tokenVars, queueVars, storageVars
<1>17. CASE CancelBuffer
  BY <1>17 DEF CancelBuffer, Addressed, TypeOK, StartPcs, CancelPcs, Threads,
       Compactors, taskVars, compactVars, tokenVars, queueVars, storageVars
<1>18. CASE CancelPersist
  BY <1>18 DEF CancelPersist, Addressed, TypeOK, StartPcs, CancelPcs, Threads,
       Compactors, taskVars, compactVars, tokenVars, queueVars
<1>19. CASE CancelPhase
  BY <1>19 DEF CancelPhase, SetOrLog, Addressed, TypeOK, StartPcs, CancelPcs,
       Threads, Compactors, taskVars, compactVars, tokenVars, queueVars, storageVars
<1>20. CASE ForkEnd
  BY <1>20 DEF ForkEnd, SetOrLog, Addressed, TypeOK, StartPcs, CancelPcs, Threads,
       Compactors, taskVars, compactVars, tokenVars, queueVars, storageVars
<1>21. CASE RestoreFiles
  BY <1>21 DEF RestoreFiles, SetOrLog, Addressed, TypeOK, StartPcs, CancelPcs,
       Threads, Compactors, taskVars, compactVars, tokenVars, queueVars, storageVars
<1>22. CASE RestoreFork
  BY <1>22 DEF RestoreFork, Addressed, TypeOK, StartPcs, CancelPcs, Threads,
       Compactors, taskVars, tokenVars, queueVars, storageVars
<1>23. ASSUME NEW n \in Turns, Begin(n) PROVE Addressed'
  BY <1>23 DEF Begin, Goto, Addressed, TypeOK, StartPcs, CancelPcs, Threads,
       Compactors, actorVars, compactVars, tokenVars, queueVars, storageVars
<1>24. ASSUME NEW n \in Turns, Steer(n) PROVE Addressed'
  BY <1>24 DEF Steer, Goto, Addressed, TypeOK, StartPcs, CancelPcs, Threads,
       Compactors, actorVars, compactVars, tokenVars, storageVars
<1>25. ASSUME NEW n \in Turns, Call(n) PROVE Addressed'
  BY <1>25 DEF Call, Goto, Addressed, TypeOK, StartPcs, CancelPcs, Threads,
       Compactors, actorVars, compactVars, tokenVars, queueVars, storageVars
<1>26. ASSUME NEW n \in Turns, RetryEnter(n) PROVE Addressed'
  BY <1>26 DEF RetryEnter, Goto, SetOrLog, Addressed, TypeOK, StartPcs, CancelPcs,
       Threads, Compactors, actorVars, compactVars, tokenVars, queueVars,
       storageVars
<1>27. ASSUME NEW n \in Turns, Backoff(n) PROVE Addressed'
  BY <1>27 DEF Backoff, Goto, Addressed, TypeOK, StartPcs, CancelPcs, Threads,
       Compactors, actorVars, compactVars, tokenVars, queueVars, storageVars
<1>28. ASSUME NEW n \in Turns, RetryLeave(n) PROVE Addressed'
  <2>1. UNCHANGED <<apc, athread, aturn, cpc, cthread, turnThread>>
    BY <1>28 DEF RetryLeave, actorVars, compactVars
  <2>2. \/ pc' = [pc EXCEPT ![n] = "finish"] /\ loc' = loc
        \/ pc' = [pc EXCEPT ![n] = "call"] /\ loc' = [loc EXCEPT ![n].attempt = @ + 1]
    BY <1>28 DEF RetryLeave, Goto
  <2>3. \A m \in Turns : pc'[m] # "none" => pc[m] # "none"
    BY <1>28, <2>2 DEF TypeOK, RetryLeave
  <2>4. \A m \in Turns : pc'[m] \in {"retryEnter", "backoff", "retryLeave"}
                             => pc'[m] = pc[m] /\ loc'[m] = loc[m]
    BY <1>28, <2>2 DEF TypeOK
  <2> QED
    BY <2>1, <2>3, <2>4 DEF Addressed
<1>29. ASSUME NEW n \in Turns, Fail(n) PROVE Addressed'
  BY <1>29 DEF Fail, Goto, Addressed, TypeOK, StartPcs, CancelPcs, Threads,
       Compactors, actorVars, compactVars, tokenVars, queueVars, storageVars
<1>30. ASSUME NEW n \in Turns, Stream(n) PROVE Addressed'
  BY <1>30 DEF Stream, Goto, Addressed, TypeOK, StartPcs, CancelPcs, Threads,
       Compactors, actorVars, compactVars, tokenVars, queueVars, storageVars
<1>31. ASSUME NEW n \in Turns, Fold(n) PROVE Addressed'
  BY <1>31 DEF Fold, Goto, Addressed, TypeOK, StartPcs, CancelPcs, Threads,
       Compactors, actorVars, compactVars, tokenVars, queueVars, storageVars
<1>32. ASSUME NEW n \in Turns, FollowUp(n) PROVE Addressed'
  BY <1>32 DEF FollowUp, Goto, Addressed, TypeOK, StartPcs, CancelPcs, Threads,
       Compactors, actorVars, compactVars, tokenVars, storageVars
<1>33. ASSUME NEW n \in Turns, Resolve(n) PROVE Addressed'
  BY <1>33 DEF Resolve, Goto, Addressed, TypeOK, StartPcs, CancelPcs, Threads,
       Compactors, actorVars, compactVars, tokenVars, queueVars, storageVars
<1>34. ASSUME NEW n \in Turns, Exec(n) PROVE Addressed'
  BY <1>34 DEF Exec, Goto, Addressed, TypeOK, StartPcs, CancelPcs, Threads,
       Compactors, actorVars, compactVars, tokenVars, queueVars, storageVars
<1>35. ASSUME NEW n \in Turns, Commit(n) PROVE Addressed'
  BY <1>35 DEF Commit, Goto, Addressed, TypeOK, StartPcs, CancelPcs, Threads,
       Compactors, actorVars, compactVars, tokenVars, queueVars, storageVars
<1>36. ASSUME NEW n \in Turns, Finish(n) PROVE Addressed'
  BY <1>36 DEF Finish, Goto, AfterFinish, Addressed, TypeOK, StartPcs, CancelPcs,
       Threads, Compactors, actorVars, compactVars, tokenVars, queueVars,
       storageVars
<1>37. ASSUME NEW n \in Turns, FinStatus(n) PROVE Addressed'
  BY <1>37 DEF FinStatus, Goto, Addressed, TypeOK, StartPcs, CancelPcs, Threads,
       Compactors, actorVars, compactVars, tokenVars, queueVars, storageVars
<1>38. ASSUME NEW n \in Turns, FinPhase(n) PROVE Addressed'
  BY <1>38 DEF FinPhase, Goto, SetOrLog, Addressed, TypeOK, StartPcs, CancelPcs,
       Threads, Compactors, actorVars, compactVars, tokenVars, queueVars,
       storageVars
<1>39. ASSUME NEW n \in Turns, FinBuffer(n) PROVE Addressed'
  BY <1>39 DEF FinBuffer, Goto, Addressed, TypeOK, StartPcs, CancelPcs, Threads,
       Compactors, actorVars, compactVars, tokenVars, queueVars, storageVars
<1>40. ASSUME NEW n \in Turns, FinEvent(n) PROVE Addressed'
  BY <1>40 DEF FinEvent, Goto, Addressed, TypeOK, StartPcs, CancelPcs, Threads,
       Compactors, actorVars, compactVars, tokenVars, queueVars, storageVars
<1>41. ASSUME NEW n \in Turns, FinPersist(n) PROVE Addressed'
  BY <1>41 DEF FinPersist, Goto, AfterFinish, Addressed, TypeOK, StartPcs,
       CancelPcs, Threads, Compactors, actorVars, compactVars, tokenVars, queueVars
<1>42. ASSUME NEW n \in Turns, AutoCheck(n) PROVE Addressed'
  BY <1>42 DEF AutoCheck, Goto, Snapshot, Addressed, TypeOK, StartPcs, CancelPcs,
       Threads, Compactors, actorVars, compactVars, tokenVars, queueVars,
       storageVars
<1>43. ASSUME NEW n \in Turns, NEW c \in ChildThreads, ExecSpawn(n, c) PROVE Addressed'
  BY <1>43 DEF ExecSpawn, StartChildTurn, Goto, Addressed, TypeOK, StartPcs,
       CancelPcs, Threads, Compactors, actorVars, compactVars, tokenVars, queueVars
<1>44. ASSUME NEW c \in Compactors, CompactClaim(c) PROVE Addressed'
  <2>1. /\ pc' = pc \/ (c \in Turns /\ pc' = [pc EXCEPT ![c] = "done"])
        /\ c = 0 => pc' = pc
    BY <1>44 DEF CompactClaim, Compactors, CompactionStep, EndCompaction
  <2>2. \/ cpc' = [cpc EXCEPT ![c] = "none"] /\ cthread' = [cthread EXCEPT ![c] = None]
        \/ \E l \in CompactPcs : cpc' = [cpc EXCEPT ![c] = l] /\ cthread' = cthread
    BY <1>44 DEF CompactClaim, CompactPcs, CompactionStep, EndCompaction
  <2>3. (apc' = apc \/ apc' = "idle") /\ UNCHANGED <<athread, aturn, turnThread, loc>>
    BY <1>44 DEF CompactClaim, ReplyIfManual, actorVars
  <2>4. cpc[c] # "none"
    BY <1>44 DEF CompactClaim
  <2>5. \A d \in Compactors : cpc'[d] # "none" => cthread'[d] \in Threads
    BY <2>2, <2>4 DEF Addressed, TypeOK
  <2>6. \A n \in Turns : pc'[n] # "none" \/ cpc'[n] # "none" => turnThread'[n] \in Threads
    <3> SUFFICES ASSUME NEW n \in Turns, pc'[n] # "none" \/ cpc'[n] # "none"
                 PROVE  turnThread[n] \in Threads
      BY <2>3
    <3>1. n \in Compactors
      BY DEF Compactors
    <3> QED
      BY <2>1, <2>2, <2>4, <3>1 DEF Addressed, TypeOK
  <2> QED
    BY <2>1, <2>3, <2>5, <2>6 DEF Addressed, TypeOK, StartPcs, CancelPcs
<1>45. ASSUME NEW c \in Compactors, CompactHook(c) PROVE Addressed'
  <2>1. /\ pc' = pc \/ (c \in Turns /\ pc' = [pc EXCEPT ![c] = "done"])
        /\ c = 0 => pc' = pc
    BY <1>45 DEF CompactHook, Compactors, CompactionStep, EndCompaction
  <2>2. \/ cpc' = [cpc EXCEPT ![c] = "none"] /\ cthread' = [cthread EXCEPT ![c] = None]
        \/ \E l \in CompactPcs : cpc' = [cpc EXCEPT ![c] = l] /\ cthread' = cthread
    BY <1>45 DEF CompactHook, CompactPcs, CompactionStep, EndCompaction
  <2>3. (apc' = apc \/ apc' = "idle") /\ UNCHANGED <<athread, aturn, turnThread, loc>>
    BY <1>45 DEF CompactHook, ReplyIfManual, actorVars
  <2>4. cpc[c] # "none"
    BY <1>45 DEF CompactHook
  <2>5. \A d \in Compactors : cpc'[d] # "none" => cthread'[d] \in Threads
    BY <2>2, <2>4 DEF Addressed, TypeOK
  <2>6. \A n \in Turns : pc'[n] # "none" \/ cpc'[n] # "none" => turnThread'[n] \in Threads
    <3> SUFFICES ASSUME NEW n \in Turns, pc'[n] # "none" \/ cpc'[n] # "none"
                 PROVE  turnThread[n] \in Threads
      BY <2>3
    <3>1. n \in Compactors
      BY DEF Compactors
    <3> QED
      BY <2>1, <2>2, <2>4, <3>1 DEF Addressed, TypeOK
  <2> QED
    BY <2>1, <2>3, <2>5, <2>6 DEF Addressed, TypeOK, StartPcs, CancelPcs
<1>46. ASSUME NEW c \in Compactors, CompactSummarize(c) PROVE Addressed'
  <2>1. /\ pc' = pc \/ (c \in Turns /\ pc' = [pc EXCEPT ![c] = "done"])
        /\ c = 0 => pc' = pc
    BY <1>46 DEF CompactSummarize, Compactors, CompactionStep, EndCompaction
  <2>2. \/ cpc' = [cpc EXCEPT ![c] = "none"] /\ cthread' = [cthread EXCEPT ![c] = None]
        \/ \E l \in CompactPcs : cpc' = [cpc EXCEPT ![c] = l] /\ cthread' = cthread
    BY <1>46 DEF CompactSummarize, CompactPcs, CompactionStep, EndCompaction
  <2>3. apc' = apc /\ UNCHANGED <<athread, aturn, turnThread, loc>>
    BY <1>46 DEF CompactSummarize, ReplyIfManual, actorVars
  <2>4. cpc[c] # "none"
    BY <1>46 DEF CompactSummarize
  <2>5. \A d \in Compactors : cpc'[d] # "none" => cthread'[d] \in Threads
    BY <2>2, <2>4 DEF Addressed, TypeOK
  <2>6. \A n \in Turns : pc'[n] # "none" \/ cpc'[n] # "none" => turnThread'[n] \in Threads
    <3> SUFFICES ASSUME NEW n \in Turns, pc'[n] # "none" \/ cpc'[n] # "none"
                 PROVE  turnThread[n] \in Threads
      BY <2>3
    <3>1. n \in Compactors
      BY DEF Compactors
    <3> QED
      BY <2>1, <2>2, <2>4, <3>1 DEF Addressed, TypeOK
  <2> QED
    BY <2>1, <2>3, <2>5, <2>6 DEF Addressed, TypeOK, StartPcs, CancelPcs
<1>47. ASSUME NEW c \in Compactors, CompactReplace(c) PROVE Addressed'
  BY <1>47 DEF CompactReplace, CompactionStep, EndCompaction, ReplyIfManual,
       Addressed, TypeOK, StartPcs, CancelPcs, Threads, Compactors, actorVars,
       tokenVars, queueVars, storageVars
<1>48. ASSUME NEW c \in Compactors, CompactPost(c) PROVE Addressed'
  <2>1. /\ pc' = pc \/ (c \in Turns /\ pc' = [pc EXCEPT ![c] = "done"])
        /\ c = 0 => pc' = pc
    BY <1>48 DEF CompactPost, Compactors, CompactionStep, EndCompaction
  <2>2. \/ cpc' = [cpc EXCEPT ![c] = "none"] /\ cthread' = [cthread EXCEPT ![c] = None]
        \/ \E l \in CompactPcs : cpc' = [cpc EXCEPT ![c] = l] /\ cthread' = cthread
    BY <1>48 DEF CompactPost, CompactPcs, CompactionStep, EndCompaction
  <2>3. apc' = apc /\ UNCHANGED <<athread, aturn, turnThread, loc>>
    BY <1>48 DEF CompactPost, ReplyIfManual, actorVars
  <2>4. cpc[c] # "none"
    BY <1>48 DEF CompactPost
  <2>5. \A d \in Compactors : cpc'[d] # "none" => cthread'[d] \in Threads
    BY <2>2, <2>4 DEF Addressed, TypeOK
  <2>6. \A n \in Turns : pc'[n] # "none" \/ cpc'[n] # "none" => turnThread'[n] \in Threads
    <3> SUFFICES ASSUME NEW n \in Turns, pc'[n] # "none" \/ cpc'[n] # "none"
                 PROVE  turnThread[n] \in Threads
      BY <2>3
    <3>1. n \in Compactors
      BY DEF Compactors
    <3> QED
      BY <2>1, <2>2, <2>4, <3>1 DEF Addressed, TypeOK
  <2> QED
    BY <2>1, <2>3, <2>5, <2>6 DEF Addressed, TypeOK, StartPcs, CancelPcs
<1>49. CASE UNCHANGED vars
  BY <1>49 DEF vars, Addressed, TypeOK, StartPcs, CancelPcs, Threads, Compactors,
       actorVars, taskVars, compactVars, tokenVars, queueVars, storageVars
<1> QED
  BY <1>1, <1>2, <1>3, <1>4, <1>5, <1>6, <1>7, <1>8, <1>9, <1>10, <1>11, <1>12,
       <1>13, <1>14, <1>15, <1>16, <1>17, <1>18, <1>19, <1>20, <1>21, <1>22, <1>23,
       <1>24, <1>25, <1>26, <1>27, <1>28, <1>29, <1>30, <1>31, <1>32, <1>33, <1>34,
       <1>35, <1>36, <1>37, <1>38, <1>39, <1>40, <1>41, <1>42, <1>43, <1>44, <1>45,
       <1>46, <1>47, <1>48, <1>49
     DEF Next, Submit, ActorStep, TaskStep, CompactStep

PhaseInv == SingleActiveTurn /\ MaintenanceAlone

(* Every step keeps the phase protocol *)
LEMMA PhaseStep ==
    ASSUME TypeOK, Addressed, PhaseInv, [Next]_vars
    PROVE  PhaseInv'
<1>1. ASSUME NEW t \in Threads, StartTurn(t) PROVE PhaseInv'
  BY <1>1 DEF StartTurn, PhaseInv, SingleActiveTurn, MaintenanceAlone, TurnHeld,
       Starting, Cancelling, Finishing, CompactionHolds, CanSet, AllowsTransition,
       TypeOK, taskVars, compactVars, tokenVars, queueVars, storageVars
<1>2. ASSUME NEW t \in Threads, Compact(t) PROVE PhaseInv'
  BY <1>2 DEF Compact, Snapshot, PhaseInv, SingleActiveTurn, MaintenanceAlone,
       TurnHeld, Starting, Cancelling, Finishing, CompactionHolds, TypeOK, taskVars,
       tokenVars, queueVars, storageVars
<1>3. ASSUME NEW t \in Threads, CancelTurn(t) PROVE PhaseInv'
  <2>1. UNCHANGED <<phase, pc, turnThread, cpc>>
    BY <1>3 DEF CancelTurn, taskVars, compactVars
  <2>2. CASE Resident(t) /\ slot[t] # None
    <3>1. slot'[t] = None /\ \A u \in Threads : u # t => slot'[u] = slot[u]
      BY <1>3, <2>2 DEF CancelTurn, TypeOK
    <3>2. apc = "idle" /\ apc' = "cancelAbort" /\ athread' = t
      BY <1>3, <2>2 DEF CancelTurn
    <3> QED
      BY <2>1, <2>2, <3>1, <3>2 DEF PhaseInv, SingleActiveTurn, MaintenanceAlone,
           TurnHeld,
           Starting, Cancelling, Finishing, CompactionHolds, Threads
  <2>3. CASE ~(Resident(t) /\ slot[t] # None)
    BY <1>3, <2>1, <2>3 DEF CancelTurn, PhaseInv, SingleActiveTurn,
         MaintenanceAlone, TurnHeld,
         Starting, Cancelling, Finishing, CompactionHolds
  <2> QED
    BY <2>2, <2>3
<1>4. ASSUME NEW t \in Threads, NEW q \in Queues, NEW i \in Inputs, Inject(t, q, i) PROVE PhaseInv'
  BY <1>4 DEF Inject, PhaseInv, SingleActiveTurn, MaintenanceAlone, TurnHeld,
       Starting, Cancelling, Finishing, CompactionHolds, TypeOK, actorVars,
       taskVars, compactVars, tokenVars, storageVars
<1>5. ASSUME NEW c \in ChildThreads, SpawnSubagent(c) PROVE PhaseInv'
  <2>1. StartChildTurn(c) /\ c \notin TopThreads
    BY <1>5, ThreadsAssumption DEF SpawnSubagent
  <2>2. \A t \in TopThreads : slot'[t] = slot[t]
    BY <2>1 DEF StartChildTurn, TypeOK, Threads
  <2>3. \A m \in Turns : Finishing(m)' => Finishing(m)
    BY <2>1 DEF StartChildTurn, Goto, Finishing, TypeOK
  <2>4. UNCHANGED <<phase, apc, athread, cpc>>
    BY <2>1 DEF StartChildTurn, actorVars, compactVars
  <2> QED
    BY <2>2, <2>3, <2>4 DEF PhaseInv, SingleActiveTurn, MaintenanceAlone, TurnHeld,
         Starting, Cancelling, CompactionHolds
<1>6. CASE Fork
  BY <1>6 DEF Fork, PhaseInv, SingleActiveTurn, MaintenanceAlone, TurnHeld,
       Starting, Cancelling, Finishing, CompactionHolds, CanSet, AllowsTransition,
       TypeOK, taskVars, compactVars, tokenVars, queueVars, storageVars
<1>7. CASE Restore
  BY <1>7 DEF Restore, PhaseInv, SingleActiveTurn, MaintenanceAlone, TurnHeld,
       Starting, Cancelling, Finishing, CompactionHolds, CanSet, AllowsTransition,
       TypeOK, taskVars, compactVars, tokenVars, queueVars, storageVars
<1>8. CASE Shutdown
  BY <1>8 DEF Shutdown, PhaseInv, SingleActiveTurn, MaintenanceAlone, TurnHeld,
       Starting, Cancelling, Finishing, CompactionHolds, TypeOK, taskVars,
       compactVars, queueVars
<1>9. CASE StartDrain
  BY <1>9 DEF StartDrain, PhaseInv, SingleActiveTurn, MaintenanceAlone, TurnHeld,
       Starting, Cancelling, Finishing, CompactionHolds, TypeOK, taskVars,
       compactVars, tokenVars, storageVars
<1>10. CASE StartInstall
  BY <1>10 DEF StartInstall, PhaseInv, SingleActiveTurn, MaintenanceAlone, TurnHeld,
       Starting, Cancelling, Finishing, CompactionHolds, TypeOK, taskVars,
       compactVars, tokenVars, queueVars, storageVars
<1>11. CASE StartStatus
  BY <1>11 DEF StartStatus, PhaseInv, SingleActiveTurn, MaintenanceAlone, TurnHeld,
       Starting, Cancelling, Finishing, CompactionHolds, TypeOK, taskVars,
       compactVars, tokenVars, queueVars, storageVars
<1>12. CASE StartBuffer
  BY <1>12 DEF StartBuffer, PhaseInv, SingleActiveTurn, MaintenanceAlone, TurnHeld,
       Starting, Cancelling, Finishing, CompactionHolds, TypeOK, taskVars,
       compactVars, tokenVars, queueVars, storageVars
<1>13. CASE StartPush
  BY <1>13 DEF StartPush, PhaseInv, SingleActiveTurn, MaintenanceAlone, TurnHeld,
       Starting, Cancelling, Finishing, CompactionHolds, TypeOK, taskVars,
       compactVars, tokenVars, storageVars
<1>14. CASE StartSpawn
  BY <1>14 DEF StartSpawn, Goto, PhaseInv, SingleActiveTurn, MaintenanceAlone,
       TurnHeld, Starting, Cancelling, Finishing, CompactionHolds, TypeOK,
       compactVars, tokenVars, queueVars
<1>15. CASE CancelAbort
  BY <1>15 DEF CancelAbort, PhaseInv, SingleActiveTurn, MaintenanceAlone, TurnHeld,
       Starting, Cancelling, Finishing, CompactionHolds, TypeOK, taskVars,
       compactVars, tokenVars, storageVars
<1>16. CASE CancelStatus
  BY <1>16 DEF CancelStatus, PhaseInv, SingleActiveTurn, MaintenanceAlone, TurnHeld,
       Starting, Cancelling, Finishing, CompactionHolds, TypeOK, taskVars,
       compactVars, tokenVars, queueVars, storageVars
<1>17. CASE CancelBuffer
  BY <1>17 DEF CancelBuffer, PhaseInv, SingleActiveTurn, MaintenanceAlone, TurnHeld,
       Starting, Cancelling, Finishing, CompactionHolds, TypeOK, taskVars,
       compactVars, tokenVars, queueVars, storageVars
<1>18. CASE CancelPersist
  BY <1>18 DEF CancelPersist, PhaseInv, SingleActiveTurn, MaintenanceAlone,
       TurnHeld, Starting, Cancelling, Finishing, CompactionHolds, TypeOK, taskVars,
       compactVars, tokenVars, queueVars
<1>19. CASE CancelPhase
  BY <1>19 DEF CancelPhase, SetOrLog, PhaseInv, SingleActiveTurn, MaintenanceAlone,
       TurnHeld, Starting, Cancelling, Finishing, CompactionHolds, CanSet,
       AllowsTransition, TypeOK, taskVars, compactVars, tokenVars, queueVars,
       storageVars
<1>20. CASE ForkEnd
  BY <1>20 DEF ForkEnd, SetOrLog, PhaseInv, SingleActiveTurn, MaintenanceAlone,
       TurnHeld, Starting, Cancelling, Finishing, CompactionHolds, CanSet,
       AllowsTransition, TypeOK, taskVars, compactVars, tokenVars, queueVars,
       storageVars
<1>21. CASE RestoreFiles
  BY <1>21 DEF RestoreFiles, SetOrLog, PhaseInv, SingleActiveTurn, MaintenanceAlone,
       TurnHeld, Starting, Cancelling, Finishing, CompactionHolds, CanSet,
       AllowsTransition, TypeOK, taskVars, compactVars, tokenVars, queueVars,
       storageVars
<1>22. CASE RestoreFork
  BY <1>22 DEF RestoreFork, PhaseInv, SingleActiveTurn, MaintenanceAlone, TurnHeld,
       Starting, Cancelling, Finishing, CompactionHolds, CanSet, AllowsTransition,
       TypeOK, taskVars, tokenVars, queueVars, storageVars
<1>23. ASSUME NEW n \in Turns, Begin(n) PROVE PhaseInv'
  <2>1. UNCHANGED <<phase, slot, apc, athread, turnThread, cpc>>
    BY <1>23 DEF Begin, actorVars, compactVars
  <2>2. \A m \in Turns : Finishing(m)' => Finishing(m)
    BY <1>23, <2>1 DEF Begin, Goto, Finishing, TypeOK
  <2> QED
    BY <2>1, <2>2 DEF PhaseInv, SingleActiveTurn, MaintenanceAlone, TurnHeld,
         Starting, Cancelling, CompactionHolds
<1>24. ASSUME NEW n \in Turns, Steer(n) PROVE PhaseInv'
  <2>1. UNCHANGED <<phase, slot, apc, athread, turnThread, cpc>>
    BY <1>24 DEF Steer, actorVars, compactVars
  <2>2. \A m \in Turns : Finishing(m)' => Finishing(m)
    BY <1>24, <2>1 DEF Steer, Goto, Finishing, TypeOK
  <2> QED
    BY <2>1, <2>2 DEF PhaseInv, SingleActiveTurn, MaintenanceAlone, TurnHeld,
         Starting, Cancelling, CompactionHolds
<1>25. ASSUME NEW n \in Turns, Call(n) PROVE PhaseInv'
  <2>1. UNCHANGED <<phase, slot, apc, athread, turnThread, cpc>>
    BY <1>25 DEF Call, actorVars, compactVars
  <2>2. \A m \in Turns : Finishing(m)' => Finishing(m)
    BY <1>25, <2>1 DEF Call, Goto, Finishing, TypeOK
  <2> QED
    BY <2>1, <2>2 DEF PhaseInv, SingleActiveTurn, MaintenanceAlone, TurnHeld,
         Starting, Cancelling, CompactionHolds
<1>26. ASSUME NEW n \in Turns, RetryEnter(n) PROVE PhaseInv'
  BY <1>26 DEF RetryEnter, Goto, SetOrLog, PhaseInv, SingleActiveTurn,
       MaintenanceAlone, TurnHeld, Starting, Cancelling, Finishing, CompactionHolds,
       CanSet, AllowsTransition, TypeOK, actorVars, compactVars, tokenVars,
       queueVars, storageVars
<1>27. ASSUME NEW n \in Turns, Backoff(n) PROVE PhaseInv'
  <2>1. UNCHANGED <<phase, slot, apc, athread, turnThread, cpc>>
    BY <1>27 DEF Backoff, actorVars, compactVars
  <2>2. \A m \in Turns : Finishing(m)' => Finishing(m)
    BY <1>27, <2>1 DEF Backoff, Goto, Finishing, TypeOK
  <2> QED
    BY <2>1, <2>2 DEF PhaseInv, SingleActiveTurn, MaintenanceAlone, TurnHeld,
         Starting, Cancelling, CompactionHolds
<1>28. ASSUME NEW n \in Turns, RetryLeave(n) PROVE PhaseInv'
  <2>1. UNCHANGED <<slot, apc, athread, turnThread, cpc>>
    BY <1>28 DEF RetryLeave, actorVars, compactVars
  <2>2. \A m \in Turns : Finishing(m)' => Finishing(m)
    BY <1>28, <2>1 DEF RetryLeave, Goto, Finishing, TypeOK
  <2>3. phase' = phase \/ (phase = "Retry" /\ phase' = "Turn")
    BY <1>28 DEF RetryLeave, SetOrLog, CanSet
  <2> QED
    BY <2>1, <2>2, <2>3 DEF PhaseInv, SingleActiveTurn, MaintenanceAlone, TurnHeld,
         Starting, Cancelling, CompactionHolds
<1>29. ASSUME NEW n \in Turns, Fail(n) PROVE PhaseInv'
  <2>1. UNCHANGED <<phase, slot, apc, athread, turnThread, cpc>>
    BY <1>29 DEF Fail, actorVars, compactVars
  <2>2. \A m \in Turns : Finishing(m)' => Finishing(m)
    BY <1>29, <2>1 DEF Fail, Goto, Finishing, TypeOK
  <2> QED
    BY <2>1, <2>2 DEF PhaseInv, SingleActiveTurn, MaintenanceAlone, TurnHeld,
         Starting, Cancelling, CompactionHolds
<1>30. ASSUME NEW n \in Turns, Stream(n) PROVE PhaseInv'
  <2>1. UNCHANGED <<phase, slot, apc, athread, turnThread, cpc>>
    BY <1>30 DEF Stream, actorVars, compactVars
  <2>2. \A m \in Turns : Finishing(m)' => Finishing(m)
    BY <1>30, <2>1 DEF Stream, Goto, Finishing, TypeOK
  <2> QED
    BY <2>1, <2>2 DEF PhaseInv, SingleActiveTurn, MaintenanceAlone, TurnHeld,
         Starting, Cancelling, CompactionHolds
<1>31. ASSUME NEW n \in Turns, Fold(n) PROVE PhaseInv'
  <2>1. UNCHANGED <<phase, slot, apc, athread, turnThread, cpc>>
    BY <1>31 DEF Fold, actorVars, compactVars
  <2>2. \A m \in Turns : Finishing(m)' => Finishing(m)
    BY <1>31, <2>1 DEF Fold, Goto, Finishing, TypeOK
  <2> QED
    BY <2>1, <2>2 DEF PhaseInv, SingleActiveTurn, MaintenanceAlone, TurnHeld,
         Starting, Cancelling, CompactionHolds
<1>32. ASSUME NEW n \in Turns, FollowUp(n) PROVE PhaseInv'
  <2>1. UNCHANGED <<phase, slot, apc, athread, turnThread, cpc>>
    BY <1>32 DEF FollowUp, actorVars, compactVars
  <2>2. \A m \in Turns : Finishing(m)' => Finishing(m)
    BY <1>32, <2>1 DEF FollowUp, Goto, Finishing, TypeOK
  <2> QED
    BY <2>1, <2>2 DEF PhaseInv, SingleActiveTurn, MaintenanceAlone, TurnHeld,
         Starting, Cancelling, CompactionHolds
<1>33. ASSUME NEW n \in Turns, Resolve(n) PROVE PhaseInv'
  <2>1. UNCHANGED <<phase, slot, apc, athread, turnThread, cpc>>
    BY <1>33 DEF Resolve, actorVars, compactVars
  <2>2. \A m \in Turns : Finishing(m)' => Finishing(m)
    BY <1>33, <2>1 DEF Resolve, Goto, Finishing, TypeOK
  <2> QED
    BY <2>1, <2>2 DEF PhaseInv, SingleActiveTurn, MaintenanceAlone, TurnHeld,
         Starting, Cancelling, CompactionHolds
<1>34. ASSUME NEW n \in Turns, Exec(n) PROVE PhaseInv'
  <2>1. UNCHANGED <<phase, slot, apc, athread, turnThread, cpc>>
    BY <1>34 DEF Exec, actorVars, compactVars
  <2>2. \A m \in Turns : Finishing(m)' => Finishing(m)
    BY <1>34, <2>1 DEF Exec, Goto, Finishing, TypeOK
  <2> QED
    BY <2>1, <2>2 DEF PhaseInv, SingleActiveTurn, MaintenanceAlone, TurnHeld,
         Starting, Cancelling, CompactionHolds
<1>35. ASSUME NEW n \in Turns, Commit(n) PROVE PhaseInv'
  <2>1. UNCHANGED <<phase, slot, apc, athread, turnThread, cpc>>
    BY <1>35 DEF Commit, actorVars, compactVars
  <2>2. \A m \in Turns : Finishing(m)' => Finishing(m)
    BY <1>35, <2>1 DEF Commit, Goto, Finishing, TypeOK
  <2> QED
    BY <2>1, <2>2 DEF PhaseInv, SingleActiveTurn, MaintenanceAlone, TurnHeld,
         Starting, Cancelling, CompactionHolds
<1>36. ASSUME NEW n \in Turns, Finish(n) PROVE PhaseInv'
  <2> DEFINE t == turnThread[n]
  <2>1. t \in Threads
    BY <1>36 DEF Finish, Addressed
  <2>2. UNCHANGED <<phase, apc, athread, turnThread, cpc>>
    BY <1>36 DEF Finish, actorVars, compactVars
  <2>3. CASE slot[t] = n
    <3>1. slot' = [slot EXCEPT ![t] = None] /\ pc' = [pc EXCEPT ![n] = "finStatus"]
      BY <1>36, <2>3 DEF Finish, Goto
    <3>2. \A m \in Turns : Finishing(m)' => Finishing(m) \/ (m = n /\ t \in TopThreads)
      BY <3>1, <2>2 DEF Finishing, TypeOK
    <3>3. slot'[t] = None /\ \A u \in Threads : u # t => slot'[u] = slot[u]
      BY <3>1, <2>1 DEF TypeOK
    <3>4. n # None
      BY DEF Turns
    <3> QED
      BY <2>1, <2>2, <2>3, <3>2, <3>3, <3>4 DEF PhaseInv, SingleActiveTurn,
           MaintenanceAlone,
           TurnHeld, Starting, Cancelling, CompactionHolds, Threads
  <2>4. CASE slot[t] # n
    <3>1. slot' = slot /\ \A m \in Turns : Finishing(m)' => Finishing(m)
      BY <1>36, <2>2, <2>4 DEF Finish, Goto, AfterFinish, Finishing, TypeOK
    <3> QED
      BY <2>2, <3>1 DEF PhaseInv, SingleActiveTurn, MaintenanceAlone, TurnHeld,
           Starting, Cancelling, CompactionHolds
  <2> QED
    BY <2>3, <2>4
<1>37. ASSUME NEW n \in Turns, FinStatus(n) PROVE PhaseInv'
  BY <1>37 DEF FinStatus, Goto, PhaseInv, SingleActiveTurn, MaintenanceAlone,
       TurnHeld, Starting, Cancelling, Finishing, CompactionHolds, TypeOK,
       actorVars, compactVars, tokenVars, queueVars, storageVars
<1>38. ASSUME NEW n \in Turns, FinPhase(n) PROVE PhaseInv'
  BY <1>38 DEF FinPhase, Goto, SetOrLog, PhaseInv, SingleActiveTurn,
       MaintenanceAlone, TurnHeld, Starting, Cancelling, Finishing, CompactionHolds,
       CanSet, AllowsTransition, TypeOK, actorVars, compactVars, tokenVars,
       queueVars, storageVars
<1>39. ASSUME NEW n \in Turns, FinBuffer(n) PROVE PhaseInv'
  <2>1. UNCHANGED <<phase, slot, apc, athread, turnThread, cpc>>
    BY <1>39 DEF FinBuffer, actorVars, compactVars
  <2>2. \A m \in Turns : Finishing(m)' => Finishing(m)
    BY <1>39, <2>1 DEF FinBuffer, Goto, Finishing, TypeOK
  <2> QED
    BY <2>1, <2>2 DEF PhaseInv, SingleActiveTurn, MaintenanceAlone, TurnHeld,
         Starting, Cancelling, CompactionHolds
<1>40. ASSUME NEW n \in Turns, FinEvent(n) PROVE PhaseInv'
  <2>1. UNCHANGED <<phase, slot, apc, athread, turnThread, cpc>>
    BY <1>40 DEF FinEvent, actorVars, compactVars
  <2>2. \A m \in Turns : Finishing(m)' => Finishing(m)
    BY <1>40, <2>1 DEF FinEvent, Goto, Finishing, TypeOK
  <2> QED
    BY <2>1, <2>2 DEF PhaseInv, SingleActiveTurn, MaintenanceAlone, TurnHeld,
         Starting, Cancelling, CompactionHolds
<1>41. ASSUME NEW n \in Turns, FinPersist(n) PROVE PhaseInv'
  <2>1. UNCHANGED <<phase, slot, apc, athread, turnThread, cpc>>
    BY <1>41 DEF FinPersist, actorVars, compactVars
  <2>2. \A m \in Turns : Finishing(m)' => Finishing(m)
    BY <1>41, <2>1 DEF FinPersist, AfterFinish, Goto, Finishing, TypeOK
  <2> QED
    BY <2>1, <2>2 DEF PhaseInv, SingleActiveTurn, MaintenanceAlone, TurnHeld,
         Starting, Cancelling, CompactionHolds
<1>42. ASSUME NEW n \in Turns, AutoCheck(n) PROVE PhaseInv'
  <2>1. UNCHANGED <<phase, slot, apc, athread, turnThread>>
    BY <1>42 DEF AutoCheck, actorVars
  <2>2. \A m \in Turns : Finishing(m)' => Finishing(m)
    BY <1>42, <2>1 DEF AutoCheck, Goto, Finishing, TypeOK
  <2>3. \A c \in Compactors : CompactionHolds(c)' => CompactionHolds(c)
    BY <1>42 DEF AutoCheck, Snapshot, CompactionHolds, TypeOK, compactVars
  <2> QED
    BY <2>1, <2>2, <2>3 DEF PhaseInv, SingleActiveTurn, MaintenanceAlone, TurnHeld,
         Starting, Cancelling
<1>43. ASSUME NEW n \in Turns, NEW c \in ChildThreads, ExecSpawn(n, c) PROVE PhaseInv'
  <2>1. StartChildTurn(c) /\ c \notin TopThreads
    BY <1>43, ThreadsAssumption DEF ExecSpawn
  <2>2. \A t \in TopThreads : slot'[t] = slot[t]
    BY <2>1 DEF StartChildTurn, TypeOK, Threads
  <2>3. \A m \in Turns : Finishing(m)' => Finishing(m)
    BY <2>1 DEF StartChildTurn, Goto, Finishing, TypeOK
  <2>4. UNCHANGED <<phase, apc, athread, cpc>>
    BY <2>1 DEF StartChildTurn, actorVars, compactVars
  <2> QED
    BY <2>2, <2>3, <2>4 DEF PhaseInv, SingleActiveTurn, MaintenanceAlone, TurnHeld,
         Starting, Cancelling, CompactionHolds
<1>44. ASSUME NEW c \in Compactors, CompactClaim(c) PROVE PhaseInv'
  <2>1. pc' = pc \/ (c \in Turns /\ pc' = [pc EXCEPT ![c] = "done"])
    BY <1>44 DEF CompactClaim, Compactors, CompactionStep, EndCompaction
  <2>2. \E l \in CompactPcs : cpc' = [cpc EXCEPT ![c] = l]
    BY <1>44 DEF CompactClaim, CompactPcs, CompactionStep, EndCompaction
  <2>3. UNCHANGED <<slot, athread, turnThread>> /\ (apc' = apc \/ apc' = "idle")
    BY <1>44 DEF CompactClaim, ReplyIfManual, actorVars
  <2>4. phase' \in {phase, "Idle", "Compaction"}
    BY <1>44 DEF CompactClaim, SetOrLog
  <2>5. \A n \in Turns : Finishing(n)' => Finishing(n)
    BY <2>1, <2>3 DEF Finishing, TypeOK
  <2>6. TurnHeld' => TurnHeld
    BY <2>3, <2>5 DEF TurnHeld, Starting, Cancelling
  <2>7. phase' = phase \/ phase \in {"Idle", "Compaction"}
    BY <1>44 DEF CompactClaim, SetOrLog, CanSet
  <2>8. SingleActiveTurn'
    BY <2>3, <2>4, <2>5, <2>6, <2>7 DEF PhaseInv, SingleActiveTurn, Starting, Cancelling
  <2>9. MaintenanceAlone'
    <3>1. CASE CanSet("Idle", "Compaction")
      <4>1. phase = "Idle" /\ phase' = "Compaction" /\ apc' = apc
        BY <1>44, <3>1 DEF CompactClaim, CanSet
      <4>2. cpc' = [cpc EXCEPT ![c] = "hook"]
        BY <1>44, <3>1 DEF CompactClaim, CompactionStep
      <4>3. \A d \in Compactors : ~CompactionHolds(d)
        BY <4>1 DEF PhaseInv, MaintenanceAlone
      <4>4. \A d \in Compactors : CompactionHolds(d)' => d = c
        BY <4>2, <4>3 DEF CompactionHolds, TypeOK
      <4> QED
        BY <4>1, <4>4 DEF PhaseInv, MaintenanceAlone
    <3>2. CASE ~CanSet("Idle", "Compaction")
      <4>1. phase' = phase /\ cpc' = [cpc EXCEPT ![c] = "none"]
        BY <1>44, <3>2 DEF CompactClaim, EndCompaction
      <4>2. \A d \in Compactors : CompactionHolds(d)' => CompactionHolds(d)
        BY <4>1 DEF CompactionHolds, TypeOK
      <4> QED
        BY <2>3, <4>1, <4>2 DEF PhaseInv, MaintenanceAlone
    <3> QED
      BY <3>1, <3>2
  <2> QED
    BY <2>8, <2>9 DEF PhaseInv
<1>45. ASSUME NEW c \in Compactors, CompactHook(c) PROVE PhaseInv'
  <2>1. pc' = pc \/ (c \in Turns /\ pc' = [pc EXCEPT ![c] = "done"])
    BY <1>45 DEF CompactHook, Compactors, CompactionStep, EndCompaction
  <2>2. \E l \in CompactPcs : cpc' = [cpc EXCEPT ![c] = l]
    BY <1>45 DEF CompactHook, CompactPcs, CompactionStep, EndCompaction
  <2>3. UNCHANGED <<slot, athread, turnThread>> /\ (apc' = apc \/ apc' = "idle")
    BY <1>45 DEF CompactHook, ReplyIfManual, actorVars
  <2>4. phase' \in {phase, "Idle", "Compaction"}
    BY <1>45 DEF CompactHook, SetOrLog
  <2>5. \A n \in Turns : Finishing(n)' => Finishing(n)
    BY <2>1, <2>3 DEF Finishing, TypeOK
  <2>6. TurnHeld' => TurnHeld
    BY <2>3, <2>5 DEF TurnHeld, Starting, Cancelling
  <2>7. phase' = phase \/ phase \in {"Idle", "Compaction"}
    BY <1>45 DEF CompactHook, SetOrLog, CanSet
  <2>8. SingleActiveTurn'
    BY <2>3, <2>4, <2>5, <2>6, <2>7 DEF PhaseInv, SingleActiveTurn, Starting, Cancelling
  <2>9. MaintenanceAlone'
    <3>1. CompactionHolds(c)
      BY <1>45 DEF CompactHook, CompactionHolds
    <3>2. phase = "Compaction" /\ apc \notin {"fork", "restore"}
      BY <3>1 DEF PhaseInv, MaintenanceAlone
    <3>3. \A d \in Compactors : CompactionHolds(d)' => d = c
      BY <2>2, <3>1 DEF PhaseInv, MaintenanceAlone, CompactionHolds, TypeOK
    <3>4. phase' = "Compaction" \/ cpc' = [cpc EXCEPT ![c] = "none"]
      BY <1>45, <3>2 DEF CompactHook, EndCompaction
    <3>5. CompactionHolds(c)' => phase' = "Compaction"
      BY <3>4 DEF CompactionHolds, TypeOK
    <3> QED
      BY <2>3, <3>2, <3>3, <3>5 DEF MaintenanceAlone
  <2> QED
    BY <2>8, <2>9 DEF PhaseInv
<1>46. ASSUME NEW c \in Compactors, CompactSummarize(c) PROVE PhaseInv'
  <2>1. pc' = pc \/ (c \in Turns /\ pc' = [pc EXCEPT ![c] = "done"])
    BY <1>46 DEF CompactSummarize, Compactors, CompactionStep, EndCompaction
  <2>2. \E l \in CompactPcs : cpc' = [cpc EXCEPT ![c] = l]
    BY <1>46 DEF CompactSummarize, CompactPcs, CompactionStep, EndCompaction
  <2>3. UNCHANGED <<slot, athread, turnThread>> /\ (apc' = apc \/ apc' = "idle")
    BY <1>46 DEF CompactSummarize, ReplyIfManual, actorVars
  <2>4. phase' \in {phase, "Idle", "Compaction"}
    BY <1>46 DEF CompactSummarize, SetOrLog
  <2>5. \A n \in Turns : Finishing(n)' => Finishing(n)
    BY <2>1, <2>3 DEF Finishing, TypeOK
  <2>6. TurnHeld' => TurnHeld
    BY <2>3, <2>5 DEF TurnHeld, Starting, Cancelling
  <2>7. phase' = phase \/ phase \in {"Idle", "Compaction"}
    BY <1>46 DEF CompactSummarize, SetOrLog, CanSet
  <2>8. SingleActiveTurn'
    BY <2>3, <2>4, <2>5, <2>6, <2>7 DEF PhaseInv, SingleActiveTurn, Starting, Cancelling
  <2>9. MaintenanceAlone'
    <3>1. CompactionHolds(c)
      BY <1>46 DEF CompactSummarize, CompactionHolds
    <3>2. phase = "Compaction" /\ apc \notin {"fork", "restore"}
      BY <3>1 DEF PhaseInv, MaintenanceAlone
    <3>3. \A d \in Compactors : CompactionHolds(d)' => d = c
      BY <2>2, <3>1 DEF PhaseInv, MaintenanceAlone, CompactionHolds, TypeOK
    <3>4. phase' = "Compaction" \/ cpc' = [cpc EXCEPT ![c] = "none"]
      BY <1>46, <3>2 DEF CompactSummarize, EndCompaction
    <3>5. CompactionHolds(c)' => phase' = "Compaction"
      BY <3>4 DEF CompactionHolds, TypeOK
    <3> QED
      BY <2>3, <3>2, <3>3, <3>5 DEF MaintenanceAlone
  <2> QED
    BY <2>8, <2>9 DEF PhaseInv
<1>47. ASSUME NEW c \in Compactors, CompactReplace(c) PROVE PhaseInv'
  BY <1>47 DEF CompactReplace, CompactionStep, EndCompaction, ReplyIfManual,
       PhaseInv, SingleActiveTurn, MaintenanceAlone, TurnHeld, Starting, Cancelling,
       Finishing, CompactionHolds, TypeOK, actorVars, tokenVars, queueVars,
       storageVars
<1>48. ASSUME NEW c \in Compactors, CompactPost(c) PROVE PhaseInv'
  BY <1>48 DEF CompactPost, SetOrLog, CompactionStep, EndCompaction, ReplyIfManual,
       PhaseInv, SingleActiveTurn, MaintenanceAlone, TurnHeld, Starting, Cancelling,
       Finishing, CompactionHolds, CanSet, AllowsTransition, TypeOK, actorVars,
       tokenVars, queueVars, storageVars
<1>49. CASE UNCHANGED vars
  BY <1>49 DEF vars, PhaseInv, SingleActiveTurn, MaintenanceAlone, TurnHeld,
       Starting, Cancelling, Finishing, CompactionHolds, TypeOK, actorVars,
       taskVars, compactVars, tokenVars, queueVars, storageVars
<1> QED
  BY <1>1, <1>2, <1>3, <1>4, <1>5, <1>6, <1>7, <1>8, <1>9, <1>10, <1>11, <1>12,
       <1>13, <1>14, <1>15, <1>16, <1>17, <1>18, <1>19, <1>20, <1>21, <1>22, <1>23,
       <1>24, <1>25, <1>26, <1>27, <1>28, <1>29, <1>30, <1>31, <1>32, <1>33, <1>34,
       <1>35, <1>36, <1>37, <1>38, <1>39, <1>40, <1>41, <1>42, <1>43, <1>44, <1>45,
       <1>46, <1>47, <1>48, <1>49
     DEF Next, Submit, ActorStep, TaskStep, CompactStep

-----------------------------------------------------------------------------
(* The initial state *)
LEMMA InitAll == Init => TypeOK /\ Addressed /\ PhaseInv
<1> SUFFICES ASSUME Init PROVE TypeOK /\ Addressed /\ PhaseInv
  OBVIOUS
<1>1. FreshLocals \in Locals
  BY BoundsAssumption DEF FreshLocals, Locals
<1>2. loc \in [Turns -> Locals]
  BY <1>1 DEF Init
<1>3. queue \in [Threads -> [Queues -> Seq(Inputs)]]
  BY DEF Init
<1>4. counter \in 0..MaxTurns
  BY BoundsAssumption DEF Init
<1>5. TypeOK
  <2>1. /\ phase \in Phases /\ apc \in ActorPcs /\ athread \in Threads \cup {None}
        /\ aturn \in Turns \cup {None} /\ aseed \in Seq(Inputs)
    BY DEF Init, Phases, ActorPcs
  <2>2. /\ slot \in [Threads -> Turns \cup {None}] /\ status \in [Threads -> {"Idle", "Active"}]
        /\ active \in [Threads -> Turns \cup {None}] /\ hist \in [Threads -> SUBSET Entry]
        /\ row \in [Threads -> RowValues]
    BY DEF Init, RowValues
  <2>3. /\ fate \in [Inputs -> Fates] /\ pc \in [Turns -> TaskPcs]
        /\ turnThread \in [Turns -> Threads \cup {None}]
    BY DEF Init, Fates, TaskPcs
  <2>4. /\ cpc \in [Compactors -> CompactPcs] /\ cthread \in [Compactors -> Threads \cup {None}]
    BY DEF Init, CompactPcs
  <2>5. /\ terminal \in [Turns -> SUBSET {"TurnCompleted", "TurnFailed", "SessionAborted"}]
        /\ ended \in [Turns -> EndedValues]
    BY DEF Init, EndedValues
  <2>6. /\ fired \subseteq Turns /\ rootFired \in BOOLEAN /\ halfRestored \in BOOLEAN
        /\ storageOpen \in BOOLEAN
    BY DEF Init
  <2> QED
    BY <1>2, <1>3, <1>4, <2>1, <2>2, <2>3, <2>4, <2>5, <2>6 DEF TypeOK
<1>6. Addressed
  <2>1. apc = "idle" /\ (\A n \in Turns : pc[n] = "none")
    BY DEF Init
  <2>2. \A c \in Compactors : cpc[c] = "none"
    BY DEF Init
  <2>3. \A n \in Turns : n \in Compactors
    BY DEF Compactors
  <2> QED
    BY <2>1, <2>2, <2>3 DEF Addressed, StartPcs, CancelPcs
<1>7. PhaseInv
  BY DEF Init, PhaseInv, SingleActiveTurn, MaintenanceAlone, TurnHeld, Starting,
         Cancelling, Finishing, CompactionHolds, Threads
<1> QED
  BY <1>5, <1>6, <1>7

(* The inductive invariant of the turn lifecycle *)
THEOREM Lifecycle == Spec => [](TypeOK /\ Addressed /\ PhaseInv)
<1>1. TypeOK /\ Addressed /\ PhaseInv /\ [Next]_vars => (TypeOK /\ Addressed /\ PhaseInv)'
  BY TypeStep, AddressedStep, PhaseStep
<1> QED
  BY InitAll, <1>1, PTL DEF Spec

(* Every piece of engine state keeps its type, for any number of threads,   *)
(* turns, retries and iterations.                                           *)
THEOREM TypeCorrect == Spec => []TypeOK
  BY Lifecycle, PTL

(* The phase compare-and-swap serialises top-level turns: from the claim in *)
(* start_turn until finish_turn or cancel_turn gives the phase back, exactly *)
(* one holder answers for it and nothing else can claim it.                 *)
THEOREM PhaseProtocol == Spec => []SingleActiveTurn
<1>1. PhaseInv => SingleActiveTurn
  BY DEF PhaseInv
<1> QED
  BY Lifecycle, <1>1, PTL

(* A compaction, a fork and a file revert hold their phase alone, from the  *)
(* claim to the release.                                                    *)
THEOREM MaintenanceProtocol == Spec => []MaintenanceAlone
<1>1. PhaseInv => MaintenanceAlone
  BY DEF PhaseInv
<1> QED
  BY Lifecycle, <1>1, PTL

-----------------------------------------------------------------------------
(* With no provider retries the Retry phase is never entered *)
RetryFree == phase # "Retry"

LEMMA RetryFreeStep ==
    ASSUME MaxProviderRetries = 0, TypeOK, Addressed, RetryFree, [Next]_vars
    PROVE  RetryFree'
<1>1. ASSUME NEW t \in Threads, StartTurn(t) PROVE RetryFree'
  BY <1>1 DEF StartTurn, RetryFree
<1>2. ASSUME NEW t \in Threads, Compact(t) PROVE RetryFree'
  BY <1>2 DEF Compact, RetryFree
<1>3. ASSUME NEW t \in Threads, CancelTurn(t) PROVE RetryFree'
  BY <1>3 DEF CancelTurn, RetryFree
<1>4. ASSUME NEW t \in Threads, NEW q \in Queues, NEW i \in Inputs, Inject(t, q, i) PROVE RetryFree'
  BY <1>4 DEF Inject, RetryFree
<1>5. ASSUME NEW c \in ChildThreads, SpawnSubagent(c) PROVE RetryFree'
  BY <1>5 DEF SpawnSubagent, StartChildTurn, RetryFree
<1>6. CASE Fork
  BY <1>6 DEF Fork, RetryFree
<1>7. CASE Restore
  BY <1>7 DEF Restore, RetryFree
<1>8. CASE Shutdown
  BY <1>8 DEF Shutdown, RetryFree
<1>9. CASE StartDrain
  BY <1>9 DEF StartDrain, RetryFree
<1>10. CASE StartInstall
  BY <1>10 DEF StartInstall, RetryFree
<1>11. CASE StartStatus
  BY <1>11 DEF StartStatus, RetryFree
<1>12. CASE StartBuffer
  BY <1>12 DEF StartBuffer, RetryFree
<1>13. CASE StartPush
  BY <1>13 DEF StartPush, RetryFree
<1>14. CASE StartSpawn
  BY <1>14 DEF StartSpawn, RetryFree
<1>15. CASE CancelAbort
  BY <1>15 DEF CancelAbort, RetryFree
<1>16. CASE CancelStatus
  BY <1>16 DEF CancelStatus, RetryFree
<1>17. CASE CancelBuffer
  BY <1>17 DEF CancelBuffer, RetryFree
<1>18. CASE CancelPersist
  BY <1>18 DEF CancelPersist, RetryFree
<1>19. CASE CancelPhase
  BY <1>19 DEF CancelPhase, SetOrLog, RetryFree
<1>20. CASE ForkEnd
  BY <1>20 DEF ForkEnd, SetOrLog, RetryFree
<1>21. CASE RestoreFiles
  BY <1>21 DEF RestoreFiles, SetOrLog, RetryFree
<1>22. CASE RestoreFork
  BY <1>22 DEF RestoreFork, RetryFree
<1>23. ASSUME NEW n \in Turns, Begin(n) PROVE RetryFree'
  BY <1>23 DEF Begin, RetryFree
<1>24. ASSUME NEW n \in Turns, Steer(n) PROVE RetryFree'
  BY <1>24 DEF Steer, RetryFree
<1>25. ASSUME NEW n \in Turns, Call(n) PROVE RetryFree'
  BY <1>25 DEF Call, RetryFree
<1>26. ASSUME NEW n \in Turns, RetryEnter(n) PROVE RetryFree'
  <2>1. loc[n].attempt < 0
    BY <1>26 DEF RetryEnter, Addressed
  <2>2. loc[n].attempt \in 0..MaxProviderRetries
    BY DEF TypeOK, Locals
  <2> QED
    BY <2>1, <2>2
<1>27. ASSUME NEW n \in Turns, Backoff(n) PROVE RetryFree'
  BY <1>27 DEF Backoff, RetryFree
<1>28. ASSUME NEW n \in Turns, RetryLeave(n) PROVE RetryFree'
  BY <1>28 DEF RetryLeave, SetOrLog, RetryFree
<1>29. ASSUME NEW n \in Turns, Fail(n) PROVE RetryFree'
  BY <1>29 DEF Fail, RetryFree
<1>30. ASSUME NEW n \in Turns, Stream(n) PROVE RetryFree'
  BY <1>30 DEF Stream, RetryFree
<1>31. ASSUME NEW n \in Turns, Fold(n) PROVE RetryFree'
  BY <1>31 DEF Fold, RetryFree
<1>32. ASSUME NEW n \in Turns, FollowUp(n) PROVE RetryFree'
  BY <1>32 DEF FollowUp, RetryFree
<1>33. ASSUME NEW n \in Turns, Resolve(n) PROVE RetryFree'
  BY <1>33 DEF Resolve, RetryFree
<1>34. ASSUME NEW n \in Turns, Exec(n) PROVE RetryFree'
  BY <1>34 DEF Exec, RetryFree
<1>35. ASSUME NEW n \in Turns, Commit(n) PROVE RetryFree'
  BY <1>35 DEF Commit, RetryFree
<1>36. ASSUME NEW n \in Turns, Finish(n) PROVE RetryFree'
  BY <1>36 DEF Finish, RetryFree
<1>37. ASSUME NEW n \in Turns, FinStatus(n) PROVE RetryFree'
  BY <1>37 DEF FinStatus, RetryFree
<1>38. ASSUME NEW n \in Turns, FinPhase(n) PROVE RetryFree'
  BY <1>38 DEF FinPhase, SetOrLog, RetryFree
<1>39. ASSUME NEW n \in Turns, FinBuffer(n) PROVE RetryFree'
  BY <1>39 DEF FinBuffer, RetryFree
<1>40. ASSUME NEW n \in Turns, FinEvent(n) PROVE RetryFree'
  BY <1>40 DEF FinEvent, RetryFree
<1>41. ASSUME NEW n \in Turns, FinPersist(n) PROVE RetryFree'
  BY <1>41 DEF FinPersist, RetryFree
<1>42. ASSUME NEW n \in Turns, AutoCheck(n) PROVE RetryFree'
  BY <1>42 DEF AutoCheck, RetryFree
<1>43. ASSUME NEW n \in Turns, NEW c \in ChildThreads, ExecSpawn(n, c) PROVE RetryFree'
  BY <1>43 DEF ExecSpawn, StartChildTurn, RetryFree
<1>44. ASSUME NEW c \in Compactors, CompactClaim(c) PROVE RetryFree'
  BY <1>44 DEF CompactClaim, RetryFree
<1>45. ASSUME NEW c \in Compactors, CompactHook(c) PROVE RetryFree'
  BY <1>45 DEF CompactHook, SetOrLog, RetryFree
<1>46. ASSUME NEW c \in Compactors, CompactSummarize(c) PROVE RetryFree'
  BY <1>46 DEF CompactSummarize, SetOrLog, RetryFree
<1>47. ASSUME NEW c \in Compactors, CompactReplace(c) PROVE RetryFree'
  BY <1>47 DEF CompactReplace, RetryFree
<1>48. ASSUME NEW c \in Compactors, CompactPost(c) PROVE RetryFree'
  BY <1>48 DEF CompactPost, SetOrLog, RetryFree
<1>49. CASE UNCHANGED vars
  BY <1>49 DEF vars, RetryFree, actorVars, taskVars, compactVars, tokenVars,
       queueVars, storageVars
<1> QED
  BY <1>1, <1>2, <1>3, <1>4, <1>5, <1>6, <1>7, <1>8, <1>9, <1>10, <1>11, <1>12,
       <1>13, <1>14, <1>15, <1>16, <1>17, <1>18, <1>19, <1>20, <1>21, <1>22, <1>23,
       <1>24, <1>25, <1>26, <1>27, <1>28, <1>29, <1>30, <1>31, <1>32, <1>33, <1>34,
       <1>35, <1>36, <1>37, <1>38, <1>39, <1>40, <1>41, <1>42, <1>43, <1>44, <1>45,
       <1>46, <1>47, <1>48, <1>49
     DEF Next, Submit, ActorStep, TaskStep, CompactStep

(* Without retries the compare-and-swaps that give the Turn phase back in    *)
(* finish_turn and cancel_turn never fail: every drift the code can meet     *)
(* there comes from the Retry phase.                                         *)
THEOREM NoRetryNoDrift ==
    ASSUME MaxProviderRetries = 0
    PROVE  Spec => []NoDrift
<1>1. Init => RetryFree
  BY DEF Init, RetryFree
<1>2. TypeOK /\ Addressed /\ RetryFree /\ [Next]_vars => RetryFree'
  BY RetryFreeStep
<1>3. TypeOK /\ PhaseInv /\ RetryFree => NoDrift
  BY DEF TypeOK, PhaseInv, SingleActiveTurn, TurnHeld, Cancelling, Finishing,
       RetryFree, NoDrift
<1> QED
  BY Lifecycle, <1>1, <1>2, <1>3, PTL DEF Spec

-----------------------------------------------------------------------------
(* Between its two phase claims a restore meets an idle engine or an        *)
(* automatic compaction.                                                    *)
RestoreGap == apc = "restoreFork" => phase \in {"Idle", "Compaction"}

LEMMA RestoreGapStep ==
    ASSUME MaintenanceAlone, RestoreGap, [Next]_vars
    PROVE  RestoreGap'
<1> USE DEF RestoreGap, SetOrLog, CanSet, AllowsTransition
<1>1. CASE Submit
  BY <1>1 DEF Submit, StartTurn, CancelTurn, Compact, Inject, SpawnSubagent,
       StartChildTurn, Fork, Restore, Shutdown, actorVars
<1>2. CASE RestoreFiles
  BY <1>2 DEF RestoreFiles, MaintenanceAlone
<1>3. CASE ActorStep /\ ~RestoreFiles
  BY <1>3 DEF ActorStep, StartDrain, StartInstall, StartStatus, StartBuffer, StartPush,
       StartSpawn, CancelAbort, CancelStatus, CancelBuffer, CancelPersist, CancelPhase,
       ForkEnd, RestoreFork
<1>4. ASSUME NEW n \in Turns, TaskStep(n) \/ (\E c \in ChildThreads : ExecSpawn(n, c))
      PROVE  RestoreGap'
  <2>1. CASE \/ Begin(n) \/ Steer(n) \/ Call(n) \/ Backoff(n) \/ Fail(n) \/ Stream(n)
             \/ Fold(n) \/ FollowUp(n) \/ Resolve(n) \/ Exec(n) \/ Commit(n)
    BY <2>1 DEF Begin, Steer, Call, Backoff, Fail, Stream, Fold, FollowUp, Resolve,
         Exec, Commit, actorVars
  <2>2. CASE RetryEnter(n) \/ RetryLeave(n) \/ FinPhase(n)
    BY <2>2 DEF RetryEnter, RetryLeave, FinPhase, actorVars
  <2>3. CASE \/ Finish(n) \/ FinStatus(n) \/ FinBuffer(n) \/ FinEvent(n) \/ FinPersist(n)
             \/ AutoCheck(n) \/ (\E c \in ChildThreads : ExecSpawn(n, c))
    BY <2>3 DEF Finish, FinStatus, FinBuffer, FinEvent, FinPersist, AutoCheck, ExecSpawn,
         StartChildTurn, actorVars
  <2> QED
    BY <1>4, <2>1, <2>2, <2>3 DEF TaskStep
<1>5. ASSUME NEW c \in Compactors, CompactStep(c) PROVE RestoreGap'
  BY <1>5 DEF CompactStep, CompactClaim, CompactHook, CompactSummarize, CompactReplace,
       CompactPost, ReplyIfManual, actorVars
<1>6. CASE UNCHANGED vars
  BY <1>6 DEF vars, actorVars
<1> QED
  BY <1>1, <1>2, <1>3, <1>4, <1>5, <1>6 DEF Next

(* A restore that has reverted the files and then cannot fork has lost the  *)
(* phase to an automatic compaction: no turn, fork or other restore can     *)
(* come in between, because the actor is still handling this one.           *)
THEOREM RestoreMeetsCompactionOnly == Spec => RestoreLosesOnlyToCompaction
<1>1. Init => RestoreGap
  BY DEF Init, RestoreGap
<1>2. PhaseInv /\ RestoreGap /\ [Next]_vars => RestoreGap'
  BY RestoreGapStep DEF PhaseInv
<1>3. RestoreGap /\ [Next]_vars => [halfRestored' /\ ~halfRestored => phase = "Compaction"]_vars
  <2> SUFFICES ASSUME RestoreGap, Next, halfRestored', ~halfRestored
               PROVE  phase = "Compaction"
    OBVIOUS
  <2>1. RestoreFork \/ halfRestored' = halfRestored
    <3>1. CASE Submit \/ ActorStep
      BY <3>1 DEF Submit, StartTurn, CancelTurn, Compact, Snapshot, Inject, SpawnSubagent,
           StartChildTurn, Fork, Restore, Shutdown, ActorStep, StartDrain, StartInstall,
           StartStatus, StartBuffer, StartPush, StartSpawn, CancelAbort, CancelStatus,
           CancelBuffer, CancelPersist, CancelPhase, ForkEnd, RestoreFiles, compactVars
    <3>2. ASSUME NEW n \in Turns, TaskStep(n) \/ (\E c \in ChildThreads : ExecSpawn(n, c))
          PROVE  halfRestored' = halfRestored
      BY <3>2 DEF TaskStep, Begin, Steer, Call, RetryEnter, Backoff, RetryLeave, Fail,
           Stream, Fold, FollowUp, Resolve, Exec, Commit, Finish, FinStatus, FinPhase,
           FinBuffer, FinEvent, FinPersist, AutoCheck, Snapshot, ExecSpawn, StartChildTurn,
           compactVars
    <3>3. ASSUME NEW c \in Compactors, CompactStep(c) PROVE halfRestored' = halfRestored
      BY <3>3 DEF CompactStep, CompactClaim, CompactHook, CompactSummarize, CompactReplace,
           CompactPost, EndCompaction, CompactionStep
    <3> QED
      BY <3>1, <3>2, <3>3 DEF Next
  <2> QED
    BY <2>1 DEF RestoreFork, RestoreGap, CanSet, AllowsTransition
<1> QED
  BY Lifecycle, <1>1, <1>2, <1>3, PTL DEF Spec, RestoreLosesOnlyToCompaction

-----------------------------------------------------------------------------
(***************************************************************************)
(* Who ends a turn.  The active_turn slot of a thread hands the right to   *)
(* end its turn to exactly one of finish_turn and cancel_turn; from that   *)
(* follow the single ending of a turn, the agreement of the views a client *)
(* reads, and the reach of a cancel.                                       *)
(***************************************************************************)

(* What one step may do to the life of a turn.  Most actions only move a    *)
(* task along its loop or the actor between submissions; the lemma StepKind *)
(* sorts every action into one of the kinds below, and the invariants are   *)
(* proved against the kinds.                                                *)

RunPcs == {"begin", "steer", "call", "callFailed", "retryEnter", "backoff",
           "retryLeave", "stream", "streamFailed", "fold", "followUp", "resolve",
           "exec", "commit", "finish"}
FinPcs == {"finStatus", "finPhase", "finBuffer", "finEvent", "finPersist"}
InstalledPcs == {"startStatus", "startBuffer", "startPush", "startSpawn"}
RestPcs == {"idle", "fork", "restore", "restoreFork"}

LifeVars == <<slot, status, counter, fired, athread, aturn, turnThread, terminal,
              ended, row, storageOpen>>

SameFailures == \A m \in Turns : loc'[m].failed = loc[m].failed

(* Nothing about turns changes; the actor may take up or end a submission   *)
(* that is no turn's                                                        *)
Rest == /\ apc' = apc \/ (apc \in RestPcs /\ apc' \in RestPcs)
        /\ UNCHANGED <<LifeVars, active, hist, pc, cpc>> /\ SameFailures

(* The actor takes the queue step of start_turn or cancel_turn *)
Advance == /\ \/ apc = "startDrain" /\ apc' = "startInstall"
              \/ apc = "cancelAbort" /\ apc' = "cancelStatus"
           /\ UNCHANGED <<LifeVars, active, hist, pc, cpc>> /\ SameFailures

(* The task of turn n moves along its loop, and may push items *)
Works(n) == /\ pc[n] \in RunPcs
            /\ \E l \in RunPcs : pc' = [pc EXCEPT ![n] = l]
            /\ hist' = hist \/ Push(turnThread[n], n)
            /\ UNCHANGED <<LifeVars, active, apc, cpc>> /\ SameFailures

(* A compaction of turn c runs in its task after the loop; the prelude of a *)
(* requested one runs in the actor.                                         *)
CompactInv ==
    /\ \A n \in Turns : cpc[n] # "none" => pc[n] = "auto"
    /\ cpc[0] \in {"claim", "hook"} => apc = "compact"

(* Compaction c moves; the task it runs in ends with it *)
Tailing(c) ==
    /\ \/ apc' = apc
       \/ c = 0 /\ apc \in {"idle", "compact"} /\ apc' \in {"idle", "compact"}
    /\ \/ pc' = pc
       \/ c \in Turns /\ pc[c] = "auto" /\ pc' = [pc EXCEPT ![c] = "done"]
    /\ \/ UNCHANGED <<hist, active>>
       \/ \E t \in Threads : /\ hist' = [hist EXCEPT ![t] = {Summary}]
                             /\ active' = [active EXCEPT ![t] = None]
    /\ UNCHANGED <<LifeVars, loc>> /\ CompactInv'

(* A subagent's turn starts *)
Spawns(c) == StartChildTurn(c) /\ SameFailures

StartKinds == \/ \E t \in Threads : StartTurn(t)
              \/ StartInstall \/ StartStatus \/ StartBuffer \/ StartPush \/ StartSpawn
              \/ \E c \in ChildThreads : Spawns(c)
CancelKinds == \/ \E t \in Threads : CancelTurn(t)
               \/ CancelStatus \/ CancelBuffer \/ CancelPersist \/ CancelPhase
FinishKinds(n) == \/ Fail(n) \/ Finish(n) \/ FinStatus(n) \/ FinPhase(n) \/ FinBuffer(n)
                  \/ FinEvent(n) \/ FinPersist(n)
Kinds == \/ Rest \/ Advance \/ (\E n \in Turns : Works(n) \/ FinishKinds(n))
         \/ (\E c \in Compactors : Tailing(c)) \/ StartKinds \/ CancelKinds \/ Shutdown

LEMMA TurnIds == /\ \A n \in Turns : n # 0 /\ n \in Compactors /\ n # None
                 /\ 0 \in Compactors
  BY DEF Turns, Compactors

LEMMA StepKind ==
    ASSUME TypeOK, Addressed, CompactInv, [Next]_vars
    PROVE  Kinds
<1> USE DEF Kinds
<1>1. ASSUME NEW t \in Threads, Compact(t) PROVE Kinds
  <2>1. CompactInv'
    <3>1. cpc' = [cpc EXCEPT ![0] = "claim"] /\ pc' = pc /\ apc' = "compact"
      BY <1>1 DEF Compact, Snapshot, taskVars
    <3>2. \A m \in Turns : cpc'[m] = cpc[m]
      BY <3>1, TurnIds DEF TypeOK
    <3> QED
      BY <3>1, <3>2 DEF CompactInv
  <2> QED
    BY <1>1, <2>1, TurnIds DEF Compact, Tailing, LifeVars, taskVars, tokenVars, storageVars
<1>2. ASSUME NEW t \in Threads, NEW q \in Queues, NEW i \in Inputs, Inject(t, q, i) PROVE Kinds
  BY <1>2 DEF Inject, Rest, LifeVars, SameFailures, actorVars, taskVars, compactVars,
       tokenVars, storageVars
<1>3. ASSUME NEW c \in ChildThreads, SpawnSubagent(c) PROVE Kinds
  BY <1>3 DEF SpawnSubagent, Spawns, SameFailures, StartKinds
<1>4. CASE Fork
  BY <1>4 DEF Fork, Rest, RestPcs, LifeVars, SameFailures, taskVars, compactVars,
       tokenVars, storageVars
<1>5. CASE Restore
  BY <1>5 DEF Restore, Rest, RestPcs, LifeVars, SameFailures, taskVars, compactVars,
       tokenVars, storageVars
<1>6. CASE ForkEnd
  BY <1>6 DEF ForkEnd, Rest, RestPcs, LifeVars, SameFailures, taskVars, compactVars,
       tokenVars, storageVars
<1>7. CASE RestoreFiles
  BY <1>7 DEF RestoreFiles, Rest, RestPcs, LifeVars, SameFailures, taskVars,
       compactVars, tokenVars, storageVars
<1>8. CASE RestoreFork
  BY <1>8 DEF RestoreFork, Rest, RestPcs, LifeVars, SameFailures, taskVars,
       tokenVars, storageVars
<1>9. CASE StartDrain
  BY <1>9 DEF StartDrain, Advance, LifeVars, SameFailures, taskVars, compactVars,
       tokenVars, storageVars
<1>10. CASE CancelAbort
  BY <1>10 DEF CancelAbort, Advance, LifeVars, SameFailures, taskVars, compactVars,
       tokenVars, storageVars
<1>11. ASSUME NEW n \in Turns,
              Begin(n) \/ Call(n) \/ RetryEnter(n) \/ Stream(n) \/ Fold(n) \/ Resolve(n)
       PROVE Works(n)
  <2>1. CASE Begin(n)
    BY <2>1 DEF Begin, Works, RunPcs, Goto, LifeVars, SameFailures, actorVars,
         compactVars, tokenVars, storageVars
  <2>2. CASE Call(n)
    BY <2>2 DEF Call, Works, RunPcs, Goto, LifeVars, SameFailures, actorVars,
         compactVars, tokenVars, storageVars
  <2>3. CASE RetryEnter(n)
    BY <2>3 DEF RetryEnter, Works, RunPcs, Goto, LifeVars, SameFailures, actorVars,
         compactVars, tokenVars, storageVars
  <2>4. CASE Stream(n)
    <3>1. pc = [pc EXCEPT ![n] = "stream"]
      BY <2>4 DEF Stream, TypeOK
    <3> QED
      BY <2>4, <3>1 DEF Stream, Works, RunPcs, Goto, LifeVars, SameFailures,
           actorVars, compactVars, tokenVars, storageVars
  <2>5. CASE Fold(n)
    BY <2>5 DEF Fold, Works, RunPcs, Goto, LifeVars, SameFailures, actorVars,
         compactVars, tokenVars, storageVars
  <2>6. CASE Resolve(n)
    BY <2>6 DEF Resolve, Works, RunPcs, Goto, LifeVars, SameFailures, actorVars,
         compactVars, tokenVars, storageVars
  <2> QED
    BY <1>11, <2>1, <2>2, <2>3, <2>4, <2>5, <2>6
<1>12. ASSUME NEW n \in Turns,
              Steer(n) \/ Backoff(n) \/ RetryLeave(n) \/ FollowUp(n) \/ Exec(n) \/ Commit(n)
       PROVE Works(n)
  <2>1. SameFailures
    <3>1. loc \in [Turns -> Locals]
      BY DEF TypeOK
    <3>2. CASE Steer(n) \/ Backoff(n) \/ Exec(n)
      BY <3>1, <3>2 DEF Steer, Backoff, Exec, SameFailures, Locals
    <3>3. CASE RetryLeave(n)
      BY <3>1, <3>3 DEF RetryLeave, SameFailures, Locals
    <3>4. CASE FollowUp(n) \/ Commit(n)
      BY <3>1, <3>4 DEF FollowUp, Commit, SameFailures, Locals
    <3> QED
      BY <1>12, <3>2, <3>3, <3>4
  <2>2. CASE Steer(n)
    BY <2>1, <2>2 DEF Steer, Works, RunPcs, Goto, LifeVars, actorVars, compactVars,
         tokenVars, storageVars
  <2>3. CASE Backoff(n)
    BY <2>1, <2>3 DEF Backoff, Works, RunPcs, Goto, LifeVars, actorVars, compactVars,
         tokenVars, storageVars
  <2>4. CASE RetryLeave(n)
    BY <2>1, <2>4 DEF RetryLeave, Works, RunPcs, Goto, LifeVars, actorVars,
         compactVars, tokenVars, storageVars
  <2>5. CASE FollowUp(n)
    BY <2>1, <2>5 DEF FollowUp, Works, RunPcs, Goto, LifeVars, actorVars,
         compactVars, tokenVars, storageVars
  <2>6. CASE Exec(n)
    BY <2>1, <2>6 DEF Exec, Works, RunPcs, Goto, LifeVars, actorVars, compactVars,
         tokenVars, storageVars
  <2>7. CASE Commit(n)
    BY <2>1, <2>7 DEF Commit, Works, RunPcs, Goto, LifeVars, actorVars, compactVars,
         tokenVars, storageVars
  <2> QED
    BY <1>12, <2>2, <2>3, <2>4, <2>5, <2>6, <2>7
<1>13. ASSUME NEW n \in Turns, NEW c \in ChildThreads, ExecSpawn(n, c) PROVE Kinds
  <2>1. SameFailures
    BY <1>13 DEF ExecSpawn, SameFailures, TypeOK, Locals
  <2> QED
    BY <1>13, <2>1 DEF ExecSpawn, Spawns, StartKinds
<1>14. ASSUME NEW n \in Turns, AutoCheck(n) PROVE Tailing(n)
  <2>1. n # 0 /\ n \in Compactors /\ cpc[n] = "none" /\ pc[n] = "auto" /\ apc' = apc
    BY <1>14, TurnIds DEF AutoCheck, actorVars
  <2>2. \/ pc' = [pc EXCEPT ![n] = "done"] /\ cpc' = cpc
        \/ pc' = pc /\ cpc' = [cpc EXCEPT ![n] = "claim"]
    BY <1>14 DEF AutoCheck, Goto, Snapshot, compactVars
  <2>3. CompactInv'
    BY <2>1, <2>2, TurnIds DEF CompactInv, TypeOK
  <2> QED
    BY <1>14, <2>1, <2>3 DEF AutoCheck, Snapshot, Goto, Tailing, LifeVars, actorVars,
         compactVars, tokenVars, storageVars
<1>15. ASSUME NEW c \in Compactors, CompactStep(c) PROVE Tailing(c)
  <2>1. c = 0 \/ c \in Turns
    BY DEF Compactors
  <2>2. c \in Turns => pc[c] = "auto" /\ c # 0
    BY <1>15, TurnIds DEF CompactInv, CompactStep, CompactClaim, CompactHook,
         CompactSummarize, CompactReplace, CompactPost
  <2>3. cthread[c] \in Threads
    BY <1>15 DEF Addressed, CompactStep, CompactClaim, CompactHook, CompactSummarize,
         CompactReplace, CompactPost
  <2>9. CompactInv'
    <3>1. CASE /\ cpc' = [cpc EXCEPT ![c] = "none"] /\ (c = 0 \/ apc' = apc)
               /\ pc' = IF c = 0 THEN pc ELSE [pc EXCEPT ![c] = "done"]
      BY <2>1, <2>2, <3>1, TurnIds DEF CompactInv, TypeOK
    <3>2. CASE cpc[c] # "none" /\ cpc' = [cpc EXCEPT ![c] = "hook"] /\ pc' = pc /\ apc' = apc
               /\ cpc[c] = "claim"
      BY <2>1, <2>2, <3>2, TurnIds DEF CompactInv, TypeOK
    <3>3. CASE /\ \E l \in {"summarize", "replace", "post"} : cpc' = [cpc EXCEPT ![c] = l]
               /\ pc' = pc /\ (c = 0 \/ apc' = apc)
      BY <2>1, <2>2, <3>3, TurnIds DEF CompactInv, TypeOK
    <3> QED
      BY <1>15, <3>1, <3>2, <3>3 DEF CompactStep, CompactClaim, CompactHook,
           CompactSummarize, CompactReplace, CompactPost, EndCompaction,
           CompactionStep, ReplyIfManual, actorVars
  <2>4. CASE CompactClaim(c)
    BY <2>1, <2>2, <2>9, <2>4 DEF CompactClaim, CompactionStep, EndCompaction,
         ReplyIfManual, CompactInv, Tailing, LifeVars, actorVars, tokenVars, storageVars
  <2>5. CASE CompactHook(c)
    BY <2>1, <2>2, <2>9, <2>5 DEF CompactHook, CompactionStep, EndCompaction,
         ReplyIfManual, CompactInv, Tailing, LifeVars, actorVars, tokenVars, storageVars
  <2>6. CASE CompactSummarize(c)
    BY <2>1, <2>2, <2>9, <2>6 DEF CompactSummarize, CompactionStep, EndCompaction, Tailing,
         LifeVars, actorVars, tokenVars, storageVars
  <2>7. CASE CompactReplace(c)
    BY <2>1, <2>2, <2>3, <2>9, <2>7 DEF CompactReplace, CompactionStep, Tailing, LifeVars,
         actorVars, tokenVars, storageVars
  <2>8. CASE CompactPost(c)
    BY <2>1, <2>2, <2>9, <2>8 DEF CompactPost, EndCompaction, Tailing, LifeVars, actorVars,
         tokenVars, storageVars
  <2> QED
    BY <1>15, <2>4, <2>5, <2>6, <2>7, <2>8 DEF CompactStep
<1>16. CASE Submit
  BY <1>16, <1>1, <1>2, <1>3, <1>4, <1>5 DEF Submit, StartKinds, CancelKinds
<1>17. CASE ActorStep
  BY <1>17, <1>6, <1>7, <1>8, <1>9, <1>10 DEF ActorStep, StartKinds, CancelKinds
<1>18. ASSUME NEW n \in Turns, TaskStep(n) PROVE Kinds
  BY <1>18, <1>11, <1>12, <1>14, TurnIds DEF TaskStep, FinishKinds
<1>19. CASE UNCHANGED vars
  BY <1>19 DEF vars, Rest, LifeVars, SameFailures, actorVars, taskVars, compactVars,
       tokenVars, storageVars
<1> QED
  BY <1>13, <1>15, <1>16, <1>17, <1>18, <1>19 DEF Next
-----------------------------------------------------------------------------
(* A turn id that was not allocated, and one the actor has not spawned yet,  *)
(* is known to nobody else.                                                  *)

Unused(n) == /\ pc[n] = "none" /\ cpc[n] = "none" /\ turnThread[n] = None
             /\ terminal[n] = {} /\ ended[n] = "None" /\ loc[n].failed = FALSE
FreshInv ==
    /\ \A n \in Turns : n > counter =>
          Unused(n) /\ aturn # n /\ \A t \in Threads : slot[t] # n
    /\ apc \in StartPcs => Unused(aturn)
    /\ apc \in {"startDrain", "startInstall"} => \A t \in Threads : slot[t] # aturn

(* Which thread a turn is in the slot of, from StartInstall to whoever takes *)
(* it: a turn the actor is still starting, or one whose task runs.           *)
SlotInv ==
    /\ \A t \in Threads : slot[t] # None =>
          \/ apc \in InstalledPcs /\ athread = t /\ aturn = slot[t]
          \/ pc[slot[t]] \in RunPcs /\ turnThread[slot[t]] = t
    /\ apc \in InstalledPcs => slot[athread] = aturn
    /\ apc \in CancelPcs => /\ pc[aturn] \in RunPcs \cup {"auto", "done"}
                            /\ turnThread[aturn] = athread
                            /\ \A t \in Threads : slot[t] # aturn
    /\ apc \in StartPcs => athread \in TopThreads \/ \E m \in Turns : turnThread[m] = athread

Owned == CompactInv /\ FreshInv /\ SlotInv

(* What a kind of step does to the task counters and to who the actor serves *)
LEMMA FinishMoves ==
    ASSUME TypeOK, NEW n \in Turns, FinishKinds(n)
    PROVE  /\ UNCHANGED <<apc, athread, aturn, counter, turnThread, cpc>>
           /\ pc[n] \in RunPcs \cup FinPcs
           /\ pc'[n] \in RunPcs \cup FinPcs \cup {"auto", "done"}
           /\ \A m \in Turns : m # n => /\ pc'[m] = pc[m] /\ terminal'[m] = terminal[m]
                                        /\ ended'[m] = ended[m]
                                        /\ loc'[m] = loc[m]
           /\ \A t \in Threads : slot'[t] \in {slot[t], None}
<1>1. /\ UNCHANGED <<apc, athread, aturn, counter, turnThread, cpc>>
      /\ pc[n] \in RunPcs \cup FinPcs
  BY DEF FinishKinds, Fail, Finish, FinStatus, FinPhase, FinBuffer, FinEvent,
         FinPersist, RunPcs, FinPcs, actorVars, compactVars
<1>2. \E l \in RunPcs \cup FinPcs \cup {"auto", "done"} : pc' = [pc EXCEPT ![n] = l]
  BY DEF FinishKinds, Fail, Finish, FinStatus, FinPhase, FinBuffer, FinEvent,
         FinPersist, Goto, AfterFinish, RunPcs, FinPcs
<1>3. pc \in [Turns -> TaskPcs] /\ loc \in [Turns -> Locals]
  BY DEF TypeOK
<1>4. /\ pc'[n] \in RunPcs \cup FinPcs \cup {"auto", "done"}
      /\ \A m \in Turns : m # n => pc'[m] = pc[m]
  BY <1>2, <1>3
<1>5. \/ terminal' = terminal
      \/ terminal' = [terminal EXCEPT ![n] = @ \cup {"TurnFailed"}]
      \/ terminal' = [terminal EXCEPT ![n] = @ \cup {"TurnCompleted"}]
  BY DEF FinishKinds, Fail, Finish, FinStatus, FinPhase, FinBuffer, FinEvent,
         FinPersist
<1>6. \A m \in Turns : m # n => terminal'[m] = terminal[m]
  BY <1>5 DEF TypeOK
<1>7. ASSUME FinPersist(n) PROVE \A m \in Turns : m # n => ended'[m] = ended[m]
  BY <1>7, EndedSent DEF FinPersist
<1>8. \A m \in Turns : m # n => ended'[m] = ended[m]
  BY <1>7 DEF FinishKinds, Fail, Finish, FinStatus, FinPhase, FinBuffer, FinEvent,
         storageVars
<1>9. loc' = loc \/ loc' = [loc EXCEPT ![n].failed = TRUE]
  BY DEF FinishKinds, Fail, Finish, FinStatus, FinPhase, FinBuffer, FinEvent, FinPersist
<1>10. \A m \in Turns : m # n => loc'[m] = loc[m]
  BY <1>3, <1>9
<1>11. slot' = slot \/ slot' = [slot EXCEPT ![turnThread[n]] = None]
  BY DEF FinishKinds, Fail, Finish, FinStatus, FinPhase, FinBuffer, FinEvent, FinPersist
<1>12. \A t \in Threads : slot'[t] \in {slot[t], None}
  BY <1>11 DEF TypeOK
<1> QED
  BY <1>1, <1>4, <1>6, <1>8, <1>10, <1>12

LEMMA NextFresh ==
    ASSUME TypeOK, counter < MaxTurns
    PROVE  counter + 1 \in Turns /\ counter + 1 > counter /\ counter + 1 # None
  BY BoundsAssumption DEF TypeOK, Turns

LEMMA CompactInvStep ==
    ASSUME TypeOK, Addressed, Owned, Kinds
    PROVE  CompactInv'
<1> USE DEF Owned
<1>1. CASE Rest
  BY <1>1 DEF Rest, RestPcs, CompactInv
<1>2. CASE Advance
  BY <1>2 DEF Advance, CompactInv
<1>3. ASSUME NEW n \in Turns, Works(n) PROVE CompactInv'
  BY <1>3 DEF Works, RunPcs, CompactInv, TypeOK
<1>4. ASSUME NEW n \in Turns, FinishKinds(n) PROVE CompactInv'
  <2>1. /\ UNCHANGED <<apc, cpc>> /\ pc[n] \in RunPcs \cup FinPcs
        /\ \A m \in Turns : m # n => pc'[m] = pc[m]
    BY <1>4, FinishMoves
  <2>2. pc[n] # "auto"
    BY <2>1 DEF RunPcs, FinPcs
  <2> QED
    BY <2>1, <2>2 DEF CompactInv
<1>5. ASSUME NEW c \in Compactors, Tailing(c) PROVE CompactInv'
  BY <1>5 DEF Tailing
<1>6. ASSUME NEW c \in ChildThreads, Spawns(c) PROVE CompactInv'
  BY <1>6, NextFresh DEF Spawns, StartChildTurn, Goto, CompactInv, FreshInv, Unused,
       TypeOK, actorVars, compactVars
<1>7. CASE StartSpawn
  BY <1>7 DEF StartSpawn, Goto, CompactInv, FreshInv, Unused, Addressed, StartPcs,
       TypeOK, compactVars
<1>8. CASE \/ (\E t \in Threads : StartTurn(t) \/ CancelTurn(t))
           \/ StartInstall \/ StartStatus \/ StartBuffer \/ StartPush \/ CancelStatus
           \/ CancelBuffer \/ CancelPersist \/ CancelPhase \/ Shutdown
  <2>1. UNCHANGED <<pc, cpc>> /\ apc # "compact"
    BY <1>8 DEF StartTurn, CancelTurn, StartInstall, StartStatus, StartBuffer,
         StartPush, CancelStatus, CancelBuffer, CancelPersist, CancelPhase, Shutdown,
         taskVars, compactVars
  <2> QED
    BY <2>1 DEF CompactInv
<1> QED
  BY <1>1, <1>2, <1>3, <1>4, <1>5, <1>6, <1>7, <1>8 DEF Kinds, StartKinds, CancelKinds

LEMMA FreshStep ==
    ASSUME TypeOK, Addressed, Owned, Kinds
    PROVE  FreshInv'
<1> USE DEF Owned
<1>1. CASE Rest \/ Advance
  BY <1>1 DEF Rest, RestPcs, Advance, LifeVars, SameFailures, FreshInv, Unused, StartPcs,
       Addressed
<1>2. ASSUME NEW n \in Turns, Works(n) PROVE FreshInv'
  <2>1. pc[n] # "none" /\ \A m \in Turns : m # n => pc'[m] = pc[m]
    BY <1>2 DEF Works, RunPcs, TypeOK
  <2> QED
    BY <1>2, <2>1 DEF Works, LifeVars, SameFailures, FreshInv, Unused, Addressed
<1>3. ASSUME NEW n \in Turns, FinishKinds(n) PROVE FreshInv'
  <2>1. /\ UNCHANGED <<apc, aturn, counter, turnThread, cpc>>
        /\ pc[n] \in RunPcs \cup FinPcs
    BY <1>3, FinishMoves
  <2>2. /\ \A m \in Turns : m # n => /\ pc'[m] = pc[m] /\ terminal'[m] = terminal[m]
                                     /\ ended'[m] = ended[m] /\ loc'[m] = loc[m]
        /\ \A t \in Threads : slot'[t] \in {slot[t], None}
    BY <1>3, FinishMoves
  <2>3. pc[n] # "none"
    BY <2>1 DEF RunPcs, FinPcs
  <2> QED
    <3>1. \A m \in Turns : Unused(m) => Unused(m)'
      BY <2>1, <2>2, <2>3 DEF Unused
    <3>2. apc \in StartPcs => aturn \in Turns /\ aturn # n
      BY <2>3 DEF Addressed, FreshInv, Unused
    <3>3. apc' \in StartPcs => Unused(aturn)'
      BY <2>1, <2>2, <3>2 DEF FreshInv, Unused
    <3>4. \A m \in Turns : m > counter' =>
              Unused(m)' /\ aturn' # m /\ \A t \in Threads : slot'[t] # m
      BY <2>1, <2>2, <3>1, TurnIds DEF FreshInv
    <3>5. apc' \in {"startDrain", "startInstall"} => \A t \in Threads : slot'[t] # aturn'
      BY <2>1, <2>2, <3>2, TurnIds DEF FreshInv, StartPcs
    <3> QED
      BY <3>3, <3>4, <3>5 DEF FreshInv
<1>4. ASSUME NEW c \in Compactors, Tailing(c) PROVE FreshInv'
  <2>1. CompactInv' /\ UNCHANGED <<LifeVars, loc>>
    BY <1>4 DEF Tailing
  <2>2. \A m \in Turns : pc[m] = "none" => pc'[m] = "none"
    BY <1>4 DEF Tailing, TypeOK
  <2>3. \A m \in Turns : pc[m] = "none" => cpc'[m] = "none"
    BY <2>1, <2>2 DEF CompactInv
  <2>4. apc' \in StartPcs => apc' = apc
    BY <1>4 DEF Tailing, StartPcs
  <2> QED
    BY <2>1, <2>2, <2>3, <2>4 DEF FreshInv, Unused, LifeVars, Addressed, StartPcs
<1>5. ASSUME NEW c \in ChildThreads, Spawns(c) PROVE FreshInv'
  <2>1. /\ UNCHANGED <<apc, aturn, terminal, ended, cpc>> /\ SameFailures
        /\ counter' = counter + 1 /\ counter < MaxTurns
        /\ c \in Threads
        /\ slot' = [slot EXCEPT ![c] = counter + 1]
        /\ pc' = [pc EXCEPT ![counter + 1] = "begin"]
        /\ turnThread' = [turnThread EXCEPT ![counter + 1] = c]
    BY <1>5 DEF Spawns, StartChildTurn, Goto, actorVars, compactVars, Threads
  <2>2. \A m \in Turns : m # counter + 1 => /\ pc'[m] = pc[m] /\ turnThread'[m] = turnThread[m]
                                            /\ loc'[m].failed = loc[m].failed
    BY <2>1 DEF TypeOK, SameFailures
  <2>3. \A t \in Threads : slot'[t] \in {slot[t], counter + 1}
    BY <2>1 DEF TypeOK
  <2>4. apc \in StartPcs => aturn \in Turns /\ aturn # counter + 1
    BY <2>1, NextFresh DEF FreshInv, Addressed
  <2>5. \A m \in Turns : m > counter' => m > counter /\ m # counter + 1
    BY <2>1 DEF TypeOK, Turns
  <2> QED
    BY <2>1, <2>2, <2>3, <2>4, <2>5 DEF FreshInv, Unused, StartPcs
<1>6. ASSUME NEW t \in Threads, StartTurn(t) PROVE FreshInv'
  <2>1. UNCHANGED <<slot, pc, cpc, turnThread, terminal, ended, loc>>
    BY <1>6 DEF StartTurn, taskVars, compactVars, storageVars
  <2>2. CASE CanSet("Idle", "Turn")
    <3>1. /\ counter' = counter + 1 /\ apc' = "startDrain" /\ aturn' = counter + 1
          /\ counter + 1 \in Turns /\ counter + 1 > counter
      BY <1>6, <2>2, NextFresh DEF StartTurn
    <3>2. \A m \in Turns : m > counter' => m > counter /\ m # counter + 1
      BY <3>1 DEF TypeOK, Turns
    <3> QED
      BY <2>1, <3>1, <3>2 DEF FreshInv, Unused
  <2>3. CASE ~CanSet("Idle", "Turn")
    BY <1>6, <2>1, <2>3 DEF StartTurn, FreshInv, Unused
  <2> QED
    BY <2>2, <2>3
<1>7. CASE StartInstall
  <2>1. /\ UNCHANGED <<pc, cpc, turnThread, terminal, ended, loc, counter, aturn>>
        /\ apc = "startInstall" /\ apc' = "startStatus"
        /\ aturn \in Turns /\ \A t \in Threads : slot'[t] \in {slot[t], aturn}
    BY <1>7 DEF StartInstall, taskVars, compactVars, storageVars, Addressed, StartPcs,
         TypeOK
  <2> QED
    BY <2>1 DEF FreshInv, Unused, StartPcs
<1>8. CASE StartSpawn
  <2>1. /\ UNCHANGED <<slot, cpc, terminal, ended, loc, counter>>
        /\ apc' = "idle" /\ aturn' = None
        /\ aturn \in Turns
        /\ \A m \in Turns : m # aturn => pc'[m] = pc[m] /\ turnThread'[m] = turnThread[m]
    BY <1>8 DEF StartSpawn, Goto, compactVars, Addressed, StartPcs, TypeOK
  <2>2. ~(aturn > counter)
    BY <2>1 DEF FreshInv
  <2> QED
    BY <2>1, <2>2, TurnIds DEF FreshInv, Unused, StartPcs
<1>9. CASE StartStatus \/ StartBuffer \/ StartPush
  <2>1. /\ UNCHANGED <<slot, pc, cpc, turnThread, terminal, ended, loc, counter, aturn>>
        /\ apc \in StartPcs /\ apc' \in StartPcs \ {"startDrain", "startInstall"}
    BY <1>9 DEF StartStatus, StartBuffer, StartPush, taskVars, compactVars,
         storageVars, StartPcs
  <2> QED
    BY <2>1 DEF FreshInv, Unused
<1>10. CASE \/ (\E t \in Threads : CancelTurn(t)) \/ CancelStatus \/ CancelBuffer
            \/ CancelPersist \/ CancelPhase \/ Shutdown
  <2>1. /\ UNCHANGED <<pc, cpc, turnThread, loc, counter>>
        /\ apc' \notin StartPcs
        /\ \A t \in Threads : slot'[t] \in {slot[t], None}
    BY <1>10 DEF CancelTurn, CancelStatus, CancelBuffer, CancelPersist, CancelPhase,
         Shutdown, taskVars, compactVars, StartPcs, TypeOK
  <2>2. aturn' \in {aturn, None} \/ \E t \in Threads : aturn' = slot[t]
    BY <1>10 DEF CancelTurn, CancelStatus, CancelBuffer, CancelPersist, CancelPhase,
         Shutdown
  <2>3. \A m \in Turns : m # aturn => terminal'[m] = terminal[m] /\ ended'[m] = ended[m]
    BY <1>10 DEF CancelTurn, CancelStatus, CancelBuffer, CancelPersist, CancelPhase,
         Shutdown, EnqueueEnded, TypeOK, storageVars
  <2> QED
    BY <2>1, <2>2, <2>3, TurnIds DEF FreshInv, Unused, StartPcs
<1> QED
  BY <1>1, <1>2, <1>3, <1>4, <1>5, <1>6, <1>7, <1>8, <1>9, <1>10
     DEF Kinds, StartKinds, CancelKinds
LEMMA SlotStep ==
    ASSUME TypeOK, Addressed, Owned, Kinds
    PROVE  SlotInv'
<1> USE DEF Owned
<1>1. CASE Rest \/ Advance
  BY <1>1 DEF Rest, RestPcs, Advance, LifeVars, SlotInv, InstalledPcs, CancelPcs,
       StartPcs
<1>2. ASSUME NEW n \in Turns, Works(n) PROVE SlotInv'
  <2>1. pc[n] \in RunPcs /\ pc'[n] \in RunPcs /\ \A m \in Turns : m # n => pc'[m] = pc[m]
    BY <1>2 DEF Works, TypeOK
  <2>2. UNCHANGED <<slot, turnThread, apc, athread, aturn>>
    BY <1>2 DEF Works, LifeVars
  <2>3. apc \in CancelPcs => aturn \in Turns
    BY DEF Addressed
  <2>4. \A t \in Threads : slot[t] # None => slot[t] \in Turns
    BY DEF TypeOK
  <2> QED
    BY <2>1, <2>2, <2>3, <2>4 DEF SlotInv
<1>3. ASSUME NEW n \in Turns, FinishKinds(n) PROVE SlotInv'
  <2>1. /\ UNCHANGED <<apc, athread, aturn, turnThread>>
        /\ pc[n] \in RunPcs \cup FinPcs
        /\ \A m \in Turns : m # n => pc'[m] = pc[m]
    BY <1>3, FinishMoves
  <2>2. /\ apc \in InstalledPcs => pc[aturn] = "none" /\ aturn \in Turns /\ athread \in Threads
        /\ apc \in CancelPcs => aturn \in Turns
    BY DEF FreshInv, Unused, InstalledPcs, StartPcs, Addressed
  <2>3. pc[n] # "none" /\ n # None
    BY <2>1, TurnIds DEF RunPcs, FinPcs
  <2>4. \A t \in Threads : slot[t] # None => slot[t] \in Turns
    BY DEF TypeOK
  <2>5. CASE Fail(n)
    <3>1. pc'[n] \in RunPcs /\ slot' = slot
      BY <2>5 DEF Fail, Goto, RunPcs, TypeOK
    <3> QED
      BY <2>1, <2>2, <2>3, <2>4, <3>1 DEF SlotInv
  <2>6. CASE Finish(n)
    <3>1. pc[n] = "finish" /\ pc'[n] \in FinPcs \cup {"auto", "done"}
          /\ turnThread[n] \in Threads
      BY <2>6 DEF Finish, Goto, AfterFinish, FinPcs, TypeOK, Addressed
    <3>2. pc[n] \in RunPcs
      BY <3>1 DEF RunPcs
    <3>3. CASE slot[turnThread[n]] = n
      <4>1. slot' = [slot EXCEPT ![turnThread[n]] = None]
        BY <2>6, <3>3 DEF Finish
      <4>2. slot'[turnThread[n]] = None /\ \A t \in Threads : t # turnThread[n] => slot'[t] = slot[t]
        BY <4>1, <3>1 DEF TypeOK
      <4>3. apc \in CancelPcs => aturn # n
        BY <3>1, <3>3 DEF SlotInv
      <4>4. apc \in InstalledPcs => athread # turnThread[n]
        BY <2>2, <2>3, <3>3 DEF SlotInv
      <4>5. \A t \in Threads : slot'[t] # None => t # turnThread[n] /\ slot[t] # n
        BY <2>2, <2>3, <4>2 DEF SlotInv
      <4> QED
        BY <2>1, <2>2, <2>4, <4>2, <4>3, <4>4, <4>5, TurnIds DEF SlotInv
    <3>4. CASE slot[turnThread[n]] # n
      <4>1. slot' = slot /\ pc'[n] \in {"auto", "done"}
        BY <2>6, <3>4 DEF Finish, Goto, AfterFinish, TypeOK
      <4>2. \A t \in Threads : slot[t] # n
        BY <2>2, <2>3, <3>1, <3>4 DEF SlotInv
      <4> QED
        BY <2>1, <2>2, <2>4, <4>1, <4>2 DEF SlotInv
    <3> QED
      BY <3>3, <3>4
  <2>7. CASE pc[n] \in FinPcs
    <3>1. slot' = slot
      BY <1>3, <2>7 DEF FinishKinds, Fail, Finish, FinStatus, FinPhase, FinBuffer,
           FinEvent, FinPersist, FinPcs
    <3>2. pc[n] \notin RunPcs \cup {"auto", "done"}
      BY <2>7 DEF FinPcs, RunPcs
    <3>3. \A t \in Threads : slot[t] # n
      BY <2>2, <2>3, <3>2 DEF SlotInv
    <3>4. apc \in CancelPcs => aturn # n
      BY <3>2 DEF SlotInv
    <3> QED
      BY <2>1, <2>2, <2>4, <3>1, <3>3, <3>4 DEF SlotInv
  <2>8. Fail(n) \/ Finish(n) \/ pc[n] \in FinPcs
    BY <1>3 DEF FinishKinds, FinStatus, FinPhase, FinBuffer, FinEvent, FinPersist, FinPcs
  <2> QED
    BY <2>5, <2>6, <2>7, <2>8
<1>4. ASSUME NEW c \in Compactors, Tailing(c) PROVE SlotInv'
  <2>1. UNCHANGED <<slot, turnThread, athread, aturn>>
    BY <1>4 DEF Tailing, LifeVars
  <2>2. \A m \in Turns : pc'[m] = pc[m] \/ (pc[m] = "auto" /\ pc'[m] = "done")
    BY <1>4 DEF Tailing, TypeOK
  <2>3. apc' \in StartPcs \cup CancelPcs => apc' = apc
    BY <1>4 DEF Tailing, StartPcs, CancelPcs
  <2>4. InstalledPcs \subseteq StartPcs /\ "auto" \notin RunPcs
    BY DEF InstalledPcs, StartPcs, RunPcs
  <2>5. apc \in CancelPcs => aturn \in Turns
    BY DEF Addressed
  <2>6. \A t \in Threads : slot[t] # None => slot[t] \in Turns
    BY DEF TypeOK
  <2>7. apc \in InstalledPcs => apc' = apc
    BY <1>4 DEF Tailing, InstalledPcs
  <2> QED
    BY <2>1, <2>2, <2>3, <2>4, <2>5, <2>6, <2>7 DEF SlotInv
<1>5. ASSUME NEW c \in ChildThreads, Spawns(c) PROVE SlotInv'
  <2>1. /\ UNCHANGED <<apc, athread, aturn>>
        /\ counter < MaxTurns /\ c \in Threads /\ c \notin TopThreads
        /\ \A m \in Turns : turnThread[m] # c
        /\ slot' = [slot EXCEPT ![c] = counter + 1]
        /\ pc' = [pc EXCEPT ![counter + 1] = "begin"]
        /\ turnThread' = [turnThread EXCEPT ![counter + 1] = c]
    BY <1>5, ThreadsAssumption DEF Spawns, StartChildTurn, Goto, actorVars, Threads
  <2>2. /\ counter + 1 \in Turns /\ pc[counter + 1] = "none"
        /\ \A t \in Threads : slot[t] # counter + 1
        /\ turnThread[counter + 1] = None
    BY <2>1, NextFresh DEF FreshInv, Unused
  <2>3. /\ slot'[c] = counter + 1 /\ \A t \in Threads : t # c => slot'[t] = slot[t]
        /\ pc'[counter + 1] = "begin" /\ turnThread'[counter + 1] = c
        /\ \A m \in Turns : m # counter + 1 => pc'[m] = pc[m] /\ turnThread'[m] = turnThread[m]
    BY <2>1, <2>2 DEF TypeOK
  <2>4. apc \in StartPcs => athread \in Threads /\ athread # c
    BY <2>1 DEF SlotInv, Addressed
  <2>5. apc \in CancelPcs => aturn \in Turns /\ aturn # counter + 1
    BY <2>2 DEF SlotInv, Addressed, RunPcs
  <2>6. "begin" \in RunPcs /\ InstalledPcs \subseteq StartPcs /\ "none" \notin RunPcs
    BY DEF RunPcs, InstalledPcs, StartPcs
  <2>7. \A t \in Threads : slot[t] # None => slot[t] \in Turns
    BY DEF TypeOK
  <2>8. \A t \in Threads : slot'[t] # None =>
          \/ apc' \in InstalledPcs /\ athread' = t /\ aturn' = slot'[t]
          \/ pc'[slot'[t]] \in RunPcs /\ turnThread'[slot'[t]] = t
    BY <2>1, <2>2, <2>3, <2>6, <2>7 DEF SlotInv
  <2>9. apc' \in InstalledPcs => slot'[athread'] = aturn'
    BY <2>1, <2>3, <2>4, <2>6 DEF SlotInv
  <2>10. apc' \in CancelPcs => /\ pc'[aturn'] \in RunPcs \cup {"auto", "done"}
                               /\ turnThread'[aturn'] = athread'
                               /\ \A t \in Threads : slot'[t] # aturn'
    BY <2>1, <2>3, <2>5 DEF SlotInv
  <2>11. apc' \in StartPcs => athread' \in TopThreads \/ \E m \in Turns : turnThread'[m] = athread'
    <3>1. SUFFICES ASSUME apc \in StartPcs, athread \notin TopThreads
                   PROVE  \E m \in Turns : turnThread'[m] = athread
      BY <2>1
    <3>2. PICK m \in Turns : turnThread[m] = athread
      BY <3>1 DEF SlotInv
    <3>3. m # counter + 1
      BY <2>2, <2>4, <3>1, <3>2, NoneIsNoThread
    <3> QED
      BY <2>3, <3>2, <3>3
  <2> QED
    BY <2>8, <2>9, <2>10, <2>11 DEF SlotInv
<1>6. ASSUME NEW t \in Threads, StartTurn(t) PROVE SlotInv'
  <2>1. UNCHANGED <<slot, pc, turnThread>> /\ apc = "idle" /\ Resident(t)
    BY <1>6 DEF StartTurn, taskVars
  <2>2. CASE CanSet("Idle", "Turn")
    <3>1. apc' = "startDrain" /\ athread' = t
      BY <1>6, <2>2 DEF StartTurn
    <3> QED
      BY <2>1, <3>1 DEF SlotInv, Resident, InstalledPcs, CancelPcs
  <2>3. CASE ~CanSet("Idle", "Turn")
    <3>1. UNCHANGED <<apc, athread, aturn>>
      BY <1>6, <2>3 DEF StartTurn
    <3> QED
      BY <2>1, <3>1 DEF SlotInv
  <2> QED
    BY <2>2, <2>3
<1>7. CASE StartInstall
  <2>1. /\ UNCHANGED <<pc, turnThread, athread, aturn>>
        /\ apc = "startInstall" /\ apc' = "startStatus"
        /\ athread \in Threads
        /\ slot' = [slot EXCEPT ![athread] = aturn]
    BY <1>7 DEF StartInstall, taskVars, Addressed, StartPcs
  <2>2. slot'[athread] = aturn /\ \A t \in Threads : t # athread => slot'[t] = slot[t]
    BY <2>1 DEF TypeOK
  <2> QED
    BY <2>1, <2>2 DEF SlotInv, InstalledPcs, CancelPcs, StartPcs
<1>8. CASE StartSpawn
  <2>1. /\ UNCHANGED slot /\ apc = "startSpawn" /\ apc' = "idle"
        /\ aturn \in Turns /\ athread \in Threads
        /\ pc' = [pc EXCEPT ![aturn] = "begin"]
        /\ turnThread' = [turnThread EXCEPT ![aturn] = athread]
    BY <1>8 DEF StartSpawn, Goto, Addressed, StartPcs
  <2>2. /\ pc'[aturn] = "begin" /\ turnThread'[aturn] = athread
        /\ \A m \in Turns : m # aturn => pc'[m] = pc[m] /\ turnThread'[m] = turnThread[m]
    BY <2>1 DEF TypeOK
  <2>3. pc[aturn] = "none" /\ "none" \notin RunPcs /\ "begin" \in RunPcs
    BY <2>1 DEF FreshInv, Unused, StartPcs, RunPcs
  <2>4. \A t \in Threads : slot[t] # None => slot[t] \in Turns
    BY DEF TypeOK
  <2>5. apc' \notin StartPcs /\ apc' \notin CancelPcs /\ apc' \notin InstalledPcs
    BY <2>1 DEF StartPcs, CancelPcs, InstalledPcs
  <2> QED
    BY <2>1, <2>2, <2>3, <2>4, <2>5 DEF SlotInv
<1>9. CASE StartStatus \/ StartBuffer \/ StartPush
  <2>1. /\ UNCHANGED <<slot, pc, turnThread, athread, aturn>>
        /\ apc \in InstalledPcs /\ apc' \in InstalledPcs
    BY <1>9 DEF StartStatus, StartBuffer, StartPush, taskVars, InstalledPcs
  <2>2. apc \in StartPcs /\ apc' \notin CancelPcs
    BY <2>1 DEF StartPcs, CancelPcs, InstalledPcs
  <2> QED
    BY <2>1, <2>2 DEF SlotInv
<1>10. ASSUME NEW t \in Threads, CancelTurn(t) PROVE SlotInv'
  <2>1. UNCHANGED <<pc, turnThread>> /\ apc = "idle"
    BY <1>10 DEF CancelTurn, taskVars
  <2>2. CASE Resident(t) /\ slot[t] # None
    <3>1. /\ slot'[t] = None /\ \A u \in Threads : u # t => slot'[u] = slot[u]
          /\ apc' = "cancelAbort" /\ athread' = t /\ aturn' = slot[t]
      BY <1>10, <2>2 DEF CancelTurn, TypeOK
    <3>2. \A u \in Threads : slot[u] # None => pc[slot[u]] \in RunPcs /\ turnThread[slot[u]] = u
      BY <2>1 DEF SlotInv, InstalledPcs
    <3>3. apc' \notin StartPcs /\ apc' \notin InstalledPcs
      BY <3>1 DEF StartPcs, InstalledPcs
    <3> QED
      BY <2>1, <2>2, <3>1, <3>2, <3>3 DEF SlotInv
  <2>3. CASE ~(Resident(t) /\ slot[t] # None)
    <3>1. UNCHANGED <<slot, apc, athread, aturn>>
      BY <1>10, <2>3 DEF CancelTurn
    <3> QED
      BY <2>1, <3>1 DEF SlotInv
  <2> QED
    BY <2>2, <2>3
<1>11. CASE CancelStatus \/ CancelBuffer \/ CancelPersist
  <2>1. /\ UNCHANGED <<slot, pc, turnThread, athread, aturn>>
        /\ apc \in CancelPcs /\ apc' \in CancelPcs
    BY <1>11 DEF CancelStatus, CancelBuffer, CancelPersist, taskVars, CancelPcs
  <2>2. apc \notin InstalledPcs /\ apc' \notin InstalledPcs /\ apc' \notin StartPcs
    BY <2>1 DEF StartPcs, CancelPcs, InstalledPcs
  <2> QED
    BY <2>1, <2>2 DEF SlotInv
<1>12. CASE CancelPhase \/ Shutdown
  <2>1. /\ UNCHANGED <<slot, pc, turnThread>>
        /\ apc \notin InstalledPcs /\ apc' \notin InstalledPcs \cup StartPcs \cup CancelPcs
    BY <1>12 DEF CancelPhase, Shutdown, taskVars, StartPcs, CancelPcs, InstalledPcs
  <2> QED
    BY <2>1 DEF SlotInv
<1> QED
  BY <1>1, <1>2, <1>3, <1>4, <1>5, <1>6, <1>7, <1>8, <1>9, <1>10, <1>11, <1>12
     DEF Kinds, StartKinds, CancelKinds
-----------------------------------------------------------------------------
(* How far the ending of a turn has got, by whoever holds the right to end   *)
(* it.  Outside the slot that is the task from finStatus to finPersist, or   *)
(* the actor from cancelAbort to cancelPhase; TurnFailed is broadcast ahead  *)
(* of the ending and may precede either.                                     *)

InSlot(n) == \E t \in Threads : slot[t] = n
Unended(n) == /\ "TurnCompleted" \notin terminal[n] /\ "SessionAborted" \notin terminal[n]
              /\ ended[n] = "None"
Failed(n) == loc[n].failed = TRUE

Held(n) == InSlot(n) \/ pc[n] \in {"none", "finStatus", "finPhase", "finBuffer", "finEvent"}
               \/ (apc \in {"cancelAbort", "cancelStatus"} /\ aturn = n)
Ends(n) ==
    /\ "TurnFailed" \in terminal[n] <=> Failed(n)
    /\ Held(n) => Unended(n)
    /\ pc[n] = "finPersist" => /\ ended[n] = "None" /\ "SessionAborted" \notin terminal[n]
                               /\ "TurnCompleted" \in terminal[n] <=> ~Failed(n)
    /\ apc \in {"cancelBuffer", "cancelPersist", "cancelPhase"} /\ aturn = n =>
          /\ "SessionAborted" \in terminal[n]
          /\ apc # "cancelPhase" => ended[n] = "None"
    /\ "SessionAborted" \in terminal[n] =>
          /\ "TurnCompleted" \notin terminal[n] /\ ended[n] \in {"None", "Interrupted", "Lost"}
          /\ ~InSlot(n) /\ pc[n] \in RunPcs \cup {"auto", "done"}
    /\ "TurnCompleted" \in terminal[n] => ~Failed(n) /\ pc[n] \in {"finPersist", "auto", "done"}
    /\ ended[n] = "Interrupted" => "SessionAborted" \in terminal[n]
    /\ ended[n] = "Completed" => "TurnCompleted" \in terminal[n]
    /\ ended[n] = "Failed" => Failed(n)
    /\ ended[n] = "Lost" => terminal[n] # {}
    /\ ended[n] \in {"Completed", "Failed"} =>
          "SessionAborted" \notin terminal[n] /\ pc[n] \in {"auto", "done"}
EndInv == \A n \in Turns : Ends(n)

(* A step that leaves the record of turn n alone keeps its stage, if it does *)
(* not move n back under a holder or on to a later stage by itself           *)
LEMMA EndsFrame ==
    ASSUME NEW n \in Turns, Ends(n),
           terminal'[n] = terminal[n], ended'[n] = ended[n],
           loc'[n].failed = loc[n].failed,
           Held(n)' => Unended(n),
           pc'[n] = "finPersist" => pc[n] = "finPersist",
           apc' \in {"cancelBuffer", "cancelPersist", "cancelPhase"} /\ aturn' = n =>
              /\ apc \in {"cancelBuffer", "cancelPersist", "cancelPhase"} /\ aturn = n
              /\ apc = "cancelPhase" => apc' = "cancelPhase",
           pc[n] \in RunPcs \cup {"auto", "done"} => pc'[n] \in RunPcs \cup FinPcs \cup {"auto", "done"},
           pc[n] \in {"finPersist", "auto", "done"} => pc'[n] \in {"finPersist", "auto", "done"},
           pc[n] \in {"auto", "done"} => pc'[n] \in {"auto", "done"}
    PROVE  Ends(n)'
<1>1. /\ "TurnFailed" \in terminal'[n] <=> Failed(n)'
      /\ Failed(n)' <=> Failed(n)
      /\ Unended(n)' <=> Unended(n)
  BY DEF Ends, Failed, Unended
<1>2. "SessionAborted" \in terminal[n] => ~InSlot(n)' /\ pc'[n] \in RunPcs \cup {"auto", "done"}
  <2>1. SUFFICES ASSUME "SessionAborted" \in terminal[n]
                 PROVE  ~InSlot(n)' /\ pc'[n] \in RunPcs \cup {"auto", "done"}
    OBVIOUS
  <2>2. ~Held(n)' /\ pc[n] # "finPersist"
    BY <2>1 DEF Unended, Ends
  <2> QED
    BY <2>1, <2>2 DEF Held, Ends, RunPcs, FinPcs
<1> QED
  BY <1>1, <1>2 DEF Ends, InSlot
(* The steps that record nothing about an ending: what they move *)
LEMMA EndsKept ==
    ASSUME TypeOK, Addressed, Owned, EndInv, SlotInv', NEW n \in Turns,
           UNCHANGED <<terminal, ended>>, SameFailures,
           pc'[n] = pc[n] \/ (pc[n] \in RunPcs /\ pc'[n] \in RunPcs)
                          \/ (pc[n] = "none" /\ pc'[n] = "begin")
                          \/ (pc[n] = "auto" /\ pc'[n] = "done"),
           InSlot(n)' => InSlot(n) \/ Unused(n),
           \/ apc' \notin CancelPcs
           \/ apc' = "cancelAbort" /\ InSlot(aturn')
           \/ apc \in CancelPcs /\ aturn' = aturn /\ apc' = apc
           \/ apc = "cancelAbort" /\ apc' = "cancelStatus" /\ aturn' = aturn
    PROVE  Ends(n)'
<1>1. Ends(n)
  BY DEF EndInv
<1>2. Unused(n) => Unended(n)
  BY DEF Unused, Unended
<1>3. loc'[n].failed = loc[n].failed
  BY DEF SameFailures
<1>4. apc' \in {"cancelAbort", "cancelStatus"} /\ aturn' = n => Unended(n)
  BY <1>1 DEF Ends, Held, CancelPcs
<1>5. Held(n)' => Unended(n)
  BY <1>1, <1>2, <1>4 DEF Ends, Held, RunPcs
<1> QED
  BY <1>1, <1>3, <1>5, EndsFrame DEF RunPcs, FinPcs, CancelPcs

LEMMA EndStep ==
    ASSUME TypeOK, Addressed, Owned, SlotInv', EndInv, Kinds
    PROVE  EndInv'
<1> USE DEF Owned
<1>1. CASE Rest \/ Advance
  <2>1. /\ UNCHANGED <<terminal, ended, slot, pc, aturn>> /\ SameFailures
        /\ \/ apc' \notin CancelPcs \/ apc' = apc
           \/ apc = "cancelAbort" /\ apc' = "cancelStatus"
    BY <1>1 DEF Rest, Advance, LifeVars, RestPcs, CancelPcs
  <2> QED
    BY <2>1, EndsKept DEF EndInv, InSlot, CancelPcs
<1>2. ASSUME NEW n \in Turns, Works(n) PROVE EndInv'
  <2>1. /\ UNCHANGED <<terminal, ended, slot, aturn, apc>> /\ SameFailures
        /\ pc[n] \in RunPcs /\ pc'[n] \in RunPcs
        /\ \A m \in Turns : m # n => pc'[m] = pc[m]
    BY <1>2 DEF Works, LifeVars, TypeOK
  <2> QED
    BY <2>1, EndsKept DEF EndInv, InSlot
<1>3. ASSUME NEW c \in Compactors, Tailing(c) PROVE EndInv'
  <2>1. /\ UNCHANGED <<terminal, ended, slot, aturn>> /\ SameFailures
        /\ \A m \in Turns : pc'[m] = pc[m] \/ (pc[m] = "auto" /\ pc'[m] = "done")
        /\ apc' \notin CancelPcs \/ apc' = apc
    BY <1>3 DEF Tailing, LifeVars, SameFailures, CancelPcs, TypeOK
  <2> QED
    BY <2>1, EndsKept DEF EndInv, InSlot
<1>4. ASSUME NEW c \in ChildThreads, Spawns(c) PROVE EndInv'
  <2>1. /\ UNCHANGED <<terminal, ended, aturn, apc>> /\ SameFailures
        /\ counter < MaxTurns /\ c \in Threads
        /\ slot' = [slot EXCEPT ![c] = counter + 1]
        /\ pc' = [pc EXCEPT ![counter + 1] = "begin"]
    BY <1>4 DEF Spawns, StartChildTurn, Goto, actorVars, Threads
  <2>2. counter + 1 \in Turns /\ Unused(counter + 1)
    BY <2>1, NextFresh DEF FreshInv
  <2>3. \A m \in Turns : pc'[m] = pc[m] \/ (pc[m] = "none" /\ pc'[m] = "begin")
    BY <2>1, <2>2 DEF TypeOK, Unused
  <2>4. \A m \in Turns : InSlot(m)' => InSlot(m) \/ Unused(m)
    BY <2>1, <2>2 DEF TypeOK, InSlot
  <2> QED
    BY <2>1, <2>3, <2>4, EndsKept DEF EndInv
<1>5. ASSUME NEW t \in Threads, StartTurn(t) PROVE EndInv'
  <2>1. /\ UNCHANGED <<terminal, ended, slot, pc>> /\ SameFailures /\ apc' \notin CancelPcs
    BY <1>5 DEF StartTurn, taskVars, storageVars, SameFailures, CancelPcs
  <2> QED
    BY <2>1, EndsKept DEF EndInv, InSlot
<1>6. CASE StartInstall
  <2>1. /\ UNCHANGED <<terminal, ended, pc>> /\ SameFailures /\ apc' \notin CancelPcs
        /\ slot' = [slot EXCEPT ![athread] = aturn]
    BY <1>6 DEF StartInstall, taskVars, storageVars, SameFailures, CancelPcs
  <2>2. athread \in Threads /\ aturn \in Turns /\ Unused(aturn)
    BY <1>6 DEF StartInstall, Addressed, StartPcs, FreshInv
  <2>3. \A m \in Turns : InSlot(m)' => InSlot(m) \/ Unused(m)
    BY <2>1, <2>2 DEF TypeOK, InSlot
  <2> QED
    BY <2>1, <2>3, EndsKept DEF EndInv
<1>7. CASE StartStatus \/ StartBuffer \/ StartPush
  <2>1. /\ UNCHANGED <<terminal, ended, slot, pc>> /\ SameFailures /\ apc' \notin CancelPcs
    BY <1>7 DEF StartStatus, StartBuffer, StartPush, taskVars, storageVars,
         SameFailures, CancelPcs
  <2> QED
    BY <2>1, EndsKept DEF EndInv, InSlot
<1>8. CASE StartSpawn
  <2>1. /\ UNCHANGED <<terminal, ended, slot>> /\ SameFailures /\ apc' \notin CancelPcs
        /\ pc' = [pc EXCEPT ![aturn] = "begin"]
    BY <1>8 DEF StartSpawn, Goto, SameFailures, CancelPcs
  <2>2. aturn \in Turns /\ pc[aturn] = "none"
    BY <1>8 DEF StartSpawn, Addressed, StartPcs, FreshInv, Unused
  <2>3. \A m \in Turns : pc'[m] = pc[m] \/ (pc[m] = "none" /\ pc'[m] = "begin")
    BY <2>1, <2>2 DEF TypeOK
  <2> QED
    BY <2>1, <2>3, EndsKept DEF EndInv, InSlot
<1>9. ASSUME NEW t \in Threads, CancelTurn(t) PROVE EndInv'
  <2>1. /\ UNCHANGED <<terminal, ended, pc>> /\ SameFailures
    BY <1>9 DEF CancelTurn, taskVars, storageVars, SameFailures
  <2>2. /\ \A u \in Threads : slot'[u] \in {slot[u], None}
        /\ apc' \notin CancelPcs \/ (apc' = "cancelAbort" /\ aturn' = slot[t])
    BY <1>9 DEF CancelTurn, TypeOK, CancelPcs
  <2>3. \A m \in Turns : InSlot(m)' => InSlot(m)
    BY <2>2, TurnIds DEF InSlot
  <2>4. apc' \notin CancelPcs \/ (apc' = "cancelAbort" /\ InSlot(aturn'))
    BY <2>2 DEF InSlot
  <2> QED
    BY <2>1, <2>3, <2>4, EndsKept DEF EndInv
<1>10. CASE Shutdown \/ CancelPhase
  <2>1. /\ UNCHANGED <<terminal, ended, slot, pc>> /\ SameFailures /\ apc' \notin CancelPcs
    BY <1>10 DEF Shutdown, CancelPhase, taskVars, storageVars, SameFailures, CancelPcs
  <2> QED
    BY <2>1, EndsKept DEF EndInv, InSlot
<1>11. CASE CancelStatus
  <2>1. /\ UNCHANGED <<ended, slot, pc, aturn, loc>> /\ apc = "cancelStatus"
        /\ apc' = "cancelBuffer"
        /\ terminal' = [terminal EXCEPT ![aturn] = @ \cup {"SessionAborted"}]
    BY <1>11 DEF CancelStatus, taskVars, storageVars
  <2>2. aturn \in Turns /\ ~InSlot(aturn) /\ pc[aturn] \in RunPcs \cup {"auto", "done"}
    BY <2>1 DEF Addressed, CancelPcs, SlotInv, InSlot
  <2>3. /\ terminal'[aturn] = terminal[aturn] \cup {"SessionAborted"}
        /\ \A m \in Turns : m # aturn => terminal'[m] = terminal[m]
    BY <2>1, <2>2 DEF TypeOK
  <2>4. Ends(aturn) /\ Unended(aturn)
    BY <2>1, <2>2 DEF EndInv, Ends, Held
  <2>5. Ends(aturn)'
    BY <2>1, <2>2, <2>3, <2>4 DEF Ends, Held, Unended, Failed, InSlot, RunPcs
  <2>6. ASSUME NEW m \in Turns, m # aturn PROVE Ends(m)'
    <3>1. Ends(m) /\ terminal'[m] = terminal[m]
      BY <2>3, <2>6 DEF EndInv
    <3> QED
      BY <2>1, <2>6, <3>1 DEF Ends, Held, Unended, Failed, InSlot
  <2> QED
    BY <2>1, <2>5, <2>6 DEF EndInv
<1>12. CASE CancelBuffer
  <2>1. /\ UNCHANGED <<ended, terminal, slot, pc, aturn, loc>> /\ apc = "cancelBuffer"
        /\ apc' = "cancelPersist"
    BY <1>12 DEF CancelBuffer, taskVars, storageVars
  <2> QED
    BY <2>1 DEF EndInv, Ends, Held, Unended, Failed, InSlot
<1>13. CASE CancelPersist
  <2>1. /\ UNCHANGED <<terminal, slot, pc, aturn, loc>> /\ apc = "cancelPersist"
        /\ apc' = "cancelPhase" /\ EnqueueEnded(aturn, "Interrupted")
    BY <1>13 DEF CancelPersist, taskVars
  <2>2. aturn \in Turns /\ ~InSlot(aturn) /\ pc[aturn] \in RunPcs \cup {"auto", "done"}
    BY <2>1 DEF Addressed, CancelPcs, SlotInv, InSlot
  <2>3. /\ ended'[aturn] \in {ended[aturn], "Interrupted", "Lost"}
        /\ \A m \in Turns : m # aturn => ended'[m] = ended[m]
    BY <2>1, <2>2, EndedSent
  <2>4. Ends(aturn) /\ ended[aturn] = "None" /\ "SessionAborted" \in terminal[aturn]
    BY <2>1, <2>2 DEF EndInv, Ends
  <2>5. Ends(aturn)'
    BY <2>1, <2>2, <2>3, <2>4 DEF Ends, Held, Unended, Failed, InSlot, RunPcs
  <2>6. ASSUME NEW m \in Turns, m # aturn PROVE Ends(m)'
    <3>1. Ends(m) /\ ended'[m] = ended[m]
      BY <2>3, <2>6 DEF EndInv
    <3> QED
      BY <2>1, <2>6, <3>1 DEF Ends, Held, Unended, Failed, InSlot
  <2> QED
    BY <2>1, <2>5, <2>6 DEF EndInv
<1>14. ASSUME NEW n \in Turns, FinishKinds(n) PROVE EndInv'
  <2>1. /\ UNCHANGED <<apc, aturn>>
        /\ \A m \in Turns : m # n => /\ pc'[m] = pc[m] /\ terminal'[m] = terminal[m]
                                     /\ ended'[m] = ended[m] /\ loc'[m] = loc[m]
        /\ \A t \in Threads : slot'[t] \in {slot[t], None}
    BY <1>14, FinishMoves
  <2>2. \A m \in Turns : InSlot(m)' => InSlot(m)
    BY <2>1, TurnIds DEF InSlot
  <2>3. ASSUME NEW m \in Turns, m # n PROVE Ends(m)'
    <3>1. /\ Ends(m) /\ pc'[m] = pc[m] /\ terminal'[m] = terminal[m]
          /\ ended'[m] = ended[m] /\ loc'[m] = loc[m]
      BY <2>1, <2>3 DEF EndInv
    <3>2. InSlot(m)' => InSlot(m)
      BY <2>2
    <3> QED
      BY <2>1, <3>1, <3>2 DEF Ends, Held, Unended, Failed
  <2>4. Ends(n)'
    <3>1. Ends(n) /\ terminal \in [Turns -> SUBSET {"TurnCompleted", "TurnFailed", "SessionAborted"}]
          /\ ended[n] \in EndedValues
          /\ loc \in [Turns -> Locals] /\ pc \in [Turns -> TaskPcs] /\ ended \in [Turns -> EndedValues]
      BY DEF EndInv, TypeOK
    <3>2. InSlot(n)' => InSlot(n)
      BY <2>2
    <3>3. CASE Fail(n)
      <4>1. /\ pc[n] \in {"callFailed", "streamFailed"} /\ pc'[n] \in {"finish", "fold"}
            /\ terminal'[n] = terminal[n] \cup {"TurnFailed"}
            /\ loc'[n].failed = TRUE /\ UNCHANGED <<ended, slot>>
        BY <3>1, <3>3 DEF Fail, Goto, Locals, storageVars
      <4> QED
        BY <2>1, <3>1, <3>2, <4>1 DEF Ends, Held, Unended, Failed, RunPcs
    <3>4. CASE Finish(n)
      <4>1. UNCHANGED <<terminal, ended, loc>> /\ pc[n] = "finish"
            /\ turnThread[n] \in Threads
        BY <3>4 DEF Finish, storageVars, Addressed
      <4>2. CASE slot[turnThread[n]] = n
        <5>1. pc'[n] = "finStatus" /\ Held(n)
          BY <3>1, <3>4, <4>1, <4>2 DEF Finish, Goto, Held, InSlot
        <5>2. apc \in CancelPcs => aturn # n
          BY <4>1, <4>2 DEF SlotInv
        <5> QED
          BY <2>1, <3>1, <3>2, <4>1, <5>1, <5>2 DEF Ends, Held, Unended, Failed, RunPcs, CancelPcs
      <4>3. CASE slot[turnThread[n]] # n
        <5>1. pc'[n] \in {"auto", "done"}
          BY <3>1, <3>4, <4>3 DEF Finish, Goto, AfterFinish
        <5> QED
          BY <2>1, <3>1, <3>2, <4>1, <5>1 DEF Ends, Held, Unended, Failed, RunPcs
      <4> QED
        BY <4>2, <4>3
    <3>5. CASE FinStatus(n) \/ FinPhase(n) \/ FinBuffer(n)
      <4>1. /\ UNCHANGED <<terminal, ended, loc>> /\ pc[n] \in {"finStatus", "finPhase", "finBuffer"}
            /\ pc'[n] \in {"finPhase", "finBuffer", "finEvent"}
        BY <3>1, <3>5 DEF FinStatus, FinPhase, FinBuffer, Goto, storageVars
      <4> QED
        BY <2>1, <3>1, <3>2, <4>1 DEF Ends, Held, Unended, Failed, RunPcs
    <3>6. CASE FinEvent(n)
      <4>1. /\ UNCHANGED <<ended, loc>> /\ pc[n] = "finEvent" /\ pc'[n] = "finPersist"
            /\ terminal' = IF loc[n].failed THEN terminal
                           ELSE [terminal EXCEPT ![n] = @ \cup {"TurnCompleted"}]
        BY <3>1, <3>6 DEF FinEvent, Goto, storageVars
      <4>2. loc[n].failed \in BOOLEAN /\ ~InSlot(n)
        <5>1. loc[n].failed \in BOOLEAN
          BY <3>1 DEF Locals
        <5>2. apc \in InstalledPcs => aturn # n
          BY <4>1 DEF FreshInv, Unused, InstalledPcs, StartPcs
        <5>3. pc[n] \notin RunPcs /\ n # None
          BY <4>1, TurnIds DEF RunPcs
        <5> QED
          BY <5>1, <5>2, <5>3 DEF SlotInv, InSlot
      <4>3. CASE loc[n].failed
        BY <2>1, <3>1, <3>2, <4>1, <4>2, <4>3 DEF Ends, Held, Unended, Failed, RunPcs
      <4>4. CASE ~loc[n].failed
        <5>1. terminal'[n] = terminal[n] \cup {"TurnCompleted"} /\ ~Failed(n)
          BY <3>1, <4>1, <4>4 DEF Failed
        <5>2. Unended(n) /\ "TurnFailed" \notin terminal[n]
          BY <3>1, <4>1, <5>1 DEF Ends, Held
        <5>3. /\ "TurnCompleted" \in terminal'[n] /\ "TurnFailed" \notin terminal'[n]
              /\ "SessionAborted" \notin terminal'[n]
              /\ ended'[n] = "None" /\ ~Failed(n)' /\ ~InSlot(n)'
          BY <3>2, <4>1, <4>2, <5>1, <5>2 DEF Unended, Failed
        <5>4. ~Held(n)'
          <6>1. ~(apc' \in {"cancelAbort", "cancelStatus"} /\ aturn' = n)
            BY <2>1, <4>1 DEF SlotInv, CancelPcs, RunPcs
          <6> QED
            BY <4>1, <5>3, <6>1 DEF Held
        <5>5. ~(apc' \in {"cancelBuffer", "cancelPersist", "cancelPhase"} /\ aturn' = n)
          BY <2>1, <4>1 DEF SlotInv, CancelPcs, RunPcs
        <5> QED
          BY <4>1, <5>3, <5>4, <5>5 DEF Ends
      <4> QED
        BY <4>3, <4>4
    <3>7. CASE FinPersist(n)
      <4>1. /\ UNCHANGED <<terminal, loc>> /\ pc[n] = "finPersist" /\ pc'[n] \in {"auto", "done"}
            /\ EnqueueEnded(n, IF loc[n].failed THEN "Failed" ELSE "Completed")
        BY <3>1, <3>7 DEF FinPersist, Goto, AfterFinish
      <4>2. loc[n].failed \in BOOLEAN /\ ~InSlot(n)
        <5>1. loc[n].failed \in BOOLEAN
          BY <3>1 DEF Locals
        <5>2. apc \in InstalledPcs => aturn # n
          BY <4>1 DEF FreshInv, Unused, InstalledPcs, StartPcs
        <5>3. pc[n] \notin RunPcs /\ n # None
          BY <4>1, TurnIds DEF RunPcs
        <5> QED
          BY <5>1, <5>2, <5>3 DEF SlotInv, InSlot
      <4>3. \/ ended'[n] \in {"None", "Lost"} \/ (Failed(n) /\ ended'[n] = "Failed")
            \/ (~Failed(n) /\ ended'[n] = "Completed")
        BY <3>1, <4>1, <4>2, EndedSent DEF Failed, Ends
      <4>4. apc \in CancelPcs => aturn # n
        BY <4>1 DEF SlotInv, RunPcs
      <4> QED
        BY <2>1, <3>1, <3>2, <4>1, <4>2, <4>3, <4>4 DEF Ends, Held, Unended, Failed, RunPcs, CancelPcs
    <3> QED
      BY <1>14, <3>3, <3>4, <3>5, <3>6, <3>7 DEF FinishKinds
  <2> QED
    BY <2>3, <2>4 DEF EndInv
<1> QED
  BY <1>1, <1>2, <1>3, <1>4, <1>5, <1>6, <1>7, <1>8, <1>9, <1>10, <1>11, <1>12,
     <1>13, <1>14 DEF Kinds, StartKinds, CancelKinds
LEMMA EndingsKept ==
    ASSUME TypeOK, Addressed, Owned, EndInv, Kinds, NEW n \in Turns, ended[n] # "None"
    PROVE  ended'[n] = ended[n]
<1>1. CASE CancelPersist
  <2>1. aturn \in Turns /\ ended[aturn] = "None"
    BY <1>1 DEF CancelPersist, Addressed, CancelPcs, EndInv, Ends
  <2> QED
    BY <1>1, <2>1, EndedSent DEF CancelPersist
<1>2. ASSUME NEW m \in Turns, FinPersist(m) PROVE ended'[n] = ended[n]
  <2>1. ended[m] = "None"
    BY <1>2 DEF FinPersist, EndInv, Ends
  <2> QED
    BY <1>2, <2>1, EndedSent DEF FinPersist
<1>3. CASE Rest \/ Advance
  BY <1>3 DEF Rest, Advance, LifeVars
<1>4. ASSUME NEW m \in Turns, Works(m) PROVE ended'[n] = ended[n]
  BY <1>4 DEF Works, LifeVars
<1>5. ASSUME NEW c \in Compactors, Tailing(c) PROVE ended'[n] = ended[n]
  BY <1>5 DEF Tailing, LifeVars
<1>6. CASE StartKinds \/ Shutdown
  BY <1>6 DEF StartKinds, StartTurn, StartInstall, StartStatus, StartBuffer, StartPush,
       StartSpawn, Spawns, StartChildTurn, Shutdown, storageVars
<1>7. CASE \/ (\E t \in Threads : CancelTurn(t)) \/ CancelStatus \/ CancelBuffer \/ CancelPhase
  BY <1>7 DEF CancelTurn, CancelStatus, CancelBuffer, CancelPhase, storageVars
<1>8. ASSUME NEW m \in Turns, FinishKinds(m), ~FinPersist(m) PROVE ended'[n] = ended[n]
  BY <1>8 DEF FinishKinds, Fail, Finish, FinStatus, FinPhase, FinBuffer, FinEvent,
       storageVars
<1> QED
  BY <1>1, <1>2, <1>3, <1>4, <1>5, <1>6, <1>7, <1>8 DEF Kinds, CancelKinds

-----------------------------------------------------------------------------
(* The inductive invariant of the endings *)
LifeInv == TypeOK /\ Addressed /\ PhaseInv /\ Owned /\ EndInv

LEMMA LifeInit == Init => LifeInv
<1> SUFFICES ASSUME Init PROVE LifeInv
  OBVIOUS
<1>1. apc = "idle" /\ aturn = None /\ \A t \in Threads : slot[t] = None
  BY DEF Init
<1>2. \A n \in Turns : Unused(n)
  <2> SUFFICES ASSUME NEW n \in Turns PROVE Unused(n)
    OBVIOUS
  <2>1. n \in Compactors
    BY TurnIds
  <2>2. loc[n].failed = FALSE
    BY DEF Init, FreshLocals
  <2> QED
    BY <2>1, <2>2 DEF Init, Unused
<1>3. CompactInv
  BY TurnIds DEF Init, CompactInv
<1>4. FreshInv
  BY <1>1, <1>2, TurnIds DEF FreshInv, StartPcs
<1>5. SlotInv
  BY <1>1 DEF SlotInv, InstalledPcs, CancelPcs, StartPcs
<1>6. EndInv
  BY <1>1, <1>2, TurnIds DEF EndInv, Ends, Held, InSlot, Unended, Failed, Unused, CancelPcs
<1> QED
  BY <1>3, <1>4, <1>5, <1>6, InitAll DEF LifeInv, Owned

LEMMA LifeStep == LifeInv /\ [Next]_vars => LifeInv'
<1> SUFFICES ASSUME LifeInv, [Next]_vars PROVE LifeInv'
  OBVIOUS
<1>1. TypeOK /\ Addressed /\ PhaseInv /\ Owned /\ EndInv
  BY DEF LifeInv
<1>2. TypeOK' /\ Addressed' /\ PhaseInv'
  BY <1>1, TypeStep, AddressedStep, PhaseStep
<1>3. Kinds
  BY <1>1, StepKind DEF Owned
<1>4. CompactInv' /\ FreshInv' /\ SlotInv'
  BY <1>1, <1>3, CompactInvStep, FreshStep, SlotStep
<1>5. EndInv'
  BY <1>1, <1>3, <1>4, EndStep
<1> QED
  BY <1>2, <1>4, <1>5 DEF LifeInv, Owned

THEOREM EndingLifecycle == Spec => []LifeInv
  BY LifeInit, LifeStep, PTL DEF Spec

(* A turn is ended once: either finish_turn or cancel_turn broadcasts and    *)
(* persists its ending, whichever takes the active_turn slot, and the two    *)
(* records of it agree.                                                      *)
THEOREM SingleEnding == Spec => []OneEnding
<1>1. LifeInv => OneEnding
  <2> SUFFICES ASSUME TypeOK, EndInv PROVE OneEnding
    BY DEF LifeInv
  <2> SUFFICES ASSUME NEW n \in Turns
               PROVE  /\ ~ {"TurnCompleted", "SessionAborted"} \subseteq terminal[n]
                      /\ ~ {"TurnCompleted", "TurnFailed"} \subseteq terminal[n]
                      /\ ended[n] = "Interrupted" => "SessionAborted" \in terminal[n]
                      /\ ended[n] = "Completed" => "TurnCompleted" \in terminal[n]
                      /\ ended[n] = "Failed" => terminal[n] = {"TurnFailed"}
                      /\ ended[n] = "Lost" => terminal[n] # {}
    BY DEF OneEnding
  <2>1. Ends(n) /\ terminal[n] \subseteq {"TurnCompleted", "TurnFailed", "SessionAborted"}
    BY DEF EndInv, TypeOK
  <2> QED
    BY <2>1 DEF Ends
<1> QED
  BY EndingLifecycle, <1>1, PTL

(* The recorded ending of a turn is never rewritten: neither a cancel that   *)
(* arrives late nor a task that runs on after its cancel enqueues a second   *)
(* TurnEnded.                                                                *)
THEOREM EndingsAreFinal == Spec => EndingIsFinal
<1>1. LifeInv /\ [Next]_vars => [\A n \in Turns : ended[n] # "None" => ended'[n] = ended[n]]_vars
  <2> SUFFICES ASSUME LifeInv, [Next]_vars, NEW n \in Turns, ended[n] # "None"
               PROVE  ended'[n] = ended[n]
    OBVIOUS
  <2>1. TypeOK /\ Addressed /\ Owned /\ EndInv /\ CompactInv
    BY DEF LifeInv, Owned
  <2>2. Kinds
    BY <2>1, StepKind
  <2> QED
    BY <2>1, <2>2, EndingsKept
<1> QED
  BY EndingLifecycle, <1>1, PTL DEF Spec, EndingIsFinal

-----------------------------------------------------------------------------
(***************************************************************************)
(* What a client reads of its threads, and how far a cancel reaches.  Both *)
(* rest on the ownership of the active_turn slot.                          *)
(***************************************************************************)

(* Status and slot *)

(* The step that brings status and slot of a thread together is under way *)
Settling(t) == \/ athread = t /\ apc \in {"startStatus", "cancelAbort", "cancelStatus"}
               \/ \E n \in Turns : turnThread[n] = t /\ pc[n] = "finStatus"

LEMMA LifeFacts ==
    ASSUME LifeInv
    PROVE  /\ TypeOK /\ Addressed /\ PhaseInv /\ SingleActiveTurn /\ Owned
           /\ CompactInv /\ FreshInv /\ SlotInv /\ EndInv
  BY DEF LifeInv, Owned, PhaseInv

(* Every kind of step but those of a task that ends its turn *)
OtherKinds == \/ Rest \/ Advance \/ (\E n \in Turns : Works(n))
              \/ (\E c \in Compactors : Tailing(c)) \/ StartKinds \/ CancelKinds
              \/ Shutdown

(* A task that waits in finish_turn stays there until its own step *)
LEMMA FinishersStay ==
    ASSUME LifeInv, OtherKinds, NEW n \in Turns, pc[n] \in FinPcs
    PROVE  pc'[n] = pc[n] /\ turnThread'[n] = turnThread[n]
<1> USE LifeFacts
<1>1. pc[n] \notin RunPcs \cup {"none", "auto"}
  BY DEF FinPcs, RunPcs
<1>2. CASE Rest \/ Advance
  BY <1>2 DEF Rest, Advance, LifeVars
<1>3. ASSUME NEW m \in Turns, Works(m) PROVE pc'[n] = pc[n] /\ turnThread'[n] = turnThread[n]
  BY <1>1, <1>3 DEF Works, LifeVars, TypeOK
<1>5. ASSUME NEW c \in Compactors, Tailing(c) PROVE pc'[n] = pc[n] /\ turnThread'[n] = turnThread[n]
  BY <1>1, <1>5 DEF Tailing, LifeVars, TypeOK
<1>6. ASSUME NEW c \in ChildThreads, Spawns(c) PROVE pc'[n] = pc[n] /\ turnThread'[n] = turnThread[n]
  <2>1. counter + 1 \in Turns /\ counter + 1 # n
    BY <1>1, <1>6, NextFresh DEF Spawns, StartChildTurn, FreshInv, Unused
  <2> QED
    BY <1>6, <2>1 DEF Spawns, StartChildTurn, Goto, TypeOK
<1>7. CASE StartSpawn
  <2>1. aturn # n
    BY <1>1, <1>7 DEF StartSpawn, FreshInv, Unused, StartPcs
  <2> QED
    BY <1>7, <2>1 DEF StartSpawn, Goto, TypeOK
<1>8. CASE \/ (\E t \in Threads : StartTurn(t)) \/ StartInstall \/ StartStatus
           \/ StartBuffer \/ StartPush \/ CancelKinds \/ Shutdown
  BY <1>8 DEF StartTurn, StartInstall, StartStatus, StartBuffer, StartPush, CancelKinds,
       CancelTurn, CancelStatus, CancelBuffer, CancelPersist, CancelPhase, Shutdown,
       taskVars
<1> QED
  BY <1>2, <1>3, <1>5, <1>6, <1>7, <1>8 DEF OtherKinds, StartKinds

(* A step that changes neither the status nor the slot of a thread, nor     *)
(* takes the actor or a task out of the state that is about to change them  *)
LEMMA StatusKept ==
    ASSUME StatusTracksSlot, NEW t \in TopThreads,
           status'[t] = status[t], slot'[t] = slot[t],
           athread = t /\ apc \in {"startStatus", "cancelAbort", "cancelStatus"} =>
               athread' = t /\ apc' \in {"startStatus", "cancelAbort", "cancelStatus"},
           \A n \in Turns : turnThread[n] = t /\ pc[n] = "finStatus" =>
                                turnThread'[n] = t /\ pc'[n] = "finStatus"
    PROVE  \/ status'[t] = (IF slot'[t] # None THEN "Active" ELSE "Idle")
           \/ Settling(t)'
<1>1. CASE \E n \in Turns : turnThread[n] = t /\ pc[n] = "finStatus"
  BY <1>1 DEF Settling
<1>2. CASE status[t] = (IF slot[t] # None THEN "Active" ELSE "Idle")
  BY <1>2
<1>3. CASE athread = t /\ apc \in {"startStatus", "cancelAbort", "cancelStatus"}
  BY <1>3 DEF Settling
<1> QED
  BY <1>1, <1>2, <1>3 DEF StatusTracksSlot

LEMMA StatusStep ==
    ASSUME LifeInv, Kinds, StatusTracksSlot
    PROVE  StatusTracksSlot'
<1> USE LifeFacts
<1> DEFINE Goal(t) == \/ status'[t] = (IF slot'[t] # None THEN "Active" ELSE "Idle")
                      \/ Settling(t)'
<1> SUFFICES ASSUME NEW t \in TopThreads PROVE Goal(t)
  BY DEF StatusTracksSlot, Settling
<1>0. t \in Threads /\ t \notin ChildThreads
  BY ThreadsAssumption DEF Threads
<1>1. ASSUME OtherKinds PROVE
          \A n \in Turns : turnThread[n] = t /\ pc[n] = "finStatus" =>
                               turnThread'[n] = t /\ pc'[n] = "finStatus"
  BY <1>1, FinishersStay DEF FinPcs
<1>2. CASE Rest \/ Advance
  <2>1. status' = status /\ slot' = slot /\ athread' = athread
        /\ (apc \in {"startStatus", "cancelAbort", "cancelStatus"} =>
               apc' \in {"startStatus", "cancelAbort", "cancelStatus"})
    BY <1>2 DEF Rest, Advance, LifeVars, RestPcs
  <2> QED
    BY <1>1, <1>2, <2>1, StatusKept DEF OtherKinds
<1>3. ASSUME NEW n \in Turns, Works(n) PROVE Goal(t)
  BY <1>1, <1>3, StatusKept DEF OtherKinds, Works, LifeVars
<1>4. ASSUME NEW c \in Compactors, Tailing(c) PROVE Goal(t)
  <2>1. status' = status /\ slot' = slot /\ athread' = athread
        /\ (apc \in {"startStatus", "cancelAbort", "cancelStatus"} => apc' = apc)
    BY <1>4 DEF Tailing, LifeVars
  <2> QED
    BY <1>1, <1>4, <2>1, StatusKept DEF OtherKinds
<1>5. ASSUME NEW u \in Threads, StartTurn(u) PROVE Goal(t)
  <2>1. status' = status /\ slot' = slot /\ apc = "idle" /\ OtherKinds
    BY <1>5 DEF StartTurn, OtherKinds, StartKinds
  <2> QED
    BY <1>1, <2>1, StatusKept
<1>6. CASE StartInstall
  <2>1. CASE athread = t
    BY <1>6, <2>1 DEF StartInstall, Settling
  <2>2. CASE athread # t
    <3>1. status'[t] = status[t] /\ slot'[t] = slot[t] /\ OtherKinds
      BY <1>6, <2>2, <1>0 DEF StartInstall, TypeOK, OtherKinds, StartKinds
    <3> QED
      BY <1>1, <2>2, <3>1, StatusKept
  <2> QED
    BY <2>1, <2>2
<1>7. CASE StartStatus
  <2>1. CASE athread = t
    <3>1. status'[t] = "Active" /\ slot'[t] = slot[t] /\ aturn \in Turns
      BY <1>7, <2>1, <1>0 DEF StartStatus, TypeOK, Addressed, StartPcs
    <3>2. slot[t] = aturn
      BY <1>7, <2>1 DEF StartStatus, SlotInv, InstalledPcs
    <3> QED
      BY <3>1, <3>2, TurnIds
  <2>2. CASE athread # t
    <3>1. status'[t] = status[t] /\ slot'[t] = slot[t] /\ OtherKinds
      BY <1>7, <2>2, <1>0 DEF StartStatus, TypeOK, OtherKinds, StartKinds
    <3> QED
      BY <1>1, <2>2, <3>1, StatusKept
  <2> QED
    BY <2>1, <2>2
<1>8. CASE StartBuffer \/ StartPush \/ StartSpawn \/ Shutdown \/ CancelBuffer
           \/ CancelPersist \/ CancelPhase
  <2>1. status' = status /\ slot' = slot
        /\ apc \notin {"startStatus", "cancelAbort", "cancelStatus"} /\ OtherKinds
    BY <1>8 DEF StartBuffer, StartPush, StartSpawn, Shutdown, CancelBuffer,
         CancelPersist, CancelPhase, OtherKinds, StartKinds, CancelKinds
  <2> QED
    BY <1>1, <2>1, StatusKept
<1>9. ASSUME NEW c \in ChildThreads, Spawns(c) PROVE Goal(t)
  <2>1. status'[t] = status[t] /\ slot'[t] = slot[t] /\ UNCHANGED <<apc, athread>> /\ OtherKinds
    BY <1>9, <1>0 DEF Spawns, StartChildTurn, TypeOK, actorVars, OtherKinds, StartKinds
  <2> QED
    BY <1>1, <2>1, StatusKept
<1>10. ASSUME NEW u \in Threads, CancelTurn(u) PROVE Goal(t)
  <2>1. CASE athread' = t /\ apc' = "cancelAbort"
    BY <2>1 DEF Settling
  <2>2. CASE ~(athread' = t /\ apc' = "cancelAbort")
    <3>1. status'[t] = status[t] /\ slot'[t] = slot[t] /\ apc = "idle" /\ OtherKinds
      BY <1>10, <2>2, <1>0 DEF CancelTurn, TypeOK, OtherKinds, CancelKinds
    <3> QED
      BY <1>1, <3>1, StatusKept
  <2> QED
    BY <2>1, <2>2
<1>11. CASE CancelStatus
  <2>1. CASE athread = t
    <3>1. status'[t] = "Idle" /\ slot'[t] = slot[t]
      BY <1>11, <2>1, <1>0 DEF CancelStatus, TypeOK
    <3>2. slot[t] = None
      BY <1>11, <2>1 DEF CancelStatus, SingleActiveTurn, Cancelling
    <3> QED
      BY <3>1, <3>2
  <2>2. CASE athread # t
    <3>1. status'[t] = status[t] /\ slot'[t] = slot[t] /\ OtherKinds
      BY <1>11, <2>2, <1>0 DEF CancelStatus, TypeOK, OtherKinds, CancelKinds
    <3> QED
      BY <1>1, <2>2, <3>1, StatusKept
  <2> QED
    BY <2>1, <2>2
<1>12. ASSUME NEW n \in Turns, FinishKinds(n) PROVE Goal(t)
  <2>1. /\ UNCHANGED <<apc, athread, turnThread>>
        /\ \A m \in Turns : m # n => pc'[m] = pc[m]
    BY <1>12, FinishMoves
  <2>2. CASE Finish(n) /\ slot[turnThread[n]] = n /\ turnThread[n] = t
    <3>1. pc'[n] = "finStatus"
      BY <2>2 DEF Finish, Goto, TypeOK
    <3> QED
      BY <2>1, <2>2, <3>1 DEF Settling
  <2>3. CASE FinStatus(n) /\ turnThread[n] = t
    <3>1. slot[t] = None
      BY <2>3 DEF FinStatus, SingleActiveTurn, Finishing
    <3>2. status'[t] = "Idle" /\ slot' = slot
      BY <2>3, <1>0 DEF FinStatus, TypeOK
    <3> QED
      BY <3>1, <3>2
  <2>4. CASE ~(Finish(n) /\ slot[turnThread[n]] = n /\ turnThread[n] = t)
             /\ ~(FinStatus(n) /\ turnThread[n] = t)
    <3>1. status'[t] = status[t]
      BY <1>12, <2>4, <1>0 DEF FinishKinds, Fail, Finish, FinStatus, FinPhase,
           FinBuffer, FinEvent, FinPersist, TypeOK
    <3>2. slot'[t] = slot[t]
      BY <1>12, <2>4, <1>0 DEF FinishKinds, Fail, Finish, FinStatus, FinPhase,
           FinBuffer, FinEvent, FinPersist, TypeOK
    <3>3. turnThread[n] = t => pc[n] # "finStatus"
      BY <1>12, <2>4 DEF FinishKinds, Fail, Finish, FinPhase, FinBuffer, FinEvent, FinPersist
    <3> QED
      BY <2>1, <3>1, <3>2, <3>3, StatusKept
  <2> QED
    BY <2>2, <2>3, <2>4
<1> QED
  BY <1>2, <1>3, <1>4, <1>5, <1>6, <1>7, <1>8, <1>9, <1>10, <1>11, <1>12
     DEF Kinds, StartKinds, CancelKinds
-----------------------------------------------------------------------------
(* From the slot to the last step of an ending.  Whoever takes the slot of a *)
(* client thread closes its buffer and records its rest, in that order.      *)

LEMMA HeldOnward ==
    ASSUME LifeInv, Kinds, NEW t \in TopThreads, slot[t] # None
    PROVE  \/ slot'[t] = slot[t]
           \/ /\ athread' = t /\ aturn' = slot[t] /\ apc' = "cancelAbort"
              /\ slot[t] \in fired'
           \/ turnThread'[slot[t]] = t /\ pc'[slot[t]] = "finStatus"
<1> USE LifeFacts
<1>0. t \in Threads /\ t \notin ChildThreads /\ slot[t] \in Turns
  BY ThreadsAssumption DEF Threads, TypeOK
<1>1. CASE Rest \/ Advance \/ (\E n \in Turns : Works(n)) \/ (\E c \in Compactors : Tailing(c))
  BY <1>1 DEF Rest, Advance, Works, Tailing, LifeVars
<1>2. CASE StartInstall
  BY <1>2 DEF StartInstall, SingleActiveTurn, Starting
<1>3. CASE \/ (\E u \in Threads : StartTurn(u)) \/ StartStatus \/ StartBuffer \/ StartPush
           \/ StartSpawn \/ Shutdown \/ CancelStatus \/ CancelBuffer \/ CancelPersist
           \/ CancelPhase
  BY <1>3 DEF StartTurn, StartStatus, StartBuffer, StartPush, StartSpawn, Shutdown,
       CancelStatus, CancelBuffer, CancelPersist, CancelPhase
<1>4. ASSUME NEW c \in ChildThreads, Spawns(c) PROVE slot'[t] = slot[t]
  BY <1>0, <1>4 DEF Spawns, StartChildTurn, TypeOK
<1>5. ASSUME NEW u \in Threads, CancelTurn(u)
      PROVE  \/ slot'[t] = slot[t]
             \/ /\ athread' = t /\ aturn' = slot[t] /\ apc' = "cancelAbort"
                /\ slot[t] \in fired'
  BY <1>0, <1>5 DEF CancelTurn, TypeOK
<1>6. ASSUME NEW n \in Turns, FinishKinds(n), slot'[t] # slot[t]
      PROVE  turnThread'[slot[t]] = t /\ pc'[slot[t]] = "finStatus"
  <2>1. Finish(n) /\ turnThread[n] = t /\ slot[t] = n
    BY <1>0, <1>6 DEF FinishKinds, Fail, Finish, FinStatus, FinPhase, FinBuffer,
         FinEvent, FinPersist, TypeOK
  <2> QED
    BY <2>1 DEF Finish, Goto, TypeOK
<1> QED
  BY <1>1, <1>2, <1>3, <1>4, <1>5, <1>6 DEF Kinds, StartKinds, CancelKinds

LEMMA CancelOnward ==
    ASSUME LifeInv, Kinds, apc \in CancelPcs
    PROVE  \/ UNCHANGED <<apc, athread, aturn>>
           \/ Advance \/ CancelStatus \/ CancelBuffer \/ CancelPersist \/ CancelPhase
<1> USE DEF CancelPcs
<1>1. CASE Rest \/ (\E n \in Turns : Works(n)) \/ (\E c \in Compactors : Tailing(c))
  BY <1>1 DEF Rest, RestPcs, Works, Tailing, LifeVars
<1>2. CASE StartKinds \/ Shutdown \/ (\E t \in Threads : CancelTurn(t))
  BY <1>2 DEF StartKinds, StartTurn, StartInstall, StartStatus, StartBuffer, StartPush,
       StartSpawn, Spawns, StartChildTurn, Shutdown, CancelTurn, actorVars
<1>3. ASSUME NEW n \in Turns, FinishKinds(n) PROVE UNCHANGED <<apc, athread, aturn>>
  BY <1>3, LifeFacts, FinishMoves
<1> QED
  BY <1>1, <1>2, <1>3 DEF Kinds, CancelKinds

LEMMA FinOnward ==
    ASSUME LifeInv, Kinds, NEW n \in Turns, pc[n] \in FinPcs
    PROVE  FinishKinds(n) \/ (pc'[n] = pc[n] /\ turnThread'[n] = turnThread[n])
<1>1. CASE OtherKinds
  BY <1>1, FinishersStay
<1>2. ASSUME NEW m \in Turns, FinishKinds(m), m # n
      PROVE  pc'[n] = pc[n] /\ turnThread'[n] = turnThread[n]
  BY <1>2, LifeFacts, FinishMoves
<1> QED
  BY <1>1, <1>2 DEF Kinds, OtherKinds

(* Somebody will close the buffer of thread t, or record that it is at rest *)
Closing(t) == \/ slot[t] # None
              \/ athread = t /\ apc \in {"cancelAbort", "cancelStatus", "cancelBuffer"}
              \/ \E n \in Turns : /\ turnThread[n] = t
                                  /\ pc[n] \in {"finStatus", "finPhase", "finBuffer"}
Recording(t) == \/ slot[t] # None
                \/ /\ athread = t
                   /\ apc \in {"cancelAbort", "cancelStatus", "cancelBuffer", "cancelPersist"}
                \/ \E n \in Turns : turnThread[n] = t /\ pc[n] \in FinPcs
(* ... or record the ending of turn n *)
Closes(n) == \/ slot[turnThread[n]] = n
             \/ /\ aturn = n
                /\ apc \in {"cancelAbort", "cancelStatus", "cancelBuffer", "cancelPersist"}
             \/ pc[n] \in FinPcs

(* The buffer of a client thread is open, its row says Active and a turn of *)
(* its has no recorded ending only while somebody is there to change that.  *)
ViewInv ==
    /\ apc # "stopped" => storageOpen
    /\ \A t \in TopThreads : active[t] # None => Closing(t)
    /\ storageOpen => /\ \A t \in TopThreads : row[t] = "Active" => Recording(t)
                      /\ \A n \in Turns :
                            turnThread[n] \in TopThreads /\ ended[n] = "None" => Closes(n)

LEMMA ClosingKept ==
    ASSUME LifeInv, Kinds, NEW t \in TopThreads, Closing(t)
    PROVE  Closing(t)' \/ active'[t] = None
<1> USE LifeFacts DEF Closing
<1>0. t \in Threads
  BY DEF Threads
<1>1. CASE slot[t] # None
  <2>1. slot[t] \in Turns
    BY <1>0, <1>1 DEF TypeOK
  <2> QED
    BY <1>1, <2>1, HeldOnward
<1>2. CASE athread = t /\ apc \in {"cancelAbort", "cancelStatus", "cancelBuffer"}
  <2>1. \/ UNCHANGED <<apc, athread, aturn>>
        \/ Advance \/ CancelStatus \/ CancelBuffer \/ CancelPersist \/ CancelPhase
    BY <1>2, CancelOnward DEF CancelPcs
  <2>2. CASE CancelBuffer
    BY <1>0, <1>2, <2>2 DEF CancelBuffer, TypeOK
  <2> QED
    BY <1>2, <2>1, <2>2 DEF Advance, LifeVars, CancelStatus, CancelPersist, CancelPhase
<1>3. ASSUME NEW n \in Turns, turnThread[n] = t,
             pc[n] \in {"finStatus", "finPhase", "finBuffer"}
      PROVE  Closing(t)' \/ active'[t] = None
  <2>1. FinishKinds(n) \/ (pc'[n] = pc[n] /\ turnThread'[n] = turnThread[n])
    BY <1>3, FinOnward DEF FinPcs
  <2>2. CASE FinishKinds(n)
    <3>1. FinStatus(n) \/ FinPhase(n) \/ FinBuffer(n)
      BY <1>3, <2>2 DEF FinishKinds, Fail, Finish, FinStatus, FinPhase, FinBuffer,
           FinEvent, FinPersist
    <3>2. CASE FinBuffer(n)
      BY <1>0, <1>3, <3>2 DEF FinBuffer, TypeOK
    <3>3. CASE FinStatus(n) \/ FinPhase(n)
      BY <1>3, <3>3 DEF FinStatus, FinPhase, Goto, TypeOK
    <3> QED
      BY <3>1, <3>2, <3>3
  <2> QED
    BY <1>3, <2>1, <2>2
<1> QED
  BY <1>1, <1>2, <1>3

LEMMA RecordingKept ==
    ASSUME LifeInv, Kinds, storageOpen, NEW t \in TopThreads, Recording(t)
    PROVE  Recording(t)' \/ row'[t] # "Active"
<1> USE LifeFacts DEF Recording
<1>0. t \in Threads
  BY DEF Threads
<1>1. CASE slot[t] # None
  <2>1. slot[t] \in Turns
    BY <1>0, <1>1 DEF TypeOK
  <2> QED
    BY <1>1, <2>1, HeldOnward DEF FinPcs
<1>2. CASE athread = t /\ apc \in {"cancelAbort", "cancelStatus", "cancelBuffer", "cancelPersist"}
  <2>1. \/ UNCHANGED <<apc, athread, aturn>>
        \/ Advance \/ CancelStatus \/ CancelBuffer \/ CancelPersist \/ CancelPhase
    BY <1>2, CancelOnward DEF CancelPcs
  <2>2. CASE CancelPersist
    BY <1>0, <1>2, <2>2, RowSent DEF CancelPersist
  <2> QED
    BY <1>2, <2>1, <2>2 DEF Advance, LifeVars, CancelStatus, CancelBuffer, CancelPhase
<1>3. ASSUME NEW n \in Turns, turnThread[n] = t, pc[n] \in FinPcs
      PROVE  Recording(t)' \/ row'[t] # "Active"
  <2>1. FinishKinds(n) \/ (pc'[n] = pc[n] /\ turnThread'[n] = turnThread[n])
    BY <1>3, FinOnward
  <2>2. CASE FinishKinds(n)
    <3>1. FinStatus(n) \/ FinPhase(n) \/ FinBuffer(n) \/ FinEvent(n) \/ FinPersist(n)
      BY <1>3, <2>2 DEF FinishKinds, Fail, Finish, FinPcs
    <3>2. CASE FinPersist(n)
      BY <1>0, <1>3, <3>2, RowSent DEF FinPersist
    <3>3. CASE FinStatus(n) \/ FinPhase(n) \/ FinBuffer(n) \/ FinEvent(n)
      BY <1>3, <3>3 DEF FinStatus, FinPhase, FinBuffer, FinEvent, Goto, TypeOK, FinPcs
    <3> QED
      BY <3>1, <3>2, <3>3
  <2> QED
    BY <1>3, <2>1, <2>2
<1> QED
  BY <1>1, <1>2, <1>3

LEMMA ClosesKept ==
    ASSUME LifeInv, Kinds, storageOpen, NEW n \in Turns,
           turnThread[n] \in TopThreads, Closes(n)
    PROVE  Closes(n)' \/ ended'[n] # "None"
<1> USE LifeFacts DEF Closes
<1> DEFINE t == turnThread[n]
<1>0. t \in Threads /\ n # None
  BY TurnIds DEF Threads
<1>1. CASE slot[t] = n
  <2>1. \/ slot'[t] = n
        \/ athread' = t /\ aturn' = n /\ apc' = "cancelAbort"
        \/ turnThread'[n] = t /\ pc'[n] = "finStatus"
    BY <1>0, <1>1, HeldOnward
  <2>2. turnThread'[n] = t
    <3>1. CASE OtherKinds \/ (\E m \in Turns : FinishKinds(m))
      <4>1. CASE StartSpawn
        <5>1. turnThread[aturn] = None
          BY <4>1 DEF StartSpawn, FreshInv, Unused, StartPcs
        <5>2. n # aturn
          BY <1>0, <5>1, NoneIsNoThread
        <5> QED
          BY <4>1, <5>2 DEF StartSpawn, TypeOK
      <4>2. ASSUME NEW c \in ChildThreads, Spawns(c) PROVE turnThread'[n] = t
        <5>1. counter + 1 \in Turns /\ turnThread[counter + 1] = None
          BY <4>2, NextFresh DEF Spawns, StartChildTurn, FreshInv, Unused
        <5>2. n # counter + 1
          BY <1>0, <5>1, NoneIsNoThread
        <5> QED
          BY <4>2, <5>1, <5>2 DEF Spawns, StartChildTurn, TypeOK
      <4>3. CASE \E m \in Turns : FinishKinds(m)
        BY <4>3, FinishMoves
      <4>4. CASE Rest \/ Advance \/ (\E m \in Turns : Works(m)) \/ (\E c \in Compactors : Tailing(c))
        BY <4>4 DEF Rest, Advance, Works, Tailing, LifeVars
      <4>5. CASE \/ (\E u \in Threads : StartTurn(u)) \/ StartInstall \/ StartStatus
                 \/ StartBuffer \/ StartPush \/ CancelKinds \/ Shutdown
        BY <4>5 DEF StartTurn, StartInstall, StartStatus, StartBuffer, StartPush, CancelKinds,
             CancelTurn, CancelStatus, CancelBuffer, CancelPersist, CancelPhase, Shutdown,
             taskVars
      <4> QED
        BY <3>1, <4>1, <4>2, <4>3, <4>4, <4>5 DEF OtherKinds, StartKinds
    <3> QED
      BY <3>1 DEF Kinds, OtherKinds
  <2> QED
    BY <2>1, <2>2 DEF FinPcs
<1>2. CASE aturn = n /\ apc \in {"cancelAbort", "cancelStatus", "cancelBuffer", "cancelPersist"}
  <2>1. \/ UNCHANGED <<apc, athread, aturn>>
        \/ Advance \/ CancelStatus \/ CancelBuffer \/ CancelPersist \/ CancelPhase
    BY <1>2, CancelOnward DEF CancelPcs
  <2>2. CASE CancelPersist
    BY <1>2, <2>2, EndedSent DEF CancelPersist
  <2> QED
    BY <1>2, <2>1, <2>2 DEF Advance, LifeVars, CancelStatus, CancelBuffer, CancelPhase
<1>3. CASE pc[n] \in FinPcs
  <2>1. FinishKinds(n) \/ (pc'[n] = pc[n] /\ turnThread'[n] = turnThread[n])
    BY <1>3, FinOnward
  <2>2. CASE FinishKinds(n)
    <3>1. FinStatus(n) \/ FinPhase(n) \/ FinBuffer(n) \/ FinEvent(n) \/ FinPersist(n)
      BY <1>3, <2>2 DEF FinishKinds, Fail, Finish, FinPcs
    <3>2. CASE FinPersist(n)
      BY <3>2, EndedSent DEF FinPersist
    <3>3. CASE FinStatus(n) \/ FinPhase(n) \/ FinBuffer(n) \/ FinEvent(n)
      BY <3>3 DEF FinStatus, FinPhase, FinBuffer, FinEvent, Goto, TypeOK, FinPcs
    <3> QED
      BY <3>1, <3>2, <3>3
  <2> QED
    BY <1>3, <2>1, <2>2
<1> QED
  BY <1>1, <1>2, <1>3

(* What a step may newly open: a buffer, an Active row, a turn of a client  *)
(* thread.  Only start_turn does, for the turn it has put in the slot.      *)
LEMMA Opens ==
    ASSUME LifeInv, Kinds, NEW t \in TopThreads
    PROVE  /\ active'[t] # None /\ active[t] = None => slot'[t] # None
           /\ row'[t] = "Active" /\ row[t] # "Active" => slot'[t] # None
           /\ \A n \in Turns : turnThread'[n] = t /\ turnThread[n] # t => slot'[t] = n
<1> USE LifeFacts
<1>0. t \in Threads /\ t \notin ChildThreads /\ t # None
  BY ThreadsAssumption, NoneIsNoThread DEF Threads
<1>1. CASE Rest \/ Advance \/ (\E n \in Turns : Works(n))
  BY <1>1 DEF Rest, Advance, Works, LifeVars
<1>2. ASSUME NEW c \in Compactors, Tailing(c)
      PROVE  UNCHANGED <<row, turnThread>> /\ (active'[t] # None => active[t] # None)
  BY <1>0, <1>2 DEF Tailing, LifeVars, TypeOK
<1>3. CASE \/ (\E u \in Threads : StartTurn(u)) \/ StartInstall \/ StartStatus
           \/ StartPush \/ Shutdown \/ (\E u \in Threads : CancelTurn(u)) \/ CancelStatus
           \/ CancelPhase
  BY <1>3 DEF StartTurn, StartInstall, StartStatus, StartPush, Shutdown, CancelTurn,
       CancelStatus, CancelPhase, taskVars, storageVars
<1>4. CASE StartBuffer \/ StartSpawn
  <2>1. slot[athread] = aturn /\ aturn # None /\ athread \in Threads /\ aturn \in Turns
        /\ slot' = slot
    BY <1>4, TurnIds DEF StartBuffer, StartSpawn, SlotInv, InstalledPcs, Addressed, StartPcs
  <2>2. t # athread => /\ active'[t] = active[t] /\ row'[t] = row[t]
                       /\ \A n \in Turns : turnThread'[n] = t => turnThread[n] = t
    BY <1>0, <1>4, <2>1, RowSent DEF StartBuffer, StartSpawn, TypeOK, taskVars, storageVars
  <2>3. \A n \in Turns : turnThread'[n] # turnThread[n] => n = aturn
    BY <1>4, <2>1 DEF StartBuffer, StartSpawn, TypeOK, taskVars
  <2> QED
    BY <2>1, <2>2, <2>3
<1>5. CASE CancelBuffer \/ CancelPersist
  <2>1. athread \in Threads
    BY <1>5 DEF CancelBuffer, CancelPersist, Addressed, CancelPcs
  <2>2. row'[t] \in {row[t], "Idle", "Stale"}
    BY <1>0, <1>5, <2>1, RowSent DEF CancelBuffer, CancelPersist, storageVars
  <2> QED
    BY <1>0, <1>5, <2>1, <2>2 DEF CancelBuffer, CancelPersist, TypeOK, taskVars
<1>6. ASSUME NEW c \in ChildThreads, Spawns(c)
      PROVE  /\ active'[t] = active[t] /\ row'[t] = row[t]
             /\ \A n \in Turns : turnThread'[n] = t => turnThread[n] = t
  <2>1. t # c
    BY <1>0
  <2>2. \A n \in Turns : turnThread'[n] = t => turnThread[n] = t
    BY <1>6, <2>1, NextFresh DEF Spawns, StartChildTurn, TypeOK
  <2> QED
    BY <1>0, <1>6, <2>1, <2>2, RowSent DEF Spawns, StartChildTurn, TypeOK, Threads
<1>7. ASSUME NEW n \in Turns, FinishKinds(n)
      PROVE  /\ active'[t] # None => active[t] # None
             /\ row'[t] = "Active" => row[t] = "Active"
             /\ turnThread' = turnThread
  <2>1. turnThread' = turnThread
    BY <1>7, FinishMoves
  <2>2. active' = active \/ active' = [active EXCEPT ![turnThread[n]] = None]
    BY <1>7 DEF FinishKinds, Fail, Finish, FinStatus, FinPhase, FinBuffer, FinEvent, FinPersist
  <2>3. row'[t] \in {row[t], "Idle", "Stale"}
    <3>1. CASE FinPersist(n)
      <4>1. turnThread[n] \in Threads
        BY <3>1 DEF FinPersist, Addressed
      <4> QED
        BY <1>0, <3>1, <4>1, RowSent DEF FinPersist
    <3>2. CASE ~FinPersist(n)
      BY <1>7, <3>2 DEF FinishKinds, Fail, Finish, FinStatus, FinPhase, FinBuffer, FinEvent,
         storageVars
    <3> QED
      BY <3>1, <3>2
  <2> QED
    BY <1>0, <2>1, <2>2, <2>3 DEF TypeOK
<1> QED
  BY <1>1, <1>2, <1>3, <1>4, <1>5, <1>6, <1>7 DEF Kinds, StartKinds, CancelKinds

LEMMA OpenStep ==
    ASSUME LifeInv, Kinds, apc # "stopped" => storageOpen
    PROVE  /\ apc' # "stopped" => storageOpen'
           /\ storageOpen' => storageOpen
<1>1. ASSUME NEW n \in Turns, FinishKinds(n) PROVE apc' = apc /\ storageOpen' = storageOpen
  BY <1>1 DEF FinishKinds, Fail, Finish, FinStatus, FinPhase, FinBuffer, FinEvent,
       FinPersist, actorVars, storageVars
<1>2. CASE Rest \/ Advance \/ (\E n \in Turns : Works(n)) \/ (\E c \in Compactors : Tailing(c))
  BY <1>2 DEF Rest, RestPcs, Advance, Works, Tailing, LifeVars
<1>3. CASE StartKinds \/ CancelKinds \/ Shutdown
  BY <1>3 DEF StartKinds, StartTurn, StartInstall, StartStatus, StartBuffer, StartPush,
       StartSpawn, Spawns, StartChildTurn, CancelKinds, CancelTurn, CancelStatus,
       CancelBuffer, CancelPersist, CancelPhase, Shutdown, actorVars, storageVars
<1> QED
  BY <1>1, <1>2, <1>3 DEF Kinds

LEMMA EndedStays ==
    ASSUME LifeInv, Kinds, NEW n \in Turns, ended[n] # "None"
    PROVE  ended'[n] # "None"
  BY LifeFacts, EndingsKept

LEMMA ViewStep ==
    ASSUME LifeInv, [Next]_vars, ViewInv
    PROVE  ViewInv'
<1> USE LifeFacts
<1>1. Kinds
  BY StepKind
<1>2. (apc' # "stopped" => storageOpen') /\ (storageOpen' => storageOpen)
  BY <1>1, OpenStep DEF ViewInv
<1>3. ASSUME NEW t \in TopThreads, active'[t] # None PROVE Closing(t)'
  <2>1. CASE active[t] = None
    BY <1>1, <1>3, <2>1, Opens DEF Closing
  <2>2. CASE active[t] # None
    <3>1. Closing(t)
      BY <2>2 DEF ViewInv
    <3> QED
      BY <1>1, <1>3, <3>1, ClosingKept
  <2> QED
    BY <2>1, <2>2
<1>4. ASSUME storageOpen, NEW t \in TopThreads, row'[t] = "Active" PROVE Recording(t)'
  <2>1. CASE row[t] # "Active"
    BY <1>1, <1>4, <2>1, Opens DEF Recording
  <2>2. CASE row[t] = "Active"
    <3>1. Recording(t)
      BY <1>4, <2>2 DEF ViewInv
    <3> QED
      BY <1>1, <1>4, <3>1, RecordingKept
  <2> QED
    BY <2>1, <2>2
<1>5. ASSUME storageOpen, NEW n \in Turns, turnThread'[n] \in TopThreads, ended'[n] = "None"
      PROVE  Closes(n)'
  <2>1. CASE turnThread[n] # turnThread'[n]
    BY <1>1, <1>5, <2>1, Opens DEF Closes
  <2>2. CASE turnThread[n] = turnThread'[n]
    <3>1. ended[n] = "None"
      BY <1>1, <1>5, EndedStays
    <3>2. Closes(n)
      BY <1>5, <2>2, <3>1 DEF ViewInv
    <3> QED
      BY <1>1, <1>5, <2>2, <3>2, ClosesKept
  <2> QED
    BY <2>1, <2>2
<1>6. storageOpen' => /\ \A t \in TopThreads : row'[t] = "Active" => Recording(t)'
                      /\ \A n \in Turns :
                            turnThread'[n] \in TopThreads /\ ended'[n] = "None" => Closes(n)'
  BY <1>2, <1>4, <1>5
<1>7. \A t \in TopThreads : active'[t] # None => Closing(t)'
  BY <1>3
<1> QED
  BY <1>2, <1>6, <1>7 DEF ViewInv, Closing, Recording, Closes

-----------------------------------------------------------------------------
(* The inductive invariant of the views *)
ViewsInv == LifeInv /\ StatusTracksSlot /\ ViewInv

LEMMA ViewsInit == Init => ViewsInv
<1> SUFFICES ASSUME Init PROVE ViewsInv
  OBVIOUS
<1>1. LifeInv
  BY LifeInit
<1>2. StatusTracksSlot
  BY DEF Init, StatusTracksSlot, Threads
<1>3. ViewInv
  BY NoneIsNoThread DEF Init, ViewInv, Threads
<1> QED
  BY <1>1, <1>2, <1>3 DEF ViewsInv

LEMMA ViewsStep == ViewsInv /\ [Next]_vars => ViewsInv'
<1> SUFFICES ASSUME ViewsInv, [Next]_vars PROVE ViewsInv'
  OBVIOUS
<1> USE DEF ViewsInv
<1>1. LifeInv'
  BY LifeStep
<1>2. Kinds
  BY LifeFacts, StepKind
<1> QED
  BY <1>1, <1>2, StatusStep, ViewStep

(* At rest nobody is left to close or record anything *)
LEMMA RestAgrees == ViewsInv => ViewsAgree
<1> SUFFICES ASSUME ViewsInv PROVE ViewsAgree
  OBVIOUS
<1> USE LifeFacts DEF ViewsInv
<1> SUFFICES ASSUME apc = "idle", \A n \in Turns : pc[n] \in {"none", "done"}
             PROVE  /\ \A t \in TopThreads : /\ slot[t] = None /\ status[t] = "Idle"
                                             /\ active[t] = None /\ row[t] # "Active"
                    /\ \A n \in Turns : turnThread[n] \in TopThreads => ended[n] # "None"
  BY DEF ViewsAgree, QuietIsConsistent
<1>1. ASSUME NEW t \in TopThreads PROVE slot[t] = None
  <2>1. t \in Threads /\ slot[t] \in Turns \cup {None}
    BY DEF Threads, TypeOK
  <2> QED
    BY <2>1 DEF SlotInv, InstalledPcs, RunPcs
<1>2. \A n \in Turns : pc[n] \notin FinPcs
  BY DEF FinPcs
<1>3. storageOpen
  BY DEF ViewInv
<1>4. ASSUME NEW t \in TopThreads
      PROVE  status[t] = "Idle" /\ active[t] = None /\ row[t] # "Active"
  <2>1. status[t] = "Idle"
    BY <1>1, <1>2 DEF StatusTracksSlot, FinPcs
  <2>2. ~Closing(t) /\ ~Recording(t)
    BY <1>1, <1>2 DEF Closing, Recording, FinPcs
  <2> QED
    BY <1>3, <2>1, <2>2 DEF ViewInv
<1>5. ASSUME NEW n \in Turns, turnThread[n] \in TopThreads PROVE ended[n] # "None"
  <2>1. ~Closes(n)
    BY <1>1, <1>2, <1>5, TurnIds DEF Closes
  <2> QED
    BY <1>3, <1>5, <2>1 DEF ViewInv
<1> QED
  BY <1>1, <1>4, <1>5

(* What a client reads of a thread follows the slot but for the step that   *)
(* is about to bring them together, and once nothing is in flight the slot, *)
(* the status, the history buffer, the persisted row and the recorded       *)
(* endings all say that the thread is at rest.                              *)
THEOREM ViewsAgreeAlways == Spec => []ViewsAgree
  BY ViewsInit, ViewsStep, RestAgrees, PTL DEF Spec

-----------------------------------------------------------------------------
(* How far a cancel reaches *)

(* start_turn has put its turn into the slot and not yet into the buffer *)
Opening(t) == athread = t /\ apc \in {"startStatus", "startBuffer"}
Taken == apc \in {"cancelAbort", "cancelStatus", "cancelBuffer"}

(* The buffer has the turn of the slot open, or none; the one of a thread    *)
(* being cancelled has the cancelled turn open, or none; and the task of a   *)
(* client turn that has lost its slot has had its token fired.               *)
BufferInv ==
    /\ \A t \in Threads : slot[t] # None /\ ~Opening(t) => active[t] \in {slot[t], None}
    /\ Taken => active[athread] \in {aturn, None}
    /\ \A n \in Turns : pc[n] \in RunPcs /\ turnThread[n] \in TopThreads =>
                            slot[turnThread[n]] = n \/ n \in fired

LEMMA FiredOnward == ASSUME LifeInv, Kinds PROVE fired \subseteq fired'
<1>1. CASE Rest \/ Advance \/ (\E n \in Turns : Works(n)) \/ (\E c \in Compactors : Tailing(c))
  BY <1>1 DEF Rest, Advance, Works, Tailing, LifeVars
<1>2. CASE StartKinds \/ Shutdown
  BY <1>2 DEF StartKinds, StartTurn, StartInstall, StartStatus, StartBuffer, StartPush,
       StartSpawn, Spawns, StartChildTurn, Shutdown, tokenVars
<1>3. CASE CancelKinds
  BY <1>3 DEF CancelKinds, CancelTurn, CancelStatus, CancelBuffer, CancelPersist,
       CancelPhase, tokenVars
<1>4. ASSUME NEW n \in Turns, FinishKinds(n) PROVE fired' = fired
  BY <1>4 DEF FinishKinds, Fail, Finish, FinStatus, FinPhase, FinBuffer, FinEvent,
       FinPersist, tokenVars
<1> QED
  BY <1>1, <1>2, <1>3, <1>4 DEF Kinds

LEMMA BufferStep ==
    ASSUME LifeInv, Kinds, BufferInv
    PROVE  BufferInv'
<1> USE LifeFacts DEF BufferInv
<1>1. ASSUME NEW t \in Threads, slot'[t] # None, ~Opening(t)'
      PROVE  active'[t] \in {slot'[t], None}
  <2>1. CASE Rest \/ Advance \/ (\E n \in Turns : Works(n))
    BY <1>1, <2>1 DEF Rest, RestPcs, Advance, Works, LifeVars, Opening
  <2>2. ASSUME NEW c \in Compactors, Tailing(c) PROVE active'[t] \in {slot'[t], None}
    BY <1>1, <2>2 DEF Tailing, LifeVars, Opening, TypeOK
  <2>3. CASE StartInstall \/ StartStatus \/ (\E u \in Threads : StartTurn(u))
    BY <1>1, <2>3 DEF StartInstall, StartStatus, StartTurn, Opening, TypeOK
  <2>4. CASE StartBuffer
    <3>1. slot[athread] = aturn
      BY <2>4 DEF StartBuffer, SlotInv, InstalledPcs
    <3> QED
      BY <1>1, <2>4, <3>1 DEF StartBuffer, Opening, TypeOK
  <2>5. CASE StartPush \/ StartSpawn \/ Shutdown
    BY <1>1, <2>5 DEF StartPush, StartSpawn, Shutdown, Opening
  <2>6. ASSUME NEW c \in ChildThreads, Spawns(c) PROVE active'[t] \in {slot'[t], None}
    BY <1>1, <2>6 DEF Spawns, StartChildTurn, Opening, actorVars, TypeOK
  <2>7. CASE CancelKinds
    BY <1>1, <2>7 DEF CancelKinds, CancelTurn, CancelStatus, CancelBuffer, CancelPersist,
         CancelPhase, Opening, TypeOK
  <2>8. ASSUME NEW n \in Turns, FinishKinds(n) PROVE active'[t] \in {slot'[t], None}
    <3>1. UNCHANGED <<apc, athread>> /\ slot'[t] \in {slot[t], None}
      BY <2>8, FinishMoves
    <3>2. active' = active \/ active' = [active EXCEPT ![turnThread[n]] = None]
      BY <2>8 DEF FinishKinds, Fail, Finish, FinStatus, FinPhase, FinBuffer, FinEvent,
           FinPersist
    <3> QED
      BY <1>1, <3>1, <3>2 DEF Opening, TypeOK
  <2> QED
    BY <2>1, <2>2, <2>3, <2>4, <2>5, <2>6, <2>7, <2>8 DEF Kinds, StartKinds
<1>2. ASSUME Taken' PROVE active'[athread'] \in {aturn', None}
  <2>1. CASE Rest \/ Advance \/ (\E n \in Turns : Works(n))
    BY <1>2, <2>1 DEF Rest, RestPcs, Advance, Works, LifeVars, Taken
  <2>2. ASSUME NEW c \in Compactors, Tailing(c) PROVE active'[athread'] \in {aturn', None}
    <3>1. Taken /\ UNCHANGED <<athread, aturn>>
      BY <1>2, <2>2 DEF Tailing, LifeVars, Taken
    <3>2. athread \in Threads
      BY <3>1 DEF Addressed, Taken, CancelPcs
    <3> QED
      BY <2>2, <3>1, <3>2 DEF Tailing, TypeOK
  <2>3. CASE \/ (\E u \in Threads : StartTurn(u)) \/ StartInstall \/ StartStatus
             \/ StartBuffer \/ StartPush \/ StartSpawn \/ Shutdown \/ CancelPersist
             \/ CancelPhase \/ CancelBuffer
    BY <1>2, <2>3 DEF StartTurn, StartInstall, StartStatus, StartBuffer, StartPush,
         StartSpawn, Shutdown, CancelPersist, CancelPhase, CancelBuffer, Taken
  <2>4. ASSUME NEW c \in ChildThreads, Spawns(c) PROVE active'[athread'] \in {aturn', None}
    <3>1. Taken /\ UNCHANGED <<athread, aturn>>
      BY <1>2, <2>4 DEF Spawns, StartChildTurn, Taken, actorVars
    <3>2. aturn \in Turns /\ turnThread[aturn] = athread
      BY <3>1 DEF Addressed, SlotInv, Taken, CancelPcs
    <3>3. athread # c
      BY <2>4, <3>2 DEF Spawns, StartChildTurn
    <3> QED
      BY <2>4, <3>1, <3>3 DEF Spawns, StartChildTurn, TypeOK
  <2>5. ASSUME NEW u \in Threads, CancelTurn(u) PROVE active'[athread'] \in {aturn', None}
    <3>1. slot[u] # None /\ athread' = u /\ aturn' = slot[u] /\ active' = active /\ apc = "idle"
      BY <1>2, <2>5 DEF CancelTurn, Taken
    <3> QED
      BY <3>1 DEF Opening
  <2>6. CASE CancelStatus
    BY <2>6 DEF CancelStatus, Taken
  <2>7. ASSUME NEW n \in Turns, FinishKinds(n) PROVE active'[athread'] \in {aturn', None}
    <3>1. Taken /\ UNCHANGED <<athread, aturn>>
      BY <1>2, <2>7, FinishMoves DEF Taken
    <3>2. athread \in Threads
      BY <3>1 DEF Addressed, Taken, CancelPcs
    <3>3. active' = active \/ active' = [active EXCEPT ![turnThread[n]] = None]
      BY <2>7 DEF FinishKinds, Fail, Finish, FinStatus, FinPhase, FinBuffer, FinEvent,
           FinPersist
    <3> QED
      BY <3>1, <3>2, <3>3 DEF TypeOK
  <2> QED
    BY <2>1, <2>2, <2>3, <2>4, <2>5, <2>6, <2>7 DEF Kinds, StartKinds, CancelKinds
<1>3. ASSUME NEW n \in Turns, pc'[n] \in RunPcs, turnThread'[n] \in TopThreads
      PROVE  slot'[turnThread'[n]] = n \/ n \in fired'
  <2>1. CASE StartSpawn /\ aturn = n
    <3>1. turnThread'[n] = athread /\ slot' = slot
      BY <2>1 DEF StartSpawn, TypeOK
    <3> QED
      BY <2>1, <3>1 DEF StartSpawn, SlotInv, InstalledPcs
  <2>2. ASSUME NEW c \in ChildThreads, Spawns(c), n = counter + 1
        PROVE  slot'[turnThread'[n]] = n
    BY <2>2 DEF Spawns, StartChildTurn, TypeOK, Threads
  <2>3. CASE /\ ~(StartSpawn /\ aturn = n)
             /\ ~\E c \in ChildThreads : Spawns(c) /\ n = counter + 1
    <3>1. pc[n] \in RunPcs /\ turnThread'[n] = turnThread[n]
      <4>1. CASE Rest \/ Advance
        BY <1>3, <4>1 DEF Rest, Advance, LifeVars
      <4>2. ASSUME NEW m \in Turns, Works(m)
            PROVE  pc[n] \in RunPcs /\ turnThread'[n] = turnThread[n]
        BY <1>3, <4>2 DEF Works, LifeVars, TypeOK
      <4>3. ASSUME NEW c \in Compactors, Tailing(c)
            PROVE  pc[n] \in RunPcs /\ turnThread'[n] = turnThread[n]
        BY <1>3, <4>3 DEF Tailing, LifeVars, TypeOK, RunPcs
      <4>4. CASE StartSpawn
        BY <1>3, <2>3, <4>4 DEF StartSpawn, Goto, TypeOK
      <4>5. ASSUME NEW c \in ChildThreads, Spawns(c)
            PROVE  pc[n] \in RunPcs /\ turnThread'[n] = turnThread[n]
        BY <1>3, <2>3, <4>5, NextFresh DEF Spawns, StartChildTurn, Goto, TypeOK
      <4>6. CASE \/ (\E u \in Threads : StartTurn(u)) \/ StartInstall \/ StartStatus
                 \/ StartBuffer \/ StartPush \/ CancelKinds \/ Shutdown
        BY <1>3, <4>6 DEF StartTurn, StartInstall, StartStatus, StartBuffer, StartPush,
             CancelKinds, CancelTurn, CancelStatus, CancelBuffer, CancelPersist, CancelPhase,
             Shutdown, taskVars
      <4>7. ASSUME NEW m \in Turns, FinishKinds(m)
            PROVE  pc[n] \in RunPcs /\ turnThread'[n] = turnThread[n]
        <5>1. turnThread' = turnThread /\ (m # n => pc'[n] = pc[n])
          BY <4>7, FinishMoves
        <5>2. m = n => pc[n] \in RunPcs
          BY <1>3, <4>7 DEF FinishKinds, Fail, Finish, FinStatus, FinPhase, FinBuffer,
               FinEvent, FinPersist, AfterFinish, Goto, TypeOK, RunPcs
        <5> QED
          BY <1>3, <5>1, <5>2
      <4> QED
        BY <4>1, <4>2, <4>3, <4>4, <4>5, <4>6, <4>7 DEF Kinds, StartKinds
    <3>2. CASE n \in fired
      BY <3>2, FiredOnward
    <3>3. CASE slot[turnThread[n]] = n
      <4>1. slot[turnThread[n]] # None /\ turnThread[n] \in TopThreads
        BY <1>3, <3>1, <3>3, TurnIds
      <4>2. slot'[turnThread[n]] = n \/ n \in fired' \/ pc'[n] = "finStatus"
        BY <3>3, <4>1, HeldOnward
      <4> QED
        BY <1>3, <3>1, <4>2 DEF RunPcs
    <3> QED
      BY <1>3, <3>1, <3>2, <3>3
  <2> QED
    BY <2>1, <2>2, <2>3
<1> QED
  BY <1>1, <1>2, <1>3 DEF Opening, Taken

LEMMA StrayStep ==
    ASSUME LifeInv, Kinds, BufferInv, StrayItemsAreCancelled
    PROVE  StrayItemsAreCancelled'
<1> USE LifeFacts
<1> SUFFICES ASSUME NEW t \in TopThreads, NEW e \in hist'[t], e.by # e.into
             PROVE  e.by \in fired'
  BY DEF StrayItemsAreCancelled
<1>0. t \in Threads /\ t \notin ChildThreads
  BY ThreadsAssumption DEF Threads
<1>1. CASE e \in hist[t]
  BY <1>1, FiredOnward DEF StrayItemsAreCancelled
<1>2. CASE e \notin hist[t]
  <2>1. ASSUME NEW n \in Turns, NEW u \in Threads, Push(u, n)
        PROVE  u = t /\ active[t] # None /\ e = [by |-> n, into |-> active[t]]
    BY <1>0, <1>2, <2>1 DEF Push, TypeOK
  <2>2. ASSUME NEW n \in Turns, Works(n) PROVE n \in fired
    <3>1. hist' # hist
      BY <1>2
    <3>2. turnThread[n] \in Threads
      BY <2>2 DEF Works, RunPcs, Addressed
    <3>3. turnThread[n] = t /\ active[t] # None /\ active[t] # n
      BY <2>1, <2>2, <3>1, <3>2 DEF Works
    <3>4. CASE slot[t] = n
      <4>1. ~Opening(t)
        <5>1. apc \in {"startStatus", "startBuffer"} => pc[aturn] = "none"
          BY DEF FreshInv, Unused, StartPcs
        <5>2. apc \in {"startStatus", "startBuffer"} => slot[athread] = aturn
          BY DEF SlotInv, InstalledPcs
        <5>3. pc[n] # "none"
          BY <2>2 DEF Works, RunPcs
        <5> QED
          BY <3>4, <5>1, <5>2, <5>3 DEF Opening
      <4> QED
        BY <1>0, <3>3, <3>4, <4>1, TurnIds DEF BufferInv
    <3> QED
      BY <2>2, <3>3, <3>4 DEF BufferInv, Works
  <2>3. ASSUME NEW n \in Turns, Works(n) PROVE e.by \in fired'
    <3>1. turnThread[n] \in Threads /\ Push(turnThread[n], n)
      BY <1>2, <2>3 DEF Works, RunPcs, Addressed
    <3>2. e.by = n
      BY <2>1, <3>1
    <3> QED
      BY <2>2, <2>3, <3>2, FiredOnward
  <2>4. CASE StartPush
    <3>1. athread \in Threads /\ aturn \in Turns /\ Push(athread, aturn) /\ slot[athread] = aturn
      BY <2>4 DEF StartPush, Addressed, StartPcs, SlotInv, InstalledPcs
    <3>2. active[athread] \in {aturn, None}
      BY <2>4, <3>1, TurnIds DEF StartPush, BufferInv, Opening
    <3> QED
      BY <2>1, <3>1, <3>2
  <2>5. ASSUME NEW c \in Compactors, Tailing(c) PROVE FALSE
    <3>1. hist' # hist
      BY <1>2
    <3>2. PICK u \in Threads : hist' = [hist EXCEPT ![u] = {Summary}]
      BY <2>5, <3>1 DEF Tailing
    <3>3. hist'[t] \in {hist[t], {Summary}}
      BY <1>0, <3>2 DEF TypeOK
    <3>4. e = Summary
      BY <1>2, <3>3
    <3> QED
      BY <3>4 DEF Summary
  <2>6. ASSUME NEW c \in ChildThreads, Spawns(c) PROVE FALSE
    BY <1>0, <1>2, <2>6 DEF Spawns, StartChildTurn, TypeOK
  <2>7. CASE \/ Rest \/ Advance \/ (\E u \in Threads : StartTurn(u)) \/ StartInstall
             \/ StartStatus \/ StartBuffer \/ StartSpawn \/ CancelKinds \/ Shutdown
             \/ (\E n \in Turns : FinishKinds(n))
    BY <1>2, <2>7 DEF Rest, Advance, StartTurn, StartInstall, StartStatus, StartBuffer,
         StartSpawn, CancelKinds, CancelTurn, CancelStatus, CancelBuffer, CancelPersist,
         CancelPhase, Shutdown, FinishKinds, Fail, Finish, FinStatus, FinPhase, FinBuffer,
         FinEvent, FinPersist
  <2> QED
    BY <2>3, <2>4, <2>5, <2>6, <2>7 DEF Kinds, StartKinds
<1> QED
  BY <1>1, <1>2

(* The inductive invariant of a cancel's reach *)
ReachInv == LifeInv /\ BufferInv /\ StrayItemsAreCancelled

LEMMA ReachInit == Init => ReachInv
<1> SUFFICES ASSUME Init PROVE ReachInv
  OBVIOUS
<1>1. LifeInv
  BY LifeInit
<1>2. BufferInv
  BY DEF Init, BufferInv, Opening, Taken, RunPcs
<1>3. StrayItemsAreCancelled
  BY DEF Init, StrayItemsAreCancelled, Threads
<1> QED
  BY <1>1, <1>2, <1>3 DEF ReachInv

LEMMA ReachStep == ReachInv /\ [Next]_vars => ReachInv'
<1> SUFFICES ASSUME ReachInv, [Next]_vars PROVE ReachInv'
  OBVIOUS
<1> USE DEF ReachInv
<1>1. LifeInv'
  BY LifeStep
<1>2. Kinds
  BY LifeFacts, StepKind
<1> QED
  BY <1>1, <1>2, BufferStep, StrayStep

(* A cancel reaches its own turn only: cancel_turn closes the buffer of the *)
(* turn it took from the slot and of no other, and whatever item ends up in *)
(* a later turn of a client thread was pushed by a task whose token was     *)
(* fired.                                                                   *)
THEOREM CancelReachesItsTurn == Spec => []CancelKeepsToItsTurn
<1>1. ReachInv => CancelKeepsToItsTurn
  BY DEF ReachInv, BufferInv, Taken, CancelKeepsToItsTurn, CancelClosesOwnBuffer
<1> QED
  BY <1>1, ReachInit, ReachStep, PTL DEF Spec

-----------------------------------------------------------------------------
(***************************************************************************)
(* Where an injected item is, from the client that sends it to the turn    *)
(* that takes it.                                                          *)
(***************************************************************************)

(* Which steps touch the queues *)

SeedPcs == {"startInstall", "startStatus", "startBuffer", "startPush"}

(* What start_turn has drained and not yet pushed *)
Seeds == IF apc \in SeedPcs THEN aseed ELSE <<>>

(* A task takes one item off a queue of its thread *)
Takes(t, q) == /\ queue' = [queue EXCEPT ![t][q] = AllButFirst(@)]
               /\ fate' = Landed(t, First(queue[t][q]))
               /\ Seeds' = Seeds

QueuesKept == UNCHANGED <<queue, fate, Seeds>>

LEMMA QueueKind ==
    ASSUME CompactInv, [Next]_vars
    PROVE  \/ QueuesKept \/ StartDrain \/ StartPush \/ CancelAbort
           \/ \E t \in Threads, q \in Queues, i \in Inputs : Inject(t, q, i)
           \/ \E n \in Turns : /\ pc[n] \in RunPcs
                               /\ \E q \in {"Steer", "FollowUp"} : Takes(turnThread[n], q)
<1> USE DEF QueuesKept, Seeds, SeedPcs
<1>1. CASE \/ (\E t \in Threads : StartTurn(t) \/ CancelTurn(t) \/ Compact(t))
           \/ (\E c \in ChildThreads : SpawnSubagent(c)) \/ Fork \/ Restore \/ Shutdown
  BY <1>1 DEF StartTurn, CancelTurn, Compact, SpawnSubagent, StartChildTurn, Fork, Restore,
       Shutdown, queueVars, actorVars
<1>2. CASE StartInstall \/ StartStatus \/ StartBuffer \/ StartSpawn
  BY <1>2 DEF StartInstall, StartStatus, StartBuffer, StartSpawn, queueVars
<1>3. CASE \/ CancelStatus \/ CancelBuffer \/ CancelPersist \/ CancelPhase
           \/ ForkEnd \/ RestoreFiles \/ RestoreFork
  BY <1>3 DEF CancelStatus, CancelBuffer, CancelPersist, CancelPhase, ForkEnd,
       RestoreFiles, RestoreFork, queueVars
<1>4. ASSUME NEW n \in Turns,
             \/ Begin(n) \/ Call(n) \/ RetryEnter(n) \/ Backoff(n) \/ RetryLeave(n) \/ Fail(n)
             \/ Stream(n) \/ Fold(n) \/ Resolve(n) \/ Exec(n) \/ Commit(n)
      PROVE  QueuesKept
  BY <1>4 DEF Begin, Call, RetryEnter, Backoff, RetryLeave, Fail, Stream, Fold, Resolve,
       Exec, Commit, queueVars, actorVars
<1>5. ASSUME NEW n \in Turns,
             \/ Finish(n) \/ FinStatus(n) \/ FinPhase(n) \/ FinBuffer(n) \/ FinEvent(n)
             \/ FinPersist(n) \/ AutoCheck(n) \/ (\E c \in ChildThreads : ExecSpawn(n, c))
      PROVE  QueuesKept
  BY <1>5 DEF Finish, FinStatus, FinPhase, FinBuffer, FinEvent, FinPersist, AutoCheck,
       ExecSpawn, StartChildTurn, queueVars, actorVars
<1>6. ASSUME NEW n \in Turns, Steer(n)
      PROVE  pc[n] \in RunPcs /\ Takes(turnThread[n], "Steer")
  BY <1>6 DEF Steer, Takes, RunPcs, actorVars
<1>7. ASSUME NEW n \in Turns, FollowUp(n)
      PROVE  pc[n] \in RunPcs /\ Takes(turnThread[n], "FollowUp")
  BY <1>7 DEF FollowUp, Takes, RunPcs, actorVars
<1>8. ASSUME NEW c \in Compactors, CompactStep(c) PROVE QueuesKept
  <2>1. CASE CompactClaim(c) \/ CompactHook(c)
    BY <2>1 DEF CompactClaim, CompactHook, ReplyIfManual, CompactInv, queueVars
  <2>2. CASE CompactSummarize(c) \/ CompactReplace(c) \/ CompactPost(c)
    BY <2>2 DEF CompactSummarize, CompactReplace, CompactPost, queueVars, actorVars
  <2> QED
    BY <1>8, <2>1, <2>2 DEF CompactStep
<1>9. CASE UNCHANGED vars
  BY <1>9 DEF vars, queueVars, actorVars
<1> QED
  BY <1>1, <1>2, <1>3, <1>4, <1>5, <1>6, <1>7, <1>8, <1>9
     DEF Next, Submit, ActorStep, TaskStep

-----------------------------------------------------------------------------
(* Sequences: what taking the head off and adding at the end do to places *)
HeadTaken(s) ==
    /\ \A j \in DOMAIN AllButFirst(s) :
          j \in Nat /\ j # 0 /\ j + 1 \in DOMAIN s /\ AllButFirst(s)[j] = s[j + 1]
    /\ \A j \in DOMAIN s : j = 1 \/ (j - 1 \in DOMAIN AllButFirst(s)
                                     /\ AllButFirst(s)[j - 1] = s[j])
    /\ \A i : (\E j \in DOMAIN First(s) : First(s)[j] = i) <=> (1 \in DOMAIN s /\ s[1] = i)

LEMMA TakeHead ==
    ASSUME NEW S, NEW s \in Seq(S)
    PROVE  AllButFirst(s) \in Seq(S) /\ HeadTaken(s)
<1> USE DEF HeadTaken
<1>1. CASE s = <<>>
  BY <1>1 DEF AllButFirst, First
<1>2. CASE s # <<>>
  <2>1. /\ Tail(s) \in Seq(S) /\ Len(Tail(s)) = Len(s) - 1 /\ Len(s) \in Nat /\ Len(s) > 0
        /\ DOMAIN s = 1..Len(s) /\ DOMAIN Tail(s) = 1..(Len(s) - 1)
        /\ \A j \in 1..(Len(s) - 1) : Tail(s)[j] = s[j + 1]
    BY <1>2, HeadTailProperties, ElementOfSeq, EmptySeq, LenProperties
  <2>2. AllButFirst(s) = Tail(s) /\ First(s) = <<s[1]>>
    BY <1>2 DEF AllButFirst, First
  <2> QED
    BY <2>1, <2>2
<1> QED
  BY <1>1, <1>2

LEMMA AddLast ==
    ASSUME NEW S, NEW s \in Seq(S), NEW i \in S
    PROVE  /\ Append(s, i) \in Seq(S)
           /\ \A j \in DOMAIN s : j \in DOMAIN Append(s, i) /\ Append(s, i)[j] = s[j]
           /\ Len(s) + 1 \in DOMAIN Append(s, i) /\ Append(s, i)[Len(s) + 1] = i
           /\ \A j \in DOMAIN Append(s, i) : j = Len(s) + 1 \/ j \in DOMAIN s
  BY AppendProperties, LenProperties

-----------------------------------------------------------------------------
(* An injected item has one place at most: a position of one queue of one   *)
(* thread, or a position among the seeds; and it has one for as long as its *)
(* fate is to wait.                                                         *)
At(t, q, j, i) == j \in DOMAIN queue[t][q] /\ queue[t][q][j] = i
InSeeds(j, i) == j \in DOMAIN Seeds /\ Seeds[j] = i

OneQueuePlace == \A i \in Inputs, t, u \in Threads, q, r \in Queues :
    \A j \in DOMAIN queue[t][q], k \in DOMAIN queue[u][r] :
        At(t, q, j, i) /\ At(u, r, k, i) => t = u /\ q = r /\ j = k
OneSeedPlace == \A i \in Inputs : \A j, k \in DOMAIN Seeds :
    InSeeds(j, i) /\ InSeeds(k, i) => j = k
QueueOrSeed == \A i \in Inputs, t \in Threads, q \in Queues :
    \A j \in DOMAIN queue[t][q], k \in DOMAIN Seeds : ~(At(t, q, j, i) /\ InSeeds(k, i))
PlacedWaits == \A i \in Inputs :
    /\ \A t \in Threads, q \in Queues : \A j \in DOMAIN queue[t][q] :
          At(t, q, j, i) => fate[i] = "queued"
    /\ \A j \in DOMAIN Seeds : InSeeds(j, i) => fate[i] = "queued"
WaitingPlaced == \A i \in Inputs : fate[i] = "queued" =>
    \/ \E t \in Threads, q \in Queues : \E j \in DOMAIN queue[t][q] : At(t, q, j, i)
    \/ \E j \in DOMAIN Seeds : InSeeds(j, i)

PlaceInv == OneQueuePlace /\ OneSeedPlace /\ QueueOrSeed /\ PlacedWaits /\ WaitingPlaced

LEMMA PlaceKept == ASSUME PlaceInv, QueuesKept PROVE PlaceInv'
  BY DEF PlaceInv, QueuesKept, OneQueuePlace, OneSeedPlace, QueueOrSeed, PlacedWaits,
     WaitingPlaced, At, InSeeds

(* A task takes the head of a queue: the other items move up *)
LEMMA PlaceTakes ==
    ASSUME TypeOK, PlaceInv, NEW t \in Threads, NEW q \in Queues, Takes(t, q)
    PROVE  PlaceInv'
<1> USE DEF PlaceInv
<1> DEFINE s == queue[t][q]
<1>1. s \in Seq(Inputs)
  BY DEF TypeOK
<1>2. /\ queue'[t][q] = AllButFirst(s)
      /\ \A u \in Threads, r \in Queues : ~(u = t /\ r = q) => queue'[u][r] = queue[u][r]
  BY DEF Takes, TypeOK
<1>3. Seeds' = Seeds
  BY DEF Takes
<1>4. HeadTaken(s)
  BY <1>1, TakeHead
<1> USE DEF HeadTaken
(* the place an item of the new queues had before *)
<1> DEFINE From(u, r, j) == IF u = t /\ r = q THEN j + 1 ELSE j
<1>5. ASSUME NEW u \in Threads, NEW r \in Queues, NEW j \in DOMAIN queue'[u][r], NEW i,
             At(u, r, j, i)'
      PROVE  From(u, r, j) \in DOMAIN queue[u][r] /\ At(u, r, From(u, r, j), i)
  BY <1>2, <1>4, <1>5 DEF At
<1>6. ASSUME NEW i \in Inputs
      PROVE  /\ 1 \in DOMAIN s /\ s[1] = i => fate'[i] \in {"dropped", "landed"}
             /\ ~(1 \in DOMAIN s /\ s[1] = i) => fate'[i] = fate[i]
  BY <1>4 DEF Takes, Landed
<1>7. OneQueuePlace'
  <2> SUFFICES ASSUME NEW i \in Inputs, NEW u \in Threads, NEW w \in Threads,
                      NEW r \in Queues, NEW p \in Queues,
                      NEW j \in DOMAIN queue'[u][r], NEW k \in DOMAIN queue'[w][p],
                      At(u, r, j, i)', At(w, p, k, i)'
               PROVE  u = w /\ r = p /\ j = k
    BY DEF OneQueuePlace
  <2>1. /\ From(u, r, j) \in DOMAIN queue[u][r] /\ At(u, r, From(u, r, j), i)
        /\ From(w, p, k) \in DOMAIN queue[w][p] /\ At(w, p, From(w, p, k), i)
    BY <1>5
  <2>2. u = w /\ r = p /\ From(u, r, j) = From(w, p, k)
    BY <2>1 DEF OneQueuePlace
  <2>3. u = t /\ r = q => j \in Nat /\ k \in Nat
    BY <1>2, <1>4, <2>2
  <2> QED
    BY <2>2, <2>3
<1>8. OneSeedPlace'
  BY <1>3 DEF OneSeedPlace, InSeeds
<1>9. QueueOrSeed'
  <2> SUFFICES ASSUME NEW i \in Inputs, NEW u \in Threads, NEW r \in Queues,
                      NEW j \in DOMAIN queue'[u][r], NEW k \in DOMAIN Seeds',
                      At(u, r, j, i)', InSeeds(k, i)'
               PROVE  FALSE
    BY DEF QueueOrSeed
  <2>1. From(u, r, j) \in DOMAIN queue[u][r] /\ At(u, r, From(u, r, j), i)
    BY <1>5
  <2>2. k \in DOMAIN Seeds /\ InSeeds(k, i)
    BY <1>3 DEF InSeeds
  <2> QED
    BY <2>1, <2>2 DEF QueueOrSeed
<1>10. PlacedWaits'
  <2>1. ASSUME NEW i \in Inputs, NEW u \in Threads, NEW r \in Queues,
               NEW j \in DOMAIN queue'[u][r], At(u, r, j, i)'
        PROVE  fate'[i] = "queued"
    <3>1. From(u, r, j) \in DOMAIN queue[u][r] /\ At(u, r, From(u, r, j), i)
      BY <1>5, <2>1
    <3>2. ~(1 \in DOMAIN s /\ s[1] = i)
      <4> SUFFICES ASSUME 1 \in DOMAIN s, s[1] = i PROVE FALSE
        OBVIOUS
      <4>1. At(t, q, 1, i)
        BY DEF At
      <4>2. u = t /\ r = q /\ From(u, r, j) = 1
        BY <3>1, <4>1 DEF OneQueuePlace
      <4>3. j \in Nat /\ j # 0 /\ j + 1 = 1
        BY <1>2, <1>4, <2>1, <4>2
      <4> QED
        BY <4>3
    <3> QED
      BY <1>6, <3>1, <3>2 DEF PlacedWaits
  <2>2. ASSUME NEW i \in Inputs, NEW j \in DOMAIN Seeds', InSeeds(j, i)'
        PROVE  fate'[i] = "queued"
    <3>1. j \in DOMAIN Seeds /\ InSeeds(j, i)
      BY <1>3, <2>2 DEF InSeeds
    <3>2. ~(1 \in DOMAIN s /\ s[1] = i)
      BY <3>1 DEF QueueOrSeed, At
    <3> QED
      BY <1>6, <3>1, <3>2 DEF PlacedWaits
  <2> QED
    BY <2>1, <2>2 DEF PlacedWaits
<1>11. WaitingPlaced'
  <2> SUFFICES ASSUME NEW i \in Inputs, fate'[i] = "queued"
               PROVE  \/ \E u \in Threads, r \in Queues : \E j \in DOMAIN queue'[u][r] : At(u, r, j, i)'
                      \/ \E j \in DOMAIN Seeds' : InSeeds(j, i)'
    BY DEF WaitingPlaced
  <2>1. fate[i] = "queued" /\ ~(1 \in DOMAIN s /\ s[1] = i)
    BY <1>6
  <2>2. CASE \E j \in DOMAIN Seeds : InSeeds(j, i)
    BY <1>3, <2>2 DEF InSeeds
  <2>3. ASSUME NEW u \in Threads, NEW r \in Queues, NEW j \in DOMAIN queue[u][r], At(u, r, j, i)
        PROVE  \E k \in DOMAIN queue'[u][r] : At(u, r, k, i)'
    <3>1. CASE u = t /\ r = q
      <4>1. j # 1
        BY <2>1, <2>3, <3>1 DEF At
      <4>2. j - 1 \in DOMAIN queue'[t][q] /\ queue'[t][q][j - 1] = i
        BY <1>2, <1>4, <2>3, <3>1, <4>1 DEF At
      <4> QED
        BY <3>1, <4>2 DEF At
    <3>2. CASE ~(u = t /\ r = q)
      BY <1>2, <2>3, <3>2 DEF At
    <3> QED
      BY <3>1, <3>2
  <2> QED
    BY <2>1, <2>2, <2>3 DEF WaitingPlaced
<1> QED
  BY <1>7, <1>8, <1>9, <1>10, <1>11

(* start_turn empties the next-turn queue into the seeds *)
LEMMA PlaceDrains ==
    ASSUME TypeOK, Addressed, PlaceInv, StartDrain
    PROVE  PlaceInv'
<1> USE DEF PlaceInv
<1> DEFINE s == queue[athread]["NextTurn"]
<1>0. athread \in Threads /\ "NextTurn" \in Queues
  BY DEF StartDrain, Addressed, StartPcs, Queues
<1>1. /\ queue'[athread]["NextTurn"] = <<>>
      /\ \A u \in Threads, r \in Queues :
            ~(u = athread /\ r = "NextTurn") => queue'[u][r] = queue[u][r]
  BY <1>0 DEF StartDrain, TypeOK
<1>2. Seeds = <<>> /\ Seeds' = s /\ fate' = fate
  BY DEF StartDrain, Seeds, SeedPcs
<1>3. ASSUME NEW u \in Threads, NEW r \in Queues, NEW j \in DOMAIN queue'[u][r], NEW i,
             At(u, r, j, i)'
      PROVE  /\ ~(u = athread /\ r = "NextTurn")
             /\ j \in DOMAIN queue[u][r] /\ At(u, r, j, i)
  BY <1>1, <1>3 DEF At
<1>4. ASSUME NEW j \in DOMAIN Seeds', NEW i, InSeeds(j, i)'
      PROVE  j \in DOMAIN s /\ At(athread, "NextTurn", j, i)
  BY <1>2, <1>4 DEF At, InSeeds
<1>5. OneQueuePlace'
  BY <1>3 DEF OneQueuePlace
<1>6. OneSeedPlace'
  BY <1>0, <1>4 DEF OneSeedPlace, OneQueuePlace
<1>7. QueueOrSeed'
  BY <1>0, <1>3, <1>4 DEF QueueOrSeed, OneQueuePlace
<1>8. PlacedWaits'
  BY <1>0, <1>2, <1>3, <1>4 DEF PlacedWaits
<1>9. WaitingPlaced'
  <2> SUFFICES ASSUME NEW i \in Inputs, fate'[i] = "queued"
               PROVE  \/ \E u \in Threads, r \in Queues : \E j \in DOMAIN queue'[u][r] : At(u, r, j, i)'
                      \/ \E j \in DOMAIN Seeds' : InSeeds(j, i)'
    BY DEF WaitingPlaced
  <2>1. PICK u \in Threads, r \in Queues : \E j \in DOMAIN queue[u][r] : At(u, r, j, i)
    BY <1>2 DEF WaitingPlaced, InSeeds
  <2>2. CASE u = athread /\ r = "NextTurn"
    BY <1>2, <2>1, <2>2 DEF At, InSeeds
  <2>3. CASE ~(u = athread /\ r = "NextTurn")
    BY <1>1, <2>1, <2>3 DEF At
  <2> QED
    BY <2>2, <2>3
<1> QED
  BY <1>5, <1>6, <1>7, <1>8, <1>9

(* ... and pushes them with the input of the turn *)
LEMMA PlacePushes ==
    ASSUME TypeOK, PlaceInv, StartPush
    PROVE  PlaceInv'
<1> USE DEF PlaceInv
<1>1. queue' = queue /\ Seeds = aseed /\ Seeds' = <<>> /\ fate' = Landed(athread, Seeds)
  BY DEF StartPush, Seeds, SeedPcs
<1>2. \A i \in Inputs : (\E j \in DOMAIN Seeds : InSeeds(j, i)) => fate'[i] \in {"dropped", "landed"}
  BY <1>1 DEF Landed, InSeeds
<1>3. \A i \in Inputs : ~(\E j \in DOMAIN Seeds : InSeeds(j, i)) => fate'[i] = fate[i]
  BY <1>1 DEF Landed, InSeeds
<1>4. \A t \in Threads, q \in Queues : \A j, i : At(t, q, j, i)' <=> At(t, q, j, i)
  BY <1>1 DEF At
<1>5. DOMAIN Seeds' = {}
  BY <1>1
<1>6. OneQueuePlace' /\ OneSeedPlace' /\ QueueOrSeed'
  BY <1>1, <1>4, <1>5 DEF OneQueuePlace, OneSeedPlace, QueueOrSeed
<1>7. PlacedWaits'
  BY <1>1, <1>3, <1>4, <1>5 DEF PlacedWaits, QueueOrSeed
<1>8. WaitingPlaced'
  BY <1>1, <1>2, <1>3, <1>4 DEF WaitingPlaced
<1> QED
  BY <1>6, <1>7, <1>8

(* cancel_turn empties the steer and follow-up queues of its thread *)
LEMMA PlaceAborts ==
    ASSUME TypeOK, Addressed, PlaceInv, CancelAbort
    PROVE  /\ PlaceInv'
           /\ \A i \in Inputs, t \in Threads : \A j \in DOMAIN queue[t]["NextTurn"] :
                  At(t, "NextTurn", j, i) => fate'[i] = "queued"
<1> USE DEF PlaceInv
<1> DEFINE Cleared(t, q) == t = athread /\ q \in {"Steer", "FollowUp"}
<1>0. athread \in Threads /\ Queues = {"Steer", "FollowUp", "NextTurn"}
  BY DEF CancelAbort, Addressed, CancelPcs, Queues
<1>1. \A t \in Threads, q \in Queues :
          queue'[t][q] = IF Cleared(t, q) THEN <<>> ELSE queue[t][q]
  BY <1>0 DEF CancelAbort, TypeOK
<1>2. Seeds = <<>> /\ Seeds' = <<>>
  BY DEF CancelAbort, Seeds, SeedPcs
<1>3. \A i \in Inputs :
          fate'[i] = IF \E q \in {"Steer", "FollowUp"} :
                          \E j \in DOMAIN queue[athread][q] : At(athread, q, j, i)
                     THEN "cleared" ELSE fate[i]
  BY DEF CancelAbort, At
<1>4. ASSUME NEW t \in Threads, NEW q \in Queues, NEW j \in DOMAIN queue'[t][q], NEW i,
             At(t, q, j, i)'
      PROVE  ~Cleared(t, q) /\ j \in DOMAIN queue[t][q] /\ At(t, q, j, i)
  BY <1>1, <1>4 DEF At
<1>5. ASSUME NEW i \in Inputs, NEW t \in Threads, NEW q \in Queues, ~Cleared(t, q),
             NEW j \in DOMAIN queue[t][q], At(t, q, j, i)
      PROVE  fate'[i] = "queued"
  <2>1. ~\E r \in {"Steer", "FollowUp"} : \E k \in DOMAIN queue[athread][r] : At(athread, r, k, i)
    BY <1>0, <1>5 DEF OneQueuePlace
  <2> QED
    BY <1>3, <1>5, <2>1 DEF PlacedWaits
<1>6. OneQueuePlace' /\ OneSeedPlace' /\ QueueOrSeed'
  BY <1>2, <1>4 DEF OneQueuePlace, OneSeedPlace, QueueOrSeed
<1>7. PlacedWaits'
  BY <1>2, <1>4, <1>5 DEF PlacedWaits
<1>8. WaitingPlaced'
  <2> SUFFICES ASSUME NEW i \in Inputs, fate'[i] = "queued"
               PROVE  \E u \in Threads, r \in Queues : \E j \in DOMAIN queue'[u][r] : At(u, r, j, i)'
    BY DEF WaitingPlaced
  <2>1. /\ fate[i] = "queued"
        /\ ~\E q \in {"Steer", "FollowUp"} :
              \E j \in DOMAIN queue[athread][q] : At(athread, q, j, i)
    BY <1>3
  <2>2. PICK u \in Threads, r \in Queues : \E j \in DOMAIN queue[u][r] : At(u, r, j, i)
    BY <1>2, <2>1 DEF WaitingPlaced, InSeeds
  <2>3. ~Cleared(u, r)
    BY <2>1, <2>2
  <2> QED
    BY <1>1, <2>2, <2>3 DEF At
<1>9. \A t : ~Cleared(t, "NextTurn")
  OBVIOUS
<1> QED
  BY <1>0, <1>5, <1>6, <1>7, <1>8, <1>9

(* A client injects an item it has not sent before *)
LEMMA PlaceInjects ==
    ASSUME TypeOK, PlaceInv, NEW t \in Threads, NEW q \in Queues, NEW i \in Inputs, Inject(t, q, i)
    PROVE  PlaceInv'
<1> USE DEF PlaceInv
<1> DEFINE s == queue[t][q]
<1>1. s \in Seq(Inputs)
  BY DEF TypeOK
<1>0. PICK l : l = Len(s) + 1
  OBVIOUS
<1>2. /\ queue'[t][q] = Append(s, i)
      /\ \A u \in Threads, r \in Queues : ~(u = t /\ r = q) => queue'[u][r] = queue[u][r]
  BY DEF Inject, TypeOK
<1>3. /\ Seeds' = Seeds /\ fate[i] = "unsent" /\ fate'[i] = "queued"
      /\ \A k \in Inputs : k # i => fate'[k] = fate[k]
  BY DEF Inject, Seeds, actorVars, TypeOK
<1>4. /\ \A j \in DOMAIN s : j \in DOMAIN Append(s, i) /\ Append(s, i)[j] = s[j]
      /\ l \in DOMAIN Append(s, i) /\ Append(s, i)[l] = i
      /\ \A j \in DOMAIN Append(s, i) : j = l \/ j \in DOMAIN s
  BY <1>0, <1>1, AddLast
<1>5. /\ \A u \in Threads, r \in Queues : \A j \in DOMAIN queue[u][r] : ~At(u, r, j, i)
      /\ \A j \in DOMAIN Seeds : ~InSeeds(j, i)
  BY <1>3 DEF PlacedWaits
<1>6. ASSUME NEW u \in Threads, NEW r \in Queues, NEW j \in DOMAIN queue'[u][r], NEW k,
             At(u, r, j, k)'
      PROVE  IF k = i THEN u = t /\ r = q /\ j = l
             ELSE j \in DOMAIN queue[u][r] /\ At(u, r, j, k)
  <2>1. CASE u = t /\ r = q
    <3>1. j \in DOMAIN Append(s, i) /\ k = Append(s, i)[j]
      BY <1>2, <1>6, <2>1 DEF At
    <3>2. CASE j = l
      BY <1>4, <2>1, <3>1, <3>2
    <3>3. CASE j \in DOMAIN s
      <4>1. k = s[j]
        BY <1>4, <3>1, <3>3
      <4>2. At(u, r, j, k) /\ j \in DOMAIN queue[u][r]
        BY <2>1, <3>3, <4>1 DEF At
      <4> QED
        BY <1>5, <4>2
    <3> QED
      BY <1>4, <3>1, <3>2, <3>3
  <2>2. CASE ~(u = t /\ r = q)
    <3>1. j \in DOMAIN queue[u][r] /\ At(u, r, j, k)
      BY <1>2, <1>6, <2>2 DEF At
    <3> QED
      BY <1>5, <3>1
  <2> QED
    BY <2>1, <2>2
<1>7. ASSUME NEW u \in Threads, NEW r \in Queues, NEW j \in DOMAIN queue[u][r], NEW k,
             At(u, r, j, k)
      PROVE  j \in DOMAIN queue'[u][r] /\ At(u, r, j, k)'
  BY <1>2, <1>4, <1>7 DEF At
<1>8. At(t, q, l, i)' /\ l \in DOMAIN queue'[t][q]
  BY <1>2, <1>4 DEF At
<1>9. OneQueuePlace'
  BY <1>6 DEF OneQueuePlace
<1>10. OneSeedPlace' /\ QueueOrSeed'
  BY <1>3, <1>5, <1>6 DEF OneSeedPlace, QueueOrSeed, InSeeds
<1>11. PlacedWaits'
  BY <1>3, <1>5, <1>6 DEF PlacedWaits, InSeeds
<1>12. WaitingPlaced'
  <2> SUFFICES ASSUME NEW k \in Inputs, fate'[k] = "queued"
               PROVE  \/ \E u \in Threads, r \in Queues : \E j \in DOMAIN queue'[u][r] : At(u, r, j, k)'
                      \/ \E j \in DOMAIN Seeds' : InSeeds(j, k)'
    BY DEF WaitingPlaced
  <2>1. CASE k = i
    BY <1>8, <2>1
  <2>2. CASE k # i
    BY <1>3, <1>7, <2>2 DEF WaitingPlaced, InSeeds
  <2> QED
    BY <2>1, <2>2
<1> QED
  BY <1>9, <1>10, <1>11, <1>12

-----------------------------------------------------------------------------
(* The inductive invariant of the queues *)
QueuesInv == LifeInv /\ PlaceInv

LEMMA QueuesInit == Init => QueuesInv
<1> SUFFICES ASSUME Init PROVE QueuesInv
  OBVIOUS
<1>1. Seeds = <<>> /\ \A t \in Threads, q \in Queues : queue[t][q] = <<>>
  BY DEF Init, Seeds, SeedPcs
<1>2. PlaceInv
  BY <1>1 DEF Init, PlaceInv, OneQueuePlace, OneSeedPlace, QueueOrSeed, PlacedWaits,
       WaitingPlaced, At, InSeeds
<1> QED
  BY <1>2, LifeInit DEF QueuesInv

LEMMA QueueMoves ==
    ASSUME QueuesInv, [Next]_vars
    PROVE  \/ QueuesKept \/ StartDrain \/ StartPush \/ CancelAbort
           \/ \E t \in Threads, q \in Queues, i \in Inputs : Inject(t, q, i)
           \/ \E t \in Threads, q \in {"Steer", "FollowUp"} : Takes(t, q)
<1>1. CompactInv /\ Addressed
  BY DEF QueuesInv, LifeInv, Owned
<1>2. \A n \in Turns : pc[n] \in RunPcs => turnThread[n] \in Threads
  BY <1>1 DEF Addressed, RunPcs
<1>3. \/ QueuesKept \/ StartDrain \/ StartPush \/ CancelAbort
      \/ \E t \in Threads, q \in Queues, i \in Inputs : Inject(t, q, i)
      \/ \E n \in Turns : /\ pc[n] \in RunPcs
                          /\ \E q \in {"Steer", "FollowUp"} : Takes(turnThread[n], q)
  BY <1>1, QueueKind
<1> QED
  BY <1>2, <1>3

LEMMA QueuesStep == QueuesInv /\ [Next]_vars => QueuesInv'
<1> SUFFICES ASSUME QueuesInv, [Next]_vars PROVE QueuesInv'
  OBVIOUS
<1>1. TypeOK /\ Addressed /\ PlaceInv /\ LifeInv
  BY DEF QueuesInv, LifeInv
<1>2. LifeInv'
  BY <1>1, LifeStep
<1>3. \A q \in {"Steer", "FollowUp"} : q \in Queues
  BY DEF Queues
<1>4. PlaceInv'
  BY <1>1, <1>3, QueueMoves, PlaceKept, PlaceDrains, PlacePushes, PlaceAborts,
     PlaceInjects, PlaceTakes
<1> QED
  BY <1>2, <1>4 DEF QueuesInv

THEOREM QueueLifecycle == Spec => []QueuesInv
  BY QueuesInit, QueuesStep, PTL DEF Spec

(* An abort never clears an item that waits for the next turn: it is in no  *)
(* other queue, so neither the lists that cancel_turn reports as cleared    *)
(* nor anything else can claim it.                                          *)
THEOREM NextTurnItemsSurvive == Spec => NextTurnSurvivesAbort
<1>1. QueuesInv /\ [Next]_vars =>
          [\A i \in Inputs : (\E t \in Threads : \E j \in DOMAIN queue[t]["NextTurn"] :
                                  queue[t]["NextTurn"][j] = i) => fate'[i] # "cleared"]_vars
  <2> SUFFICES ASSUME QueuesInv, [Next]_vars, NEW i \in Inputs, NEW t \in Threads,
                      NEW j \in DOMAIN queue[t]["NextTurn"], At(t, "NextTurn", j, i)
               PROVE  fate'[i] # "cleared"
    BY DEF At
  <2>1. TypeOK /\ Addressed /\ PlaceInv /\ "NextTurn" \in Queues
    BY DEF QueuesInv, LifeInv, Queues
  <2>2. fate[i] = "queued"
    BY <2>1 DEF PlaceInv, PlacedWaits
  <2>3. CASE CancelAbort
    BY <2>1, <2>3, PlaceAborts
  <2>4. CASE QueuesKept \/ StartDrain
    BY <2>2, <2>4 DEF QueuesKept, StartDrain
  <2>5. CASE StartPush
    BY <2>2, <2>5 DEF StartPush, Landed
  <2>6. ASSUME NEW u \in Threads, NEW q \in {"Steer", "FollowUp"}, Takes(u, q)
        PROVE  fate'[i] # "cleared"
    BY <2>2, <2>6 DEF Takes, Landed
  <2>7. ASSUME NEW u \in Threads, NEW q \in Queues, NEW k \in Inputs, Inject(u, q, k)
        PROVE  fate'[i] # "cleared"
    BY <2>1, <2>2, <2>7 DEF Inject, TypeOK
  <2> QED
    BY <2>3, <2>4, <2>5, <2>6, <2>7, QueueMoves
<1> QED
  BY QueueLifecycle, <1>1, PTL DEF Spec, NextTurnSurvivesAbort

-----------------------------------------------------------------------------
(* No queue is longer than there are items to inject *)
LEMMA QueueBounded ==
    ASSUME TypeOK, PlaceInv, NEW t \in Threads, NEW q \in Queues
    PROVE  DOMAIN queue[t][q] \subseteq 1..Cardinality(Inputs)
<1> DEFINE s == queue[t][q]
<1>1. s \in Seq(Inputs) /\ Len(s) \in Nat /\ DOMAIN s = 1..Len(s)
  BY LenProperties DEF TypeOK
<1>2. s \in [1..Len(s) -> Inputs]
  BY <1>1
<1>3. \A j, k \in 1..Len(s) : s[j] = s[k] => j = k
  BY <1>1, <1>2 DEF PlaceInv, OneQueuePlace, At
<1>4. s \in Injection(1..Len(s), Inputs)
  BY <1>2, <1>3 DEF Injection, IsInjective
<1>5. Cardinality(1..Len(s)) <= Cardinality(Inputs) /\ Cardinality(Inputs) \in Nat
  BY <1>4, InputsAssumption, FS_Injection, FS_CardinalityType
<1>6. Cardinality(1..Len(s)) = Len(s)
  <2> DEFINE n == Len(s)
  <2>1. 1 \in Int /\ n \in Int
    BY <1>1
  <2>2. Cardinality(1..n) = IF 1 > n THEN 0 ELSE n - 1 + 1
    <3> HIDE DEF n
    <3> QED
      BY <2>1, FS_Interval
  <2> QED
    BY <1>1, <2>2
<1> QED
  BY <1>1, <1>5, <1>6

LEMMA PlacesCount == ASSUME TypeOK, PlaceInv PROVE InjectionAccounted
<1> SUFFICES ASSUME NEW i \in Inputs
             PROVE  Cardinality(Waiting(i)) + Cardinality(Seeded(i))
                        = IF fate[i] = "queued" THEN 1 ELSE 0
  BY DEF InjectionAccounted
<1>1. \A t \in Threads, q \in Queues :
          \A j : <<t, q, j>> \in Waiting(i) <=> j \in DOMAIN queue[t][q] /\ At(t, q, j, i)
  BY QueueBounded DEF Waiting, At
<1>2. \A w \in Waiting(i) :
          /\ w = <<w[1], w[2], w[3]>> /\ w[1] \in Threads /\ w[2] \in Queues
          /\ w[3] \in DOMAIN queue[w[1]][w[2]] /\ At(w[1], w[2], w[3], i)
  BY DEF Waiting, At
<1>3. \A j : j \in Seeded(i) <=> j \in DOMAIN Seeds /\ InSeeds(j, i)
  BY DEF Seeded, Seeds, SeedPcs, InSeeds
<1>4. ASSUME NEW w \in Waiting(i) PROVE Waiting(i) = {w} /\ Seeded(i) = {} /\ fate[i] = "queued"
  <2>1. ASSUME NEW v \in Waiting(i) PROVE v = w
    <3>1. v[1] = w[1] /\ v[2] = w[2] /\ v[3] = w[3]
      BY <1>2, <1>4, <2>1 DEF PlaceInv, OneQueuePlace
    <3> QED
      BY <1>2, <1>4, <2>1, <3>1
  <2>2. \A j : j \notin Seeded(i)
    BY <1>2, <1>3, <1>4 DEF PlaceInv, QueueOrSeed
  <2>3. fate[i] = "queued"
    BY <1>2, <1>4 DEF PlaceInv, PlacedWaits
  <2> QED
    BY <1>4, <2>1, <2>2, <2>3
<1>5. ASSUME NEW j \in Seeded(i) PROVE Seeded(i) = {j} /\ Waiting(i) = {} /\ fate[i] = "queued"
  <2>1. \A k \in Seeded(i) : k = j
    BY <1>3, <1>5 DEF PlaceInv, OneSeedPlace
  <2>2. \A w : w \notin Waiting(i)
    BY <1>4, <1>5
  <2>3. fate[i] = "queued"
    BY <1>3, <1>5 DEF PlaceInv, PlacedWaits
  <2> QED
    BY <1>5, <2>1, <2>2, <2>3
<1>6. fate[i] = "queued" => Waiting(i) # {} \/ Seeded(i) # {}
  BY <1>1, <1>3 DEF PlaceInv, WaitingPlaced
<1>7. CASE Waiting(i) # {}
  <2>1. PICK w \in Waiting(i) : TRUE
    BY <1>7
  <2>2. Cardinality(Waiting(i)) = 1 /\ Cardinality(Seeded(i)) = 0 /\ fate[i] = "queued"
    BY <1>4, <2>1, FS_Singleton, FS_EmptySet
  <2> QED
    BY <2>2
<1>8. CASE Seeded(i) # {}
  <2>1. PICK j \in Seeded(i) : TRUE
    BY <1>8
  <2>2. Cardinality(Seeded(i)) = 1 /\ Cardinality(Waiting(i)) = 0 /\ fate[i] = "queued"
    BY <1>5, <2>1, FS_Singleton, FS_EmptySet
  <2> QED
    BY <2>2
<1>9. CASE Waiting(i) = {} /\ Seeded(i) = {}
  <2>1. Cardinality(Waiting(i)) = 0 /\ Cardinality(Seeded(i)) = 0 /\ fate[i] # "queued"
    BY <1>6, <1>9, FS_EmptySet
  <2> QED
    BY <2>1
<1> QED
  BY <1>7, <1>8, <1>9

(* An injected item is in one place, of one queue of one thread or among    *)
(* the seeds of the turn being started, for as long as it waits, and in     *)
(* none once it has landed, was dropped or was reported cleared: none is    *)
(* lost silently and none is delivered twice.                               *)
THEOREM ItemsAccounted == Spec => []InjectionAccounted
<1>1. QueuesInv => InjectionAccounted
  BY PlacesCount DEF QueuesInv, LifeInv
<1> QED
  BY QueueLifecycle, <1>1, PTL
=============================================================================
