--------------------------- MODULE MCPersistence ---------------------------
(* Small instances of Persistence for TLC.                                  *)
EXTENDS Persistence

(* What the large run leaves out: a history with a fault has three tasks and *)
(* events instead of four, and in its second life the channel is full only   *)
(* at the end of a behaviour.                                                *)
Budget ==
    /\ faults > 0 => tasks + items + faults < MaxTasks + MaxEvents
    /\ lives = Lives => Len(queue) < ChannelCap

(* One thread, no faults, no crash, no forks, no cancelling, and a writer    *)
(* that keeps up with the engine; the process is closed and started again    *)
(* and the thread is resumed when it is not in memory.  Every behaviour of   *)
(* this specification is one of Spec.                                        *)
WriterStep == WriterTake \/ WriterSync \/ WriterIndex
CalmNext ==
    \/ WriterStep
    \/ /\ queue = <<>> /\ writer = Idle
       /\ \/ SendNext
          \/ StartTurn(Main)
          \/ AppendItem
          \/ FinishTurn
          \/ \E e \in ending : SendEnded(e)
          \/ Main \notin resident /\ ResumeBegin(Main)
          \/ ResumeRead
          \/ Close
          \/ WriterExits
          \/ Restart

CalmSpec == Init /\ [][CalmNext]_vars
=============================================================================
