------------------------------- MODULE WireApi -------------------------------
(***************************************************************************)
(* The tables that the two ends of a connection have to agree on: the      *)
(* requests with their parameters and results (zhive-proto methods.rs and  *)
(* rpc.rs, the typed calls of the native client, the handlers the server   *)
(* registers) and the notifications engine events become.  Parameters and  *)
(* results are reduced to what a caller can tell apart: the statuses of a  *)
(* result and the kinds of a refusal.                                      *)
(***************************************************************************)
EXTENDS TLC

(* The methods, by the request they name (zhive-proto methods.rs). *)
EngineMethods ==
    [start_turn |-> "engine/start_turn", cancel_turn |-> "engine/cancel_turn",
     resume_permission_legacy |-> "engine/resume_permission", compact |-> "engine/compact",
     resume_thread |-> "engine/resume_thread", shutdown |-> "engine/shutdown",
     restore |-> "engine/restore", list_checkpoints |-> "engine/list_checkpoints"]
ThreadMethods ==
    [fork_thread |-> "thread/fork", list_threads |-> "thread/list",
     get_items |-> "thread/get_items", delete_thread |-> "thread/delete",
     rename_thread |-> "thread/rename", search_threads |-> "thread/search",
     tools_list |-> "tools/list", list_models |-> "models/list",
     set_model |-> "engine/set_model"]
SessionMethods ==
    [enqueue_steer |-> "session/enqueue_steer",
     enqueue_follow_up |-> "session/enqueue_follow_up",
     enqueue_next_turn |-> "session/enqueue_next_turn",
     session_cancel |-> "session/cancel", resume_permission |-> "session/resume_permission"]
MethodOf == EngineMethods @@ ThreadMethods @@ SessionMethods

(* The statuses of the results (rpc.rs). *)
StartTurnResult == {"started"}
CancelTurnResult == {"cancelled", "no_active_turn"}
ResumePermissionResult == {"resolved", "unknown_request", "invalid_request_id", "abandoned"}
CompactResult == {"compacted", "nothing_to_compact", "started"}
ForkResult == {"forked"}
CheckpointsResult == {"checkpoints"}
RestoreResult == {"restored"}
ListThreadsResult == {"threads"}
ResumeThreadResult == {"resumed"}
GetItemsResult == {"items"}
InjectionAck == {"accepted"}
DeleteThreadResult == {"deleted"}
RenameThreadResult == {"renamed"}
SearchThreadsResult == {"threads"}
ToolListResult == {"tools"}
ListModelsResult == {"models"}
SetModelResult == {"switched"}

(* The domain errors the actor may reply with (engine/submission.rs). *)
StartTurnError == {"engine_busy"}
CompactError == {"thread_not_found", "engine_busy", "summarization_failed", "blocked_by_hook"}
ForkError == {"source_not_found", "engine_busy", "replay_failed", "summarization_failed"}
RestoreError == {"unavailable", "checkpoint_not_found", "engine_busy", "snapshot_failed",
                 "replay_failed"}
CheckpointsError == {"storage_unavailable", "read_failed"}
ResumeError == {"storage_unavailable", "thread_not_found", "engine_busy", "replay_failed"}
GetItemsError == {"storage_unavailable", "read_failed"}
DeleteError == {"storage_unavailable", "thread_has_active_turn", "delete_failed"}
RenameError == {"storage_unavailable", "rename_failed"}
ModelError == {"model_management_unavailable", "model_catalog"}

(* A request: the submission its handler makes ("none" when the handle      *)
(* answers by itself), the statuses of its result and its domain errors.    *)
Request(sub, ok, err) == [sub |-> sub, ok |-> ok, err |-> err]

(* The handlers (server/handlers.rs). *)
TurnHandlers ==
    [start_turn |-> Request("StartTurn", StartTurnResult, StartTurnError),
     cancel_turn |-> Request("CancelTurn", CancelTurnResult, {}),
     resume_permission |-> Request("ResumePermission", ResumePermissionResult, {}),
     resume_permission_legacy |-> Request("ResumePermission", ResumePermissionResult, {}),
     compact |-> Request("Compact", CompactResult, CompactError),
     fork_thread |-> Request("Fork", ForkResult, ForkError)]
ThreadHandlers ==
    [list_checkpoints |-> Request("ListCheckpoints", CheckpointsResult, CheckpointsError),
     restore |-> Request("Restore", RestoreResult, RestoreError),
     list_threads |-> Request("ListThreads", ListThreadsResult, {}),
     resume_thread |-> Request("ResumeThread", ResumeThreadResult, ResumeError),
     get_items |-> Request("GetItems", GetItemsResult, GetItemsError),
     shutdown |-> Request("Shutdown", {"stopped"}, {}),
     session_cancel |-> Request("CancelTurn", {"null"}, {})]
AdminHandlers ==
    [delete_thread |-> Request("Delete", DeleteThreadResult, DeleteError),
     rename_thread |-> Request("Rename", RenameThreadResult, RenameError),
     search_threads |-> Request("Search", SearchThreadsResult, {}),
     tools_list |-> Request("ListTools", ToolListResult, {}),
     list_models |-> Request("none", ListModelsResult, ModelError),
     set_model |-> Request("none", SetModelResult, ModelError)]
InjectionHandlers ==
    [enqueue_steer |-> Request("EnqueueInjection", InjectionAck, {}),
     enqueue_follow_up |-> Request("EnqueueInjection", InjectionAck, {}),
     enqueue_next_turn |-> Request("EnqueueNextTurn", InjectionAck, {})]

(* register_engine_handlers *)
Registered == TurnHandlers @@ ThreadHandlers @@ AdminHandlers @@ InjectionHandlers

(* The typed calls of the native client, by the request they send. *)
ClientTurnCalls == {"start_turn", "compact", "fork_thread", "list_checkpoints", "restore"}
ClientThreadCalls == {"list_threads", "resume_thread", "get_items"}
ClientQueueCalls == {"enqueue_steer", "enqueue_follow_up", "enqueue_next_turn"}
ClientAdminCalls == {"delete_thread", "rename_thread", "search_threads", "tools_list"}
ClientCancelCalls == {"resume_permission", "cancel_turn", "session_cancel"}
ClientCalls == ClientTurnCalls \cup ClientThreadCalls \cup ClientQueueCalls
               \cup ClientAdminCalls \cup ClientCancelCalls

(* What the handle reports when the actor does not answer (engine_error),   *)
(* and what the router reports when the parameters do not decode.           *)
ChannelErrors == {"actor_stopped", "reply_dropped", "reply_timed_out"}
Declared(entry) == entry.ok \cup entry.err \cup ChannelErrors \cup {"invalid_params"}
-----------------------------------------------------------------------------
(* engine_event_to_notification: the method of each engine event; SavePoint *)
(* and Restored stay inside.                                                *)
TurnEvents ==
    [TurnStarted |-> "events/turn_started", TurnRejected |-> "events/turn_rejected",
     TurnCompleted |-> "events/turn_completed", TurnFailed |-> "events/turn_failed",
     ItemAppended |-> "events/item_appended", ItemDelta |-> "events/item_delta",
     PhaseChanged |-> "events/phase_changed", SessionAborted |-> "events/session_aborted",
     PermissionRequested |-> "events/permission_requested", Usage |-> "events/usage",
     TurnSuspended |-> "turn/suspended", TurnResumed |-> "turn/resumed"]

ThreadEvents ==
    [ThreadForked |-> "events/thread_forked",
     SubagentStarted |-> "events/subagent_started",
     SubagentCompleted |-> "events/subagent_completed",
     CompactionStarted |-> "events/compaction_started",
     CompactionDelta |-> "events/compaction_delta",
     CompactionCompleted |-> "events/compaction_completed",
     CompactionFailed |-> "events/compaction_failed"]

InternalEvents == {"SavePoint", "Restored"}

EngineEvents == DOMAIN TurnEvents \cup DOMAIN ThreadEvents \cup InternalEvents

EventMethod(kind) ==
    CASE kind \in InternalEvents -> "none"
      [] kind \in DOMAIN ThreadEvents -> ThreadEvents[kind]
      [] OTHER -> TurnEvents[kind]
=============================================================================
