------------------------- MODULE MessageProcessing -------------------------
(***************************************************************************)
(* One chat session: its durable rows (messages, lock, events, sandbox),   *)
(* the in-memory executions of MessageProcessingService, the cancel        *)
(* requests of ChatSessionService, and the crash of the process between    *)
(* any two steps.                                                          *)
(*                                                                         *)
(* The server is one Node.js process.  A step of this module is either the *)
(* effect of one awaited call (a committed transaction, a docker command,  *)
(* the agent's turn) or the synchronous code between two awaits (a         *)
(* cancellation checkpoint, a request handler's decision).  Everything may *)
(* interleave at the awaits and nowhere else.  No operation reads or       *)
(* writes two sessions, so one session is modelled.                        *)
(***************************************************************************)
EXTENDS Naturals

CONSTANTS
  Messages,     \* user messages that may be appended to the session
  NoMessage,    \* activeMessageId: null
  Cancellers,   \* clients that may send POST /cancel, one call at a time each
  MaxCrashes,   \* bound: how often the process may crash and restart
  MayFail       \* the awaited calls that may throw

ASSUME MessagesAssumption == NoMessage \notin Messages
ASSUME CrashAssumption == MaxCrashes \in Nat

VARIABLES
  repoSource,       \* chat_sessions.repo_source, fixed at creation
  status,           \* chat_messages.processing_status of each message
  active,           \* chat_sessions.active_message_id, the session lock
  posted,           \* per message and type, the events appended to the stream
  artifacts,        \* messages with a diff artifact row
  sandbox,          \* sandboxes.status, "none" without a row
  container,        \* the docker container of the sandbox's name
  pc,               \* where processMessageInBackground of a message stands
  bound,            \* execution.sandboxId is set
  sourced,          \* ensureSandbox returned a provisioning source
  tracked,          \* messages in the executions map
  cancelRequested,  \* execution.cancellationRequested, the abort signal
  cancellation,     \* the memoised cancellationPromise
  request,          \* the cancel request of each client
  crashes

rows == <<status, active, posted>>
sandboxVars == <<sandbox, container>>
memory == <<bound, sourced, tracked, cancelRequested, cancellation>>
vars == <<repoSource, rows, artifacts, sandboxVars, pc, memory, request, crashes>>

Unfinished == {"queued", "working"}
Terminal == {"completed", "failed", "cancelled"}

(* The events of a message's lifecycle; tool and sandbox events are left out. *)
EventTypes ==
  {"message_processing_requested", "message_processing_started",
   "message_processing_completed", "message_processing_failed",
   "message_processing_cancelled", "message_result_ready",
   "assistant_message_created", "artifact_created"}

OutcomeEvent ==
  [completed |-> "message_processing_completed",
   failed    |-> "message_processing_failed",
   cancelled |-> "message_processing_cancelled"]

(***************************************************************************)
(* The labels of processMessageInBackground.  A checkpoint is the code     *)
(* after an await, up to the next one: it asks waitForCancellation and     *)
(* goes on to the call After names.                                        *)
(***************************************************************************)
After ==
  [scheduled |-> "ensure",  ensured  |-> "readSandbox", ready    |-> "branch",
   unready   |-> "failing", branched |-> "start",       started  |-> "agent",
   answered  |-> "diff",    diffed   |-> "recordArtifacts",
   caught    |-> "rescuing"]

Checkpoints == DOMAIN After

(***************************************************************************)
(* Where an exception of an awaited call is caught: in provisionForSession *)
(* ("markFailed"), swallowed by recordArtifacts and by the failed-state    *)
(* update of provisionForSession, otherwise in processMessageInBackground. *)
(***************************************************************************)
Catches ==
  [ensure |-> "caught", createSandbox |-> "caught", readSandbox |-> "caught",
   provision |-> "markFailed", populate |-> "markFailed",
   markReady |-> "markFailed", markFailed |-> "unready", branch |-> "caught",
   start |-> "caught", agent |-> "caught", diff |-> "caught",
   recordArtifacts |-> "complete", complete |-> "caught", failing |-> "caught"]

Labels == Checkpoints \cup DOMAIN Catches
            \cup {"none", "appended", "rescuing", "finalize", "awaiting",
                  "finished", "lost"}

Idle == [at |-> "idle", target |-> NoMessage, answer |-> "none"]

Init ==
  /\ repoSource \in {"github", "fixture"}
  /\ status = [m \in Messages |-> "none"]
  /\ active = NoMessage
  /\ posted = [m \in Messages |-> [e \in EventTypes |-> 0]]
  /\ artifacts = {}
  /\ sandbox = "none"
  /\ container = "absent"
  /\ pc = [m \in Messages |-> "none"]
  /\ bound = {} /\ sourced = {} /\ tracked = {} /\ cancelRequested = {}
  /\ cancellation = [m \in Messages |-> "none"]
  /\ request = [c \in Cancellers |-> Idle]
  /\ crashes = 0

Post(m, events) ==
  posted' = [posted EXCEPT ![m] =
               [e \in EventTypes |-> IF e \in events THEN @[e] + 1 ELSE @[e]]]

Goto(m, label) == pc' = [pc EXCEPT ![m] = label]

-----------------------------------------------------------------------------
(***************************************************************************)
(* The terminal transaction of a message, shared by completion, failure    *)
(* and cancellation: the guarded updateMany on the message, the release of *)
(* the lock where it still names the message, and the events.              *)
(***************************************************************************)
Settle(m, outcome, extraEvents) ==
  /\ status' = [status EXCEPT ![m] = outcome]
  /\ active' = IF active = m THEN NoMessage ELSE active
  /\ Post(m, {OutcomeEvent[outcome], "message_result_ready"} \cup extraEvents)

(* The finally block: a cancellation still owed keeps the execution mapped. *)
Finish(m) ==
  /\ Goto(m, "finished")
  /\ tracked' = IF m \in cancelRequested /\ cancellation[m] # "done"
                THEN tracked ELSE tracked \ {m}

(* Mutant: the claim of the lock does not require activeMessageId to be null. *)
AppendMessageUnclaimed(m) ==
  /\ status[m] = "none"
  /\ status' = [status EXCEPT ![m] = "queued"]
  /\ active' = m
  /\ Post(m, {"message_processing_requested"})
  /\ Goto(m, "appended")
  /\ UNCHANGED <<repoSource, artifacts, sandboxVars, memory, request, crashes>>

(* appendMessage: claim of the lock, the queued message and its events. *)
AppendMessage(m) ==
  /\ status[m] = "none"
  /\ active = NoMessage
  /\ status' = [status EXCEPT ![m] = "queued"]
  /\ active' = m
  /\ Post(m, {"message_processing_requested"})
  /\ Goto(m, "appended")
  /\ UNCHANGED <<repoSource, artifacts, sandboxVars, memory, request, crashes>>

(* processMessage, once the response of the append transaction is back. *)
ProcessMessage(m) ==
  /\ pc[m] = "appended"
  /\ Goto(m, "scheduled")
  /\ tracked' = tracked \cup {m}
  /\ UNCHANGED <<repoSource, rows, artifacts, sandboxVars, bound, sourced,
                 cancelRequested, cancellation, request, crashes>>

-----------------------------------------------------------------------------
(***************************************************************************)
(* Cancellation checkpoints.  execution.sandboxId is assigned in the same  *)
(* synchronous code as the checkpoint after ensureSandbox.                 *)
(***************************************************************************)
BindSandbox(m) ==
  bound' = IF pc[m] = "ensured" THEN bound \cup {m} ELSE bound

(* startCancellation: memoised until it fails. *)
StartCancellation(m, hasSandbox) ==
  cancellation' =
    IF cancellation[m] = "none"
    THEN [cancellation EXCEPT ![m] = IF hasSandbox THEN "diff" ELSE "commit"]
    ELSE cancellation

NextCall(label) ==
  IF label = "ready" /\ repoSource = "fixture" THEN "start" ELSE After[label]

CheckpointPassed(m) ==
  /\ pc[m] \in Checkpoints
  /\ m \notin cancelRequested
  /\ BindSandbox(m)
  /\ Goto(m, NextCall(pc[m]))
  /\ UNCHANGED <<repoSource, rows, artifacts, sandboxVars, sourced, tracked,
                 cancelRequested, cancellation, request, crashes>>

CheckpointCancelled(m) ==
  /\ pc[m] \in Checkpoints
  /\ m \in cancelRequested
  /\ BindSandbox(m)
  /\ StartCancellation(m, m \in bound')
  /\ IF cancellation[m] = "done"
     THEN Finish(m)
     ELSE Goto(m, "awaiting") /\ UNCHANGED tracked
  /\ UNCHANGED <<repoSource, rows, artifacts, sandboxVars, sourced,
                 cancelRequested, request, crashes>>

-----------------------------------------------------------------------------
(* ensureSandbox, the read: an existing row comes back without a source. *)
EnsureSandbox(m) ==
  /\ pc[m] = "ensure"
  /\ Goto(m, IF sandbox = "none" THEN "createSandbox" ELSE "ensured")
  /\ UNCHANGED <<repoSource, rows, artifacts, sandboxVars, memory,
                 request, crashes>>

(* ensureSandbox, the transaction: session_id is unique in sandboxes. *)
CreateSandbox(m) ==
  /\ pc[m] = "createSandbox"
  /\ IF sandbox = "none"
     THEN /\ sandbox' = "creating"
          /\ sourced' = sourced \cup {m}
          /\ Goto(m, "ensured")
     ELSE /\ Goto(m, "caught")
          /\ UNCHANGED <<sandbox, sourced>>
  /\ UNCHANGED <<repoSource, rows, artifacts, container, bound, tracked,
                 cancelRequested, cancellation, request, crashes>>

(* ensureReadyForSession: what to do is decided from the row read here. *)
ReadSandbox(m) ==
  /\ pc[m] = "readSandbox"
  /\ Goto(m, CASE sandbox = "ready"    -> "ready"
               [] sandbox = "creating" -> "provision"
               [] OTHER                -> "unready")
  /\ UNCHANGED <<repoSource, rows, artifacts, sandboxVars, memory,
                 request, crashes>>

(* The source provisioning works from: a GitHub session's sandbox row holds *)
(* no fixture path, so its fallback source names no directory.              *)
SourceUsable(m) == m \in sourced \/ repoSource = "fixture"

(* Mutant: a container of that name is taken for the provisioned one. *)
CreateContainerReusing(m) ==
  /\ pc[m] = "provision"
  /\ IF SourceUsable(m) /\ container = "absent"
     THEN container' = "created" /\ Goto(m, "populate")
     ELSE Goto(m, "markReady") /\ UNCHANGED container
  /\ UNCHANGED <<repoSource, rows, artifacts, sandbox, memory, request, crashes>>

(* runtime.provision: source check and docker create under a fixed name. *)
CreateContainer(m) ==
  /\ pc[m] = "provision"
  /\ IF SourceUsable(m) /\ container = "absent"
     THEN container' = "created" /\ Goto(m, "populate")
     ELSE Goto(m, "markFailed") /\ UNCHANGED container
  /\ UNCHANGED <<repoSource, rows, artifacts, sandbox, memory, request, crashes>>

(* runtime.provision: start, clone or copy, checkout, SHA check. *)
PopulateContainer(m) ==
  /\ pc[m] = "populate"
  /\ container' = "populated"
  /\ Goto(m, "markReady")
  /\ UNCHANGED <<repoSource, rows, artifacts, sandbox, memory, request, crashes>>

(* Mutant: a failed provision begins a teardown nothing ever finishes. *)
MarkSandboxStopping(m) ==
  /\ \/ pc[m] = "markReady"  /\ sandbox' = "ready"    /\ Goto(m, "ready")
     \/ pc[m] = "markFailed" /\ sandbox' = "stopping" /\ Goto(m, "unready")
  /\ UNCHANGED <<repoSource, rows, artifacts, container, memory, request, crashes>>

(* provisionForSession: both updates of the row are unconditional. *)
MarkSandbox(m) ==
  /\ \/ pc[m] = "markReady"  /\ sandbox' = "ready"  /\ Goto(m, "ready")
     \/ pc[m] = "markFailed" /\ sandbox' = "failed" /\ Goto(m, "unready")
  /\ UNCHANGED <<repoSource, rows, artifacts, container, memory, request, crashes>>

(* prepareSessionBranchForSession needs the sandbox ready when it reads it. *)
PrepareBranch(m) ==
  /\ pc[m] = "branch"
  /\ Goto(m, IF sandbox = "ready" THEN "branched" ELSE "caught")
  /\ UNCHANGED <<repoSource, rows, artifacts, sandboxVars, memory,
                 request, crashes>>

(* Mutant: no checkpoint between the start transaction and the agent. *)
StartUnchecked(m) ==
  /\ pc[m] = "start"
  /\ IF status[m] = "queued"
     THEN /\ status' = [status EXCEPT ![m] = "working"]
          /\ Post(m, {"message_processing_started"})
          /\ Goto(m, "agent")
          /\ UNCHANGED tracked
     ELSE Finish(m) /\ UNCHANGED <<status, posted>>
  /\ UNCHANGED <<repoSource, active, artifacts, sandboxVars, bound, sourced,
                 cancelRequested, cancellation, request, crashes>>

StartMessageProcessing(m) ==
  /\ pc[m] = "start"
  /\ IF status[m] = "queued"
     THEN /\ status' = [status EXCEPT ![m] = "working"]
          /\ Post(m, {"message_processing_started"})
          /\ Goto(m, "started")
          /\ UNCHANGED tracked
     ELSE Finish(m) /\ UNCHANGED <<status, posted>>
  /\ UNCHANGED <<repoSource, active, artifacts, sandboxVars, bound, sourced,
                 cancelRequested, cancellation, request, crashes>>

(* processor.process: returns an answer, or throws once it is aborted. *)
AgentTurn(m) ==
  /\ pc[m] = "agent"
  /\ \/ Goto(m, "answered")
     \/ m \in cancelRequested /\ Goto(m, "caught")
  /\ UNCHANGED <<repoSource, rows, artifacts, sandboxVars, memory,
                 request, crashes>>

(* diffForSession needs a row that has left "creating". *)
DiffWorkspace(m) ==
  /\ pc[m] = "diff"
  /\ Goto(m, IF sandbox \in {"ready", "failed"} THEN "diffed" ELSE "caught")
  /\ UNCHANGED <<repoSource, rows, artifacts, sandboxVars, memory,
                 request, crashes>>

(* recordArtifacts: a row of its own transaction, none for an empty diff. *)
RecordArtifacts(m) ==
  /\ pc[m] = "recordArtifacts"
  /\ artifacts' \in {artifacts, artifacts \cup {m}}
  /\ Goto(m, "complete")
  /\ UNCHANGED <<repoSource, rows, sandboxVars, memory, request,
                 crashes>>

(* Mutant: the artifact is announced from the diff, not from a stored row. *)
CompleteAnnouncing(m) ==
  /\ pc[m] = "complete"
  /\ IF status[m] = "working"
     THEN /\ Settle(m, "completed",
                    {"assistant_message_created", "artifact_created"})
          /\ Goto(m, "finalize")
          /\ UNCHANGED tracked
     ELSE Finish(m) /\ UNCHANGED rows
  /\ UNCHANGED <<repoSource, artifacts, sandboxVars, bound, sourced,
                 cancelRequested, cancellation, request, crashes>>

(* Mutant: the update to completed is not guarded by the status. *)
CompleteUnguarded(m) ==
  /\ pc[m] = "complete"
  /\ Settle(m, "completed", {"assistant_message_created"} \cup
                  (IF m \in artifacts THEN {"artifact_created"} ELSE {}))
  /\ Goto(m, "finalize")
  /\ UNCHANGED <<repoSource, artifacts, sandboxVars, memory, request, crashes>>

CompleteMessageProcessing(m) ==
  /\ pc[m] = "complete"
  /\ IF status[m] = "working"
     THEN /\ Settle(m, "completed",
                    {"assistant_message_created"} \cup
                      (IF m \in artifacts THEN {"artifact_created"} ELSE {}))
          /\ Goto(m, "finalize")
          /\ UNCHANGED tracked
     ELSE Finish(m) /\ UNCHANGED rows
  /\ UNCHANGED <<repoSource, artifacts, sandboxVars, bound, sourced,
                 cancelRequested, cancellation, request, crashes>>

(* Mutant: the update to failed is not guarded by the status. *)
FailUnguarded(m) ==
  /\ pc[m] \in {"failing", "rescuing"}
  /\ Settle(m, "failed", {})
  /\ Goto(m, "finalize")
  /\ UNCHANGED <<repoSource, artifacts, sandboxVars, memory, request, crashes>>

(* Mutant: only a working message can fail, a queued one is left alone. *)
FailWorkingOnly(m) ==
  /\ pc[m] \in {"failing", "rescuing"}
  /\ IF status[m] = "working"
     THEN /\ Settle(m, "failed", {})
          /\ Goto(m, "finalize")
          /\ UNCHANGED tracked
     ELSE Finish(m) /\ UNCHANGED rows
  /\ UNCHANGED <<repoSource, artifacts, sandboxVars, bound, sourced,
                 cancelRequested, cancellation, request, crashes>>

(* failMessageProcessing, after a failed outcome or from the catch block. *)
FailMessageProcessing(m) ==
  /\ pc[m] \in {"failing", "rescuing"}
  /\ IF status[m] \in Unfinished
     THEN /\ Settle(m, "failed", {})
          /\ Goto(m, "finalize")
          /\ UNCHANGED tracked
     ELSE Finish(m) /\ UNCHANGED rows
  /\ UNCHANGED <<repoSource, artifacts, sandboxVars, bound, sourced,
                 cancelRequested, cancellation, request, crashes>>

(* finalizeTrace swallows its errors; then the finally block. *)
FinalizeTrace(m) ==
  /\ pc[m] = "finalize"
  /\ Finish(m)
  /\ UNCHANGED <<repoSource, rows, artifacts, sandboxVars, bound, sourced,
                 cancelRequested, cancellation, request, crashes>>

(* The awaited call throws without having had its effect. *)
Throw(m) ==
  /\ pc[m] \in MayFail
  /\ \/ /\ pc[m] \in DOMAIN Catches
        /\ Goto(m, Catches[pc[m]])
        /\ UNCHANGED tracked
     \/ pc[m] = "rescuing" /\ Finish(m)
  /\ UNCHANGED <<repoSource, rows, artifacts, sandboxVars, bound, sourced,
                 cancelRequested, cancellation, request, crashes>>

-----------------------------------------------------------------------------
(* cancelExecution, the diff capture: any error of it counts as no diff. *)
CancelDiff(m) ==
  /\ cancellation[m] = "diff"
  /\ cancellation' = [cancellation EXCEPT ![m] = "commit"]
  /\ UNCHANGED <<repoSource, rows, artifacts, sandboxVars, pc, bound, sourced,
                 tracked, cancelRequested, request, crashes>>

(* Mutant: the update to cancelled is not guarded by the status. *)
CancelCommitUnguarded(m) ==
  /\ cancellation[m] = "commit"
  /\ cancellation' = [cancellation EXCEPT ![m] = "settle"]
  /\ Settle(m, "cancelled", {})
  /\ UNCHANGED <<repoSource, artifacts, sandboxVars, pc, bound, sourced,
                 tracked, cancelRequested, request, crashes>>

(* cancelCurrentMessage, the transaction of cancelExecution. *)
CancelCommit(m) ==
  /\ cancellation[m] = "commit"
  /\ cancellation' = [cancellation EXCEPT ![m] = "settle"]
  /\ IF status[m] \in Unfinished THEN Settle(m, "cancelled", {})
                                 ELSE UNCHANGED rows
  /\ UNCHANGED <<repoSource, artifacts, sandboxVars, pc, bound, sourced,
                 tracked, cancelRequested, request, crashes>>

(* Mutant: the entry of an execution that already finished is not deleted. *)
CancelSettledKeeping(m) ==
  /\ cancellation[m] = "settle"
  /\ cancellation' = [cancellation EXCEPT ![m] = "done"]
  /\ pc' = IF pc[m] = "awaiting" THEN [pc EXCEPT ![m] = "finished"] ELSE pc
  /\ tracked' = IF pc[m] \in {"scheduled", "awaiting"}
                THEN tracked \ {m} ELSE tracked
  /\ UNCHANGED <<repoSource, rows, artifacts, sandboxVars, bound, sourced,
                 cancelRequested, request, crashes>>

(***************************************************************************)
(* cancellationCompleted: the execution leaves the map unless its          *)
(* processing is still running; an execution waiting for this runs its     *)
(* finally block in the same turn of the event loop.                       *)
(***************************************************************************)
CancelSettled(m) ==
  /\ cancellation[m] = "settle"
  /\ cancellation' = [cancellation EXCEPT ![m] = "done"]
  /\ pc' = IF pc[m] = "awaiting" THEN [pc EXCEPT ![m] = "finished"] ELSE pc
  /\ tracked' = IF pc[m] \in {"scheduled", "awaiting", "finished"}
                THEN tracked \ {m} ELSE tracked
  /\ UNCHANGED <<repoSource, rows, artifacts, sandboxVars, bound, sourced,
                 cancelRequested, request, crashes>>

(* Mutant: the entry is deleted although the cancellation failed. *)
CancelFailedForgetting(m) ==
  /\ cancellation[m] = "commit"
  /\ "cancel" \in MayFail
  /\ cancellation' = [cancellation EXCEPT ![m] = "none"]
  /\ pc' = IF pc[m] = "awaiting" THEN [pc EXCEPT ![m] = "finished"] ELSE pc
  /\ tracked' = tracked \ {m}
  /\ UNCHANGED <<repoSource, rows, artifacts, sandboxVars, bound, sourced,
                 cancelRequested, request, crashes>>

(* The cancel transaction fails: the promise is dropped, the entry stays. *)
CancelFailed(m) ==
  /\ cancellation[m] = "commit"
  /\ "cancel" \in MayFail
  /\ cancellation' = [cancellation EXCEPT ![m] = "none"]
  /\ pc' = IF pc[m] = "awaiting" THEN [pc EXCEPT ![m] = "finished"] ELSE pc
  /\ UNCHANGED <<repoSource, rows, artifacts, sandboxVars, bound, sourced,
                 tracked, cancelRequested, request, crashes>>

-----------------------------------------------------------------------------
(* ChatSessionService.cancelCurrentMessage, a client's call at a time. *)
Respond(c, answer) ==
  request' = [request EXCEPT ![c] =
                [at |-> "idle", target |-> @.target, answer |-> answer]]

(* The read of active_message_id. *)
CancelRead(c) ==
  /\ request[c].at = "idle"
  /\ request' = [request EXCEPT ![c] =
       IF active = NoMessage
       THEN [at |-> "idle", target |-> NoMessage, answer |-> "no_active_message"]
       ELSE [at |-> "status", target |-> active, answer |-> "none"]]
  /\ UNCHANGED <<repoSource, rows, artifacts, sandboxVars, pc, memory,
                 crashes>>

(* The read of the message's status, after which the lock is not reread. *)
CancelStatus(c) ==
  LET seen == status[request[c].target] IN
  /\ request[c].at = "status"
  /\ CASE seen = "cancelled"             -> Respond(c, "cancelled")
       [] seen \in {"completed", "failed"} -> Respond(c, "already_terminal")
       [] OTHER -> request' = [request EXCEPT ![c].at = "decide"]
  /\ UNCHANGED <<repoSource, rows, artifacts, sandboxVars, pc, memory,
                 crashes>>

(* requestCancellation of a tracked execution: the abort, in one turn. *)
RequestCancellation(c) ==
  LET m == request[c].target IN
  /\ request[c].at = "decide"
  /\ m \in tracked
  /\ cancelRequested' = cancelRequested \cup {m}
  /\ StartCancellation(m, m \in bound)
  /\ Respond(c, "cancelling")
  /\ UNCHANGED <<repoSource, rows, artifacts, sandboxVars, pc, bound, sourced,
                 tracked, crashes>>

(* No execution in the map: cancelDirectly is called. *)
CancelUntracked(c) ==
  /\ request[c].at = "decide"
  /\ request[c].target \notin tracked
  /\ request' = [request EXCEPT ![c].at = "direct"]
  /\ UNCHANGED <<repoSource, rows, artifacts, sandboxVars, pc, memory,
                 crashes>>

(* Mutant: the answer ignores whether the transaction cancelled anything. *)
CancelDirectlyBlind(c) ==
  LET m == request[c].target IN
  /\ request[c].at = "direct"
  /\ Respond(c, "cancelled")
  /\ IF status[m] \in Unfinished THEN Settle(m, "cancelled", {})
                                 ELSE UNCHANGED rows
  /\ UNCHANGED <<repoSource, artifacts, sandboxVars, pc, memory, crashes>>

(* Mutant: a message that was working when the process died stays so. *)
CancelDirectlyQueued(c) ==
  LET m == request[c].target IN
  /\ request[c].at = "direct"
  /\ IF status[m] = "queued"
     THEN Settle(m, "cancelled", {}) /\ Respond(c, "cancelled")
     ELSE Respond(c, "cancelling") /\ UNCHANGED rows
  /\ UNCHANGED <<repoSource, artifacts, sandboxVars, pc, memory, crashes>>

(* cancelDirectly: the cancel transaction with an empty diff. *)
CancelDirectly(c) ==
  LET m == request[c].target IN
  /\ request[c].at = "direct"
  /\ IF status[m] \in Unfinished
     THEN Settle(m, "cancelled", {}) /\ Respond(c, "cancelled")
     ELSE Respond(c, "cancelling") /\ UNCHANGED rows
  /\ UNCHANGED <<repoSource, artifacts, sandboxVars, pc, memory, crashes>>

(* The direct transaction fails: the client gets an error, nothing changed. *)
CancelDirectlyFailed(c) ==
  /\ request[c].at = "direct"
  /\ "cancel" \in MayFail
  /\ Respond(c, "error")
  /\ UNCHANGED <<repoSource, rows, artifacts, sandboxVars, pc, memory,
                 crashes>>

-----------------------------------------------------------------------------
(***************************************************************************)
(* The process stops and starts again: the rows and the container stay,    *)
(* executions and requests are gone, and nothing at startup resumes them.  *)
(***************************************************************************)
Crash ==
  /\ crashes < MaxCrashes
  /\ crashes' = crashes + 1
  /\ pc' = [m \in Messages |-> IF pc[m] = "none" THEN "none" ELSE "lost"]
  /\ bound' = {} /\ sourced' = {} /\ tracked' = {} /\ cancelRequested' = {}
  /\ cancellation' = [m \in Messages |-> "none"]
  /\ request' = [c \in Cancellers |-> Idle]
  /\ UNCHANGED <<repoSource, rows, artifacts, sandboxVars>>

(* The steps of processMessageInBackground. *)
Execute(m) ==
  \/ ProcessMessage(m)       \/ CheckpointPassed(m)  \/ CheckpointCancelled(m)
  \/ EnsureSandbox(m)        \/ CreateSandbox(m)     \/ ReadSandbox(m)
  \/ CreateContainer(m)      \/ PopulateContainer(m) \/ MarkSandbox(m)
  \/ PrepareBranch(m)        \/ StartMessageProcessing(m)
  \/ AgentTurn(m)            \/ DiffWorkspace(m)     \/ RecordArtifacts(m)
  \/ CompleteMessageProcessing(m)                    \/ FailMessageProcessing(m)
  \/ FinalizeTrace(m)        \/ Throw(m)

(* The steps of cancelExecution. *)
Cancel(m) ==
  CancelDiff(m) \/ CancelCommit(m) \/ CancelSettled(m) \/ CancelFailed(m)

(* The steps of a cancel call once the client has sent it. *)
Handle(c) ==
  \/ CancelStatus(c) \/ RequestCancellation(c) \/ CancelUntracked(c)
  \/ CancelDirectly(c) \/ CancelDirectlyFailed(c)

Next ==
  \/ \E m \in Messages : AppendMessage(m) \/ Execute(m) \/ Cancel(m)
  \/ \E c \in Cancellers : CancelRead(c) \/ Handle(c)
  \/ Crash

Spec == Init /\ [][Next]_vars

(***************************************************************************)
(* The event loop runs every ready continuation, and every awaited call    *)
(* returns or throws: docker commands and transactions have timeouts, the  *)
(* agent has a step limit, and its model requests are assumed to return.   *)
(* Clients need not send anything.                                         *)
(***************************************************************************)
Fairness ==
  /\ \A m \in Messages : WF_vars(Execute(m)) /\ WF_vars(Cancel(m))
  /\ \A c \in Cancellers : WF_vars(Handle(c))

FairSpec == Spec /\ Fairness

(* A client that keeps cancelling until the session is free again. *)
PersistentSpec == FairSpec /\ \A c \in Cancellers : WF_vars(CancelRead(c))

-----------------------------------------------------------------------------
(* The rows, the executions map and the requests hold values of their kind. *)
TypeOK ==
  /\ repoSource \in {"github", "fixture"}
  /\ status \in [Messages -> {"none"} \cup Unfinished \cup Terminal]
  /\ active \in Messages \cup {NoMessage}
  /\ posted \in [Messages -> [EventTypes -> Nat]]
  /\ artifacts \subseteq Messages
  /\ sandbox \in {"none", "creating", "ready", "failed"}
  /\ container \in {"absent", "created", "populated"}
  /\ pc \in [Messages -> Labels]
  /\ bound \subseteq Messages /\ sourced \subseteq Messages
  /\ tracked \subseteq Messages /\ cancelRequested \subseteq Messages
  /\ cancellation \in
       [Messages -> {"none", "diff", "commit", "settle", "done"}]
  /\ request \in [Cancellers ->
       [at : {"idle", "status", "decide", "direct"},
        target : Messages \cup {NoMessage},
        answer : {"none", "no_active_message", "cancelled", "cancelling",
                  "already_terminal", "error"}]]
  /\ \A c \in Cancellers :
       request[c].at # "idle" => request[c].target \in Messages
  /\ crashes \in 0 .. MaxCrashes

(***************************************************************************)
(* The session lock names a message exactly while that message is queued   *)
(* or working, however completion, failure, both ways of cancelling and a  *)
(* crash interleave: no lock outlives its message and none is lost.        *)
(***************************************************************************)
LockMatchesStatus ==
  \A m \in Messages : active = m <=> status[m] \in Unfinished

(***************************************************************************)
(* Racing terminal transactions leave one outcome: a message's stream has  *)
(* the event of its final status and one message_result_ready, no event of *)
(* another outcome, and one assistant message exactly when it completed.   *)
(***************************************************************************)
OneOutcome ==
  \A m \in Messages :
    /\ \A o \in Terminal :
         posted[m][OutcomeEvent[o]] = IF status[m] = o THEN 1 ELSE 0
    /\ posted[m]["message_result_ready"] =
         IF status[m] \in Terminal THEN 1 ELSE 0
    /\ posted[m]["assistant_message_created"] =
         IF status[m] = "completed" THEN 1 ELSE 0

(***************************************************************************)
(* A message that completed with a stored diff artifact announced it once; *)
(* the artifact of a message that did not complete is never announced.     *)
(***************************************************************************)
ArtifactsAnnounced ==
  \A m \in Messages :
    posted[m]["artifact_created"] =
      IF status[m] = "completed" /\ m \in artifacts THEN 1 ELSE 0

(***************************************************************************)
(* A ready sandbox row stands for a container with the repository in it,   *)
(* although two executions may provision the same row and a crash may      *)
(* leave a half-made container behind.                                     *)
(***************************************************************************)
ReadyIsPopulated == sandbox = "ready" => container = "populated"

(* Calls that use the session's container or workspace. *)
InWorkspace(m) ==
  pc[m] \in {"provision", "populate", "markReady", "branch", "agent", "diff"}

(***************************************************************************)
(* "Only one message can be processed per session at a time" as far as it  *)
(* holds: an execution in the container is that of the message which has   *)
(* the lock, or of a cancelled one.  No message begins while an earlier    *)
(* one that is not cancelled is at work, and none works on after the       *)
(* transaction that completed or failed it.                                *)
(***************************************************************************)
WorkspaceIsHeld ==
  \A m \in Messages : InWorkspace(m) => active = m \/ status[m] = "cancelled"

(***************************************************************************)
(* While an execution works on an unfinished message it is in the map, so  *)
(* a cancel call reaches its abort signal.                                 *)
(***************************************************************************)
RunningIsTracked ==
  \A m \in Messages :
    status[m] \in Unfinished
      /\ pc[m] \notin {"none", "appended", "finished", "lost"}
    => m \in tracked

(***************************************************************************)
(* The answer a client got stays true: "cancelled" and 409 terminal of the *)
(* message's row, "cancelling" of a message that is terminal or whose      *)
(* execution has been told to stop.                                        *)
(***************************************************************************)
CancelAnswersHold ==
  \A c \in Cancellers :
    LET m == request[c].target
        answer == request[c].answer
    IN  /\ answer = "cancelled" => status[m] = "cancelled"
        /\ answer = "already_terminal" => status[m] \in {"completed", "failed"}
        /\ answer = "cancelling" =>
             status[m] \in Terminal \/ m \in cancelRequested

(***************************************************************************)
(* A terminal status is final: the loser of a race writes nothing, neither *)
(* the status nor an event of EventTypes.  (Tool and sandbox events of an  *)
(* aborted agent may still arrive; they are not modelled.)                 *)
(***************************************************************************)
TerminalIsFinal ==
  [][\A m \in Messages :
       status[m] \in Terminal =>
         status'[m] = status[m] /\ posted'[m] = posted[m]]_vars

(***************************************************************************)
(* Once cancellation of an execution is requested, it begins no further    *)
(* phase: every await of processMessageInBackground is followed by a       *)
(* checkpoint.                                                             *)
(***************************************************************************)
CancelledBeginsNothing ==
  [][\A m \in Messages :
       m \in cancelRequested /\ pc'[m] # pc[m] =>
         pc'[m] \notin {After[l] : l \in Checkpoints}]_vars

(* The rows and announcements of the session as the abstract mailbox. *)
Outcome ==
  [m \in Messages |-> IF status[m] = "none" THEN "unsent"
                      ELSE IF status[m] \in Unfinished THEN "pending"
                      ELSE status[m]]

Mailbox == INSTANCE SessionMailbox
  WITH current   <- active,
       outcome   <- Outcome,
       announced <- [m \in Messages |-> posted[m]["message_result_ready"]]

(***************************************************************************)
(* The service implements the mailbox: each message it accepts is resolved *)
(* at most once, while it holds the session, and only that frees it.       *)
(***************************************************************************)
ImplementsMailbox == Mailbox!Spec

(* A message that is accepted is eventually completed, failed or cancelled. *)
EveryMessageSettles ==
  \A m \in Messages : status[m] = "queued" ~> status[m] \in Terminal

(* No execution stays in the executions map forever. *)
ExecutionsReleased ==
  \A m \in Messages : m \in tracked ~> m \notin tracked

-----------------------------------------------------------------------------
(* What the repository says and the code does not do. *)

(* The transition table of sandbox.ts; "none" stands for the missing row. *)
Transitions ==
  [none |-> {"creating"}, creating |-> {"ready", "failed", "stopping"},
   ready |-> {"stopping", "failed"}, failed |-> {"deleted"}]

(* A sandbox row moves only along the transition table. *)
SandboxTransitions ==
  [][sandbox' # sandbox => sandbox' \in Transitions[sandbox]]_vars

(***************************************************************************)
(* docs/modules/sandbox-service/README.md: "GitHub provisioning clones the *)
(* selected repository": it is never attempted from a fixture directory.   *)
(***************************************************************************)
GitHubClonesRepository ==
  \A m \in Messages :
    pc[m] = "provision" /\ repoSource = "github" => m \in sourced
=============================================================================
