---------------------- MODULE MessageProcessingProofs ----------------------
(***************************************************************************)
(* Theorems about MessageProcessing, for any set of messages and clients,  *)
(* any number of crashes and any set of failing calls.                     *)
(*                                                                         *)
(* The inductive invariant is Inv: the type invariant, the agreement of    *)
(* the session lock with the statuses, and the agreement of the event      *)
(* stream with the statuses.  The last two need only what a step does to   *)
(* the three rows, so every step is first shown to be a RowsStep: it       *)
(* leaves the rows alone, queues a message, starts it, or settles it.      *)
(***************************************************************************)
EXTENDS MessageProcessing, TLAPS

Inv == TypeOK /\ LockMatchesStatus /\ OneOutcome

-----------------------------------------------------------------------------
(* The two tables of labels. *)

(* A checkpoint is one of the labels with an entry in After. *)
LEMMA CheckpointLabels ==
  Checkpoints = {"scheduled", "ensured", "ready", "unready", "branched",
                 "started", "answered", "diffed", "caught"}
BY DEF Checkpoints, After

(* A checkpoint goes on to a label. *)
LEMMA NextCallIsLabel ==
  ASSUME NEW l \in Checkpoints
  PROVE  NextCall(l) \in Labels
BY CheckpointLabels DEF NextCall, After, Labels, Catches

(* An exception is caught at a label. *)
LEMMA CatchIsLabel ==
  ASSUME NEW l \in DOMAIN Catches
  PROVE  Catches[l] \in Labels
BY DEF Catches, Labels, Checkpoints, After

-----------------------------------------------------------------------------
(* Type correctness: what the shared operators do to the typed variables. *)

(* Appending events keeps the counts natural numbers. *)
LEMMA PostTyped ==
  ASSUME NEW m \in Messages, NEW events, TypeOK, Post(m, events)
  PROVE  posted' \in [Messages -> [EventTypes -> Nat]]
BY DEF Post, TypeOK

(* The terminal transaction keeps the three rows typed. *)
LEMMA SettleTyped ==
  ASSUME NEW m \in Messages, NEW o \in Terminal, NEW extra, TypeOK,
         Settle(m, o, extra)
  PROVE  /\ status' \in [Messages -> {"none"} \cup Unfinished \cup Terminal]
         /\ active' \in Messages \cup {NoMessage}
         /\ posted' \in [Messages -> [EventTypes -> Nat]]
<1>1. posted' \in [Messages -> [EventTypes -> Nat]]
  BY PostTyped DEF Settle
<1> QED BY <1>1 DEF Settle, TypeOK

(* Moving an execution to a label keeps pc typed. *)
LEMMA GotoTyped ==
  ASSUME NEW m \in Messages, NEW l \in Labels, TypeOK, Goto(m, l)
  PROVE  pc' \in [Messages -> Labels]
BY DEF Goto, TypeOK

(* The finally block keeps pc and the executions map typed. *)
LEMMA FinishTyped ==
  ASSUME NEW m \in Messages, TypeOK, Finish(m)
  PROVE  pc' \in [Messages -> Labels] /\ tracked' \subseteq Messages
<1>1. "finished" \in Labels
  BY DEF Labels
<1>2. pc' \in [Messages -> Labels]
  BY <1>1, GotoTyped DEF Finish
<1> QED BY <1>2 DEF Finish, TypeOK

(* The answer of a cancel call keeps the requests typed. *)
LEMMA RespondTyped ==
  ASSUME TypeOK, NEW c \in Cancellers,
         NEW answer \in {"none", "no_active_message", "cancelled", "cancelling",
                         "already_terminal", "error"},
         Respond(c, answer), request[c].target \in Messages
  PROVE  /\ request' \in [Cancellers ->
              [at : {"idle", "status", "decide", "direct"},
               target : Messages \cup {NoMessage},
               answer : {"none", "no_active_message", "cancelled", "cancelling",
                         "already_terminal", "error"}]]
         /\ \A d \in Cancellers :
              request'[d].at # "idle" => request'[d].target \in Messages
<1> DEFINE Answers == {"none", "no_active_message", "cancelled", "cancelling",
                       "already_terminal", "error"}
           Requests == [at : {"idle", "status", "decide", "direct"},
                        target : Messages \cup {NoMessage},
                        answer : Answers]
           next == [at |-> "idle", target |-> request[c].target,
                    answer |-> answer]
<1>1. request \in [Cancellers -> Requests]
  BY DEF TypeOK
<1>2. request' = [request EXCEPT ![c] = next]
  BY <1>1 DEF Respond
<1>3. next \in Requests
  BY <1>1
<1>4. request' \in [Cancellers -> Requests]
  BY <1>1, <1>2, <1>3
<1>5. \A d \in Cancellers :
        request'[d].at # "idle" => request'[d].target \in Messages
  BY <1>1, <1>2 DEF TypeOK
<1> QED BY <1>4, <1>5

(* The initial state is typed. *)
LEMMA InitTyped == Init => TypeOK
BY CrashAssumption DEF Init, TypeOK, Idle, Labels

(* Every step of an execution, a cancellation or a client keeps the types. *)
LEMMA ExecuteTyped ==
  ASSUME NEW m \in Messages, TypeOK, Execute(m)
  PROVE  TypeOK'
<1> USE DEF rows, sandboxVars, memory
<1>1. CASE ProcessMessage(m)
  BY <1>1 DEF TypeOK, ProcessMessage, Goto, Labels, Checkpoints, After
<1>2. CASE CheckpointPassed(m)
  <2>1. pc' \in [Messages -> Labels]
    BY <1>2, NextCallIsLabel, GotoTyped DEF CheckpointPassed
  <2> QED BY <1>2, <2>1 DEF TypeOK, CheckpointPassed, BindSandbox
<1>3. CASE CheckpointCancelled(m)
  <2>1. pc' \in [Messages -> Labels] /\ tracked' \subseteq Messages
    <3>1. CASE Finish(m)
      BY <3>1, FinishTyped
    <3>2. CASE Goto(m, "awaiting") /\ UNCHANGED tracked
      BY <3>2, GotoTyped DEF Labels, TypeOK
    <3> QED BY <1>3, <3>1, <3>2 DEF CheckpointCancelled
  <2>2. bound' \subseteq Messages
    BY <1>3 DEF TypeOK, CheckpointCancelled, BindSandbox
  <2>3. cancellation' \in
          [Messages -> {"none", "diff", "commit", "settle", "done"}]
    BY <1>3 DEF TypeOK, CheckpointCancelled, StartCancellation
  <2> QED BY <1>3, <2>1, <2>2, <2>3 DEF TypeOK, CheckpointCancelled
<1>4. CASE EnsureSandbox(m)
  BY <1>4 DEF TypeOK, EnsureSandbox, Goto, Labels, Checkpoints, After, Catches
<1>5. CASE CreateSandbox(m)
  BY <1>5 DEF TypeOK, CreateSandbox, Goto, Labels, Checkpoints, After
<1>6. CASE ReadSandbox(m)
  <2>1. CASE sandbox = "ready"
    BY <1>6, <2>1 DEF TypeOK, ReadSandbox, Goto, Labels, Checkpoints, After
  <2>2. CASE sandbox = "creating"
    BY <1>6, <2>2 DEF TypeOK, ReadSandbox, Goto, Labels, Catches
  <2>3. CASE sandbox \notin {"ready", "creating"}
    BY <1>6, <2>3 DEF TypeOK, ReadSandbox, Goto, Labels, Checkpoints, After
  <2> QED BY <2>1, <2>2, <2>3
<1>7. CASE CreateContainer(m)
  BY <1>7 DEF TypeOK, CreateContainer, Goto, Labels, Catches
<1>8. CASE PopulateContainer(m)
  BY <1>8 DEF TypeOK, PopulateContainer, Goto, Labels, Catches
<1>9. CASE MarkSandbox(m)
  BY <1>9 DEF TypeOK, MarkSandbox, Goto, Labels, Checkpoints, After
<1>10. CASE PrepareBranch(m)
  BY <1>10 DEF TypeOK, PrepareBranch, Goto, Labels, Checkpoints, After
<1>11. CASE StartMessageProcessing(m)
  <2>1. CASE status[m] = "queued"
    <3>1. posted' \in [Messages -> [EventTypes -> Nat]]
      BY <1>11, <2>1, PostTyped DEF StartMessageProcessing
    <3> QED
      BY <1>11, <2>1, <3>1 DEF TypeOK, StartMessageProcessing, Goto, Labels,
                               Checkpoints, After, Unfinished
  <2>2. CASE status[m] # "queued"
    BY <1>11, <2>2, FinishTyped DEF TypeOK, StartMessageProcessing
  <2> QED BY <2>1, <2>2
<1>12. CASE AgentTurn(m)
  BY <1>12 DEF TypeOK, AgentTurn, Goto, Labels, Checkpoints, After
<1>13. CASE DiffWorkspace(m)
  BY <1>13 DEF TypeOK, DiffWorkspace, Goto, Labels, Checkpoints, After
<1>14. CASE RecordArtifacts(m)
  BY <1>14 DEF TypeOK, RecordArtifacts, Goto, Labels, Catches
<1>15. CASE CompleteMessageProcessing(m)
  <2>1. CASE status[m] = "working"
    <3>1. "finalize" \in Labels /\ "completed" \in Terminal
      BY DEF Labels, Terminal
    <3> QED
      BY <1>15, <2>1, <3>1, SettleTyped, GotoTyped
         DEF TypeOK, CompleteMessageProcessing
  <2>2. CASE status[m] # "working"
    BY <1>15, <2>2, FinishTyped DEF TypeOK, CompleteMessageProcessing
  <2> QED BY <2>1, <2>2
<1>16. CASE FailMessageProcessing(m)
  <2>1. CASE status[m] \in Unfinished
    <3>1. "finalize" \in Labels /\ "failed" \in Terminal
      BY DEF Labels, Terminal
    <3> QED
      BY <1>16, <2>1, <3>1, SettleTyped, GotoTyped
         DEF TypeOK, FailMessageProcessing
  <2>2. CASE status[m] \notin Unfinished
    BY <1>16, <2>2, FinishTyped DEF TypeOK, FailMessageProcessing
  <2> QED BY <2>1, <2>2
<1>17. CASE FinalizeTrace(m)
  BY <1>17, FinishTyped DEF TypeOK, FinalizeTrace
<1>18. CASE Throw(m)
  <2>1. pc' \in [Messages -> Labels] /\ tracked' \subseteq Messages
    <3>1. CASE /\ pc[m] \in DOMAIN Catches
               /\ Goto(m, Catches[pc[m]])
               /\ UNCHANGED tracked
      BY <3>1, CatchIsLabel, GotoTyped DEF TypeOK
    <3>2. CASE Finish(m)
      BY <3>2, FinishTyped
    <3> QED BY <1>18, <3>1, <3>2 DEF Throw
  <2> QED BY <1>18, <2>1 DEF TypeOK, Throw
<1> QED
  BY <1>1, <1>2, <1>3, <1>4, <1>5, <1>6, <1>7, <1>8, <1>9, <1>10, <1>11,
     <1>12, <1>13, <1>14, <1>15, <1>16, <1>17, <1>18 DEF Execute

(* A step of a cancellation keeps TypeOK. *)
LEMMA CancelTyped ==
  ASSUME NEW m \in Messages, TypeOK, Cancel(m)
  PROVE  TypeOK'
<1> USE DEF rows, sandboxVars, memory
<1>1. CASE CancelDiff(m)
  BY <1>1 DEF TypeOK, CancelDiff
<1>2. CASE CancelCommit(m)
  <2>1. "cancelled" \in Terminal
    BY DEF Terminal
  <2> QED BY <1>2, <2>1, SettleTyped DEF TypeOK, CancelCommit
<1>3. CASE CancelSettled(m)
  BY <1>3 DEF TypeOK, CancelSettled, Labels
<1>4. CASE CancelFailed(m)
  BY <1>4 DEF TypeOK, CancelFailed, Labels
<1> QED BY <1>1, <1>2, <1>3, <1>4 DEF Cancel

(* A step of a client keeps TypeOK. *)
LEMMA ClientTyped ==
  ASSUME NEW c \in Cancellers, TypeOK, CancelRead(c) \/ Handle(c)
  PROVE  TypeOK'
<1> USE DEF rows, sandboxVars, memory
<1>1. CASE CancelRead(c)
  BY <1>1 DEF TypeOK, CancelRead
<1>2. ASSUME Handle(c) PROVE request[c].target \in Messages
  BY <1>2 DEF TypeOK, Handle, CancelStatus, RequestCancellation,
              CancelUntracked, CancelDirectly, CancelDirectlyFailed
<1>3. CASE CancelStatus(c)
  <2>1. CASE status[request[c].target] = "cancelled"
    <3>1. Respond(c, "cancelled")
      BY <1>3, <2>1 DEF CancelStatus
    <3> QED
      BY <1>2, <1>3, <3>1, RespondTyped DEF TypeOK, CancelStatus, Handle
  <2>2. CASE status[request[c].target] \in {"completed", "failed"}
    <3>1. Respond(c, "already_terminal")
      BY <1>3, <2>2 DEF CancelStatus
    <3> QED
      BY <1>2, <1>3, <3>1, RespondTyped DEF TypeOK, CancelStatus, Handle
  <2>3. CASE status[request[c].target] \notin {"cancelled", "completed", "failed"}
    <3>1. request' = [request EXCEPT ![c].at = "decide"]
      BY <1>3, <2>3 DEF CancelStatus
    <3> QED BY <1>2, <1>3, <3>1 DEF TypeOK, CancelStatus, Handle
  <2> QED BY <2>1, <2>2, <2>3
<1>4. CASE RequestCancellation(c)
  <2>1. Respond(c, "cancelling") /\ request[c].target \in Messages
    BY <1>2, <1>4 DEF RequestCancellation, Handle
  <2>2. cancelRequested' \subseteq Messages
    BY <1>4, <2>1 DEF TypeOK, RequestCancellation
  <2>3. cancellation' \in
          [Messages -> {"none", "diff", "commit", "settle", "done"}]
    BY <1>4, <2>1 DEF TypeOK, RequestCancellation, StartCancellation
  <2> QED
    BY <1>4, <2>1, <2>2, <2>3, RespondTyped DEF TypeOK, RequestCancellation
<1>5. CASE CancelUntracked(c)
  BY <1>2, <1>5 DEF TypeOK, CancelUntracked, Handle
<1>6. CASE CancelDirectly(c)
  <2> DEFINE m == request[c].target
  <2>1. m \in Messages
    BY <1>2, <1>6 DEF Handle
  <2>2. CASE status[m] \in Unfinished
    <3>1. Settle(m, "cancelled", {}) /\ Respond(c, "cancelled")
      BY <1>6, <2>2 DEF CancelDirectly
    <3>2. "cancelled" \in Terminal
      BY DEF Terminal
    <3> HIDE DEF m
    <3>3. TypeOK => /\ status' \in [Messages -> {"none"} \cup Unfinished \cup Terminal]
                    /\ active' \in Messages \cup {NoMessage}
                    /\ posted' \in [Messages -> [EventTypes -> Nat]]
      BY <2>1, <3>1, <3>2, SettleTyped
    <3> QED
      BY <1>6, <2>1, <3>1, <3>3, RespondTyped DEF TypeOK, CancelDirectly, m
  <2>3. CASE status[m] \notin Unfinished
    <3>1. Respond(c, "cancelling") /\ UNCHANGED rows
      BY <1>6, <2>3 DEF CancelDirectly
    <3> QED
      BY <1>6, <2>1, <3>1, RespondTyped DEF TypeOK, CancelDirectly
  <2> QED BY <2>2, <2>3
<1>7. CASE CancelDirectlyFailed(c)
  <2>1. Respond(c, "error") /\ request[c].target \in Messages
    BY <1>2, <1>7 DEF CancelDirectlyFailed, Handle
  <2> QED BY <1>7, <2>1, RespondTyped DEF TypeOK, CancelDirectlyFailed
<1> QED BY <1>1, <1>3, <1>4, <1>5, <1>6, <1>7 DEF Handle

(* So does the crash of the server. *)
LEMMA CrashTyped ==
  ASSUME TypeOK, Crash
  PROVE  TypeOK'
BY CrashAssumption
   DEF TypeOK, Crash, Idle, Labels, rows, sandboxVars, memory

(***************************************************************************)
(* Whatever messages, clients, crashes and failing calls there are, the    *)
(* rows, the executions map and the requests hold values of their kind.    *)
(***************************************************************************)
LEMMA StepTyped == TypeOK /\ [Next]_vars => TypeOK'
<1> SUFFICES ASSUME TypeOK, [Next]_vars
             PROVE  TypeOK'
  OBVIOUS
<1>1. CASE \E m \in Messages : AppendMessage(m)
  <2> PICK m \in Messages : AppendMessage(m)
    BY <1>1
  <2>1. posted' \in [Messages -> [EventTypes -> Nat]]
    BY PostTyped DEF AppendMessage
  <2> QED
    BY <2>1 DEF TypeOK, AppendMessage, Goto, Labels, Unfinished, sandboxVars,
                memory
<1>2. CASE \E m \in Messages : Execute(m) \/ Cancel(m)
  BY <1>2, ExecuteTyped, CancelTyped
<1>3. CASE \E c \in Cancellers : CancelRead(c) \/ Handle(c)
  BY <1>3, ClientTyped
<1>4. CASE Crash
  BY <1>4, CrashTyped
<1>5. CASE UNCHANGED vars
  BY <1>5 DEF TypeOK, vars, rows, sandboxVars, memory
<1> QED BY <1>1, <1>2, <1>3, <1>4, <1>5 DEF Next

(* The rows, the executions map and the requests always keep values of     *)
(* their kind: no step of message-processing.ts leaves them elsewhere.     *)
THEOREM TypeCorrect == Spec => []TypeOK
<1>1. Init => TypeOK
  BY InitTyped
<1>2. TypeOK /\ [Next]_vars => TypeOK'
  BY StepTyped
<1> QED BY <1>1, <1>2, PTL DEF Spec

-----------------------------------------------------------------------------
(***************************************************************************)
(* What one step may do to the rows of the session: nothing, or one of     *)
(* three transactions on one message.                                      *)
(***************************************************************************)
Queued(m) ==
  /\ status[m] = "none"
  /\ active = NoMessage
  /\ status' = [status EXCEPT ![m] = "queued"]
  /\ active' = m
  /\ Post(m, {"message_processing_requested"})

Started(m) ==
  /\ status[m] = "queued"
  /\ status' = [status EXCEPT ![m] = "working"]
  /\ Post(m, {"message_processing_started"})
  /\ UNCHANGED active

Settled(m) ==
  \E o \in Terminal, extra \in SUBSET {"assistant_message_created",
                                       "artifact_created"} :
    /\ status[m] \in Unfinished
    /\ "assistant_message_created" \in extra <=> o = "completed"
    /\ Settle(m, o, extra)

RowsStep ==
  \/ UNCHANGED rows
  \/ \E m \in Messages : Queued(m) \/ Started(m) \/ Settled(m)

(* A step of an execution. *)
LEMMA ExecuteRows ==
  ASSUME NEW m \in Messages, Execute(m)
  PROVE  RowsStep
<1>1. CASE StartMessageProcessing(m)
  <2>1. CASE status[m] = "queued"
    BY <1>1, <2>1 DEF StartMessageProcessing, Started, RowsStep
  <2>2. CASE status[m] # "queued"
    BY <1>1, <2>2 DEF StartMessageProcessing, RowsStep, rows
  <2> QED BY <2>1, <2>2
<1>2. CASE CompleteMessageProcessing(m)
  <2>1. CASE status[m] = "working"
    <3> DEFINE extra == {"assistant_message_created"} \cup
                          (IF m \in artifacts THEN {"artifact_created"} ELSE {})
    <3>1. Settle(m, "completed", extra)
      BY <1>2, <2>1 DEF CompleteMessageProcessing
    <3>2. /\ extra \in SUBSET {"assistant_message_created", "artifact_created"}
          /\ "assistant_message_created" \in extra
      OBVIOUS
    <3>3. "completed" \in Terminal /\ status[m] \in Unfinished
      BY <2>1 DEF Terminal, Unfinished
    <3> HIDE DEF extra
    <3> QED BY <3>1, <3>2, <3>3 DEF Settled, RowsStep
  <2>2. CASE status[m] # "working"
    BY <1>2, <2>2 DEF CompleteMessageProcessing, RowsStep
  <2> QED BY <2>1, <2>2
<1>3. CASE FailMessageProcessing(m)
  <2>1. CASE status[m] \in Unfinished
    <3>1. Settle(m, "failed", {})
      BY <1>3, <2>1 DEF FailMessageProcessing
    <3>2. "failed" \in Terminal /\ "failed" # "completed"
      BY DEF Terminal
    <3> QED BY <2>1, <3>1, <3>2 DEF Settled, RowsStep
  <2>2. CASE status[m] \notin Unfinished
    BY <1>3, <2>2 DEF FailMessageProcessing, RowsStep
  <2> QED BY <2>1, <2>2
<1>4. CASE ~ (\/ StartMessageProcessing(m) \/ CompleteMessageProcessing(m)
              \/ FailMessageProcessing(m))
  <2>1. UNCHANGED rows
    BY <1>4 DEF Execute, ProcessMessage, CheckpointPassed, CheckpointCancelled,
                EnsureSandbox, CreateSandbox, ReadSandbox, CreateContainer,
                PopulateContainer, MarkSandbox, PrepareBranch, AgentTurn,
                DiffWorkspace, RecordArtifacts, FinalizeTrace, Throw
  <2> QED BY <2>1 DEF RowsStep
<1> QED BY <1>1, <1>2, <1>3, <1>4

(* A transaction that cancels a message, by either way of cancelling. *)
LEMMA CancellationRows ==
  ASSUME NEW m \in Messages, status[m] \in Unfinished,
         Settle(m, "cancelled", {})
  PROVE  RowsStep
<1>1. "cancelled" \in Terminal /\ "cancelled" # "completed"
  BY DEF Terminal
<1> QED BY <1>1 DEF Settled, RowsStep

(* A cancellation changes the rows only as Settled does. *)
LEMMA CancelRows ==
  ASSUME NEW m \in Messages, Cancel(m)
  PROVE  RowsStep
<1>1. CASE CancelCommit(m)
  BY <1>1, CancellationRows DEF CancelCommit, RowsStep
<1>2. CASE CancelDiff(m) \/ CancelSettled(m) \/ CancelFailed(m)
  BY <1>2 DEF CancelDiff, CancelSettled, CancelFailed, RowsStep
<1> QED BY <1>1, <1>2 DEF Cancel

(* A client changes the rows only by queueing a message or cancelling one. *)
LEMMA ClientRows ==
  ASSUME NEW c \in Cancellers, TypeOK, CancelRead(c) \/ Handle(c)
  PROVE  RowsStep
<1>1. CASE CancelDirectly(c)
  <2>1. request[c].target \in Messages
    BY <1>1 DEF TypeOK, CancelDirectly
  <2> QED BY <1>1, <2>1, CancellationRows DEF CancelDirectly, RowsStep
<1>2. CASE ~ CancelDirectly(c)
  BY <1>2 DEF CancelRead, Handle, CancelStatus, RequestCancellation,
              CancelUntracked, CancelDirectlyFailed, RowsStep
<1> QED BY <1>1, <1>2

(* Every step is one of the three transactions on the rows, or leaves them. *)
LEMMA StepRows == TypeOK /\ [Next]_vars => RowsStep
<1> SUFFICES ASSUME TypeOK, [Next]_vars
             PROVE  RowsStep
  OBVIOUS
<1>1. CASE \E m \in Messages : AppendMessage(m)
  BY <1>1 DEF AppendMessage, Queued, RowsStep
<1>2. CASE \E m \in Messages : Execute(m) \/ Cancel(m)
  BY <1>2, ExecuteRows, CancelRows
<1>3. CASE \E c \in Cancellers : CancelRead(c) \/ Handle(c)
  BY <1>3, ClientRows
<1>4. CASE Crash \/ UNCHANGED vars
  BY <1>4 DEF Crash, vars, RowsStep
<1> QED BY <1>1, <1>2, <1>3, <1>4 DEF Next

-----------------------------------------------------------------------------
(* The invariant is inductive. *)

(* Settling a message frees exactly the lock it held. *)
LEMMA LockStep ==
  ASSUME TypeOK, LockMatchesStatus, RowsStep
  PROVE  LockMatchesStatus'
<1>1. CASE UNCHANGED rows
  BY <1>1 DEF rows, LockMatchesStatus
<1>2. CASE \E m \in Messages : Queued(m)
  BY <1>2, MessagesAssumption DEF Queued, TypeOK, LockMatchesStatus, Unfinished
<1>3. CASE \E m \in Messages : Started(m)
  BY <1>3 DEF Started, TypeOK, LockMatchesStatus, Unfinished
<1>4. CASE \E m \in Messages : Settled(m)
  BY <1>4, MessagesAssumption
     DEF Settled, Settle, TypeOK, LockMatchesStatus, Unfinished, Terminal
<1> QED BY <1>1, <1>2, <1>3, <1>4 DEF RowsStep

(* What appending events does to the counts. *)
LEMMA PostCounts ==
  ASSUME TypeOK, NEW m \in Messages, NEW events, Post(m, events)
  PROVE  /\ \A n \in Messages \ {m} : posted'[n] = posted[n]
         /\ \A e \in EventTypes :
              posted'[m][e] =
                IF e \in events THEN posted[m][e] + 1 ELSE posted[m][e]
BY DEF TypeOK, Post

(* Each outcome has a lifecycle event of its own. *)
LEMMA OutcomeEvents ==
  /\ \A o \in Terminal : OutcomeEvent[o] \in EventTypes
  /\ \A o, p \in Terminal : OutcomeEvent[o] = OutcomeEvent[p] => o = p
  /\ \A o \in Terminal :
       OutcomeEvent[o] \notin
         {"message_processing_requested", "message_processing_started",
          "message_result_ready", "assistant_message_created",
          "artifact_created"}
  /\ {"message_processing_requested", "message_processing_started",
      "message_result_ready", "assistant_message_created",
      "artifact_created"} \subseteq EventTypes
BY DEF OutcomeEvent, EventTypes, Terminal

(* The guarded update writes the only outcome a message ever gets. *)
LEMMA OutcomeStep ==
  ASSUME TypeOK, OneOutcome, RowsStep
  PROVE  OneOutcome'
<1>1. CASE UNCHANGED rows
  BY <1>1 DEF rows, OneOutcome
<1>2. ASSUME NEW m \in Messages, Queued(m) \/ Started(m)
      PROVE  OneOutcome'
  <2>1. PICK events \in SUBSET {"message_processing_requested",
                                "message_processing_started"} :
          Post(m, events)
    BY <1>2 DEF Queued, Started
  <2>2. /\ \A n \in Messages \ {m} : posted'[n] = posted[n]
        /\ \A e \in EventTypes \ events : posted'[m][e] = posted[m][e]
    BY <2>1, PostCounts
  <2>3. /\ \A n \in Messages \ {m} : status'[n] = status[n]
        /\ status[m] \notin Terminal /\ status'[m] \notin Terminal
    BY <1>2 DEF Queued, Started, TypeOK, Terminal
  <2>4. "completed" \in Terminal
    BY DEF Terminal
  <2>5. /\ \A o \in Terminal : OutcomeEvent[o] \in EventTypes \ events
        /\ "message_result_ready" \in EventTypes \ events
        /\ "assistant_message_created" \in EventTypes \ events
    BY OutcomeEvents
  <2>6. /\ \A o \in Terminal : posted'[m][OutcomeEvent[o]] = 0
        /\ posted'[m]["message_result_ready"] = 0
        /\ posted'[m]["assistant_message_created"] = 0
    BY <2>2, <2>3, <2>4, <2>5 DEF OneOutcome
  <2> QED BY <2>2, <2>3, <2>4, <2>6 DEF OneOutcome
<1>3. ASSUME NEW m \in Messages, Settled(m)
      PROVE  OneOutcome'
  <2>1. PICK o \in Terminal, extra \in SUBSET {"assistant_message_created",
                                               "artifact_created"} :
          /\ status[m] \in Unfinished
          /\ "assistant_message_created" \in extra <=> o = "completed"
          /\ Settle(m, o, extra)
    BY <1>3 DEF Settled
  <2> DEFINE events == {OutcomeEvent[o], "message_result_ready"} \cup extra
  <2>2. Post(m, events)
    BY <2>1 DEF Settle
  <2>3. /\ \A n \in Messages \ {m} : status'[n] = status[n]
        /\ status[m] \notin Terminal /\ status'[m] = o
    BY <2>1 DEF Settle, TypeOK, Unfinished, Terminal
  <2>4. "completed" \in Terminal
    BY DEF Terminal
  <2>5. /\ \A p \in Terminal : posted[m][OutcomeEvent[p]] = 0
        /\ posted[m]["message_result_ready"] = 0
        /\ posted[m]["assistant_message_created"] = 0
    BY <2>3, <2>4 DEF OneOutcome
  <2>6. /\ \A p \in Terminal : OutcomeEvent[p] \in events <=> p = o
        /\ "message_result_ready" \in events
        /\ "assistant_message_created" \in events <=> o = "completed"
    BY <2>1, OutcomeEvents
  <2> HIDE DEF events
  <2>7. /\ \A n \in Messages \ {m} : posted'[n] = posted[n]
        /\ \A e \in EventTypes :
              posted'[m][e] =
                IF e \in events THEN posted[m][e] + 1 ELSE posted[m][e]
    BY <2>2, PostCounts
  <2>8. /\ \A p \in Terminal :
             posted'[m][OutcomeEvent[p]] = IF status'[m] = p THEN 1 ELSE 0
        /\ posted'[m]["message_result_ready"] = 1
        /\ posted'[m]["assistant_message_created"] =
             IF status'[m] = "completed" THEN 1 ELSE 0
    BY <2>3, <2>5, <2>6, <2>7, OutcomeEvents
  <2> QED BY <2>3, <2>4, <2>7, <2>8 DEF OneOutcome
<1> QED BY <1>1, <1>2, <1>3 DEF RowsStep

(* Inv holds at first, and every step keeps it. *)
LEMMA InvInductive ==
  /\ Init => Inv
  /\ Inv /\ [Next]_vars => Inv'
<1>1. Init => LockMatchesStatus
  BY MessagesAssumption DEF Init, LockMatchesStatus, Unfinished
<1>2. ASSUME Init PROVE OneOutcome
  <2>1. \A m \in Messages : status[m] \notin Terminal
    BY <1>2 DEF Init, Terminal
  <2>2. \A m \in Messages, e \in EventTypes : posted[m][e] = 0
    BY <1>2 DEF Init
  <2>3. "completed" \in Terminal
    BY DEF Terminal
  <2> QED BY <2>1, <2>2, <2>3, OutcomeEvents DEF OneOutcome
<1>3. Init => Inv
  BY <1>1, <1>2, InitTyped DEF Inv
<1>4. Inv /\ [Next]_vars => Inv'
  BY StepTyped, StepRows, LockStep, OutcomeStep DEF Inv
<1> QED BY <1>3, <1>4

(* The three invariants together, which the theorems below project. *)
LEMMA InvCorrect == Spec => []Inv
BY InvInductive, PTL DEF Spec

(***************************************************************************)
(* The lock names a message exactly while it is queued or working.         *)
(***************************************************************************)
THEOREM LockCorrect == Spec => []LockMatchesStatus
<1>1. Inv => LockMatchesStatus
  BY DEF Inv
<1> QED BY <1>1, InvCorrect, PTL

(***************************************************************************)
(* However the terminal transactions of a message race, its stream holds   *)
(* one outcome, that of its status.                                        *)
(***************************************************************************)
THEOREM OutcomeCorrect == Spec => []OneOutcome
<1>1. Inv => OneOutcome
  BY DEF Inv
<1> QED BY <1>1, InvCorrect, PTL

(***************************************************************************)
(* A message that is completed, failed or cancelled stays so, and no event *)
(* of its lifecycle is appended after that of its outcome.                 *)
(***************************************************************************)
THEOREM TerminalIsFinalCorrect == Spec => TerminalIsFinal
<1> DEFINE Final ==
      \A m \in Messages :
        status[m] \in Terminal =>
          status'[m] = status[m] /\ posted'[m] = posted[m]
<1>1. TypeOK /\ RowsStep => Final
  <2> SUFFICES ASSUME TypeOK, RowsStep PROVE Final
    OBVIOUS
  <2>1. CASE UNCHANGED rows
    BY <2>1 DEF rows
  <2>2. ASSUME NEW m \in Messages, Queued(m) \/ Started(m) \/ Settled(m)
        PROVE  Final
    <3>1. status[m] \notin Terminal
      BY <2>2 DEF Queued, Started, Settled, Terminal, Unfinished
    <3>2. \A n \in Messages \ {m} :
            status'[n] = status[n] /\ posted'[n] = posted[n]
      BY <2>2 DEF Queued, Started, Settled, Settle, Post, TypeOK
    <3> QED BY <3>1, <3>2
  <2> QED BY <2>1, <2>2 DEF RowsStep
<1>2. TypeOK /\ [Next]_vars => [Final]_vars
  BY <1>1, StepRows
<1>3. Init /\ [][Next]_vars => [][Final]_vars
  BY <1>2, InitTyped, StepTyped, PTL
<1> QED BY <1>3 DEF Spec, TerminalIsFinal

-----------------------------------------------------------------------------
(* The refinement of SessionMailbox. *)

(* The mailbox's outcome of a message in terms of its status. *)
LEMMA OutcomeOfStatus ==
  ASSUME NEW m \in Messages
  PROVE  /\ status[m] = "none" => Outcome[m] = "unsent"
         /\ status[m] \in Unfinished => Outcome[m] = "pending"
         /\ status[m] \in Terminal => Outcome[m] = status[m]
BY DEF Outcome, Unfinished, Terminal

(* Changing one status changes one outcome. *)
LEMMA OutcomeUpdate ==
  ASSUME TypeOK, TypeOK', NEW m \in Messages,
         NEW s, NEW o, status' = [status EXCEPT ![m] = s], Outcome'[m] = o
  PROVE  Outcome' = [Outcome EXCEPT ![m] = o]
<1>1. \A n \in Messages \ {m} : status'[n] = status[n]
  BY DEF TypeOK
<1>2. \A n \in Messages \ {m} : Outcome'[n] = Outcome[n]
  BY <1>1 DEF Outcome
<1>3. DOMAIN Outcome = Messages /\ DOMAIN Outcome' = Messages
  BY DEF Outcome
<1>4. /\ Outcome' = [n \in Messages |-> Outcome'[n]]
      /\ Outcome = [n \in Messages |-> Outcome[n]]
  BY DEF Outcome
<1> QED BY <1>2, <1>3, <1>4

(* Every step is a step of SessionMailbox or leaves its variables alone. *)
LEMMA MailboxStep ==
  ASSUME TypeOK, TypeOK', LockMatchesStatus, RowsStep
  PROVE  [Mailbox!Next]_(Mailbox!vars)
<1> DEFINE Announced == [m \in Messages |-> posted[m]["message_result_ready"]]
<1>1. CASE UNCHANGED rows
  BY <1>1 DEF rows, Mailbox!vars, Outcome
<1>2. ASSUME NEW m \in Messages, Queued(m)
      PROVE  Mailbox!Accept(m)
  <2>1. Outcome[m] = "unsent"
    BY <1>2, OutcomeOfStatus DEF Queued, TypeOK
  <2>2. status'[m] = "queued"
    BY <1>2 DEF Queued, TypeOK
  <2>3. Outcome'[m] = "pending"
    BY <2>2 DEF Outcome, Unfinished
  <2>4. Outcome' = [Outcome EXCEPT ![m] = "pending"]
    BY <1>2, <2>3, OutcomeUpdate DEF Queued
  <2>5. Announced' = Announced
    BY <1>2 DEF Queued, Post, TypeOK, EventTypes
  <2> QED BY <1>2, <2>1, <2>4, <2>5 DEF Queued, Mailbox!Accept
<1>3. ASSUME NEW m \in Messages, Started(m)
      PROVE  UNCHANGED Mailbox!vars
  <2>1. Outcome[m] = "pending"
    BY <1>3, OutcomeOfStatus DEF Started, TypeOK, Unfinished
  <2>2. status'[m] = "working"
    BY <1>3 DEF Started, TypeOK
  <2>3. Outcome'[m] = "pending"
    BY <2>2 DEF Outcome, Unfinished
  <2>4. Outcome' = [Outcome EXCEPT ![m] = "pending"]
    BY <1>3, <2>3, OutcomeUpdate DEF Started
  <2>5. Outcome' = Outcome
    BY <2>1, <2>4 DEF Outcome
  <2>6. Announced' = Announced
    BY <1>3 DEF Started, Post, TypeOK, EventTypes
  <2> QED BY <1>3, <2>5, <2>6 DEF Started, Mailbox!vars
<1>4. ASSUME NEW m \in Messages, Settled(m)
      PROVE  \E r \in Mailbox!Resolutions : Mailbox!Resolve(m, r)
  <2>1. PICK o \in Terminal, extra \in SUBSET {"assistant_message_created",
                                               "artifact_created"} :
          status[m] \in Unfinished /\ Settle(m, o, extra)
    BY <1>4 DEF Settled
  <2>2. active = m /\ active' = NoMessage
    BY <2>1 DEF LockMatchesStatus, Settle
  <2>3. status'[m] = o
    BY <2>1 DEF Settle, TypeOK
  <2>4. Outcome'[m] = o
    BY <2>3 DEF Outcome, Unfinished, Terminal
  <2>5. Outcome' = [Outcome EXCEPT ![m] = o]
    BY <2>1, <2>4, OutcomeUpdate DEF Settle
  <2>6. Announced' = [Announced EXCEPT ![m] = @ + 1]
    BY <2>1, OutcomeEvents DEF Settle, Post, TypeOK
  <2>7. o \in Mailbox!Resolutions
    BY DEF Terminal, Mailbox!Resolutions
  <2> QED BY <2>2, <2>5, <2>6, <2>7 DEF Mailbox!Resolve
<1> QED BY <1>1, <1>2, <1>3, <1>4 DEF RowsStep, Mailbox!Next

(***************************************************************************)
(* The service implements the mailbox: with any crashes, failing calls and *)
(* clients, every message it accepts is resolved at most once, while it    *)
(* holds the session.                                                      *)
(***************************************************************************)
THEOREM MailboxImplemented == Spec => ImplementsMailbox
<1>1. Init => Mailbox!Init
  BY DEF Init, Mailbox!Init, Outcome, EventTypes
<1>2. Inv /\ Inv' /\ [Next]_vars => [Mailbox!Next]_(Mailbox!vars)
  BY MailboxStep, StepRows DEF Inv
<1> QED BY <1>1, <1>2, InvCorrect, PTL DEF Spec, ImplementsMailbox, Mailbox!Spec
=============================================================================
