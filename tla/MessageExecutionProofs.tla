----------------------- MODULE MessageExecutionProofs -----------------------
(***************************************************************************)
(* Theorems about what MessageProcessing keeps outside the message rows:   *)
(* the executions map, the answers of cancel calls, the artifacts and the  *)
(* sandbox, for any messages, clients, crashes and failing calls.          *)
(*                                                                         *)
(* None of the four invariants is inductive.  Each depends on what the     *)
(* row of a message must already say when its execution, its cancellation  *)
(* or a cancel call is at a certain point; ExecutionInv adds those facts.  *)
(***************************************************************************)
EXTENDS MessageProcessingProofs

(* Answers that say something of the message the call has read. *)
Informed == {"cancelled", "already_terminal", "cancelling"}

(* Executions and cancellations belong to messages that were appended. *)
MessagesKnown ==
  \A m \in Messages :
    pc[m] # "none" \/ cancellation[m] # "none" => status[m] # "none"

(* So do the calls under way and the answers given. *)
RequestsKnown ==
  \A c \in Cancellers :
    request[c].at # "idle" \/ request[c].answer \in Informed =>
      /\ request[c].target \in Messages
      /\ status[request[c].target] # "none"

(* A cancellation gets past its transaction only when the row is terminal. *)
SettledIsTerminal ==
  \A m \in Messages : cancellation[m] = "settle" => status[m] \in Terminal

(* After the completion of a message its execution stores no artifact. *)
CompletedIsOver ==
  \A m \in Messages :
    status[m] = "completed" => pc[m] \in {"finalize", "finished", "lost"}

(* Nor does the execution of a message that failed do anything more. *)
FailedIsOver ==
  \A m \in Messages :
    status[m] = "failed" => pc[m] \in {"finalize", "finished", "lost"}

(* An execution marks the sandbox ready only once it has filled it. *)
MarkedIsPopulated ==
  \A m \in Messages : pc[m] = "markReady" => container = "populated"

Known == MessagesKnown /\ RequestsKnown

ExecutionInv ==
  /\ Known /\ SettledIsTerminal /\ CompletedIsOver /\ FailedIsOver
  /\ MarkedIsPopulated /\ RunningIsTracked /\ CancelAnswersHold /\ ArtifactsAnnounced
  /\ ReadyIsPopulated

-----------------------------------------------------------------------------
(* What a step leaves alone. *)

(* A message never becomes unknown again, and its outcome is final. *)
LEMMA StatusLasts ==
  ASSUME TypeOK, RowsStep, NEW m \in Messages
  PROVE  /\ status[m] # "none" => status'[m] # "none"
         /\ status[m] \in Terminal => status'[m] = status[m]
         /\ status'[m] \in Unfinished /\ status[m] # "none" => status[m] \in Unfinished
<1>1. CASE UNCHANGED rows
  BY <1>1 DEF rows
<1>2. CASE \E n \in Messages : Queued(n)
  BY <1>2 DEF Queued, TypeOK, Terminal, Unfinished
<1>3. CASE \E n \in Messages : Started(n)
  BY <1>3 DEF Started, TypeOK, Terminal, Unfinished
<1>4. CASE \E n \in Messages : Settled(n)
  BY <1>4 DEF Settled, Settle, TypeOK, Terminal, Unfinished
<1> QED BY <1>1, <1>2, <1>3, <1>4 DEF RowsStep

(* The finally block moves only the execution it belongs to. *)
LEMMA FinishLocal ==
  ASSUME TypeOK, NEW m \in Messages, Finish(m)
  PROVE  /\ pc'[m] = "finished"
         /\ \A n \in Messages \ {m} :
              pc'[n] = pc[n] /\ (n \in tracked' <=> n \in tracked)
BY DEF Finish, Goto, TypeOK

(* A step of an execution is its own: that of another message stays where  *)
(* it is, and so do its entry in the map and its cancellation.             *)
LEMMA ExecuteLocal ==
  ASSUME TypeOK, NEW m \in Messages, Execute(m)
  PROVE  /\ pc[m] \notin {"none", "finished", "lost", "awaiting"}
         /\ pc'[m] # "none"
         /\ UNCHANGED <<request, cancelRequested>>
         /\ \A n \in Messages \ {m} :
              /\ pc'[n] = pc[n]
              /\ n \in tracked' <=> n \in tracked
              /\ cancellation'[n] = cancellation[n]
              /\ status'[n] = status[n]
              /\ n \in artifacts' <=> n \in artifacts
<1> USE DEF rows, sandboxVars, memory
<1>1. CASE ProcessMessage(m)
  BY <1>1 DEF TypeOK, ProcessMessage, Goto
<1>2. CASE CheckpointPassed(m)
  <2>1. NextCall(pc[m]) # "none"
    BY <1>2, CheckpointLabels DEF CheckpointPassed, NextCall, After
  <2> QED BY <1>2, <2>1, CheckpointLabels DEF TypeOK, CheckpointPassed, Goto
<1>3. CASE CheckpointCancelled(m)
  <2>1. pc[m] \notin {"none", "finished", "lost", "awaiting"}
    BY <1>3, CheckpointLabels DEF CheckpointCancelled
  <2>2. /\ pc'[m] # "none"
        /\ \A n \in Messages \ {m} : pc'[n] = pc[n] /\ (n \in tracked' <=> n \in tracked)
    <3>1. CASE Finish(m)
      BY <3>1, FinishLocal
    <3>2. CASE Goto(m, "awaiting") /\ UNCHANGED tracked
      BY <3>2 DEF Goto, TypeOK
    <3> QED BY <1>3, <3>1, <3>2 DEF CheckpointCancelled
  <2>3. \A n \in Messages \ {m} : cancellation'[n] = cancellation[n]
    BY <1>3 DEF CheckpointCancelled, StartCancellation, TypeOK
  <2> QED BY <1>3, <2>1, <2>2, <2>3 DEF CheckpointCancelled
<1>4. CASE \/ EnsureSandbox(m)     \/ CreateSandbox(m) \/ CreateContainer(m)
           \/ PopulateContainer(m) \/ MarkSandbox(m)   \/ PrepareBranch(m)
           \/ AgentTurn(m)         \/ DiffWorkspace(m) \/ RecordArtifacts(m)
  BY <1>4 DEF TypeOK, Goto, EnsureSandbox, CreateSandbox, CreateContainer,
              PopulateContainer, MarkSandbox, PrepareBranch, AgentTurn,
              DiffWorkspace, RecordArtifacts
<1>5. CASE ReadSandbox(m)
  <2>1. PICK l \in {"ready", "provision", "unready"} : Goto(m, l)
    BY <1>5 DEF ReadSandbox
  <2> QED BY <1>5, <2>1 DEF TypeOK, Goto, ReadSandbox
<1>6. CASE StartMessageProcessing(m)
  <2>1. CASE status[m] = "queued"
    BY <1>6, <2>1 DEF TypeOK, StartMessageProcessing, Goto
  <2>2. CASE status[m] # "queued"
    BY <1>6, <2>2, FinishLocal DEF StartMessageProcessing
  <2> QED BY <2>1, <2>2
<1>7. CASE CompleteMessageProcessing(m)
  <2>1. CASE status[m] = "working"
    BY <1>7, <2>1 DEF TypeOK, CompleteMessageProcessing, Settle, Goto
  <2>2. CASE status[m] # "working"
    BY <1>7, <2>2, FinishLocal DEF CompleteMessageProcessing
  <2> QED BY <2>1, <2>2
<1>8. CASE FailMessageProcessing(m)
  <2>1. CASE status[m] \in Unfinished
    BY <1>8, <2>1 DEF TypeOK, FailMessageProcessing, Settle, Goto
  <2>2. CASE status[m] \notin Unfinished
    BY <1>8, <2>2, FinishLocal DEF FailMessageProcessing
  <2> QED BY <2>1, <2>2
<1>9. CASE FinalizeTrace(m)
  BY <1>9, FinishLocal DEF FinalizeTrace
<1>10. CASE Throw(m)
  <2>1. CASE pc[m] \in DOMAIN Catches /\ Goto(m, Catches[pc[m]]) /\ UNCHANGED tracked
    BY <1>10, <2>1 DEF TypeOK, Throw, Goto, Catches
  <2>2. CASE pc[m] = "rescuing" /\ Finish(m)
    BY <1>10, <2>2, FinishLocal DEF Throw
  <2> QED BY <1>10, <2>1, <2>2 DEF Throw
<1> QED
  BY <1>1, <1>2, <1>3, <1>4, <1>5, <1>6, <1>7, <1>8, <1>9, <1>10 DEF Execute

(* A step of a cancellation, which may release an execution waiting for it. *)
LEMMA CancelLocal ==
  ASSUME TypeOK, NEW m \in Messages, Cancel(m)
  PROVE  /\ cancellation[m] # "none"
         /\ pc'[m] = pc[m] \/ (pc[m] = "awaiting" /\ pc'[m] = "finished")
         /\ UNCHANGED <<request, cancelRequested, artifacts, sandbox, container>>
         /\ \A n \in Messages \ {m} :
              /\ pc'[n] = pc[n]
              /\ n \in tracked' <=> n \in tracked
              /\ cancellation'[n] = cancellation[n]
              /\ status'[n] = status[n]
<1> USE DEF sandboxVars, rows
<1>1. CASE CancelDiff(m)
  BY <1>1 DEF TypeOK, CancelDiff, rows
<1>2. CASE CancelCommit(m)
  <2>1. CASE status[m] \in Unfinished
    BY <1>2, <2>1 DEF TypeOK, CancelCommit, Settle
  <2>2. CASE status[m] \notin Unfinished
    BY <1>2, <2>2 DEF TypeOK, CancelCommit, rows
  <2> QED BY <2>1, <2>2
<1>3. CASE CancelSettled(m)
  BY <1>3 DEF TypeOK, CancelSettled, rows
<1>4. CASE CancelFailed(m)
  BY <1>4 DEF TypeOK, CancelFailed, rows
<1> QED BY <1>1, <1>2, <1>3, <1>4 DEF Cancel

(* A client changes no execution's place and no other client's call. *)
LEMMA ClientLocal ==
  ASSUME TypeOK, NEW c \in Cancellers, CancelRead(c) \/ Handle(c)
  PROVE  /\ UNCHANGED <<pc, tracked, artifacts, sandbox, container>>
         /\ cancelRequested \subseteq cancelRequested'
         /\ \A d \in Cancellers \ {c} : request'[d] = request[d]
BY
   DEF TypeOK, CancelRead, Handle, CancelStatus, Respond,
       RequestCancellation, CancelUntracked, CancelDirectly,
       CancelDirectlyFailed, memory, sandboxVars

-----------------------------------------------------------------------------
(* What is known of a message stays known, whoever takes a step. *)
LEMMA KnownStep ==
  ASSUME TypeOK, LockMatchesStatus, Known, [Next]_vars
  PROVE  Known'
<1>1. \A m \in Messages : status[m] # "none" => status'[m] # "none"
  BY StepRows, StatusLasts
<1>2. CASE \E m \in Messages : AppendMessage(m)
  <2>1. PICK m \in Messages : AppendMessage(m)
    BY <1>2
  <2>2. MessagesKnown'
    BY <2>1 DEF Known, MessagesKnown, AppendMessage, Goto, TypeOK, memory
  <2>3. RequestsKnown'
    BY <1>1, <2>1 DEF Known, RequestsKnown, AppendMessage
  <2> QED BY <2>2, <2>3 DEF Known
<1>3. CASE \E m \in Messages : Execute(m) \/ Cancel(m)
  <2>1. PICK m \in Messages : Execute(m) \/ Cancel(m)
    BY <1>3
  <2>2. /\ pc[m] # "none" \/ cancellation[m] # "none"
        /\ UNCHANGED request
        /\ \A n \in Messages \ {m} :
             pc'[n] = pc[n] /\ cancellation'[n] = cancellation[n]
    BY <2>1, ExecuteLocal, CancelLocal
  <2>3. MessagesKnown'
    BY <1>1, <2>2 DEF Known, MessagesKnown
  <2>4. RequestsKnown'
    BY <1>1, <2>2 DEF Known, RequestsKnown
  <2> QED BY <2>3, <2>4 DEF Known
<1>4. CASE \E c \in Cancellers : CancelRead(c) \/ Handle(c)
  <2>1. PICK c \in Cancellers : CancelRead(c) \/ Handle(c)
    BY <1>4
  <2>2. MessagesKnown'
    <3>1. CASE RequestCancellation(c)
      BY <1>1, <3>1
         DEF Known, MessagesKnown, RequestsKnown, RequestCancellation,
             StartCancellation, TypeOK
    <3>2. CASE ~ RequestCancellation(c)
      <4>1. UNCHANGED <<pc, cancellation>>
        BY <2>1, <3>2 DEF CancelRead, Handle, CancelStatus, CancelUntracked,
                          CancelDirectly, CancelDirectlyFailed, memory
      <4> QED BY <1>1, <4>1 DEF Known, MessagesKnown
    <3> QED BY <3>1, <3>2
  <2>3. /\ request'[c].at # "idle" \/ request'[c].answer \in Informed
        => /\ request'[c].target \in Messages
           /\ status[request'[c].target] # "none"
    <3>1. CASE CancelRead(c)
      BY <3>1 DEF CancelRead, TypeOK, LockMatchesStatus, Unfinished, Informed
    <3>2. CASE Handle(c)
      <4>1. request[c].target \in Messages /\ status[request[c].target] # "none"
        BY <3>2 DEF Known, RequestsKnown, Handle, CancelStatus, CancelUntracked,
                    RequestCancellation, CancelDirectly, CancelDirectlyFailed
      <4>2. request'[c].target = request[c].target
        BY <3>2 DEF Handle, CancelStatus, CancelUntracked, Respond, TypeOK,
                    RequestCancellation, CancelDirectly, CancelDirectlyFailed
      <4> QED BY <4>1, <4>2
    <3> QED BY <2>1, <3>1, <3>2
  <2>4. RequestsKnown'
    BY <1>1, <2>1, <2>3, ClientLocal DEF Known, RequestsKnown
  <2> QED BY <2>2, <2>4 DEF Known
<1>5. CASE Crash
  BY <1>1, <1>5 DEF Crash, Known, MessagesKnown, RequestsKnown, Idle, Informed
<1>6. CASE UNCHANGED vars
  BY <1>6 DEF vars, rows, memory, Known, MessagesKnown, RequestsKnown
<1> QED BY <1>2, <1>3, <1>4, <1>5, <1>6 DEF Next

-----------------------------------------------------------------------------
(* What a client was told stays true: an outcome is final, and only a      *)
(* crash, which ends the call too, forgets that an execution must stop.    *)
LEMMA AnswersStep ==
  ASSUME TypeOK, Known, CancelAnswersHold, [Next]_vars
  PROVE  CancelAnswersHold'
<1> DEFINE HoldsNext(m, answer) ==
      /\ answer = "cancelled" => status'[m] = "cancelled"
      /\ answer = "already_terminal" => status'[m] \in {"completed", "failed"}
      /\ answer = "cancelling" => status'[m] \in Terminal \/ m \in cancelRequested'
<1>1. \A m \in Messages : status[m] \in Terminal => status'[m] = status[m]
  BY StepRows, StatusLasts
<1>2. ASSUME NEW c \in Cancellers, request'[c] = request[c],
             cancelRequested \subseteq cancelRequested'
      PROVE  HoldsNext(request'[c].target, request'[c].answer)
  BY <1>1, <1>2 DEF CancelAnswersHold, Known, RequestsKnown, Informed, Terminal
<1>3. CASE \E m \in Messages : AppendMessage(m)
  BY <1>2, <1>3 DEF AppendMessage, memory, CancelAnswersHold
<1>4. CASE \E m \in Messages : Execute(m) \/ Cancel(m)
  BY <1>2, <1>4, ExecuteLocal, CancelLocal DEF CancelAnswersHold
<1>5. CASE \E c \in Cancellers : CancelRead(c) \/ Handle(c)
  <2>1. PICK c \in Cancellers : CancelRead(c) \/ Handle(c)
    BY <1>5
  <2>2. \A d \in Cancellers \ {c} : HoldsNext(request'[d].target, request'[d].answer)
    BY <1>2, <2>1, ClientLocal
  <2>3. HoldsNext(request'[c].target, request'[c].answer)
    <3>1. CASE CancelRead(c)
      BY <3>1 DEF CancelRead, TypeOK
    <3>2. CASE Handle(c)
      <4>1. /\ request[c].target \in Messages
            /\ status[request[c].target] \in Unfinished \cup Terminal
        BY <3>2 DEF TypeOK, Known, RequestsKnown, Handle, CancelStatus,
                    CancelUntracked, RequestCancellation, CancelDirectly,
                    CancelDirectlyFailed
      <4>2. CASE CancelStatus(c)
        BY <4>1, <4>2
           DEF CancelStatus, Respond, TypeOK, rows, CancelAnswersHold,
               memory
      <4>3. CASE RequestCancellation(c)
        BY <4>3 DEF RequestCancellation, Respond, TypeOK
      <4>4. CASE CancelUntracked(c)
        BY <4>4, <4>1
           DEF CancelUntracked, TypeOK, rows, memory, CancelAnswersHold
      <4>5. CASE CancelDirectly(c)
        BY <4>1, <4>5 DEF CancelDirectly, Respond, Settle, TypeOK, rows
      <4>6. CASE CancelDirectlyFailed(c)
        BY <4>6 DEF CancelDirectlyFailed, Respond, TypeOK
      <4> QED BY <3>2, <4>2, <4>3, <4>4, <4>5, <4>6 DEF Handle
    <3> QED BY <2>1, <3>1, <3>2
  <2> QED BY <2>2, <2>3 DEF CancelAnswersHold
<1>6. CASE Crash
  BY <1>6 DEF Crash, Idle, CancelAnswersHold
<1>7. CASE UNCHANGED vars
  BY <1>2, <1>7 DEF vars, memory, CancelAnswersHold
<1> QED BY <1>3, <1>4, <1>5, <1>6, <1>7 DEF Next

-----------------------------------------------------------------------------
(* Where a step puts the execution of its message. *)
LEMMA ExecuteMoves ==
  ASSUME TypeOK, NEW m \in Messages, Execute(m)
  PROVE  /\ pc[m] = "finalize" => pc'[m] = "finished"
         /\ m \in tracked' \/ pc'[m] = "finished" \/ m \notin tracked
         /\ pc[m] = "appended" => m \in tracked'
<1> USE DEF rows, sandboxVars, memory
<1>1. CASE ProcessMessage(m)
  BY <1>1 DEF ProcessMessage
<1>2. CASE CheckpointPassed(m)
  BY <1>2, CheckpointLabels DEF CheckpointPassed
<1>3. CASE CheckpointCancelled(m)
  BY <1>3, FinishLocal, CheckpointLabels DEF CheckpointCancelled
<1>4. CASE \/ EnsureSandbox(m)     \/ CreateSandbox(m) \/ CreateContainer(m)
           \/ PopulateContainer(m) \/ MarkSandbox(m)   \/ PrepareBranch(m)
           \/ AgentTurn(m)         \/ DiffWorkspace(m) \/ RecordArtifacts(m)
           \/ ReadSandbox(m)
  BY <1>4 DEF EnsureSandbox, CreateSandbox, CreateContainer, PopulateContainer,
              MarkSandbox, PrepareBranch, AgentTurn, DiffWorkspace,
              RecordArtifacts, ReadSandbox
<1>5. CASE \/ StartMessageProcessing(m) \/ CompleteMessageProcessing(m)
           \/ FailMessageProcessing(m)  \/ FinalizeTrace(m)
  BY <1>5, FinishLocal DEF StartMessageProcessing, CompleteMessageProcessing,
                           FailMessageProcessing, FinalizeTrace
<1>6. CASE Throw(m)
  BY <1>6, FinishLocal DEF Throw, Catches
<1> QED BY <1>1, <1>2, <1>3, <1>4, <1>5, <1>6 DEF Execute

(* A row is terminal before its cancellation is past the transaction. *)
LEMMA SettledStep ==
  ASSUME TypeOK, Known, SettledIsTerminal, [Next]_vars
  PROVE  SettledIsTerminal'
<1>1. \A m \in Messages : status[m] \in Terminal => status'[m] = status[m]
  BY StepRows, StatusLasts
<1>2. ASSUME NEW m \in Messages,
             cancellation'[m] = cancellation[m] \/ cancellation'[m] # "settle"
      PROVE  cancellation'[m] = "settle" => status'[m] \in Terminal
  BY <1>1, <1>2 DEF SettledIsTerminal
<1>3. CASE \E m \in Messages : AppendMessage(m)
  BY <1>2, <1>3 DEF AppendMessage, memory, SettledIsTerminal
<1>4. CASE \E m \in Messages : Execute(m)
  <2>1. PICK m \in Messages : Execute(m)
    BY <1>4
  <2>2. cancellation'[m] = cancellation[m] \/ cancellation'[m] # "settle"
    <3>1. CASE CheckpointCancelled(m)
      BY <3>1 DEF CheckpointCancelled, StartCancellation, TypeOK
    <3>2. CASE ~ CheckpointCancelled(m)
      BY <2>1, <3>2
         DEF memory, Execute, ProcessMessage, CheckpointPassed,
             EnsureSandbox, CreateSandbox, ReadSandbox, CreateContainer,
             PopulateContainer, MarkSandbox, PrepareBranch,
             StartMessageProcessing, AgentTurn, DiffWorkspace,
             RecordArtifacts, CompleteMessageProcessing,
             FailMessageProcessing, FinalizeTrace, Throw
    <3> QED BY <3>1, <3>2
  <2> QED BY <1>2, <2>1, <2>2, ExecuteLocal DEF SettledIsTerminal
<1>5. CASE \E m \in Messages : Cancel(m)
  <2>1. PICK m \in Messages : Cancel(m)
    BY <1>5
  <2>2. cancellation'[m] = "settle" => status'[m] \in Terminal
    <3>1. CASE CancelCommit(m)
      <4>1. status[m] \in Unfinished \cup Terminal
        BY <3>1 DEF CancelCommit, Known, MessagesKnown, TypeOK
      <4>2. CASE status[m] \in Unfinished
        BY <3>1, <4>2 DEF CancelCommit, Settle, Terminal, TypeOK
      <4>3. CASE status[m] \notin Unfinished
        BY <1>1, <4>1, <4>3
      <4> QED BY <4>2, <4>3
    <3>2. CASE ~ CancelCommit(m)
      BY <2>1, <3>2 DEF Cancel, CancelDiff, CancelSettled, CancelFailed, TypeOK
    <3> QED BY <3>1, <3>2
  <2> QED BY <1>2, <2>1, <2>2, CancelLocal DEF SettledIsTerminal
<1>6. CASE \E c \in Cancellers : CancelRead(c) \/ Handle(c)
  <2>1. PICK c \in Cancellers : CancelRead(c) \/ Handle(c)
    BY <1>6
  <2>2. \A m \in Messages :
          cancellation'[m] = cancellation[m] \/ cancellation'[m] # "settle"
    BY <2>1
       DEF TypeOK, CancelRead, Handle, CancelStatus, CancelUntracked,
           memory, RequestCancellation, StartCancellation, CancelDirectly,
           CancelDirectlyFailed
  <2> QED BY <1>2, <2>2 DEF SettledIsTerminal
<1>7. CASE Crash
  BY <1>7 DEF Crash, SettledIsTerminal
<1>8. CASE UNCHANGED vars
  BY <1>2, <1>8 DEF vars, memory, SettledIsTerminal
<1> QED BY <1>3, <1>4, <1>5, <1>6, <1>7, <1>8 DEF Next

(* Only the completion itself completes a message. *)
LEMMA CompletedBefore ==
  ASSUME TypeOK, [Next]_vars, NEW m \in Messages, ~ CompleteMessageProcessing(m)
  PROVE  status'[m] = "completed" => status[m] = "completed"
<1>1. CASE \E n \in Messages : AppendMessage(n)
  BY <1>1 DEF AppendMessage, TypeOK
<1>2. CASE \E n \in Messages : Execute(n)
  <2>1. PICK n \in Messages : Execute(n)
    BY <1>2
  <2>2. CASE n # m
    BY <2>1, <2>2, ExecuteLocal
  <2>3. CASE n = m
    BY <2>1, <2>3
       DEF rows, Settle, TypeOK, Execute, ProcessMessage, CheckpointPassed,
           CheckpointCancelled, EnsureSandbox, CreateSandbox, ReadSandbox,
           CreateContainer, PopulateContainer, MarkSandbox, PrepareBranch,
           StartMessageProcessing, AgentTurn, DiffWorkspace,
           RecordArtifacts, FailMessageProcessing, FinalizeTrace, Throw
  <2> QED BY <2>2, <2>3
<1>3. CASE \E n \in Messages : Cancel(n)
  BY <1>3
     DEF Cancel, CancelDiff, CancelCommit, CancelSettled, CancelFailed,
         Settle, rows, TypeOK
<1>4. CASE \E c \in Cancellers : CancelRead(c) \/ Handle(c)
  BY <1>4
     DEF CancelRead, Handle, CancelStatus, CancelUntracked,
         RequestCancellation, CancelDirectly, CancelDirectlyFailed, Settle,
         rows, TypeOK
<1>5. CASE Crash \/ UNCHANGED vars
  BY <1>5 DEF Crash, vars, rows
<1> QED BY <1>1, <1>2, <1>3, <1>4, <1>5 DEF Next

(* A completed message's execution only has its trace to finalize. *)
LEMMA CompletedStep ==
  ASSUME TypeOK, CompletedIsOver, [Next]_vars
  PROVE  CompletedIsOver'
<1> SUFFICES ASSUME NEW m \in Messages, status'[m] = "completed"
             PROVE  pc'[m] \in {"finalize", "finished", "lost"}
  BY DEF CompletedIsOver
<1>1. CASE CompleteMessageProcessing(m)
  BY <1>1, FinishLocal DEF CompleteMessageProcessing, Goto, TypeOK
<1>2. CASE ~ CompleteMessageProcessing(m)
  <2>1. status[m] = "completed" /\ pc[m] \in {"finalize", "finished", "lost"}
    BY <1>2, CompletedBefore DEF CompletedIsOver
  <2>2. CASE \E n \in Messages : AppendMessage(n)
    BY <2>1, <2>2 DEF AppendMessage, Goto, TypeOK
  <2>3. CASE \E n \in Messages : Execute(n)
    <3>1. PICK n \in Messages : Execute(n)
      BY <2>3
    <3>2. CASE n = m
      BY <2>1, <3>1, <3>2, ExecuteLocal, ExecuteMoves
    <3>3. CASE n # m
      BY <2>1, <3>1, <3>3, ExecuteLocal
    <3> QED BY <3>2, <3>3
  <2>4. CASE \E n \in Messages : Cancel(n)
    BY <2>1, <2>4, CancelLocal
  <2>5. CASE \E c \in Cancellers : CancelRead(c) \/ Handle(c)
    BY <2>1, <2>5, ClientLocal
  <2>6. CASE Crash \/ UNCHANGED vars
    BY <2>1, <2>6 DEF Crash, vars
  <2> QED BY <2>2, <2>3, <2>4, <2>5, <2>6 DEF Next
<1> QED BY <1>1, <1>2

(* Only the failure of its own execution makes a message failed. *)
LEMMA FailedBefore ==
  ASSUME TypeOK, [Next]_vars, NEW m \in Messages, ~ FailMessageProcessing(m)
  PROVE  status'[m] = "failed" => status[m] = "failed"
<1>1. CASE \E n \in Messages : AppendMessage(n)
  BY <1>1 DEF AppendMessage, TypeOK
<1>2. CASE \E n \in Messages : Execute(n)
  <2>1. PICK n \in Messages : Execute(n)
    BY <1>2
  <2>2. CASE n # m
    BY <2>1, <2>2, ExecuteLocal
  <2>3. CASE n = m
    BY <2>1, <2>3
       DEF rows, Settle, TypeOK, Execute, ProcessMessage, CheckpointPassed,
           CheckpointCancelled, EnsureSandbox, CreateSandbox, ReadSandbox,
           CreateContainer, PopulateContainer, MarkSandbox, PrepareBranch,
           StartMessageProcessing, AgentTurn, DiffWorkspace,
           RecordArtifacts, CompleteMessageProcessing, FinalizeTrace, Throw
  <2> QED BY <2>2, <2>3
<1>3. CASE \E n \in Messages : Cancel(n)
  BY <1>3
     DEF Cancel, CancelDiff, CancelCommit, CancelSettled, CancelFailed,
         Settle, rows, TypeOK
<1>4. CASE \E c \in Cancellers : CancelRead(c) \/ Handle(c)
  BY <1>4
     DEF CancelRead, Handle, CancelStatus, CancelUntracked,
         RequestCancellation, CancelDirectly, CancelDirectlyFailed, Settle,
         rows, TypeOK
<1>5. CASE Crash \/ UNCHANGED vars
  BY <1>5 DEF Crash, vars, rows
<1> QED BY <1>1, <1>2, <1>3, <1>4, <1>5 DEF Next

(* A failed message's execution, too, only has its trace to finalize. *)
LEMMA FailedStep ==
  ASSUME TypeOK, FailedIsOver, [Next]_vars
  PROVE  FailedIsOver'
<1> SUFFICES ASSUME NEW m \in Messages, status'[m] = "failed"
             PROVE  pc'[m] \in {"finalize", "finished", "lost"}
  BY DEF FailedIsOver
<1>1. CASE FailMessageProcessing(m)
  BY <1>1, FinishLocal DEF FailMessageProcessing, Goto, TypeOK
<1>2. CASE ~ FailMessageProcessing(m)
  <2>1. status[m] = "failed" /\ pc[m] \in {"finalize", "finished", "lost"}
    BY <1>2, FailedBefore DEF FailedIsOver
  <2>2. CASE \E n \in Messages : AppendMessage(n)
    BY <2>1, <2>2 DEF AppendMessage, Goto, TypeOK
  <2>3. CASE \E n \in Messages : Execute(n)
    <3>1. PICK n \in Messages : Execute(n)
      BY <2>3
    <3>2. CASE n = m
      BY <2>1, <3>1, <3>2, ExecuteLocal, ExecuteMoves
    <3>3. CASE n # m
      BY <2>1, <3>1, <3>3, ExecuteLocal
    <3> QED BY <3>2, <3>3
  <2>4. CASE \E n \in Messages : Cancel(n)
    BY <2>1, <2>4, CancelLocal
  <2>5. CASE \E c \in Cancellers : CancelRead(c) \/ Handle(c)
    BY <2>1, <2>5, ClientLocal
  <2>6. CASE Crash \/ UNCHANGED vars
    BY <2>1, <2>6 DEF Crash, vars
  <2> QED BY <2>2, <2>3, <2>4, <2>5, <2>6 DEF Next
<1> QED BY <1>1, <1>2

(* An execution at work on an unfinished message stays in the map. *)
LEMMA TrackedStep ==
  ASSUME TypeOK, Known, SettledIsTerminal, RunningIsTracked, [Next]_vars
  PROVE  RunningIsTracked'
<1> DEFINE Idling == {"none", "appended", "finished", "lost"}
<1> SUFFICES ASSUME NEW m \in Messages, status'[m] \in Unfinished, pc'[m] \notin Idling
             PROVE  m \in tracked'
  BY DEF RunningIsTracked
<1>1. status[m] # "none" => status[m] \in Unfinished
  BY StepRows, StatusLasts
<1>2. CASE \E n \in Messages : AppendMessage(n)
  <2>1. PICK n \in Messages : AppendMessage(n)
    BY <1>2
  <2>2. pc'[n] = "appended" /\ n # m
    BY <2>1 DEF AppendMessage, Goto, TypeOK
  <2>3. pc'[m] = pc[m] /\ status'[m] = status[m] /\ tracked' = tracked
    BY <2>1, <2>2 DEF AppendMessage, Goto, TypeOK, memory
  <2> QED BY <2>3 DEF RunningIsTracked
<1>3. CASE \E n \in Messages : Execute(n)
  <2>1. PICK n \in Messages : Execute(n)
    BY <1>3
  <2>2. CASE n # m
    BY <2>1, <2>2, ExecuteLocal DEF RunningIsTracked
  <2>3. CASE n = m
    <3>1. status[m] \in Unfinished /\ pc[m] \notin Idling \ {"appended"}
      BY <1>1, <2>1, <2>3, ExecuteLocal DEF Known, MessagesKnown
    <3> QED BY <2>1, <2>3, <3>1, ExecuteMoves DEF RunningIsTracked
  <2> QED BY <2>2, <2>3
<1>4. CASE \E n \in Messages : Cancel(n)
  <2>1. PICK n \in Messages : Cancel(n)
    BY <1>4
  <2>2. pc[m] \notin Idling
    BY <2>1, CancelLocal
  <2>3. status[m] \in Unfinished /\ m \in tracked
    BY <1>1, <2>2 DEF RunningIsTracked, Known, MessagesKnown
  <2>4. CASE n # m
    BY <2>1, <2>3, <2>4, CancelLocal
  <2>5. CASE n = m
    <3>1. ~ CancelSettled(m)
      BY <2>3 DEF CancelSettled, SettledIsTerminal, Unfinished, Terminal
    <3> QED BY <2>1, <2>3, <2>5, <3>1
       DEF Cancel, CancelDiff, CancelCommit, CancelFailed
  <2> QED BY <2>4, <2>5
<1>5. CASE \E c \in Cancellers : CancelRead(c) \/ Handle(c)
  BY <1>1, <1>5, ClientLocal DEF RunningIsTracked, Known, MessagesKnown
<1>6. CASE Crash
  BY <1>6 DEF Crash
<1>7. CASE UNCHANGED vars
  BY <1>7 DEF vars, rows, memory, RunningIsTracked
<1> QED BY <1>2, <1>3, <1>4, <1>5, <1>6, <1>7 DEF Next

-----------------------------------------------------------------------------
(* What an execution may do to the container and the sandbox row. *)
LEMMA SandboxMoves ==
  ASSUME TypeOK, NEW m \in Messages, Execute(m)
  PROVE  /\ container = "populated" => container' = "populated"
         /\ pc'[m] = "markReady" => container' = "populated"
         /\ sandbox' = "ready" => sandbox = "ready" \/ pc[m] = "markReady"
<1> USE DEF rows, sandboxVars, memory
<1>1. CASE \/ ProcessMessage(m)    \/ EnsureSandbox(m) \/ CreateSandbox(m)
           \/ CreateContainer(m)   \/ PopulateContainer(m) \/ MarkSandbox(m)
           \/ PrepareBranch(m)     \/ AgentTurn(m)     \/ DiffWorkspace(m)
           \/ RecordArtifacts(m)
  BY <1>1
     DEF ProcessMessage, EnsureSandbox, CreateSandbox, CreateContainer,
         PopulateContainer, MarkSandbox, PrepareBranch, AgentTurn,
         DiffWorkspace, RecordArtifacts, Goto, TypeOK
<1>2. CASE CheckpointPassed(m)
  <2>1. NextCall(pc[m]) # "markReady"
    BY <1>2, CheckpointLabels DEF CheckpointPassed, NextCall, After
  <2> QED BY <1>2, <2>1 DEF CheckpointPassed, Goto, TypeOK
<1>3. CASE CheckpointCancelled(m)
  BY <1>3, FinishLocal DEF CheckpointCancelled, Goto, TypeOK
<1>4. CASE ReadSandbox(m)
  <2>1. PICK l \in {"ready", "provision", "unready"} : Goto(m, l)
    BY <1>4 DEF ReadSandbox
  <2> QED BY <1>4, <2>1 DEF TypeOK, Goto, ReadSandbox
<1>5. CASE \/ StartMessageProcessing(m) \/ CompleteMessageProcessing(m)
           \/ FailMessageProcessing(m)  \/ FinalizeTrace(m)
  BY <1>5, FinishLocal DEF StartMessageProcessing, CompleteMessageProcessing,
                           FailMessageProcessing, FinalizeTrace, Goto, TypeOK
<1>6. CASE Throw(m)
  <2>1. CASE pc[m] \in DOMAIN Catches /\ Goto(m, Catches[pc[m]])
    BY <1>6, <2>1 DEF Throw, Goto, Catches, TypeOK
  <2>2. CASE Finish(m)
    BY <1>6, <2>2, FinishLocal DEF Throw
  <2> QED BY <1>6, <2>1, <2>2 DEF Throw
<1> QED BY <1>1, <1>2, <1>3, <1>4, <1>5, <1>6 DEF Execute

(* A populated container stays so, and only its row is marked ready. *)
LEMMA PopulatedStep ==
  ASSUME TypeOK, MarkedIsPopulated, ReadyIsPopulated, [Next]_vars
  PROVE  MarkedIsPopulated' /\ ReadyIsPopulated'
<1>1. CASE \E m \in Messages : AppendMessage(m)
  BY <1>1
     DEF AppendMessage, Goto, TypeOK, sandboxVars, MarkedIsPopulated,
         ReadyIsPopulated
<1>2. CASE \E m \in Messages : Execute(m)
  BY <1>2, SandboxMoves, ExecuteLocal DEF MarkedIsPopulated, ReadyIsPopulated
<1>3. CASE \E m \in Messages : Cancel(m)
  BY <1>3, CancelLocal DEF MarkedIsPopulated, ReadyIsPopulated
<1>4. CASE \E c \in Cancellers : CancelRead(c) \/ Handle(c)
  BY <1>4, ClientLocal DEF MarkedIsPopulated, ReadyIsPopulated
<1>5. CASE Crash
  BY <1>5 DEF Crash, sandboxVars, MarkedIsPopulated, ReadyIsPopulated
<1>6. CASE UNCHANGED vars
  BY <1>6 DEF vars, sandboxVars, MarkedIsPopulated, ReadyIsPopulated
<1> QED BY <1>1, <1>2, <1>3, <1>4, <1>5, <1>6 DEF Next

-----------------------------------------------------------------------------
(* Failing or cancelling a message announces no artifact. *)
LEMMA SettleAnnounces ==
  ASSUME TypeOK, NEW m \in Messages, NEW o \in Terminal, NEW extra,
         Settle(m, o, extra)
  PROVE  /\ status'[m] = o
         /\ posted'[m]["artifact_created"] =
              IF "artifact_created" \in extra THEN posted[m]["artifact_created"] + 1
              ELSE posted[m]["artifact_created"]
         /\ \A n \in Messages \ {m} : posted'[n] = posted[n]
<1>1. status'[m] = o
  BY DEF Settle, TypeOK
<1> DEFINE events == {OutcomeEvent[o], "message_result_ready"} \cup extra
<1>2. Post(m, events)
  BY DEF Settle
<1>3. "artifact_created" \in events <=> "artifact_created" \in extra
  BY OutcomeEvents
<1> HIDE DEF events
<1> QED BY <1>1, <1>2, <1>3, PostCounts, OutcomeEvents

(* A step that does not announce an artifact of the message. *)
Silent(m) == posted'[m]["artifact_created"] = posted[m]["artifact_created"]

(* The transactions other than the completion are silent. *)
LEMMA OthersAreSilent ==
  ASSUME TypeOK, NEW m \in Messages, NEW n \in Messages,
         \/ Settle(n, "failed", {}) \/ Settle(n, "cancelled", {})
         \/ Post(n, {"message_processing_requested"})
         \/ Post(n, {"message_processing_started"})
  PROVE  Silent(m)
<1>1. "failed" \in Terminal /\ "cancelled" \in Terminal
      /\ "artifact_created" \in EventTypes
  BY DEF Terminal, EventTypes
<1>2. CASE Settle(n, "failed", {})
  BY <1>1, <1>2, SettleAnnounces DEF Silent
<1>3. CASE Settle(n, "cancelled", {})
  BY <1>1, <1>3, SettleAnnounces DEF Silent
<1>4. CASE Post(n, {"message_processing_requested"})
  BY <1>1, <1>4, PostCounts DEF Silent
<1>5. CASE Post(n, {"message_processing_started"})
  BY <1>1, <1>5, PostCounts DEF Silent
<1> QED BY <1>2, <1>3, <1>4, <1>5

(* Only a completion announces an artifact. *)
LEMMA AnnouncedBefore ==
  ASSUME TypeOK, [Next]_vars, NEW m \in Messages, ~ CompleteMessageProcessing(m)
  PROVE  Silent(m)
<1>1. UNCHANGED posted => Silent(m)
  BY DEF Silent
<1>2. CASE \E n \in Messages : AppendMessage(n)
  BY <1>1, <1>2, OthersAreSilent DEF AppendMessage
<1>3. CASE \E n \in Messages : Execute(n)
  <2>1. PICK n \in Messages : Execute(n)
    BY <1>3
  <2>2. CASE CompleteMessageProcessing(n)
    <3>1. CASE status[n] = "working"
      <4>1. PICK extra : Settle(n, "completed", extra)
        BY <2>2, <3>1 DEF CompleteMessageProcessing
      <4>2. n # m /\ "completed" \in Terminal
        BY <2>2 DEF Terminal
      <4> QED BY <4>1, <4>2, SettleAnnounces DEF Silent
    <3>2. CASE status[n] # "working"
      BY <1>1, <2>2, <3>2 DEF CompleteMessageProcessing, rows
    <3> QED BY <3>1, <3>2
  <2>3. CASE FailMessageProcessing(n)
    BY <1>1, <2>3, OthersAreSilent DEF FailMessageProcessing, rows
  <2>4. CASE StartMessageProcessing(n)
    BY <1>1, <2>4, OthersAreSilent DEF StartMessageProcessing
  <2>5. CASE ~ (\/ CompleteMessageProcessing(n) \/ FailMessageProcessing(n)
                \/ StartMessageProcessing(n))
    <3>1. UNCHANGED posted
      BY <2>1, <2>5 DEF rows, Execute, ProcessMessage, CheckpointPassed,
           CheckpointCancelled, EnsureSandbox, CreateSandbox, ReadSandbox,
           CreateContainer, PopulateContainer, MarkSandbox, PrepareBranch,
           AgentTurn, DiffWorkspace, RecordArtifacts, FinalizeTrace, Throw
    <3> QED BY <1>1, <3>1
  <2> QED BY <2>2, <2>3, <2>4, <2>5
<1>4. CASE \E n \in Messages : Cancel(n)
  BY <1>1, <1>4, OthersAreSilent
     DEF Cancel, CancelDiff, CancelCommit, CancelSettled, CancelFailed,
         rows
<1>5. CASE \E c \in Cancellers : CancelRead(c) \/ Handle(c)
  <2>1. PICK c \in Cancellers : CancelRead(c) \/ Handle(c)
    BY <1>5
  <2>2. CASE CancelDirectly(c)
    <3>1. request[c].target \in Messages
      BY <2>2 DEF CancelDirectly, TypeOK
    <3>2. UNCHANGED posted \/ Settle(request[c].target, "cancelled", {})
      BY <2>2 DEF CancelDirectly, rows
    <3> QED BY <1>1, <3>1, <3>2, OthersAreSilent
  <2>3. CASE ~ CancelDirectly(c)
    <3>1. UNCHANGED posted
      BY <2>1, <2>3 DEF CancelRead, Handle, CancelStatus, CancelUntracked,
                        RequestCancellation, CancelDirectlyFailed, rows
    <3> QED BY <1>1, <3>1
  <2> QED BY <2>2, <2>3
<1>6. CASE Crash \/ UNCHANGED vars
  BY <1>1, <1>6 DEF Crash, vars, rows
<1> QED BY <1>2, <1>3, <1>4, <1>5, <1>6 DEF Next

(* An artifact row appears only while its execution stores it. *)
LEMMA ArtifactsLast ==
  ASSUME TypeOK, CompletedIsOver, [Next]_vars, NEW m \in Messages,
         status[m] = "completed"
  PROVE  m \in artifacts' <=> m \in artifacts
<1>1. CASE \E n \in Messages : AppendMessage(n)
  BY <1>1 DEF AppendMessage
<1>2. CASE \E n \in Messages : Execute(n)
  <2>1. PICK n \in Messages : Execute(n)
    BY <1>2
  <2>2. CASE n # m
    BY <2>1, <2>2, ExecuteLocal
  <2>3. CASE n = m
    <3>1. pc[m] = "finalize"
      BY <2>1, <2>3, ExecuteLocal DEF CompletedIsOver
    <3>2. ~ RecordArtifacts(m)
      BY <3>1 DEF RecordArtifacts
    <3> QED BY <2>1, <2>3, <3>2
       DEF Execute, ProcessMessage, CheckpointPassed, CheckpointCancelled,
           EnsureSandbox, CreateSandbox, ReadSandbox, CreateContainer,
           PopulateContainer, MarkSandbox, PrepareBranch,
           StartMessageProcessing, AgentTurn, DiffWorkspace,
           CompleteMessageProcessing, FailMessageProcessing, FinalizeTrace,
           Throw
  <2> QED BY <2>2, <2>3
<1>3. CASE \E n \in Messages : Cancel(n)
  BY <1>3, CancelLocal
<1>4. CASE \E c \in Cancellers : CancelRead(c) \/ Handle(c)
  BY <1>4, ClientLocal
<1>5. CASE Crash \/ UNCHANGED vars
  BY <1>5 DEF Crash, vars
<1> QED BY <1>1, <1>2, <1>3, <1>4, <1>5 DEF Next

(* The completion announces what is stored, and nothing is stored later. *)
LEMMA AnnouncedStep ==
  ASSUME TypeOK, CompletedIsOver, ArtifactsAnnounced, [Next]_vars
  PROVE  ArtifactsAnnounced'
<1> SUFFICES ASSUME NEW m \in Messages
             PROVE  posted'[m]["artifact_created"] =
                      IF status'[m] = "completed" /\ m \in artifacts' THEN 1 ELSE 0
  BY DEF ArtifactsAnnounced
<1>1. CASE CompleteMessageProcessing(m) /\ status[m] = "working"
  <2> DEFINE extra == {"assistant_message_created"} \cup
                        (IF m \in artifacts THEN {"artifact_created"} ELSE {})
  <2>1. Settle(m, "completed", extra) /\ artifacts' = artifacts
    BY <1>1 DEF CompleteMessageProcessing
  <2>2. "completed" \in Terminal
    BY DEF Terminal
  <2>3. "artifact_created" \in extra <=> m \in artifacts
    OBVIOUS
  <2>4. posted[m]["artifact_created"] = 0
    BY <1>1 DEF ArtifactsAnnounced
  <2> HIDE DEF extra
  <2>5. /\ status'[m] = "completed"
        /\ posted'[m]["artifact_created"] =
             IF "artifact_created" \in extra THEN posted[m]["artifact_created"] + 1
             ELSE posted[m]["artifact_created"]
    BY <2>1, <2>2, SettleAnnounces
  <2> QED BY <2>1, <2>3, <2>4, <2>5
<1>2. CASE CompleteMessageProcessing(m) /\ status[m] # "working"
  BY <1>2 DEF CompleteMessageProcessing, rows, ArtifactsAnnounced
<1>3. CASE ~ CompleteMessageProcessing(m)
  <2>1. status'[m] = "completed" <=> status[m] = "completed"
    BY <1>3, CompletedBefore, StepRows, StatusLasts DEF Terminal
  <2>2. posted'[m]["artifact_created"] = posted[m]["artifact_created"]
    BY <1>3, AnnouncedBefore DEF Silent
  <2> QED BY <2>1, <2>2, ArtifactsLast DEF ArtifactsAnnounced
<1> QED BY <1>1, <1>2, <1>3

-----------------------------------------------------------------------------
(* ExecutionInv holds at first, and every step keeps it. *)
LEMMA ExecutionInductive ==
  /\ Init => ExecutionInv
  /\ Inv /\ ExecutionInv /\ [Next]_vars => ExecutionInv'
<1>1. Init => /\ Known /\ SettledIsTerminal /\ MarkedIsPopulated
              /\ CompletedIsOver /\ FailedIsOver
              /\ RunningIsTracked /\ CancelAnswersHold /\ ReadyIsPopulated
  BY DEF Init, Idle, Informed, Unfinished, Known, MessagesKnown, RequestsKnown,
         SettledIsTerminal, CompletedIsOver, FailedIsOver, MarkedIsPopulated,
         RunningIsTracked, CancelAnswersHold, ReadyIsPopulated
<1>2. ASSUME Init PROVE ArtifactsAnnounced
  <2>1. \A m \in Messages, e \in EventTypes : posted[m][e] = 0
    BY <1>2 DEF Init
  <2>2. \A m \in Messages : posted[m]["artifact_created"] = 0 /\ status[m] = "none"
    BY <1>2, <2>1 DEF Init, EventTypes
  <2> QED BY <2>2 DEF ArtifactsAnnounced
<1>3. ASSUME Inv, ExecutionInv, [Next]_vars PROVE ExecutionInv'
  <2>1. TypeOK /\ LockMatchesStatus
    BY <1>3 DEF Inv
  <2> QED BY <1>3, <2>1, KnownStep, SettledStep, CompletedStep, FailedStep,
             TrackedStep, AnswersStep, PopulatedStep, AnnouncedStep DEF ExecutionInv
<1> QED BY <1>1, <1>2, <1>3 DEF ExecutionInv

(* The invariants together, which the theorems below project. *)
LEMMA ExecutionCorrect == Spec => []ExecutionInv
BY ExecutionInductive, InvCorrect, PTL DEF Spec

(***************************************************************************)
(* Whatever crashes, fails or is cancelled: an execution at work on an     *)
(* unfinished message is in the executions map, where a cancel call finds  *)
(* its abort signal.  message-processing.ts.                               *)
(***************************************************************************)
THEOREM RunningIsAlwaysTracked == Spec => []RunningIsTracked
<1>1. ExecutionInv => RunningIsTracked
  BY DEF ExecutionInv
<1> QED BY <1>1, ExecutionCorrect, PTL

(***************************************************************************)
(* An execution in the container belongs to the message that holds the     *)
(* lock, or to a cancelled one: what ended otherwise has left it, whatever *)
(* fails or crashes.  message-processing.ts.                               *)
(***************************************************************************)
THEOREM WorkspaceIsAlwaysHeld == Spec => []WorkspaceIsHeld
<1>1. ASSUME Inv, ExecutionInv PROVE WorkspaceIsHeld
  <2> SUFFICES ASSUME NEW m \in Messages, InWorkspace(m), status[m] # "cancelled"
               PROVE  active = m
    BY DEF WorkspaceIsHeld
  <2>1. status[m] \notin {"none", "completed", "failed"}
    BY <1>1 DEF InWorkspace, ExecutionInv, Known, MessagesKnown, CompletedIsOver,
                FailedIsOver
  <2>2. status[m] \in Unfinished
    BY <1>1, <2>1 DEF Inv, TypeOK, Terminal
  <2> QED BY <1>1, <2>2 DEF Inv, LockMatchesStatus
<1> QED BY <1>1, InvCorrect, ExecutionCorrect, PTL

(***************************************************************************)
(* What POST /cancel answered stays true of the message it had read, with  *)
(* any number of clients cancelling at once.  chat-session.ts.             *)
(***************************************************************************)
THEOREM CancelAnswersStayTrue == Spec => []CancelAnswersHold
<1>1. ExecutionInv => CancelAnswersHold
  BY DEF ExecutionInv
<1> QED BY <1>1, ExecutionCorrect, PTL

(***************************************************************************)
(* The stream announces the stored diff of a completed message, once, and  *)
(* no artifact of a message that failed or was cancelled.                  *)
(***************************************************************************)
THEOREM ArtifactsAlwaysAnnounced == Spec => []ArtifactsAnnounced
<1>1. ExecutionInv => ArtifactsAnnounced
  BY DEF ExecutionInv
<1> QED BY <1>1, ExecutionCorrect, PTL

(***************************************************************************)
(* A sandbox row is ready only when the container holds the repository,    *)
(* however many executions provision it and crash.  sandbox.ts.            *)
(***************************************************************************)
THEOREM ReadyIsAlwaysPopulated == Spec => []ReadyIsPopulated
<1>1. ExecutionInv => ReadyIsPopulated
  BY DEF ExecutionInv
<1> QED BY <1>1, ExecutionCorrect, PTL

-----------------------------------------------------------------------------
Phases ==
  {"ensure", "readSandbox", "branch", "failing", "start", "agent", "diff",
   "recordArtifacts", "rescuing"}

(* The labels a checkpoint leads to. *)
LEMMA PhaseLabels == {After[l] : l \in Checkpoints} = Phases
<1>1. \A l \in Checkpoints : After[l] \in Phases
  BY CheckpointLabels DEF After, Phases
<1>2. /\ After["scheduled"] = "ensure" /\ After["ensured"] = "readSandbox"
      /\ After["ready"] = "branch"     /\ After["unready"] = "failing"
      /\ After["branched"] = "start"   /\ After["started"] = "agent"
      /\ After["answered"] = "diff"    /\ After["diffed"] = "recordArtifacts"
      /\ After["caught"] = "rescuing"
  BY DEF After
<1> QED BY <1>1, <1>2, CheckpointLabels DEF Phases

(* A step that begins a phase is a checkpoint that saw no cancellation. *)
LEMMA PhaseBegins ==
  ASSUME TypeOK, NEW m \in Messages, Execute(m),
         pc'[m] \in Phases
  PROVE  m \notin cancelRequested
<1> USE DEF Goto, TypeOK, Phases
<1>1. CASE \/ ProcessMessage(m)    \/ EnsureSandbox(m) \/ CreateSandbox(m)
           \/ CreateContainer(m)   \/ PopulateContainer(m) \/ MarkSandbox(m)
           \/ PrepareBranch(m)     \/ AgentTurn(m)     \/ DiffWorkspace(m)
           \/ RecordArtifacts(m)
  BY <1>1 DEF ProcessMessage, EnsureSandbox, CreateSandbox,
     CreateContainer, PopulateContainer, MarkSandbox, PrepareBranch, AgentTurn,
     DiffWorkspace, RecordArtifacts
<1>2. CASE CheckpointPassed(m)
  BY <1>2 DEF CheckpointPassed
<1>3. CASE CheckpointCancelled(m)
  BY <1>3, FinishLocal DEF CheckpointCancelled
<1>4. CASE ReadSandbox(m)
  <2>1. PICK l \in {"ready", "provision", "unready"} : Goto(m, l)
    BY <1>4 DEF ReadSandbox
  <2> QED BY <2>1
<1>5. CASE \/ StartMessageProcessing(m) \/ CompleteMessageProcessing(m)
           \/ FailMessageProcessing(m)  \/ FinalizeTrace(m)
  BY <1>5, FinishLocal DEF StartMessageProcessing,
     CompleteMessageProcessing, FailMessageProcessing, FinalizeTrace
<1>6. CASE Throw(m)
  <2>1. CASE pc[m] \in DOMAIN Catches /\ Goto(m, Catches[pc[m]])
    BY <2>1 DEF Catches
  <2>2. CASE Finish(m)
    BY <2>2, FinishLocal
  <2> QED BY <1>6, <2>1, <2>2 DEF Throw
<1> QED BY <1>1, <1>2, <1>3, <1>4, <1>5, <1>6 DEF Execute

(***************************************************************************)
(* Once an execution is told to stop, it begins no further phase: there is *)
(* no await in processMessageInBackground without a checkpoint behind it.  *)
(***************************************************************************)
THEOREM CancelledNeverBegins == Spec => CancelledBeginsNothing
<1> DEFINE Stops ==
      \A m \in Messages :
        m \in cancelRequested /\ pc'[m] # pc[m] =>
          pc'[m] \notin {After[l] : l \in Checkpoints}
<1>1. TypeOK /\ [Next]_vars => [Stops]_vars
  <2> SUFFICES ASSUME TypeOK, [Next]_vars,
                      NEW m \in Messages, m \in cancelRequested, pc'[m] # pc[m]
               PROVE  pc'[m] \notin Phases
    BY PhaseLabels
  <2>1. CASE \E n \in Messages : AppendMessage(n)
    BY <2>1 DEF AppendMessage, Goto, TypeOK, Phases
  <2>2. CASE \E n \in Messages : Execute(n)
    BY <2>2, PhaseBegins, ExecuteLocal
  <2>3. CASE \E n \in Messages : Cancel(n)
    BY <2>3, CancelLocal DEF Phases
  <2>4. CASE \E c \in Cancellers : CancelRead(c) \/ Handle(c)
    BY <2>4, ClientLocal
  <2>5. CASE Crash
    BY <2>5 DEF Crash, Phases
  <2>6. CASE UNCHANGED vars
    BY <2>6 DEF vars
  <2> QED BY <2>1, <2>2, <2>3, <2>4, <2>5, <2>6 DEF Next
<1>2. Init /\ [][Next]_vars => [][Stops]_vars
  BY <1>1, InitTyped, StepTyped, PTL
<1> QED BY <1>2 DEF Spec, CancelledBeginsNothing
=============================================================================
