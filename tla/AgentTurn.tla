----------------------------- MODULE AgentTurn -----------------------------
(***************************************************************************)
(* The agent's part of one message: AgentRunner asks the model, the model  *)
(* asks for tools, several at a time; the tools run one after the other; a *)
(* tool may be a subagent, which is an AgentRunner of its own; every call  *)
(* is reported by the ToolEventRelay as events of the session and to the   *)
(* TraceRecorder, whose entry for the message is exported as a trace once  *)
(* the message is settled.                                                 *)
(*                                                                         *)
(* The message is settled by the execution or, at any moment, by a         *)
(* cancellation, which does not wait for the agent: what the agent still   *)
(* records comes after the export.  MessageProcessing models the           *)
(* settlement in detail; here it is one step each way.                     *)
(*                                                                         *)
(* The AI SDK starts all calls of an answer together, awaits the callbacks *)
(* around each, drops what they throw, and asks the model again when every *)
(* call of the answer is done.                                             *)
(***************************************************************************)
EXTENDS Naturals, Sequences, FiniteSets

CONSTANTS
  MaxCalls,      \* bound: tool calls of the message, those of subagents included
  MaxWidth,      \* bound: tool calls of one answer of the model
  MaxMishaps     \* bound: failures and restarts

ASSUME BoundsAssumption == {MaxCalls, MaxWidth, MaxMishaps} \subseteq Nat

(* A run is 0 for the session agent, or the call that is the subagent. *)
Runs == 0..MaxCalls

VARIABLES
  status,     \* of the message
  exec,       \* its execution
  aborted,    \* the signal
  phase,      \* of each run
  calls,      \* tool calls, in the order the model asked for them
  queue,      \* SerialExecutor of each run: calls behind its tail
  pend,       \* pendingCorrelations of each run's relay
  feed,       \* appendQueue of the session agent's relay
  events,     \* events of the message that are committed
  entry,      \* the TraceRecorder's entry of the message
  final,      \* finalizeTrace
  mishaps

agent == <<phase, calls, queue, pend, feed>>
vars == <<status, exec, aborted, agent, events, entry, final, mishaps>>

Terminal == {"completed", "failed", "cancelled"}
Over == {"ok", "failed", "aborted"}
NoRun == [calls |-> <<>>, done |-> FALSE]
NoEntry == [held |-> FALSE, known |-> FALSE, calls |-> <<>>, runs |-> <<>>]
NotFinal == [at |-> "none", outcome |-> "none", seen |-> 0, trace |-> NoEntry]

Init ==
  /\ status = "queued" /\ exec = "none" /\ aborted = FALSE
  /\ phase = [r \in Runs |-> "off"]
  /\ calls = <<>>
  /\ queue = [r \in Runs |-> <<>>]
  /\ pend = [r \in Runs |-> <<>>]
  /\ feed = <<>> /\ events = <<>>
  /\ entry = NoEntry /\ final = NotFinal
  /\ mishaps = 0

Mishap ==
  /\ mishaps < MaxMishaps
  /\ mishaps' = mishaps + 1

-----------------------------------------------------------------------------
(* The recorder.  A recording for a message it does not hold makes an entry *)
(* with an agent run id of its own, under which no run is the session's.   *)

(* A map whose entries f replace or add to those of g.                     *)
Merge(f, g) ==
  [x \in DOMAIN f \cup DOMAIN g |-> IF x \in DOMAIN f THEN f[x] ELSE g[x]]

State(e) == IF e.held THEN e ELSE [NoEntry EXCEPT !.held = TRUE]

NeverSubagent(e, r) == FALSE
IsSubagent(e, r) == r # 0 \/ ~e.known

EnsureRun(e, r) ==
  IF r \in DOMAIN e.runs THEN e ELSE [e EXCEPT !.runs = Merge(@, [x \in {r} |-> NoRun])]

StartAgentRun(e, r) ==
  [State(e) EXCEPT !.runs = Merge([x \in {r} |-> NoRun], @)]

FinishAgentRun(e, r) ==
  LET s == State(e)
  IN IF r \in DOMAIN s.runs THEN [s EXCEPT !.runs[r].done = TRUE] ELSE s

Recorded(e, r, recs) ==
  LET s == EnsureRun(State(e), r)
      t == [s EXCEPT !.runs[r].calls = Merge(recs, @)]
  IN IF IsSubagent(s, r) THEN t ELSE [t EXCEPT !.calls = Merge(recs, @)]

RecordToolCallStarts(e, r, corrs) == Recorded(e, r, [c \in corrs |-> "open"])
RecordToolCallEnd(e, r, corr) == Recorded(e, r, [c \in {corr} |-> "ended"])

RecordSubagent(e, r) ==
  [EnsureRun(State(e), r) EXCEPT !.runs[r].done = TRUE]

RecordUsage(e, r) == EnsureRun(State(e), r)

(* A committed call that the entry does not hold is taken from the events. *)
ToolEvents == {k \in 1..Len(events) : events[k].type \in {"call", "result"}}
Normalized(e) ==
  LET ended == {events[k].corr : k \in {k \in ToolEvents : events[k].type = "result"}}
  IN [c \in {events[k].corr : k \in ToolEvents} |->
        IF c \in ended THEN "ended" ELSE "open"]

TraceOfEntry(e) == State(e)
TraceOf(e) ==
  LET s == State(e) IN [s EXCEPT !.calls = Merge(@, Normalized(e))]

-----------------------------------------------------------------------------
(* The relay and the executor. *)

OfRun(r) == {i \in 1..Len(calls) : calls[i].run = r}

StartCorrelation(r, n) ==
  [k \in 1..n |-> Cardinality(OfRun(r)) + k]

LatestCorrelation(r) == pend[r][Len(pend[r])]
EndCorrelation(r) == Head(pend[r])
LeftPending(r) == Tail(pend[r])

SharedExecutor(r) == 0
ExecutorOf(r) == r
Submit(i) == [queue EXCEPT ![ExecutorOf(calls[i].run)] = Append(@, i)]
RunnableAtOnce(i) == TRUE
Runnable(i) == Head(queue[ExecutorOf(calls[i].run)]) = i
Release(i, how) == [queue EXCEPT ![ExecutorOf(calls[i].run)] = Tail(@)]

(* emitToolEvents is off for subagents: nothing is appended, nothing awaited. *)
Emits(r) == r = 0

AppendAndPublish(type, i, corr) ==
  Append(feed, [type |-> type, call |-> i, corr |-> corr])

(* onToolExecutionEnd, up to its first await. *)
EndCallback(i, how, e) ==
  LET r == calls[i].run
      corr == EndCorrelation(r)
      at == IF ~Emits(r) THEN "done" ELSE IF how = "long" THEN "storing" ELSE "reporting"
  IN /\ pend' = [pend EXCEPT ![r] = LeftPending(r)]
     /\ entry' = RecordToolCallEnd(e, r, corr)
     /\ calls' = [calls EXCEPT ![i].at = at, ![i].ended = corr]
     /\ feed' = IF at = "reporting" THEN AppendAndPublish("result", i, corr) ELSE feed

(* The tool settles: the executor moves on and the callback begins. *)
Settle(i, how, e) ==
  /\ queue' = Release(i, how)
  /\ EndCallback(i, how, e)

-----------------------------------------------------------------------------
(* The message around the agent. *)

Settled(to) ==
  /\ status' = to
  /\ events' = Append(events, [type |-> to, call |-> 0, corr |-> 0])
  /\ final' = [NotFinal EXCEPT !.at = "listing", !.outcome = to]

Start ==
  /\ exec = "none"
  /\ exec' = "scheduled"
  /\ entry' = [NoEntry EXCEPT !.held = TRUE, !.known = TRUE]
  /\ UNCHANGED <<status, aborted, agent, events, final, mishaps>>

Begin ==
  /\ exec = "scheduled"
  /\ IF aborted \/ status # "queued"
     THEN exec' = "ended" /\ UNCHANGED status
     ELSE exec' = "context" /\ status' = "working"
  /\ UNCHANGED <<aborted, agent, events, entry, final, mishaps>>

ProvisionFails ==
  /\ exec = "scheduled" /\ ~aborted
  /\ Mishap
  /\ exec' = "ended"
  /\ IF status = "queued" THEN Settled("failed") ELSE UNCHANGED <<status, events, final>>
  /\ UNCHANGED <<aborted, agent, entry>>

BuildContext ==
  /\ exec = "context"
  /\ IF aborted
     THEN /\ entry' = State(entry)
          /\ exec' = "ended"
          /\ UNCHANGED phase
     ELSE /\ entry' = StartAgentRun(State(entry), 0)
          /\ phase' = [phase EXCEPT ![0] = "target"]
          /\ exec' = "agent"
  /\ UNCHANGED <<status, aborted, calls, queue, pend, feed, events, final, mishaps>>

(* With the agent's result: to the completion, by way of the compaction of *)
(* the summary when one is due.                                            *)
Compact ==
  /\ exec = "agent" /\ phase[0] = "ok"
  /\ exec' = "compacting"
  /\ UNCHANGED <<status, aborted, agent, events, entry, final, mishaps>>

RecordOwnUsage(e) == IF e.held /\ e.known THEN RecordUsage(e, 0) ELSE State(e)

Compacted ==
  /\ exec = "compacting"
  /\ entry' = RecordOwnUsage(entry)
  /\ exec' = "settling"
  /\ UNCHANGED <<status, aborted, agent, events, final, mishaps>>

CompactionFails ==
  /\ exec = "compacting"
  /\ Mishap
  /\ entry' = RecordOwnUsage(entry)
  /\ exec' = "failing"
  /\ UNCHANGED <<status, aborted, agent, events, final>>

AgentReturns ==
  /\ exec = "agent" /\ phase[0] \in Over
  /\ exec' = IF phase[0] = "ok" THEN "settling" ELSE "failing"
  /\ UNCHANGED <<status, aborted, agent, events, entry, final, mishaps>>

SettleMessage ==
  /\ exec \in {"settling", "failing"}
  /\ exec' = "ended"
  /\ IF aborted \/ status # "working"
     THEN UNCHANGED <<status, events, final>>
     ELSE Settled(IF exec = "settling" THEN "completed" ELSE "failed")
  /\ UNCHANGED <<aborted, agent, entry, mishaps>>

(* An execution is aborted and its message cancelled after the diff; with  *)
(* no execution the message is cancelled directly.                         *)
RequestCancellation ==
  /\ exec \notin {"none", "lost", "ended"} /\ ~aborted
  /\ status \notin Terminal
  /\ aborted' = TRUE
  /\ UNCHANGED <<status, exec, agent, events, entry, final, mishaps>>

Cancel ==
  /\ aborted \/ exec \in {"none", "lost"}
  /\ status \notin Terminal
  /\ Settled("cancelled")
  /\ UNCHANGED <<exec, aborted, agent, entry, mishaps>>

Crash ==
  /\ Mishap
  /\ exec # "lost"
  /\ exec' = "lost" /\ aborted' = FALSE
  /\ phase' = [r \in Runs |-> "off"]
  /\ calls' = <<>>
  /\ queue' = [r \in Runs |-> <<>>] /\ pend' = [r \in Runs |-> <<>>]
  /\ feed' = <<>>
  /\ entry' = NoEntry
  /\ final' = IF final.at \in {"listing", "exporting"} THEN [final EXCEPT !.at = "lost"] ELSE final
  /\ UNCHANGED <<status, events>>

-----------------------------------------------------------------------------
(* finalizeTrace. *)

FinishProcessing ==
  /\ final.at = "listing"
  /\ entry' = State(entry)
  /\ final' = [final EXCEPT !.at = "exporting", !.seen = Len(events),
                            !.trace = TraceOf(entry)]
  /\ UNCHANGED <<status, exec, aborted, agent, events, mishaps>>

ListingFails ==
  /\ final.at = "listing"
  /\ Mishap
  /\ final' = [final EXCEPT !.at = "unread"]
  /\ UNCHANGED <<status, exec, aborted, agent, events, entry>>

(* The sinks settle, with or without the trace; the entry goes either way. *)
EntryUnlessExported(exported) == IF exported THEN NoEntry ELSE entry
EntryAfterExport(exported) == NoEntry

Export ==
  /\ final.at = "exporting"
  /\ final' = [final EXCEPT !.at = "done"]
  /\ entry' = EntryAfterExport(TRUE)
  /\ UNCHANGED <<status, exec, aborted, agent, events, mishaps>>

ExportFails ==
  /\ final.at = "exporting"
  /\ Mishap
  /\ final' = [final EXCEPT !.at = "done"]
  /\ entry' = EntryAfterExport(FALSE)
  /\ UNCHANGED <<status, exec, aborted, agent, events>>

-----------------------------------------------------------------------------
(* AgentRunner.process. *)

GotTarget(r) ==
  /\ phase[r] = "target"
  /\ phase' = [phase EXCEPT ![r] = IF aborted THEN "aborted" ELSE "generating"]
  /\ UNCHANGED <<status, exec, aborted, calls, queue, pend, feed, events, entry, final, mishaps>>

TargetFails(r) ==
  /\ phase[r] = "target"
  /\ Mishap
  /\ phase' = [phase EXCEPT ![r] = IF aborted THEN "aborted" ELSE "failed"]
  /\ entry' = IF aborted THEN entry ELSE FinishAgentRun(entry, r)
  /\ UNCHANGED <<status, exec, aborted, calls, queue, pend, feed, events, final>>

(* Only the main profile has the subagent tool. *)
Kinds(r) == IF r = 0 THEN {"tool", "subagent"} ELSE {"tool"}
Answers(r) ==
  UNION {[1..n -> Kinds(r)] : n \in {n \in 1..MaxWidth : Len(calls) + n <= MaxCalls}}

Asking(r) == phase[r] = "generating" /\ \A i \in OfRun(r) : calls[i].at = "done"

(* The callbacks of all calls of the answer begin before anything else.    *)
ModelCallsTools(r, kinds) ==
  LET n == Len(kinds)
      corr == StartCorrelation(r, n)
      new == [k \in 1..n |->
        [run |-> r, kind |-> kinds[k], at |-> IF Emits(r) THEN "calling" ELSE "queued",
         corr |-> corr[k], ended |-> 0, lost |-> {}]]
  IN /\ Asking(r) /\ ~aborted
     /\ calls' = calls \o new
     /\ pend' = [pend EXCEPT ![r] = @ \o corr]
     /\ entry' = RecordToolCallStarts(entry, r, {corr[k] : k \in 1..n})
     /\ IF Emits(r)
        THEN /\ feed' = feed \o [k \in 1..n |->
                  [type |-> "call", call |-> Len(calls) + k, corr |-> corr[k]]]
             /\ UNCHANGED queue
        ELSE /\ queue' = [queue EXCEPT ![ExecutorOf(r)] =
                  @ \o [k \in 1..n |-> Len(calls) + k]]
             /\ UNCHANGED feed
     /\ UNCHANGED <<status, exec, aborted, phase, events, final, mishaps>>

ModelFinishes(r) ==
  /\ Asking(r) /\ ~aborted
  /\ phase' = [phase EXCEPT ![r] = "ok"]
  /\ entry' = FinishAgentRun(RecordUsage(entry, r), r)
  /\ UNCHANGED <<status, exec, aborted, calls, queue, pend, feed, events, final, mishaps>>

ModelStopsAlike(r) ==
  /\ phase' = [phase EXCEPT ![r] = "cancelled"]
  /\ entry' = FinishAgentRun(RecordUsage(entry, r), r)
  /\ UNCHANGED <<status, exec, aborted, calls, queue, pend, feed, events, final>>

ModelStops(r) ==
  /\ phase' = [phase EXCEPT ![r] = IF aborted THEN "aborted" ELSE "failed"]
  /\ entry' = FinishAgentRun(RecordUsage(entry, r), r)
  /\ UNCHANGED <<status, exec, aborted, calls, queue, pend, feed, events, final>>

ModelAborted(r) == Asking(r) /\ aborted /\ ModelStops(r) /\ UNCHANGED mishaps
ModelFails(r) == Asking(r) /\ ~aborted /\ Mishap /\ ModelStops(r)

-----------------------------------------------------------------------------
(* A tool call. *)

StartTool(i) ==
  /\ calls[i].at = "queued" /\ Runnable(i)
  /\ IF calls[i].kind = "tool"
     THEN /\ calls' = [calls EXCEPT ![i].at = "running"]
          /\ UNCHANGED <<phase, queue, pend, feed, entry>>
     ELSE IF aborted
     THEN /\ Settle(i, "error", entry)
          /\ UNCHANGED phase
     ELSE /\ calls' = [calls EXCEPT ![i].at = "running"]
          /\ phase' = [phase EXCEPT ![i] = "target"]
          /\ entry' = StartAgentRun(entry, i)
          /\ UNCHANGED <<queue, pend, feed>>
  /\ UNCHANGED <<status, exec, aborted, events, final, mishaps>>

(* A tool answers with a result that fits an event or not, or throws. *)
ToolReturns(i, how) ==
  /\ calls[i].at = "running" /\ calls[i].kind = "tool"
  /\ Settle(i, how, entry)
  /\ UNCHANGED <<status, exec, aborted, phase, events, final, mishaps>>

(* runSubagent records the run and the tool returns the report, or throws. *)
SubagentReturns(i, how) ==
  /\ calls[i].at = "running" /\ calls[i].kind = "subagent" /\ phase[i] \in Over
  /\ (phase[i] # "ok" \/ aborted) <=> how = "error"
  /\ Settle(i, how, RecordSubagent(entry, i))
  /\ UNCHANGED <<status, exec, aborted, phase, events, final, mishaps>>

StoreOutput(i) ==
  /\ calls[i].at = "storing"
  /\ calls' = [calls EXCEPT ![i].at = "stored"]
  /\ feed' = AppendAndPublish("result", i, calls[i].ended)
  /\ UNCHANGED <<status, exec, aborted, phase, queue, pend, events, entry, final, mishaps>>

(* The callback throws, and the result is never appended. *)
StoreFails(i) ==
  /\ calls[i].at = "storing"
  /\ Mishap
  /\ calls' = [calls EXCEPT ![i].at = "done", ![i].lost = @ \cup {"result"}]
  /\ UNCHANGED <<status, exec, aborted, phase, queue, pend, feed, events, entry, final>>

(* The append at the head of the queue ends and its callback goes on: the  *)
(* call is handed to the executor, or is done, its artifact recorded.      *)
AnyAppend == 1..Len(feed)
Appends == IF feed = <<>> THEN {} ELSE {1}
FeedAfter(k) == [j \in 1..Len(feed) - 1 |-> feed[IF j < k THEN j ELSE j + 1]]

CallbackReturns(k, lost) ==
  LET a == feed[k]
      i == a.call
  IN /\ feed' = FeedAfter(k)
     /\ calls' = [calls EXCEPT ![i].at = IF a.type = "call" THEN "queued" ELSE "done",
                               ![i].lost = @ \cup lost]
     /\ queue' = IF a.type = "call" THEN Submit(i) ELSE queue
     /\ UNCHANGED <<status, exec, aborted, phase, pend, final>>

AppendCommits(k) ==
  LET a == feed[k]
  IN /\ events' = Append(events, a)
     /\ entry' = IF calls[a.call].at = "stored"
                 THEN RecordToolCallEnd(entry, 0, a.corr) ELSE entry
     /\ CallbackReturns(k, {})
     /\ UNCHANGED mishaps

AppendFails(k) ==
  /\ Mishap
  /\ CallbackReturns(k, {feed[k].type})
  /\ UNCHANGED <<events, entry>>

-----------------------------------------------------------------------------
Returns == {"short", "long", "error"}

Progress ==
  \/ Start \/ Begin \/ BuildContext \/ AgentReturns \/ Compacted \/ SettleMessage
  \/ FinishProcessing \/ Export
  \/ aborted /\ Cancel
  \/ \E r \in Runs : GotTarget(r) \/ ModelFinishes(r) \/ ModelAborted(r)
  \/ \E i \in 1..Len(calls) :
       \/ StartTool(i) \/ StoreOutput(i)
       \/ \E how \in Returns : ToolReturns(i, how) \/ SubagentReturns(i, how)
  \/ \E k \in Appends : AppendCommits(k)

Failure ==
  \/ ProvisionFails \/ CompactionFails \/ ListingFails \/ ExportFails \/ Crash
  \/ \E r \in Runs : TargetFails(r) \/ ModelFails(r)
  \/ \E i \in 1..Len(calls) : StoreFails(i)
  \/ \E k \in Appends : AppendFails(k)

Next ==
  \/ Progress \/ Failure
  \/ Compact \/ RequestCancellation \/ Cancel
  \/ \E r \in Runs : \E kinds \in Answers(r) : ModelCallsTools(r, kinds)

Spec == Init /\ [][Next]_vars
FairSpec == Spec /\ WF_vars(Progress)

-----------------------------------------------------------------------------
(* Every variable has its type. *)
Corrs == 0..MaxCalls
CallType ==
  [run : Runs, kind : {"tool", "subagent"},
   at : {"calling", "queued", "running", "storing", "stored", "reporting", "done"},
   corr : Corrs, ended : Corrs, lost : SUBSET {"call", "result"}]
EntryType(e) ==
  /\ {e.held, e.known} \subseteq BOOLEAN
  /\ DOMAIN e.calls \subseteq Corrs /\ DOMAIN e.runs \subseteq Runs
  /\ \A c \in DOMAIN e.calls : e.calls[c] \in {"open", "ended"}
TypeOK ==
  /\ status \in {"queued", "working"} \cup Terminal
  /\ exec \in {"none", "scheduled", "context", "agent", "compacting", "settling",
              "failing", "ended", "lost"}
  /\ aborted \in BOOLEAN
  /\ phase \in [Runs -> {"off", "target", "generating"} \cup Over]
  /\ Len(calls) <= MaxCalls
  /\ \A i \in 1..Len(calls) : calls[i] \in CallType
  /\ \A r \in Runs : \A k \in 1..Len(queue[r]) : queue[r][k] \in 1..Len(calls)
  /\ \A r \in Runs : \A k \in 1..Len(pend[r]) : pend[r][k] \in Corrs
  /\ \A k \in 1..Len(feed) : feed[k].call \in 1..Len(calls)
  /\ EntryType(entry) /\ EntryType(final.trace)
  /\ mishaps \in 0..MaxMishaps

(* Tools share one workspace: whatever the model asks for at once, and     *)
(* inside a subagent too, at most one tool touches it at a time.           *)
(* agent-runner.ts:67-99, docs/modules/agent-service/README.md:77.         *)
ToolsTakeTurns ==
  \A i, j \in 1..Len(calls) :
    /\ calls[i].at = "running" /\ calls[i].kind = "tool"
    /\ calls[j].at = "running" /\ calls[j].kind = "tool"
    => i = j

(* The SDK gives all calls of a run one id; the end of a call is reported  *)
(* under the correlation id of its own start.  tool-event-relay.ts:267-282. *)
EndsMatchStarts ==
  \A i \in 1..Len(calls) :
    calls[i].at \notin {"calling", "queued", "running"} => calls[i].ended = calls[i].corr

(* When a message has completed or failed its feed tells its whole turn:   *)
(* each call once, in the order of the calls, each result once and after   *)
(* its call, except what the database or the artifact store refused; and   *)
(* the terminal event is the last.  tool-event-relay.ts:255-265.           *)
At(i, type) ==
  {k \in 1..Len(events) :
     events[k].type = type /\ events[k].call = i /\ events[k].corr = calls[i].corr}
FeedTellsTheTurn ==
  status \in {"completed", "failed"} /\ exec # "lost" =>
    /\ events[Len(events)].type = status
    /\ \A i \in OfRun(0) :
         /\ \A type \in {"call", "result"} \ calls[i].lost : Cardinality(At(i, type)) = 1
         /\ \A k \in At(i, "call"), l \in At(i, "result") : k < l
         /\ \A j \in OfRun(0) : i < j =>
              \A k \in At(i, "call"), l \in At(j, "call") : k < l

(* The trace of a message that was not cancelled holds every call of the   *)
(* session agent, and apart from them every subagent with its own calls,   *)
(* all of them ended.  trace-recorder.ts:318-445, 462-530.                 *)
AllEnded(r) == [c \in 1..Cardinality(OfRun(r)) |-> "ended"]
TraceIsWhole ==
  final.at = "exporting" /\ final.outcome # "cancelled" =>
    LET t == final.trace
        subagents == {r \in Runs \ {0} : phase[r] # "off"}
    IN /\ t.known
       /\ t.calls = AllEnded(0)
       /\ DOMAIN t.runs \ {0} = subagents
       /\ \A r \in subagents : t.runs[r].done /\ t.runs[r].calls = AllEnded(r)
       /\ phase[0] = "ok" => 0 \in DOMAIN t.runs /\ t.runs[0].done

(* Even when the recorder lost the turn in a restart, a trace holds every  *)
(* call whose event was committed before.  trace-recorder.ts:484-487.      *)
TraceCoversEvents ==
  final.at = "exporting" =>
    \A k \in 1..final.seen :
      /\ events[k].type \in {"call", "result"} => events[k].corr \in DOMAIN final.trace.calls
      /\ events[k].type = "result" => final.trace.calls[events[k].corr] = "ended"

(* Once the trace of a message that was not cancelled has been handed to   *)
(* the sinks, whatever they did with it, the recorder holds nothing of the *)
(* message.  trace-recorder.ts:531-540.                                    *)
EntryReleased ==
  final.at = "done" /\ final.outcome # "cancelled" => ~entry.held

(* A turn that has begun comes to an end: a tool that throws lets the ones *)
(* behind it run, and the tools of a subagent do not wait behind the call  *)
(* that is the subagent.  agent-runner.ts:67-99, 155-175.                  *)
TurnEnds == phase[0] = "target" ~> phase[0] \in Over \cup {"off"}

=============================================================================
