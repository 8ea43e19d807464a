-------------------------- MODULE AgentTurnProofs --------------------------
(***************************************************************************)
(* Theorems about AgentTurn, for any number of calls, any width of the     *)
(* model's answers and any number of mishaps.                              *)
(*                                                                         *)
(* The inductive invariant TurnInv says how the four structures of a turn  *)
(* fit together: a run with unfinished calls is under way, and the run of  *)
(* a subagent inside a call that is running; the queue of a run holds, in  *)
(* order, the calls that are queued or running, the feed those of the      *)
(* session agent whose start is still to be appended, all of them after    *)
(* the queued ones; and the pending correlations of a run are, in order,   *)
(* those of its calls that are not over.  A running tool is then at the    *)
(* head of its run's queue, and the call that ends is the one whose        *)
(* correlation is at the head of the pending ones.                         *)
(*                                                                         *)
(* The second part of the module is about what the turn tells.  TurnTold   *)
(* says it of the events: as long as the server has not lost the turn, those *)
(* of calls and results are of the session agent's calls, in order and once *)
(* each.  TellsTurn says it of the recorder's entry: the calls of each run *)
(* are the correlations from one, open or ended as the calls are, and a    *)
(* subagent that no longer runs is done.  With the fact that the agent works *)
(* only while the execution awaits it (AgentQuiet), the invariant TurnWhole *)
(* gives what the runs check of the feed, the trace and the entry.         *)
(***************************************************************************)
EXTENDS AgentTurn, FiniteSetTheorems, SequenceTheorems, TLAPS

CallRecords ==
  [run : Runs, kind : {"tool", "subagent"},
   at : {"calling", "queued", "running", "storing", "stored", "reporting", "done"},
   corr : Nat, ended : Nat, lost : SUBSET {"call", "result"}]
FeedRecords == [type : {"call", "result"}, call : Nat, corr : Nat]
Phases == {"off", "target", "generating"} \cup Over

AgentTyped ==
  /\ calls \in Seq(CallRecords) /\ Len(calls) <= MaxCalls
  /\ queue \in [Runs -> Seq(Nat)]
  /\ pend \in [Runs -> Seq(Nat)]
  /\ phase \in [Runs -> Phases]
  /\ feed \in Seq(FeedRecords)

Calls == 1..Len(calls)
Open == {"calling", "queued", "running"}

RunsNest ==
  /\ exec \in {"none", "scheduled", "context"} =>
       calls = <<>> /\ \A r \in Runs : phase[r] = "off"
  /\ \A i \in Calls : calls[i].kind = "subagent" \/ calls[i].at = "calling" => calls[i].run = 0
  /\ \A r \in Runs \ {0} : phase[r] \in {"target", "generating"} =>
       r \in Calls /\ calls[r].kind = "subagent" /\ calls[r].at = "running"
  /\ \A i \in Calls : calls[i].at # "done" => phase[calls[i].run] = "generating"

QueuesInOrder ==
  /\ \A r \in Runs : \A k \in 1..Len(queue[r]) : queue[r][k] \in Calls
  /\ \A r \in Runs : \A k, l \in 1..Len(queue[r]) : k < l => queue[r][k] < queue[r][l]
  /\ \A i \in Calls : calls[i].at \in {"queued", "running"} =>
       \E k \in 1..Len(queue[calls[i].run]) : queue[calls[i].run][k] = i
  /\ \A i \in Calls : calls[i].at = "running" => Head(queue[calls[i].run]) = i

FeedInOrder ==
  /\ \A k \in 1..Len(feed) : feed[k].call \in Calls
  /\ \A k \in 1..Len(feed) :
       calls[feed[k].call].at \in
         IF feed[k].type = "call" THEN {"calling"} ELSE {"storing", "stored", "reporting", "done"}
  /\ \A i \in Calls : calls[i].at = "calling" =>
       \E k \in 1..Len(feed) : feed[k].type = "call" /\ feed[k].call = i
  /\ \A k, l \in 1..Len(feed) :
       k < l /\ feed[k].type = "call" /\ feed[l].type = "call" => feed[k].call < feed[l].call
  /\ \A k \in 1..Len(feed) : feed[k].type = "call" =>
       \A l \in 1..Len(queue[0]) : queue[0][l] < feed[k].call

CorrelationsInOrder ==
  /\ \A i \in Calls : calls[i].corr <= Cardinality(OfRun(calls[i].run))
  /\ \A i, j \in Calls : i < j /\ calls[i].run = calls[j].run => calls[i].corr < calls[j].corr
  /\ \A r \in Runs : \A k, l \in 1..Len(pend[r]) : k < l => pend[r][k] < pend[r][l]
  /\ \A r \in Runs : \A k \in 1..Len(pend[r]) :
       \E i \in Calls : calls[i].run = r /\ calls[i].at \in Open /\ pend[r][k] = calls[i].corr
  /\ \A i \in Calls : calls[i].at \in Open =>
       \E k \in 1..Len(pend[calls[i].run]) : pend[calls[i].run][k] = calls[i].corr

TurnInv ==
  AgentTyped /\ RunsNest /\ QueuesInOrder /\ FeedInOrder /\ CorrelationsInOrder /\ EndsMatchStarts

-----------------------------------------------------------------------------
(* Steps that leave the agent alone, and steps of a run between its calls. *)

LEMMA InitTurn == Init => TurnInv
<1> SUFFICES ASSUME Init PROVE TurnInv
  OBVIOUS
<1>1. MaxCalls \in Nat
  BY BoundsAssumption
<1>2. calls = <<>> /\ feed = <<>> /\ Len(calls) = 0 /\ Len(feed) = 0
  BY DEF Init
<1>3. \A r \in Runs : queue[r] = <<>> /\ pend[r] = <<>> /\ phase[r] = "off"
  BY DEF Init
<1>4. \A r \in Runs : Len(queue[r]) = 0 /\ Len(pend[r]) = 0
  BY <1>3
<1>5. AgentTyped
  BY <1>1, <1>2 DEF Init, AgentTyped, Phases
<1>6. RunsNest
  BY <1>2, <1>3 DEF RunsNest, Calls
<1>7. QueuesInOrder
  BY <1>2, <1>4 DEF QueuesInOrder, Calls
<1>8. 0 \in Runs
  BY <1>1 DEF Runs
<1>9. FeedInOrder
  BY <1>2 DEF FeedInOrder, Calls
<1>10. CorrelationsInOrder
  BY <1>2, <1>4 DEF CorrelationsInOrder, Calls
<1>11. EndsMatchStarts
  BY <1>2 DEF EndsMatchStarts
<1> QED BY <1>5, <1>6, <1>7, <1>9, <1>10, <1>11 DEF TurnInv

(* Calls and entries of the feed are records of their types. *)
LEMMA ElementsTyped ==
  ASSUME AgentTyped
  PROVE  /\ Len(calls) \in Nat /\ DOMAIN calls = Calls
         /\ calls \in [Calls -> CallRecords]
         /\ \A i \in Calls : calls[i] \in CallRecords /\ i \in Runs /\ i # 0
         /\ \A i \in Calls : calls[i].run \in Runs /\ calls[i].corr \in Nat
         /\ Len(feed) \in Nat
         /\ \A k \in 1..Len(feed) : feed[k] \in FeedRecords
         /\ 0 \in Runs
<1>1. Len(calls) \in Nat /\ DOMAIN calls = Calls /\ calls \in [Calls -> CallRecords]
  BY LenProperties DEF AgentTyped, Calls
<1>2. Len(feed) \in Nat /\ \A k \in 1..Len(feed) : feed[k] \in FeedRecords
  BY LenProperties, ElementOfSeq DEF AgentTyped
<1>3. Calls \subseteq Runs /\ 0 \in Runs /\ 0 \notin Calls
  BY <1>1, BoundsAssumption DEF AgentTyped, Calls, Runs
<1>4. \A i \in Calls : calls[i].run \in Runs /\ calls[i].corr \in Nat
  BY <1>1 DEF CallRecords
<1> QED BY <1>1, <1>2, <1>3, <1>4

(* A step that changes nothing of the agent keeps the invariant. *)
LEMMA AgentUntouched ==
  ASSUME TurnInv, UNCHANGED agent,
         exec' \in {"none", "scheduled", "context"} => exec \in {"none", "scheduled", "context"}
  PROVE  TurnInv'
<1>1. UNCHANGED <<phase, calls, queue, pend, feed>>
  BY DEF agent
<1>2. AgentTyped' /\ QueuesInOrder' /\ FeedInOrder' /\ CorrelationsInOrder' /\ EndsMatchStarts'
  BY <1>1 DEF TurnInv, AgentTyped, QueuesInOrder, FeedInOrder, CorrelationsInOrder,
              EndsMatchStarts, Calls, OfRun
<1>3. RunsNest'
  BY <1>1 DEF TurnInv, RunsNest, Calls
<1> QED BY <1>2, <1>3 DEF TurnInv

(* A run changes its phase.  It begins only outside the other runs or where *)
(* it already is, and it is between its calls when it does not generate.   *)
LEMMA PhaseMoves ==
  ASSUME TurnInv, NEW r \in Runs, NEW p \in Phases,
         phase' = [phase EXCEPT ![r] = p],
         UNCHANGED <<calls, queue, pend, feed>>,
         exec' \notin {"none", "scheduled", "context"},
         p \in {"target", "generating"} => r = 0 \/ phase[r] = "target",
         p # "generating" => \A i \in OfRun(r) : calls[i].at = "done"
  PROVE  TurnInv'
<1>1. AgentTyped'
  BY DEF TurnInv, AgentTyped
<1>2. QueuesInOrder' /\ FeedInOrder' /\ CorrelationsInOrder' /\ EndsMatchStarts'
  BY DEF TurnInv, QueuesInOrder, FeedInOrder, CorrelationsInOrder, EndsMatchStarts, Calls, OfRun
<1>3. RunsNest'
  <2>1. phase \in [Runs -> Phases]
    BY DEF TurnInv, AgentTyped
  <2>2. \A s \in Runs : phase'[s] = IF s = r THEN p ELSE phase[s]
    BY <2>1
  <2>3. \A i \in Calls' : calls'[i].at # "done" => phase'[calls'[i].run] = "generating"
    <3> SUFFICES ASSUME NEW i \in Calls, calls[i].at # "done"
                 PROVE  phase'[calls[i].run] = "generating"
      BY DEF Calls
    <3>1. calls[i].run \in Runs
      BY ElementsTyped DEF TurnInv
    <3>2. phase[calls[i].run] = "generating"
      BY DEF TurnInv, RunsNest
    <3>3. p # "generating" => calls[i].run # r
      BY DEF OfRun, Calls
    <3> QED BY <3>1, <3>2, <3>3, <2>2
  <2>4. \A s \in Runs \ {0} : phase'[s] \in {"target", "generating"} =>
          s \in Calls' /\ calls'[s].kind = "subagent" /\ calls'[s].at = "running"
    BY <2>2 DEF TurnInv, RunsNest, Calls
  <2>5. \A i \in Calls' : calls'[i].kind = "subagent" \/ calls'[i].at = "calling" =>
          calls'[i].run = 0
    BY DEF TurnInv, RunsNest, Calls
  <2> QED BY <2>3, <2>4, <2>5 DEF RunsNest
<1> QED BY <1>1, <1>2, <1>3 DEF TurnInv

-----------------------------------------------------------------------------
(* The steps of a call. *)

(* The call at the head of a run's queue is the oldest that is not over,   *)
(* and the head of the pending correlations is its own.                    *)
LEMMA HeadIsOldest ==
  ASSUME TurnInv, NEW i \in Calls, calls[i].at \in {"queued", "running"}, Runnable(i)
  PROVE  /\ queue[calls[i].run] # <<>> /\ queue[calls[i].run][1] = i
         /\ \A j \in Calls : calls[j].run = calls[i].run /\ calls[j].at \in Open => i <= j
         /\ pend[calls[i].run] # <<>>
         /\ EndCorrelation(calls[i].run) = calls[i].corr
<1> DEFINE r == calls[i].run
           Q == queue[r]
           P == pend[r]
<1>1. r \in Runs /\ 0 \in Runs
  BY ElementsTyped DEF TurnInv
<1>2. Q \in Seq(Nat) /\ P \in Seq(Nat) /\ Len(Q) \in Nat /\ Len(P) \in Nat
  BY <1>1 DEF TurnInv, AgentTyped
<1>3. Q # <<>> /\ Q[1] = i
  <2>1. \E k \in 1..Len(Q) : Q[k] = i
    BY DEF TurnInv, QueuesInOrder
  <2> QED BY <1>2, <2>1 DEF Runnable, ExecutorOf
<1>4. ASSUME NEW j \in Calls, calls[j].run = r, calls[j].at \in Open
      PROVE  i <= j
  <2>1. i \in Nat /\ j \in Nat
    BY DEF Calls
  <2>2. CASE calls[j].at \in {"queued", "running"}
    <3>1. PICK k \in 1..Len(Q) : Q[k] = j
      BY <1>4, <2>2 DEF TurnInv, QueuesInOrder
    <3>2. 1 \in 1..Len(Q)
      BY <1>2, <3>1
    <3>3. 1 < k => Q[1] < Q[k]
      BY <1>1, <3>2 DEF TurnInv, QueuesInOrder
    <3> QED BY <1>2, <1>3, <2>1, <3>1, <3>3
  <2>3. CASE calls[j].at = "calling"
    <3>1. r = 0
      BY <1>4, <2>3 DEF TurnInv, RunsNest
    <3>2. PICK k \in 1..Len(feed) : feed[k].type = "call" /\ feed[k].call = j
      BY <2>3 DEF TurnInv, FeedInOrder
    <3>3. 1 \in 1..Len(queue[0])
      BY <1>2, <1>3, <3>1
    <3>4. queue[0][1] < j
      BY <3>2, <3>3 DEF TurnInv, FeedInOrder
    <3> QED BY <1>3, <2>1, <3>1, <3>4
  <2> QED BY <1>4, <2>2, <2>3 DEF Open
<1>5. P # <<>> /\ P[1] = calls[i].corr
  <2>1. PICK k \in 1..Len(P) : P[k] = calls[i].corr
    BY DEF TurnInv, CorrelationsInOrder, Open
  <2>2. 1 \in 1..Len(P)
    BY <1>2, <2>1
  <2>3. PICK j \in Calls : calls[j].run = r /\ calls[j].at \in Open /\ P[1] = calls[j].corr
    BY <1>1, <2>2 DEF TurnInv, CorrelationsInOrder
  <2>4. i <= j /\ i \in Nat /\ j \in Nat
    BY <1>4, <2>3 DEF Calls
  <2>5. i < j => calls[i].corr < calls[j].corr
    BY <2>3 DEF TurnInv, CorrelationsInOrder
  <2>6. 1 < k => P[1] < P[k]
    BY <1>1, <2>2 DEF TurnInv, CorrelationsInOrder
  <2>7. calls[i].corr \in Nat /\ calls[j].corr \in Nat
    BY ElementsTyped DEF TurnInv
  <2>8. k = 1
    <3>1. ASSUME 1 < k PROVE FALSE
      <4>1. calls[j].corr < calls[i].corr
        BY <2>1, <2>3, <2>6, <3>1
      <4>2. calls[i].corr <= calls[j].corr
        BY <2>4, <2>5, <2>7
      <4> QED BY <2>7, <4>1, <4>2
    <3> QED BY <1>2, <3>1
  <2> QED BY <2>1, <2>2, <2>8
<1>6. EndCorrelation(r) = calls[i].corr
  BY <1>5 DEF EndCorrelation
<1> QED BY <1>3, <1>4, <1>5, <1>6

(* One call changes, in the run it is in. *)
LEMMA CallChanges ==
  ASSUME AgentTyped, NEW i \in Calls, NEW c \in CallRecords,
         calls' = [calls EXCEPT ![i] = c], c.run = calls[i].run
  PROVE  /\ calls' \in Seq(CallRecords) /\ Len(calls') = Len(calls) /\ Calls' = Calls
         /\ \A j \in Calls : calls'[j] = IF j = i THEN c ELSE calls[j]
         /\ \A j \in Calls : calls'[j].run = calls[j].run
         /\ \A r : OfRun(r)' = OfRun(r)
<1>1. calls \in Seq(CallRecords) /\ i \in 1..Len(calls)
  BY DEF AgentTyped, Calls
<1>2. calls' \in Seq(CallRecords) /\ Len(calls') = Len(calls)
      /\ \A j \in 1..Len(calls) : calls'[j] = IF j = i THEN c ELSE calls[j]
  BY <1>1, ExceptSeq
<1>3. Calls' = Calls
  BY <1>2 DEF Calls
<1>4. \A j \in Calls : calls'[j].run = calls[j].run
  BY <1>2 DEF Calls
<1>5. ASSUME NEW r PROVE OfRun(r)' = OfRun(r)
  BY <1>2, <1>4 DEF OfRun, Calls
<1> QED BY <1>2, <1>3, <1>4, <1>5 DEF Calls

(* The tail of a nonempty sequence, position by position. *)
LEMMA TailPositions ==
  ASSUME NEW s \in Seq(Nat), s # <<>>
  PROVE  /\ Tail(s) \in Seq(Nat) /\ Head(s) = s[1] /\ 1 \in 1..Len(s)
         /\ Len(s) \in Nat /\ Len(Tail(s)) = Len(s) - 1
         /\ \A k \in 1..Len(Tail(s)) :
              Tail(s)[k] = s[k + 1] /\ k + 1 \in 1..Len(s) /\ 1 < k + 1
         /\ \A k, l \in 1..Len(Tail(s)) : k < l => k + 1 < l + 1
         /\ \A k \in 1..Len(s) :
              k = 1 \/ (k - 1 \in 1..Len(Tail(s)) /\ Tail(s)[k - 1] = s[k])
<1> DEFINE t == Tail(s)
<1>1. /\ t \in Seq(Nat) /\ Len(t) = Len(s) - 1
      /\ \A k \in 1..Len(t) : t[k] = s[k + 1]
  BY HeadTailProperties
<1>2. Len(s) \in Nat /\ Len(s) # 0 /\ Head(s) = s[1]
  BY LenProperties
<1> HIDE DEF t
<1>3. /\ \A k \in 1..Len(t) : k + 1 \in 1..Len(s) /\ 1 < k + 1
      /\ \A k, l \in 1..Len(t) : k < l => k + 1 < l + 1
  BY <1>1, <1>2
<1>4. ASSUME NEW k \in 1..Len(s), k # 1
      PROVE  k - 1 \in 1..Len(t) /\ t[k - 1] = s[k]
  <2>1. k - 1 \in 1..Len(t) /\ (k - 1) + 1 = k
    BY <1>1, <1>2, <1>4
  <2>2. t[k - 1] = s[(k - 1) + 1]
    BY <1>1, <2>1
  <2> QED BY <2>1, <2>2
<1>5. 1 \in 1..Len(s)
  BY <1>2
<1> QED BY <1>1, <1>2, <1>3, <1>4, <1>5 DEF t

(* The correlations stay in order when one call that is not over changes   *)
(* and is not over, or over and no longer pending.                         *)
LEMMA OldestLeaves ==
  ASSUME TurnInv, NEW i \in Calls, NEW c \in CallRecords,
         calls' = [calls EXCEPT ![i] = c], c.run = calls[i].run, c.corr = calls[i].corr,
         calls[i].at \in {"queued", "running"}, Runnable(i), c.at \notin Open,
         pend' = [pend EXCEPT ![c.run] = LeftPending(c.run)]
  PROVE  CorrelationsInOrder' /\ pend' \in [Runs -> Seq(Nat)]
<1> DEFINE r == calls[i].run
           P == pend[r]
<1>1. AgentTyped /\ r \in Runs /\ CorrelationsInOrder
  BY ElementsTyped DEF TurnInv
<1>2. /\ Calls' = Calls
      /\ \A j \in Calls : calls'[j] = IF j = i THEN c ELSE calls[j]
      /\ \A j \in Calls : calls'[j].run = calls[j].run
      /\ \A s : OfRun(s)' = OfRun(s)
  BY <1>1, CallChanges
<1>3. \A j \in Calls : calls'[j].corr = calls[j].corr
  BY <1>2
<1>4. P # <<>> /\ Head(P) = calls[i].corr
  BY HeadIsOldest DEF EndCorrelation
<1>5. P \in Seq(Nat) /\ pend \in [Runs -> Seq(Nat)]
  BY <1>1 DEF AgentTyped
<1>6. /\ Tail(P) \in Seq(Nat) /\ 1 \in 1..Len(P)
      /\ \A k \in 1..Len(Tail(P)) : Tail(P)[k] = P[k + 1] /\ k + 1 \in 1..Len(P) /\ 1 < k + 1
      /\ \A k, l \in 1..Len(Tail(P)) : k < l => k + 1 < l + 1
      /\ \A k \in 1..Len(P) :
           k = 1 \/ (k - 1 \in 1..Len(Tail(P)) /\ Tail(P)[k - 1] = P[k])
  BY <1>4, <1>5, TailPositions
<1>7. pend' \in [Runs -> Seq(Nat)] /\ \A s \in Runs : pend'[s] = IF s = r THEN Tail(P) ELSE pend[s]
  BY <1>1, <1>5, <1>6 DEF LeftPending
<1>8. (\A j \in Calls : calls[j].corr <= Cardinality(OfRun(calls[j].run)))'
  <2>1. \A j \in Calls : OfRun(calls[j].run) = {k \in 1..Len(calls') : calls'[k].run = calls'[j].run}
    BY <1>2 DEF OfRun
  <2> QED BY <1>1, <1>2, <1>3, <2>1 DEF CorrelationsInOrder, OfRun
<1>9. \A j, l \in Calls : j < l /\ calls'[j].run = calls'[l].run => calls'[j].corr < calls'[l].corr
  BY <1>1, <1>2, <1>3 DEF CorrelationsInOrder
<1>10. ASSUME NEW s \in Runs, NEW k \in 1..Len(pend'[s]), NEW l \in 1..Len(pend'[s]), k < l
       PROVE  pend'[s][k] < pend'[s][l]
  <2>1. CASE s # r
    BY <1>1, <1>7, <1>10, <2>1 DEF CorrelationsInOrder
  <2>2. CASE s = r
    <3>1. pend'[s][k] = P[k + 1] /\ pend'[s][l] = P[l + 1]
          /\ k + 1 \in 1..Len(P) /\ l + 1 \in 1..Len(P) /\ k + 1 < l + 1
      <4>1. pend'[s] = Tail(P)
        BY <1>7, <2>2
      <4>2. k \in 1..Len(Tail(P)) /\ l \in 1..Len(Tail(P))
        BY <4>1
      <4> HIDE DEF P
      <4> QED BY <1>6, <1>10, <4>1, <4>2
    <3> QED BY <1>1, <3>1 DEF CorrelationsInOrder
  <2> QED BY <2>1, <2>2
<1>11. \A j \in Calls : j # i => calls[j].run # r \/ calls[j].corr # calls[i].corr
  <2>1. \A j \in Calls : j \in Nat /\ calls[j].corr \in Nat
    BY <1>1, ElementsTyped DEF Calls
  <2> QED BY <1>1, <2>1 DEF CorrelationsInOrder
<1>12. ASSUME NEW s \in Runs, NEW k \in 1..Len(pend'[s])
       PROVE  \E j \in Calls : calls'[j].run = s /\ calls'[j].at \in Open
                               /\ pend'[s][k] = calls'[j].corr
  <2>1. CASE s # r
    <3>1. PICK j \in Calls : calls[j].run = s /\ calls[j].at \in Open /\ pend[s][k] = calls[j].corr
      BY <1>1, <1>7, <2>1 DEF CorrelationsInOrder
    <3>2. j # i
      BY <2>1, <3>1
    <3> QED BY <1>2, <1>7, <2>1, <3>1, <3>2
  <2>2. CASE s = r
    <3>1. pend'[s][k] = P[k + 1] /\ 1 \in 1..Len(P) /\ k + 1 \in 1..Len(P) /\ 1 < k + 1
      <4>1. pend'[s] = Tail(P)
        BY <1>7, <2>2
      <4>2. k \in 1..Len(Tail(P))
        BY <4>1
      <4> HIDE DEF P
      <4> QED BY <1>6, <4>1, <4>2
    <3>2. PICK j \in Calls : calls[j].run = r /\ calls[j].at \in Open /\ P[k + 1] = calls[j].corr
      BY <1>1, <3>1 DEF CorrelationsInOrder
    <3>3. P[1] < P[k + 1]
      BY <1>1, <3>1 DEF CorrelationsInOrder
    <3>4. P[1] = calls[i].corr /\ calls[i].corr \in Nat
      BY <1>4, <1>5, <1>1, ElementsTyped
    <3>5. j # i
      BY <3>2, <3>3, <3>4
    <3> QED BY <1>2, <2>2, <3>1, <3>2, <3>5
  <2> QED BY <2>1, <2>2
<1>13. ASSUME NEW j \in Calls, calls'[j].at \in Open
       PROVE  \E k \in 1..Len(pend'[calls'[j].run]) : pend'[calls'[j].run][k] = calls'[j].corr
  <2>1. j # i /\ calls'[j] = calls[j]
    BY <1>2, <1>13
  <2>2. calls[j].run \in Runs
    BY <1>1, ElementsTyped
  <2>3. PICK k \in 1..Len(pend[calls[j].run]) : pend[calls[j].run][k] = calls[j].corr
    BY <1>1, <1>13, <2>1 DEF CorrelationsInOrder
  <2>4. CASE calls[j].run # r
    BY <1>7, <2>1, <2>2, <2>3, <2>4
  <2>5. CASE calls[j].run = r
    <3>1. P[1] = calls[i].corr
      BY <1>4, <1>5
    <3>2. k # 1
      BY <1>11, <2>1, <2>3, <2>5, <3>1
    <3>3. k - 1 \in 1..Len(Tail(P)) /\ Tail(P)[k - 1] = P[k]
      BY <1>6, <2>3, <2>5, <3>2
    <3> QED BY <1>7, <2>1, <2>2, <2>3, <2>5, <3>3
  <2> QED BY <2>4, <2>5
<1>14. /\ \A s \in Runs : \A k, l \in 1..Len(pend'[s]) : k < l => pend'[s][k] < pend'[s][l]
       /\ \A s \in Runs : \A k \in 1..Len(pend'[s]) :
            \E j \in Calls : calls'[j].run = s /\ calls'[j].at \in Open
                             /\ pend'[s][k] = calls'[j].corr
       /\ \A j \in Calls : calls'[j].at \in Open =>
            \E k \in 1..Len(pend'[calls'[j].run]) : pend'[calls'[j].run][k] = calls'[j].corr
  BY <1>10, <1>12, <1>13
<1>15. CorrelationsInOrder'
  BY <1>2, <1>8, <1>9, <1>14 DEF CorrelationsInOrder
<1> QED BY <1>7, <1>15

(* The correlations stay in order when a call changes and is over exactly  *)
(* when it was.                                                            *)
LEMMA CallGoesOn ==
  ASSUME TurnInv, NEW i \in Calls, NEW c \in CallRecords,
         calls' = [calls EXCEPT ![i] = c], c.run = calls[i].run, c.corr = calls[i].corr,
         c.at \in Open <=> calls[i].at \in Open, UNCHANGED pend
  PROVE  CorrelationsInOrder'
<1>1. AgentTyped /\ CorrelationsInOrder
  BY DEF TurnInv
<1>2. /\ Calls' = Calls
      /\ \A j \in Calls : calls'[j] = IF j = i THEN c ELSE calls[j]
      /\ \A j \in Calls : calls'[j].run = calls[j].run
      /\ \A s : OfRun(s)' = OfRun(s)
  BY <1>1, CallChanges
<1>3. \A j \in Calls : /\ calls'[j].corr = calls[j].corr
                       /\ calls'[j].at \in Open <=> calls[j].at \in Open
  BY <1>2
<1>4. (\A j \in Calls : calls[j].corr <= Cardinality(OfRun(calls[j].run)))'
  <2>1. \A j \in Calls : OfRun(calls[j].run) = {k \in 1..Len(calls') : calls'[k].run = calls'[j].run}
    BY <1>2 DEF OfRun
  <2> QED BY <1>1, <1>2, <1>3, <2>1 DEF CorrelationsInOrder, OfRun
<1>5. (\A j, l \in Calls : j < l /\ calls[j].run = calls[l].run => calls[j].corr < calls[l].corr)'
  BY <1>1, <1>2, <1>3 DEF CorrelationsInOrder
<1>6. (\A s \in Runs : \A k \in 1..Len(pend[s]) :
         \E j \in Calls : calls[j].run = s /\ calls[j].at \in Open /\ pend[s][k] = calls[j].corr)'
  <2> SUFFICES ASSUME NEW s \in Runs, NEW k \in 1..Len(pend[s])
               PROVE  \E j \in Calls : calls'[j].run = s /\ calls'[j].at \in Open
                                       /\ pend[s][k] = calls'[j].corr
    BY <1>2
  <2>1. PICK j \in Calls : calls[j].run = s /\ calls[j].at \in Open /\ pend[s][k] = calls[j].corr
    BY <1>1 DEF CorrelationsInOrder
  <2> QED BY <1>2, <1>3, <2>1
<1>7. (\A j \in Calls : calls[j].at \in Open =>
         \E k \in 1..Len(pend[calls[j].run]) : pend[calls[j].run][k] = calls[j].corr)'
  <2> SUFFICES ASSUME NEW j \in Calls, calls'[j].at \in Open
               PROVE  \E k \in 1..Len(pend[calls'[j].run]) : pend[calls'[j].run][k] = calls'[j].corr
    BY <1>2
  <2>1. PICK k \in 1..Len(pend[calls[j].run]) : pend[calls[j].run][k] = calls[j].corr
    BY <1>1, <1>3 DEF CorrelationsInOrder
  <2> QED BY <1>2, <1>3, <2>1
<1>8. (\A s \in Runs : \A k, l \in 1..Len(pend[s]) : k < l => pend[s][k] < pend[s][l])'
  BY <1>1 DEF CorrelationsInOrder
<1> QED BY <1>4, <1>5, <1>6, <1>7, <1>8 DEF CorrelationsInOrder

(* The executor lets go of the call at the head of a run's queue. *)
LEMMA HeadReleased ==
  ASSUME TurnInv, NEW i \in Calls, NEW c \in CallRecords,
         calls' = [calls EXCEPT ![i] = c], c.run = calls[i].run,
         calls[i].at \in {"queued", "running"}, Runnable(i), c.at \notin Open,
         queue' = [queue EXCEPT ![c.run] = Tail(@)]
  PROVE  /\ QueuesInOrder' /\ queue' \in [Runs -> Seq(Nat)]
         /\ \A l \in 1..Len(queue'[0]) : \E k \in 1..Len(queue[0]) : queue'[0][l] = queue[0][k]
<1> DEFINE r == calls[i].run
           Q == queue[r]
<1>1. AgentTyped /\ r \in Runs /\ 0 \in Runs /\ QueuesInOrder
  BY ElementsTyped DEF TurnInv
<1>2. /\ Calls' = Calls
      /\ \A j \in Calls : calls'[j] = IF j = i THEN c ELSE calls[j]
      /\ \A j \in Calls : calls'[j].run = calls[j].run
  BY <1>1, CallChanges
<1>3. Q # <<>> /\ Q[1] = i
  BY HeadIsOldest
<1>4. Q \in Seq(Nat) /\ queue \in [Runs -> Seq(Nat)]
  BY <1>1 DEF AgentTyped
<1>5. /\ Tail(Q) \in Seq(Nat) /\ 1 \in 1..Len(Q)
      /\ \A k \in 1..Len(Tail(Q)) : Tail(Q)[k] = Q[k + 1] /\ k + 1 \in 1..Len(Q) /\ 1 < k + 1
      /\ \A k, l \in 1..Len(Tail(Q)) : k < l => k + 1 < l + 1
      /\ \A k \in 1..Len(Q) :
           k = 1 \/ (k - 1 \in 1..Len(Tail(Q)) /\ Tail(Q)[k - 1] = Q[k])
  BY <1>3, <1>4, TailPositions
<1>6. queue' \in [Runs -> Seq(Nat)] /\ \A s \in Runs : queue'[s] = IF s = r THEN Tail(Q) ELSE queue[s]
  BY <1>1, <1>4, <1>5
<1>7. ASSUME NEW s \in Runs, NEW k \in 1..Len(queue'[s])
      PROVE  \E m \in 1..Len(queue[s]) : queue'[s][k] = queue[s][m]
  <2>1. CASE s # r
    BY <1>6, <2>1
  <2>2. CASE s = r
    <3>1. queue'[s] = Tail(Q)
      BY <1>6, <2>2
    <3>2. k \in 1..Len(Tail(Q))
      BY <3>1
    <3> QED BY <1>5, <2>2, <3>1, <3>2
  <2> QED BY <2>1, <2>2
<1>8. (\A s \in Runs : \A k \in 1..Len(queue[s]) : queue[s][k] \in Calls)'
  <2>1. \A s \in Runs : \A m \in 1..Len(queue[s]) : queue[s][m] \in Calls
    BY <1>1 DEF QueuesInOrder
  <2>2. ASSUME NEW s \in Runs, NEW k \in 1..Len(queue'[s]) PROVE queue'[s][k] \in Calls
    <3>1. PICK m \in 1..Len(queue[s]) : queue'[s][k] = queue[s][m]
      BY <1>7
    <3> QED BY <2>1, <3>1
  <2> QED BY <1>2, <2>2
<1>9. ASSUME NEW s \in Runs, NEW k \in 1..Len(queue'[s]), NEW l \in 1..Len(queue'[s]), k < l
      PROVE  queue'[s][k] < queue'[s][l]
  <2>1. CASE s # r
    BY <1>1, <1>6, <1>9, <2>1 DEF QueuesInOrder
  <2>2. CASE s = r
    <3>1. queue'[s][k] = Q[k + 1] /\ queue'[s][l] = Q[l + 1]
          /\ k + 1 \in 1..Len(Q) /\ l + 1 \in 1..Len(Q) /\ k + 1 < l + 1
      <4>1. queue'[s] = Tail(Q)
        BY <1>6, <2>2
      <4>2. k \in 1..Len(Tail(Q)) /\ l \in 1..Len(Tail(Q))
        BY <4>1
      <4> HIDE DEF Q
      <4> QED BY <1>5, <1>9, <4>1, <4>2
    <3> QED BY <1>1, <3>1 DEF QueuesInOrder
  <2> QED BY <2>1, <2>2
<1>10. ASSUME NEW j \in Calls, calls'[j].at \in {"queued", "running"}
       PROVE  \E k \in 1..Len(queue'[calls'[j].run]) : queue'[calls'[j].run][k] = j
  <2>1. j # i /\ calls'[j] = calls[j]
    BY <1>2, <1>10 DEF Open
  <2>2. calls[j].run \in Runs
    BY <1>1, ElementsTyped
  <2>3. PICK k \in 1..Len(queue[calls[j].run]) : queue[calls[j].run][k] = j
    BY <1>1, <1>10, <2>1 DEF QueuesInOrder
  <2>4. CASE calls[j].run # r
    BY <1>6, <2>1, <2>2, <2>3, <2>4
  <2>5. CASE calls[j].run = r
    <3>1. k # 1
      BY <1>3, <2>1, <2>3, <2>5
    <3>2. k - 1 \in 1..Len(Tail(Q)) /\ Tail(Q)[k - 1] = Q[k]
      BY <1>5, <2>3, <2>5, <3>1
    <3> QED BY <1>6, <2>1, <2>2, <2>3, <2>5, <3>2
  <2> QED BY <2>4, <2>5
<1>11. ASSUME NEW j \in Calls, calls'[j].at = "running"
       PROVE  Head(queue'[calls'[j].run]) = j
  <2>1. j # i /\ calls'[j] = calls[j]
    BY <1>2, <1>11 DEF Open
  <2>2. Head(queue[calls[j].run]) = j /\ calls[j].run \in Runs
    BY <1>1, <1>11, <2>1, ElementsTyped DEF QueuesInOrder
  <2>3. calls[j].run # r
    BY <2>1, <2>2 DEF Runnable, ExecutorOf
  <2> QED BY <1>6, <2>1, <2>2, <2>3
<1>12. (\A s \in Runs : \A k, l \in 1..Len(queue[s]) : k < l => queue[s][k] < queue[s][l])'
  BY <1>9
<1>13. (\A j \in Calls : calls[j].at \in {"queued", "running"} =>
          \E k \in 1..Len(queue[calls[j].run]) : queue[calls[j].run][k] = j)'
  BY <1>2, <1>10
<1>14. (\A j \in Calls : calls[j].at = "running" => Head(queue[calls[j].run]) = j)'
  BY <1>2, <1>11
<1>15. QueuesInOrder'
  BY <1>8, <1>12, <1>13, <1>14 DEF QueuesInOrder
<1> QED BY <1>1, <1>6, <1>7, <1>15

(* The feed stays in order when a call that is not calling changes and a   *)
(* result of it may be appended, while the queues only lose calls.         *)
LEMMA ResultAppended ==
  ASSUME TurnInv, NEW i \in Calls, NEW c \in CallRecords, NEW x \in Nat,
         calls' = [calls EXCEPT ![i] = c], c.run = calls[i].run,
         calls[i].at # "calling", c.at # "calling",
         calls[i].at \notin Open => c.at \notin Open,
         \/ UNCHANGED feed
         \/ feed' = AppendAndPublish("result", i, x) /\ c.at \notin Open,
         \A l \in 1..Len(queue'[0]) : \E k \in 1..Len(queue[0]) : queue'[0][l] = queue[0][k]
  PROVE  FeedInOrder' /\ feed' \in Seq(FeedRecords)
<1>1. AgentTyped /\ FeedInOrder /\ 0 \in Runs
  BY ElementsTyped DEF TurnInv
<1>2. /\ Calls' = Calls
      /\ \A j \in Calls : calls'[j] = IF j = i THEN c ELSE calls[j]
      /\ \A j \in Calls : calls[j] \in CallRecords
  BY <1>1, CallChanges, ElementsTyped
<1> DEFINE e == [type |-> "result", call |-> i, corr |-> x]
<1>3. e \in FeedRecords
  BY DEF FeedRecords, Calls
<1>4. feed \in Seq(FeedRecords) /\ Len(feed) \in Nat
  BY <1>1 DEF AgentTyped
<1>5. /\ feed' \in Seq(FeedRecords) /\ Len(feed') \in Nat /\ Len(feed) <= Len(feed')
      /\ \A k \in 1..Len(feed) : feed'[k] = feed[k]
      /\ \A k \in 1..Len(feed') : k \in 1..Len(feed) \/ (feed'[k] = e /\ c.at \notin Open)
  <2>1. CASE UNCHANGED feed
    BY <1>4, <2>1
  <2>2. CASE feed' = AppendAndPublish("result", i, x) /\ c.at \notin Open
    <3>1. feed' = Append(feed, e)
      BY <2>2 DEF AppendAndPublish
    <3> HIDE DEF e
    <3>2. /\ feed' \in Seq(FeedRecords) /\ Len(feed') = Len(feed) + 1
          /\ \A k \in 1..Len(feed) : feed'[k] = feed[k]
          /\ feed'[Len(feed) + 1] = e
      BY <1>3, <1>4, <3>1, AppendProperties
    <3> QED BY <1>4, <2>2, <3>2
  <2> QED BY <2>1, <2>2
<1>6. \A j \in Calls : calls'[j].at = "calling" <=> calls[j].at = "calling"
  BY <1>2
<1>7. c.at \notin Open <=> c.at \in {"storing", "stored", "reporting", "done"}
  BY DEF CallRecords, Open
<1>8. ASSUME NEW k \in 1..Len(feed')
      PROVE  feed'[k].call \in Calls /\ calls'[feed'[k].call].at \in
               IF feed'[k].type = "call" THEN {"calling"} ELSE {"storing", "stored", "reporting", "done"}
  <2>1. CASE k \in 1..Len(feed)
    <3>1. feed'[k] = feed[k] /\ feed[k].call \in Calls
      BY <1>1, <1>5, <2>1 DEF FeedInOrder
    <3>2. calls[feed[k].call].at \in
            IF feed[k].type = "call" THEN {"calling"} ELSE {"storing", "stored", "reporting", "done"}
      BY <1>1, <2>1 DEF FeedInOrder
    <3>3. CASE feed[k].type = "call"
      BY <1>6, <3>1, <3>2, <3>3
    <3>4. CASE feed[k].type # "call"
      <4>1. calls[feed[k].call].at \notin Open
        BY <3>2, <3>4 DEF Open
      <4>2. calls'[feed[k].call].at \in {"storing", "stored", "reporting", "done"}
        BY <1>2, <1>7, <3>1, <3>2, <3>4, <4>1
      <4> QED BY <3>1, <3>4, <4>2
    <3> QED BY <3>3, <3>4
  <2>2. CASE feed'[k] = e /\ c.at \notin Open
    BY <1>2, <1>7, <2>2
  <2> QED BY <1>5, <2>1, <2>2
<1>9. ASSUME NEW j \in Calls, calls'[j].at = "calling"
      PROVE  \E k \in 1..Len(feed') : feed'[k].type = "call" /\ feed'[k].call = j
  <2>1. PICK k \in 1..Len(feed) : feed[k].type = "call" /\ feed[k].call = j
    BY <1>1, <1>6, <1>9 DEF FeedInOrder
  <2> QED BY <1>4, <1>5, <2>1
<1>10. \A k \in 1..Len(feed') : feed'[k].type = "call" => k \in 1..Len(feed) /\ feed'[k] = feed[k]
  BY <1>5
<1>11. (\A k, l \in 1..Len(feed) :
          k < l /\ feed[k].type = "call" /\ feed[l].type = "call" => feed[k].call < feed[l].call)'
  BY <1>1, <1>10 DEF FeedInOrder
<1>12. (\A k \in 1..Len(feed) : feed[k].type = "call" =>
          \A l \in 1..Len(queue[0]) : queue[0][l] < feed[k].call)'
  <2> SUFFICES ASSUME NEW k \in 1..Len(feed'), feed'[k].type = "call", NEW l \in 1..Len(queue'[0])
               PROVE  queue'[0][l] < feed'[k].call
    OBVIOUS
  <2>1. PICK m \in 1..Len(queue[0]) : queue'[0][l] = queue[0][m]
    OBVIOUS
  <2> QED BY <1>1, <1>10, <2>1 DEF FeedInOrder
<1>13. FeedInOrder'
  BY <1>2, <1>8, <1>9, <1>11, <1>12 DEF FeedInOrder
<1> QED BY <1>5, <1>13

(* A call whose tool settles leaves the turn in order. *)
LEMMA ToolSettles ==
  ASSUME TurnInv, NEW i \in Calls, calls[i].at \in {"queued", "running"}, Runnable(i),
         NEW how, NEW e, Settle(i, how, e), UNCHANGED <<phase, exec>>,
         phase[i] \notin {"target", "generating"}
  PROVE  TurnInv'
<1> DEFINE r == calls[i].run
           x == calls[i].corr
           a == IF ~Emits(r) THEN "done" ELSE IF how = "long" THEN "storing" ELSE "reporting"
           c == [calls[i] EXCEPT !.at = a, !.ended = x]
<1>1. /\ AgentTyped /\ calls[i] \in CallRecords /\ r \in Runs /\ 0 \in Runs /\ x \in Nat /\ i \in Runs
      /\ calls \in [Calls -> CallRecords]
  BY ElementsTyped DEF TurnInv
<1>2. EndCorrelation(r) = x
  BY HeadIsOldest
<1>3. a \in {"done", "storing", "reporting"}
  OBVIOUS
<1>4. c \in CallRecords /\ c.run = r /\ c.corr = x /\ c.ended = x /\ c.at = a /\ c.kind = calls[i].kind
  BY <1>1, <1>3 DEF CallRecords
<1>5. calls' = [calls EXCEPT ![i] = c]
  BY <1>1, <1>2 DEF Settle, EndCallback
<1>6. c.at \notin Open /\ calls[i].at \in Open
  BY <1>3, <1>4 DEF Open
<1>7. pend' = [pend EXCEPT ![c.run] = LeftPending(c.run)]
  BY <1>4 DEF Settle, EndCallback
<1>8. queue' = [queue EXCEPT ![c.run] = Tail(@)]
  BY <1>4 DEF Settle, Release, ExecutorOf
<1>9. UNCHANGED feed \/ feed' = AppendAndPublish("result", i, x)
  BY <1>2 DEF Settle, EndCallback
<1> HIDE DEF c
<1>10. CorrelationsInOrder' /\ pend' \in [Runs -> Seq(Nat)]
  BY <1>4, <1>5, <1>6, <1>7, OldestLeaves
<1>11. /\ QueuesInOrder' /\ queue' \in [Runs -> Seq(Nat)]
       /\ \A l \in 1..Len(queue'[0]) : \E k \in 1..Len(queue[0]) : queue'[0][l] = queue[0][k]
  BY <1>4, <1>5, <1>6, <1>8, HeadReleased
<1>12. FeedInOrder' /\ feed' \in Seq(FeedRecords)
  <2>1. calls[i].at # "calling" /\ c.at # "calling"
    BY <1>3, <1>4
  <2> QED BY <1>1, <1>4, <1>5, <1>6, <1>9, <1>11, <2>1, ResultAppended
<1>13. /\ calls' \in Seq(CallRecords) /\ Len(calls') = Len(calls) /\ Calls' = Calls
       /\ \A j \in Calls : calls'[j] = IF j = i THEN c ELSE calls[j]
  BY <1>1, <1>4, <1>5, CallChanges
<1>14. AgentTyped'
  BY <1>1, <1>10, <1>11, <1>12, <1>13 DEF AgentTyped
<1>15. RunsNest'
  <2>1. RunsNest
    BY DEF TurnInv
  <2>2. phase[r] = "generating"
    BY <2>1 DEF RunsNest
  <2>3. (exec \in {"none", "scheduled", "context"} =>
           calls = <<>> /\ \A s \in Runs : phase[s] = "off")'
    BY <1>1, <2>1, <2>2 DEF RunsNest
  <2>4. (\A j \in Calls : calls[j].kind = "subagent" \/ calls[j].at = "calling" => calls[j].run = 0)'
    <3>1. a # "calling"
      BY <1>3
    <3> QED BY <1>4, <1>13, <2>1, <3>1 DEF RunsNest
  <2>5. (\A s \in Runs \ {0} : phase[s] \in {"target", "generating"} =>
           s \in Calls /\ calls[s].kind = "subagent" /\ calls[s].at = "running")'
    BY <1>13, <2>1 DEF RunsNest
  <2>6. (\A j \in Calls : calls[j].at # "done" => phase[calls[j].run] = "generating")'
    BY <1>4, <1>13, <2>1, <2>2 DEF RunsNest
  <2> QED BY <2>3, <2>4, <2>5, <2>6 DEF RunsNest
<1>16. EndsMatchStarts'
  BY <1>4, <1>13 DEF TurnInv, EndsMatchStarts, Calls
<1> QED BY <1>10, <1>11, <1>12, <1>14, <1>15, <1>16 DEF TurnInv

(* A queued call at the head of its run's queue begins to run; when it is  *)
(* a subagent its own run begins with it.                                  *)
LEMMA ToolStarts ==
  ASSUME TurnInv, NEW i \in Calls, calls[i].at = "queued", Runnable(i),
         calls' = [calls EXCEPT ![i].at = "running"],
         UNCHANGED <<queue, pend, feed, exec>>,
         \/ UNCHANGED phase
         \/ calls[i].kind = "subagent" /\ phase' = [phase EXCEPT ![i] = "target"]
  PROVE  TurnInv'
<1> DEFINE c == [calls[i] EXCEPT !.at = "running"]
<1>1. /\ AgentTyped /\ RunsNest /\ QueuesInOrder /\ 0 \in Runs
      /\ calls[i] \in CallRecords /\ calls[i].run \in Runs /\ i \in Runs /\ i # 0
  BY ElementsTyped DEF TurnInv
<1>2. /\ c \in CallRecords /\ c.run = calls[i].run /\ c.corr = calls[i].corr
      /\ c.at = "running" /\ c.kind = calls[i].kind
  BY <1>1 DEF CallRecords
<1>3. calls' = [calls EXCEPT ![i] = c]
  OBVIOUS
<1> HIDE DEF c
<1>4. /\ calls' \in Seq(CallRecords) /\ Len(calls') = Len(calls) /\ Calls' = Calls
      /\ \A j \in Calls : calls'[j] = IF j = i THEN c ELSE calls[j]
      /\ \A j \in Calls : calls'[j].run = calls[j].run
  BY <1>1, <1>2, <1>3, CallChanges
<1>5. CorrelationsInOrder'
  BY <1>2, <1>3, CallGoesOn DEF Open
<1>6. FeedInOrder'
  <2>1. \A l \in 1..Len(queue'[0]) : \E k \in 1..Len(queue[0]) : queue'[0][l] = queue[0][k]
    OBVIOUS
  <2> QED BY <1>2, <1>3, <2>1, ResultAppended DEF Open, CallRecords
<1>7. phase \in [Runs -> Phases] /\ phase' \in [Runs -> Phases]
      /\ \A s \in Runs : phase'[s] = phase[s]
                         \/ (s = i /\ calls[i].kind = "subagent" /\ phase'[s] = "target")
  <2>1. phase \in [Runs -> Phases] /\ "target" \in Phases
    BY <1>1 DEF AgentTyped, Phases
  <2> QED BY <1>1, <2>1
<1>8. AgentTyped'
  BY <1>1, <1>4, <1>7 DEF AgentTyped
<1>9. QueuesInOrder'
  <2>1. (\A s \in Runs : \A k \in 1..Len(queue[s]) : queue[s][k] \in Calls)'
    BY <1>1, <1>4 DEF QueuesInOrder
  <2>2. (\A s \in Runs : \A k, l \in 1..Len(queue[s]) : k < l => queue[s][k] < queue[s][l])'
    BY <1>1 DEF QueuesInOrder
  <2>3. (\A j \in Calls : calls[j].at \in {"queued", "running"} =>
           \E k \in 1..Len(queue[calls[j].run]) : queue[calls[j].run][k] = j)'
    <3> SUFFICES ASSUME NEW j \in Calls, calls'[j].at \in {"queued", "running"}
                 PROVE  \E k \in 1..Len(queue[calls'[j].run]) : queue[calls'[j].run][k] = j
      BY <1>4
    <3>1. calls[j].at \in {"queued", "running"}
      BY <1>4
    <3>2. \E k \in 1..Len(queue[calls[j].run]) : queue[calls[j].run][k] = j
      BY <1>1, <3>1 DEF QueuesInOrder
    <3> QED BY <1>4, <3>2
  <2>4. (\A j \in Calls : calls[j].at = "running" => Head(queue[calls[j].run]) = j)'
    BY <1>1, <1>4 DEF QueuesInOrder, Runnable, ExecutorOf
  <2> QED BY <2>1, <2>2, <2>3, <2>4 DEF QueuesInOrder
<1>10. RunsNest'
  <2>1. phase[calls[i].run] = "generating" /\ calls[i].run # i
    BY <1>1 DEF RunsNest
  <2>2. (exec \in {"none", "scheduled", "context"} =>
           calls = <<>> /\ \A s \in Runs : phase[s] = "off")'
    BY <1>1, <2>1 DEF RunsNest
  <2>3. (\A j \in Calls : calls[j].kind = "subagent" \/ calls[j].at = "calling" => calls[j].run = 0)'
    BY <1>1, <1>2, <1>4 DEF RunsNest
  <2>4. (\A s \in Runs \ {0} : phase[s] \in {"target", "generating"} =>
           s \in Calls /\ calls[s].kind = "subagent" /\ calls[s].at = "running")'
    BY <1>1, <1>2, <1>4, <1>7 DEF RunsNest
  <2>5. ASSUME NEW j \in Calls, calls'[j].at # "done"
        PROVE  phase'[calls'[j].run] = "generating"
    <3>1. calls[j].at # "done" /\ calls[j].run \in Runs
      BY <1>1, <1>4, <2>5, ElementsTyped
    <3>2. phase[calls[j].run] = "generating"
      BY <1>1, <3>1 DEF RunsNest
    <3>3. calls[j].run = i => i \in Calls /\ calls[i].at = "running"
      BY <1>1, <3>2 DEF RunsNest
    <3>4. calls[j].run # i
      BY <3>3
    <3> QED BY <1>4, <1>7, <3>1, <3>2, <3>4
  <2> QED BY <1>4, <2>2, <2>3, <2>4, <2>5 DEF RunsNest
<1>11. EndsMatchStarts'
  BY <1>2, <1>4 DEF TurnInv, EndsMatchStarts, Calls
<1> QED BY <1>5, <1>6, <1>8, <1>9, <1>10, <1>11 DEF TurnInv

(* A call that is over goes on to its end: whatever becomes of the feed,    *)
(* the rest of the turn stays in order.                                    *)
LEMMA OverCallChanges ==
  ASSUME TurnInv, NEW i \in Calls, NEW c \in CallRecords,
         calls[i].at \notin Open, c.at \in {"stored", "done"},
         calls[i].at = "done" => c.at = "done",
         calls' = [calls EXCEPT ![i] = c],
         c.run = calls[i].run, c.corr = calls[i].corr, c.kind = calls[i].kind,
         c.ended = calls[i].ended,
         UNCHANGED <<phase, queue, pend, exec>>
  PROVE  /\ calls' \in Seq(CallRecords) /\ Len(calls') = Len(calls)
         /\ CorrelationsInOrder' /\ QueuesInOrder' /\ RunsNest' /\ EndsMatchStarts'
<1>1. /\ AgentTyped /\ RunsNest /\ QueuesInOrder /\ 0 \in Runs
      /\ calls[i] \in CallRecords /\ calls[i].ended \in Nat
  BY ElementsTyped DEF TurnInv, CallRecords
<1>2. /\ calls' \in Seq(CallRecords) /\ Len(calls') = Len(calls) /\ Calls' = Calls
      /\ \A j \in Calls : calls'[j] = IF j = i THEN c ELSE calls[j]
      /\ \A j \in Calls : calls'[j].run = calls[j].run
  BY <1>1, CallChanges
<1>3. CorrelationsInOrder'
  BY CallGoesOn DEF Open
<1>4. QueuesInOrder'
  <2>1. \A j \in Calls : calls'[j].at \in {"queued", "running"} => calls'[j] = calls[j]
    BY <1>2
  <2>2. (\A s \in Runs : \A k \in 1..Len(queue[s]) : queue[s][k] \in Calls)'
    BY <1>1, <1>2 DEF QueuesInOrder
  <2>3. (\A s \in Runs : \A k, m \in 1..Len(queue[s]) : k < m => queue[s][k] < queue[s][m])'
    BY <1>1 DEF QueuesInOrder
  <2>4. (\A j \in Calls : calls[j].at \in {"queued", "running"} =>
           \E k \in 1..Len(queue[calls[j].run]) : queue[calls[j].run][k] = j)'
    <3> SUFFICES ASSUME NEW j \in Calls, calls'[j].at \in {"queued", "running"}
                 PROVE  \E k \in 1..Len(queue[calls'[j].run]) : queue[calls'[j].run][k] = j
      BY <1>2
    <3>1. \E k \in 1..Len(queue[calls[j].run]) : queue[calls[j].run][k] = j
      BY <1>1, <2>1 DEF QueuesInOrder
    <3> QED BY <1>2, <3>1
  <2>5. (\A j \in Calls : calls[j].at = "running" => Head(queue[calls[j].run]) = j)'
    BY <1>1, <1>2, <2>1 DEF QueuesInOrder
  <2> QED BY <2>2, <2>3, <2>4, <2>5 DEF QueuesInOrder
<1>5. RunsNest'
  <2>1. calls # <<>> /\ c.at # "calling"
    BY DEF Calls
  <2>2. (exec \in {"none", "scheduled", "context"} =>
           calls = <<>> /\ \A s \in Runs : phase[s] = "off")'
    BY <1>1, <2>1 DEF RunsNest
  <2>3. (\A j \in Calls : calls[j].kind = "subagent" \/ calls[j].at = "calling" => calls[j].run = 0)'
    BY <1>1, <1>2, <2>1 DEF RunsNest
  <2>4. (\A s \in Runs \ {0} : phase[s] \in {"target", "generating"} =>
           s \in Calls /\ calls[s].kind = "subagent" /\ calls[s].at = "running")'
    BY <1>1, <1>2 DEF RunsNest, Open
  <2>5. (\A j \in Calls : calls[j].at # "done" => phase[calls[j].run] = "generating")'
    BY <1>1, <1>2 DEF RunsNest
  <2> QED BY <2>2, <2>3, <2>4, <2>5 DEF RunsNest
<1>6. EndsMatchStarts'
  BY <1>2 DEF TurnInv, EndsMatchStarts, Calls, Open
<1> QED BY <1>2, <1>3, <1>4, <1>5, <1>6

(* The callback after a tool whose output had to be stored. *)
LEMMA OutputHandled ==
  ASSUME TurnInv, NEW i \in Calls, NEW c \in CallRecords,
         calls[i].at = "storing", c.at \in {"stored", "done"},
         calls' = [calls EXCEPT ![i] = c],
         c.run = calls[i].run, c.corr = calls[i].corr, c.kind = calls[i].kind,
         c.ended = calls[i].ended,
         UNCHANGED <<phase, queue, pend, exec>>,
         UNCHANGED feed \/ feed' = AppendAndPublish("result", i, calls[i].ended)
  PROVE  TurnInv'
<1>1. AgentTyped /\ 0 \in Runs /\ calls[i].ended \in Nat
  BY ElementsTyped DEF TurnInv, CallRecords
<1>2. /\ calls' \in Seq(CallRecords) /\ Len(calls') = Len(calls)
      /\ CorrelationsInOrder' /\ QueuesInOrder' /\ RunsNest' /\ EndsMatchStarts'
  BY OverCallChanges DEF Open
<1>3. FeedInOrder' /\ feed' \in Seq(FeedRecords)
  <2>1. \A m \in 1..Len(queue'[0]) : \E k \in 1..Len(queue[0]) : queue'[0][m] = queue[0][k]
    OBVIOUS
  <2>2. calls[i].at # "calling" /\ c.at # "calling" /\ c.at \notin Open
    BY DEF Open
  <2> QED BY <1>1, <2>1, <2>2, ResultAppended
<1>4. AgentTyped'
  BY <1>1, <1>2, <1>3 DEF AgentTyped
<1> QED BY <1>2, <1>3, <1>4 DEF TurnInv

(* The head of the feed goes and the others move up. *)
LEMMA FeedPops ==
  ASSUME AgentTyped, feed # <<>>, feed' = FeedAfter(1)
  PROVE  /\ feed' \in Seq(FeedRecords) /\ 1 \in 1..Len(feed)
         /\ \A k \in 1..Len(feed') :
              feed'[k] = feed[k + 1] /\ k + 1 \in 1..Len(feed) /\ 1 < k + 1
         /\ \A k, l \in 1..Len(feed') : k < l => k + 1 < l + 1
         /\ \A k \in 1..Len(feed) :
              k = 1 \/ (k - 1 \in 1..Len(feed') /\ feed'[k - 1] = feed[k])
<1> DEFINE n == Len(feed)
<1>1. feed \in Seq(FeedRecords) /\ n \in Nat /\ n # 0
  BY DEF AgentTyped
<1>2. feed' = [j \in 1..n - 1 |-> feed[j + 1]]
  <2>1. \A j \in 1..n - 1 : (IF j < 1 THEN j ELSE j + 1) = j + 1
    BY <1>1
  <2> QED BY <2>1 DEF FeedAfter
<1>3. \A k \in 1..n : feed[k] \in FeedRecords
  BY <1>1, ElementOfSeq
<1>4. n - 1 \in Nat
  BY <1>1
<1> HIDE DEF n
<1>5. \A j \in 1..n - 1 : j + 1 \in 1..n /\ 1 < j + 1
  BY <1>1
<1>6. feed' \in [1..n - 1 -> FeedRecords]
  BY <1>2, <1>3, <1>5
<1>7. feed' \in Seq(FeedRecords) /\ Len(feed') = n - 1
  BY <1>4, <1>6
<1>8. \A k \in 1..Len(feed') : feed'[k] = feed[k + 1] /\ k + 1 \in 1..n /\ 1 < k + 1
  BY <1>2, <1>5, <1>7
<1>9. \A k, l \in 1..Len(feed') : k < l => k + 1 < l + 1
  BY <1>4, <1>7
<1>10. ASSUME NEW k \in 1..n, k # 1
       PROVE  k - 1 \in 1..Len(feed') /\ feed'[k - 1] = feed[k]
  <2>1. k - 1 \in 1..Len(feed') /\ (k - 1) + 1 = k
    BY <1>1, <1>7, <1>10
  <2>2. feed'[k - 1] = feed[(k - 1) + 1]
    BY <1>8, <2>1
  <2> QED BY <2>1, <2>2
<1>11. 1 \in 1..n
  BY <1>1
<1> QED BY <1>7, <1>8, <1>9, <1>10, <1>11 DEF n

(* The result at the head of the feed is reported: its call is done. *)
LEMMA ResultReported ==
  ASSUME TurnInv, feed # <<>>, feed[1].type = "result", feed' = FeedAfter(1),
         NEW c \in CallRecords, calls' = [calls EXCEPT ![feed[1].call] = c],
         c.run = calls[feed[1].call].run, c.corr = calls[feed[1].call].corr,
         c.kind = calls[feed[1].call].kind, c.ended = calls[feed[1].call].ended,
         c.at = "done", UNCHANGED <<phase, queue, pend, exec>>
  PROVE  TurnInv'
<1> DEFINE i == feed[1].call
<1>1. AgentTyped /\ FeedInOrder
  BY DEF TurnInv
<1>2. /\ feed' \in Seq(FeedRecords) /\ 1 \in 1..Len(feed)
      /\ \A k \in 1..Len(feed') : feed'[k] = feed[k + 1] /\ k + 1 \in 1..Len(feed) /\ 1 < k + 1
      /\ \A k, l \in 1..Len(feed') : k < l => k + 1 < l + 1
      /\ \A k \in 1..Len(feed) :
           k = 1 \/ (k - 1 \in 1..Len(feed') /\ feed'[k - 1] = feed[k])
  BY <1>1, FeedPops
<1>3. i \in Calls /\ calls[i].at \in {"storing", "stored", "reporting", "done"}
  BY <1>1, <1>2 DEF FeedInOrder
<1> HIDE DEF i
<1>4. /\ calls' \in Seq(CallRecords) /\ Len(calls') = Len(calls)
      /\ CorrelationsInOrder' /\ QueuesInOrder' /\ RunsNest' /\ EndsMatchStarts'
  BY <1>3, OverCallChanges DEF Open, i
<1>5. /\ Calls' = Calls
      /\ \A j \in Calls : calls'[j] = IF j = i THEN c ELSE calls[j]
  BY <1>1, <1>3, CallChanges DEF i
<1>6. AgentTyped'
  BY <1>1, <1>2, <1>4 DEF AgentTyped
<1>7. ASSUME NEW k \in 1..Len(feed')
      PROVE  feed'[k].call \in Calls /\ calls'[feed'[k].call].at \in
               IF feed'[k].type = "call" THEN {"calling"} ELSE {"storing", "stored", "reporting", "done"}
  <2> DEFINE j == feed[k + 1].call
  <2>1. feed'[k] = feed[k + 1] /\ j \in Calls
    BY <1>1, <1>2 DEF FeedInOrder
  <2>2. calls[j].at \in
          IF feed[k + 1].type = "call" THEN {"calling"} ELSE {"storing", "stored", "reporting", "done"}
    BY <1>1, <1>2 DEF FeedInOrder
  <2>3. calls'[j] = calls[j] \/ (j = i /\ calls'[j].at = "done")
    BY <1>5, <2>1
  <2> HIDE DEF j
  <2>4. calls'[j].at \in
          IF feed[k + 1].type = "call" THEN {"calling"} ELSE {"storing", "stored", "reporting", "done"}
    BY <1>3, <2>2, <2>3
  <2> QED BY <2>1, <2>4 DEF j
<1>8. ASSUME NEW j \in Calls, calls'[j].at = "calling"
      PROVE  \E k \in 1..Len(feed') : feed'[k].type = "call" /\ feed'[k].call = j
  <2>1. calls[j].at = "calling"
    BY <1>5, <1>8
  <2>2. PICK k \in 1..Len(feed) : feed[k].type = "call" /\ feed[k].call = j
    BY <1>1, <2>1 DEF FeedInOrder
  <2>3. k # 1
    BY <2>2
  <2> QED BY <1>2, <2>2, <2>3
<1>9. ASSUME NEW k \in 1..Len(feed'), NEW l \in 1..Len(feed'), k < l,
             feed'[k].type = "call", feed'[l].type = "call"
      PROVE  feed'[k].call < feed'[l].call
  <2>1. /\ k + 1 \in 1..Len(feed) /\ l + 1 \in 1..Len(feed) /\ k + 1 < l + 1
        /\ feed'[k] = feed[k + 1] /\ feed'[l] = feed[l + 1]
    BY <1>2, <1>9
  <2>2. feed[k + 1].call < feed[l + 1].call
    BY <1>1, <1>9, <2>1 DEF FeedInOrder
  <2> QED BY <2>1, <2>2
<1>10. ASSUME NEW k \in 1..Len(feed'), feed'[k].type = "call", NEW l \in 1..Len(queue[0])
       PROVE  queue[0][l] < feed'[k].call
  <2>1. k + 1 \in 1..Len(feed) /\ feed'[k] = feed[k + 1]
    BY <1>2
  <2>2. queue[0][l] < feed[k + 1].call
    BY <1>1, <1>10, <2>1 DEF FeedInOrder
  <2> QED BY <2>1, <2>2
<1>11. FeedInOrder'
  BY <1>5, <1>7, <1>8, <1>9, <1>10 DEF FeedInOrder
<1> QED BY <1>4, <1>6, <1>11 DEF TurnInv

(* An element is appended, position by position. *)
LEMMA AppendPositions ==
  ASSUME NEW S, NEW s \in Seq(S), NEW e \in S
  PROVE  LET t == Append(s, e)
         IN /\ t \in Seq(S) /\ Len(t) \in Nat
            /\ \A k \in 1..Len(t) : (k \in 1..Len(s) /\ t[k] = s[k]) \/ (k \notin 1..Len(s) /\ t[k] = e)
            /\ \A k \in 1..Len(s) : k \in 1..Len(t) /\ t[k] = s[k]
            /\ \E k \in 1..Len(t) : t[k] = e
            /\ \A k, l \in 1..Len(t) : k < l => k \in 1..Len(s)
            /\ s # <<>> => Head(t) = Head(s)
<1> DEFINE t == Append(s, e)
           n == Len(s)
<1>1. n \in Nat /\ t \in Seq(S) /\ Len(t) = n + 1 /\ t[n + 1] = e
      /\ t # <<>> /\ \A k \in 1..n : t[k] = s[k]
  BY AppendProperties, LenProperties
<1>2. Head(t) = t[1]
  BY <1>1
<1>3. s # <<>> => n # 0 /\ Head(s) = s[1]
  BY LenProperties
<1> HIDE DEF t, n
<1>4. \A k \in 1..Len(t) : (k \in 1..n /\ t[k] = s[k]) \/ (k \notin 1..n /\ t[k] = e)
  <2> SUFFICES ASSUME NEW k \in 1..Len(t), k \notin 1..n PROVE t[k] = e
    BY <1>1
  <2>1. k = n + 1
    BY <1>1
  <2> QED BY <1>1, <2>1
<1>5. \A k \in 1..n : k \in 1..Len(t)
  BY <1>1
<1>6. n + 1 \in 1..Len(t)
  BY <1>1
<1>7. \A k, l \in 1..Len(t) : k < l => k \in 1..n
  BY <1>1
<1>8. s # <<>> => Head(t) = Head(s)
  <2> SUFFICES ASSUME s # <<>> PROVE Head(t) = Head(s)
    OBVIOUS
  <2>1. 1 \in 1..n
    BY <1>1, <1>3
  <2> QED BY <1>1, <1>2, <1>3, <2>1
<1>9. Len(t) \in Nat /\ \E k \in 1..Len(t) : t[k] = e
  BY <1>1, <1>6
<1> QED BY <1>1, <1>4, <1>5, <1>7, <1>8, <1>9 DEF t, n

(* The call at the head of the feed is announced and handed to the         *)
(* executor, behind every call that is there.                              *)
LEMMA CallHandedOver ==
  ASSUME TurnInv, feed # <<>>, feed[1].type = "call", feed' = FeedAfter(1),
         NEW c \in CallRecords, calls' = [calls EXCEPT ![feed[1].call] = c],
         c.run = calls[feed[1].call].run, c.corr = calls[feed[1].call].corr,
         c.kind = calls[feed[1].call].kind, c.at = "queued",
         queue' = [queue EXCEPT ![c.run] = Append(@, feed[1].call)],
         UNCHANGED <<phase, pend, exec>>
  PROVE  TurnInv'
<1> DEFINE i == feed[1].call
           Q == queue[0]
<1>1. AgentTyped /\ FeedInOrder /\ RunsNest /\ QueuesInOrder /\ EndsMatchStarts /\ 0 \in Runs
  BY ElementsTyped DEF TurnInv
<1>2. /\ feed' \in Seq(FeedRecords) /\ 1 \in 1..Len(feed)
      /\ \A k \in 1..Len(feed') : feed'[k] = feed[k + 1] /\ k + 1 \in 1..Len(feed) /\ 1 < k + 1
      /\ \A k, l \in 1..Len(feed') : k < l => k + 1 < l + 1
      /\ \A k \in 1..Len(feed) :
           k = 1 \/ (k - 1 \in 1..Len(feed') /\ feed'[k - 1] = feed[k])
  BY <1>1, FeedPops
<1>3. i \in Calls /\ calls[i].at = "calling"
  BY <1>1, <1>2 DEF FeedInOrder
<1>4. c.run = 0 /\ calls[i].run = 0
  BY <1>1, <1>3 DEF RunsNest
<1>5. /\ \A k \in 1..Len(Q) : Q[k] < i
      /\ \A k \in 1..Len(feed') : feed'[k].type = "call" => i < feed'[k].call
  <2>1. \A k \in 1..Len(Q) : Q[k] < i
    BY <1>1, <1>2 DEF FeedInOrder
  <2>2. ASSUME NEW k \in 1..Len(feed'), feed'[k].type = "call"
        PROVE  i < feed'[k].call
    <3>1. feed'[k] = feed[k + 1] /\ k + 1 \in 1..Len(feed) /\ 1 < k + 1
      BY <1>2
    <3>2. feed[1].call < feed[k + 1].call
      BY <1>1, <1>2, <2>2, <3>1 DEF FeedInOrder
    <3> QED BY <3>1, <3>2
  <2> QED BY <2>1, <2>2
<1>6. queue \in [Runs -> Seq(Nat)] /\ Q \in Seq(Nat) /\ i \in Nat
  BY <1>1, <1>3 DEF AgentTyped, Calls
<1> DEFINE T == Append(Q, i)
<1>7. queue' = [queue EXCEPT ![0] = T]
  BY <1>4
<1>12. /\ T \in Seq(Nat) /\ Len(T) \in Nat
       /\ \A k \in 1..Len(T) : (k \in 1..Len(Q) /\ T[k] = Q[k]) \/ (k \notin 1..Len(Q) /\ T[k] = i)
       /\ \A k \in 1..Len(Q) : k \in 1..Len(T) /\ T[k] = Q[k]
       /\ \E k \in 1..Len(T) : T[k] = i
       /\ \A k, l \in 1..Len(T) : k < l => k \in 1..Len(Q)
       /\ Q # <<>> => Head(T) = Head(Q)
  <2> HIDE DEF Q, i
  <2> QED BY <1>6, AppendPositions
<1> HIDE DEF T
<1>8. queue' \in [Runs -> Seq(Nat)] /\ queue'[0] = T
      /\ \A s \in Runs : s # 0 => queue'[s] = queue[s]
  BY <1>1, <1>6, <1>7, <1>12
<1>9. /\ calls' \in Seq(CallRecords) /\ Len(calls') = Len(calls) /\ Calls' = Calls
      /\ \A j \in Calls : calls'[j] = IF j = i THEN c ELSE calls[j]
      /\ \A j \in Calls : calls'[j].run = calls[j].run
  BY <1>1, <1>3, CallChanges
<1>10. CorrelationsInOrder'
  BY <1>3, CallGoesOn DEF Open
<1>11. AgentTyped'
  BY <1>1, <1>2, <1>8, <1>9 DEF AgentTyped
<1> HIDE DEF i, Q
<1>13. QueuesInOrder'
  <2>1. ASSUME NEW s \in Runs, NEW k \in 1..Len(queue'[s])
        PROVE  queue'[s][k] \in Calls
    <3>1. CASE s = 0
      <4>1. k \in 1..Len(T)
        BY <1>8, <3>1
      <4>2. \A l \in 1..Len(Q) : Q[l] \in Calls
        BY <1>1 DEF QueuesInOrder, Q
      <4>3. T[k] \in Calls
        BY <1>3, <1>12, <4>1, <4>2
      <4> QED BY <1>8, <3>1, <4>3
    <3>2. CASE s # 0
      BY <1>1, <1>8, <3>2 DEF QueuesInOrder
    <3> QED BY <3>1, <3>2
  <2>2. ASSUME NEW s \in Runs, NEW k \in 1..Len(queue'[s]), NEW l \in 1..Len(queue'[s]), k < l
        PROVE  queue'[s][k] < queue'[s][l]
    <3>1. CASE s = 0
      <4>1. k \in 1..Len(T) /\ l \in 1..Len(T)
        BY <1>8, <3>1
      <4>2. k \in 1..Len(Q) /\ T[k] = Q[k]
        BY <1>12, <2>2, <4>1
      <4>3. l \in 1..Len(Q) => T[l] = Q[l] /\ Q[k] < Q[l]
        BY <1>1, <1>12, <2>2, <4>2 DEF QueuesInOrder, Q
      <4>4. l \notin 1..Len(Q) => T[l] = i /\ Q[k] < i
        BY <1>5, <1>12, <4>1, <4>2
      <4>5. T[k] < T[l]
        BY <4>2, <4>3, <4>4
      <4> QED BY <1>8, <3>1, <4>5
    <3>2. CASE s # 0
      BY <1>1, <1>8, <2>2, <3>2 DEF QueuesInOrder
    <3> QED BY <3>1, <3>2
  <2>3. ASSUME NEW j \in Calls, calls'[j].at \in {"queued", "running"}
        PROVE  \E k \in 1..Len(queue'[calls'[j].run]) : queue'[calls'[j].run][k] = j
    <3>1. CASE j = i
      <4>1. queue'[calls'[j].run] = T
        BY <1>4, <1>8, <1>9, <3>1
      <4> QED BY <1>12, <3>1, <4>1
    <3>2. CASE j # i
      <4>1. calls'[j] = calls[j] /\ calls[j].run \in Runs
        BY <1>1, <1>9, <3>2, ElementsTyped
      <4>2. PICK k \in 1..Len(queue[calls[j].run]) : queue[calls[j].run][k] = j
        BY <1>1, <2>3, <4>1 DEF QueuesInOrder
      <4>3. CASE calls[j].run = 0
        <5>1. k \in 1..Len(Q) /\ Q[k] = j
          BY <4>2, <4>3 DEF Q
        <5>2. k \in 1..Len(T) /\ T[k] = j
          BY <1>12, <5>1
        <5>3. queue'[calls'[j].run] = T
          BY <1>8, <4>1, <4>3
        <5> QED BY <5>2, <5>3
      <4>4. CASE calls[j].run # 0
        BY <1>8, <4>1, <4>2, <4>4
      <4> QED BY <4>3, <4>4
    <3> QED BY <3>1, <3>2
  <2>4. ASSUME NEW j \in Calls, calls'[j].at = "running"
        PROVE  Head(queue'[calls'[j].run]) = j
    <3>1. calls'[j] = calls[j] /\ calls[j].run \in Runs
      BY <1>1, <1>9, <2>4, ElementsTyped
    <3>2. Head(queue[calls[j].run]) = j
      BY <1>1, <2>4, <3>1 DEF QueuesInOrder
    <3>3. CASE calls[j].run = 0
      <4>1. PICK k \in 1..Len(Q) : Q[k] = j
        BY <1>1, <2>4, <3>1, <3>3 DEF QueuesInOrder, Q
      <4>2. Q # <<>>
        BY <4>1
      <4>3. Head(Q) = j
        BY <3>2, <3>3 DEF Q
      <4> QED BY <1>8, <1>12, <3>1, <3>3, <4>2, <4>3
    <3>4. CASE calls[j].run # 0
      BY <1>8, <3>1, <3>2, <3>4
    <3> QED BY <3>3, <3>4
  <2>5. /\ (\A s \in Runs : \A k \in 1..Len(queue[s]) : queue[s][k] \in Calls)'
        /\ (\A s \in Runs : \A k, l \in 1..Len(queue[s]) : k < l => queue[s][k] < queue[s][l])'
    BY <1>9, <2>1, <2>2
  <2>6. /\ (\A j \in Calls : calls[j].at \in {"queued", "running"} =>
             \E k \in 1..Len(queue[calls[j].run]) : queue[calls[j].run][k] = j)'
        /\ (\A j \in Calls : calls[j].at = "running" => Head(queue[calls[j].run]) = j)'
    BY <1>9, <2>3, <2>4
  <2> QED BY <2>5, <2>6 DEF QueuesInOrder
<1>14. FeedInOrder'
  <2>1. ASSUME NEW k \in 1..Len(feed')
        PROVE  feed'[k].call \in Calls /\ calls'[feed'[k].call].at \in
                 IF feed'[k].type = "call" THEN {"calling"} ELSE {"storing", "stored", "reporting", "done"}
    <3> DEFINE j == feed[k + 1].call
    <3>1. feed'[k] = feed[k + 1] /\ j \in Calls
      BY <1>1, <1>2 DEF FeedInOrder
    <3>2. calls[j].at \in
            IF feed[k + 1].type = "call" THEN {"calling"} ELSE {"storing", "stored", "reporting", "done"}
      BY <1>1, <1>2 DEF FeedInOrder
    <3>3. feed[k + 1].type = "call" => i < j
      BY <1>5, <3>1
    <3>4. j # i
      <4>1. CASE feed[k + 1].type = "call"
        BY <1>6, <3>3, <4>1
      <4>2. CASE feed[k + 1].type # "call"
        <5>1. calls[j].at # "calling"
          BY <3>2, <4>2
        <5> QED BY <1>3, <5>1
      <4> QED BY <4>1, <4>2
    <3>5. calls'[j] = calls[j]
      BY <1>9, <3>1, <3>4
    <3> HIDE DEF j
    <3> QED BY <3>1, <3>2, <3>5 DEF j
  <2>2. ASSUME NEW j \in Calls, calls'[j].at = "calling"
        PROVE  \E k \in 1..Len(feed') : feed'[k].type = "call" /\ feed'[k].call = j
    <3>1. calls[j].at = "calling" /\ j # i
      BY <1>9, <2>2
    <3>2. PICK k \in 1..Len(feed) : feed[k].type = "call" /\ feed[k].call = j
      BY <1>1, <3>1 DEF FeedInOrder
    <3>3. k # 1
      BY <3>1, <3>2 DEF i
    <3> QED BY <1>2, <3>2, <3>3
  <2>3. ASSUME NEW k \in 1..Len(feed'), NEW l \in 1..Len(feed'), k < l,
               feed'[k].type = "call", feed'[l].type = "call"
        PROVE  feed'[k].call < feed'[l].call
    <3>1. /\ k + 1 \in 1..Len(feed) /\ l + 1 \in 1..Len(feed) /\ k + 1 < l + 1
          /\ feed'[k] = feed[k + 1] /\ feed'[l] = feed[l + 1]
      BY <1>2, <2>3
    <3>2. feed[k + 1].call < feed[l + 1].call
      BY <1>1, <2>3, <3>1 DEF FeedInOrder
    <3> QED BY <3>1, <3>2
  <2>4. ASSUME NEW k \in 1..Len(feed'), feed'[k].type = "call", NEW l \in 1..Len(queue'[0])
        PROVE  queue'[0][l] < feed'[k].call
    <3>1. k + 1 \in 1..Len(feed) /\ feed'[k] = feed[k + 1]
      BY <1>2
    <3>2. l \in 1..Len(T)
      BY <1>8
    <3>3. T[l] = i => T[l] < feed'[k].call
      BY <1>5, <2>4
    <3>4. l \in 1..Len(Q) /\ T[l] = Q[l] => T[l] < feed'[k].call
      BY <1>1, <2>4, <3>1 DEF FeedInOrder, Q
    <3> QED BY <1>8, <1>12, <3>2, <3>3, <3>4
  <2>5. /\ (\A k \in 1..Len(feed) : feed[k].call \in Calls)'
        /\ (\A k \in 1..Len(feed) :
              calls[feed[k].call].at \in
                IF feed[k].type = "call" THEN {"calling"} ELSE {"storing", "stored", "reporting", "done"})'
        /\ (\A j \in Calls : calls[j].at = "calling" =>
              \E k \in 1..Len(feed) : feed[k].type = "call" /\ feed[k].call = j)'
    BY <1>9, <2>1, <2>2
  <2> QED BY <2>3, <2>4, <2>5 DEF FeedInOrder
<1>15. RunsNest'
  <2>1. (exec \in {"none", "scheduled", "context"} =>
           calls = <<>> /\ \A s \in Runs : phase[s] = "off")'
    BY <1>1, <1>3 DEF RunsNest, Calls
  <2>2. (\A j \in Calls : calls[j].kind = "subagent" \/ calls[j].at = "calling" => calls[j].run = 0)'
    BY <1>1, <1>4, <1>9 DEF RunsNest
  <2>3. (\A s \in Runs \ {0} : phase[s] \in {"target", "generating"} =>
           s \in Calls /\ calls[s].kind = "subagent" /\ calls[s].at = "running")'
    BY <1>1, <1>3, <1>9 DEF RunsNest
  <2>4. (\A j \in Calls : calls[j].at # "done" => phase[calls[j].run] = "generating")'
    BY <1>1, <1>3, <1>9 DEF RunsNest
  <2> QED BY <2>1, <2>2, <2>3, <2>4 DEF RunsNest
<1>16. EndsMatchStarts'
  BY <1>1, <1>9 DEF EndsMatchStarts, Calls
<1> QED BY <1>10, <1>11, <1>13, <1>14, <1>15, <1>16 DEF TurnInv

-----------------------------------------------------------------------------
(* The model asks for tools. *)

(* A sequence that is s and then f. *)
Follows(t, s, n, f) ==
  /\ \A k \in 1..Len(s) : k \in 1..Len(t) /\ t[k] = s[k]
  /\ \A k \in 1..n : Len(s) + k \in 1..Len(t) /\ t[Len(s) + k] = f[k]
  /\ \A k \in 1..Len(t) : k \in 1..Len(s) \/ \E m \in 1..n : k = Len(s) + m

(* The sequence s and then the n elements of f. *)
LEMMA ConcatFollows ==
  ASSUME NEW S, NEW s \in Seq(S), NEW n \in Nat, NEW f \in [1..n -> S]
  PROVE  /\ s \o f \in Seq(S) /\ Len(s \o f) = Len(s) + n
         /\ Follows(s \o f, s, n, f)
         /\ s # <<>> => Head(s \o f) = Head(s)
<1> DEFINE t == s \o f
           L == Len(s)
<1>1. f \in Seq(S) /\ Len(f) = n
  BY IsASeq, LenProperties
<1>2. L \in Nat /\ (s # <<>> => L # 0 /\ Head(s) = s[1])
  BY LenProperties
<1>3. /\ t \in Seq(S) /\ Len(t) = L + n
      /\ \A k \in 1..L + n : t[k] = IF k <= L THEN s[k] ELSE f[k - L]
  BY <1>1, ConcatProperties
<1> HIDE DEF t, L
<1>4. \A k \in 1..L : k \in 1..Len(t) /\ t[k] = s[k]
  BY <1>2, <1>3
<1>5. \A k \in 1..n : L + k \in 1..Len(t) /\ t[L + k] = f[k]
  <2> SUFFICES ASSUME NEW k \in 1..n
               PROVE  L + k \in 1..Len(t) /\ t[L + k] = f[k]
    OBVIOUS
  <2>1. L + k \in 1..L + n /\ ~(L + k <= L) /\ (L + k) - L = k
    BY <1>2
  <2> QED BY <1>3, <2>1
<1>6. \A k \in 1..Len(t) : k \in 1..L \/ \E m \in 1..n : k = L + m
  <2> SUFFICES ASSUME NEW k \in 1..Len(t), k \notin 1..L
               PROVE  \E m \in 1..n : k = L + m
    OBVIOUS
  <2>1. k - L \in 1..n /\ k = L + (k - L)
    BY <1>2, <1>3
  <2> QED BY <2>1
<1>7. s # <<>> => Head(t) = Head(s)
  <2> SUFFICES ASSUME s # <<>> PROVE Head(t) = Head(s)
    OBVIOUS
  <2>1. 1 \in 1..L
    BY <1>2
  <2>2. Len(t) # 0 /\ t[1] = s[1]
    BY <1>2, <1>3, <1>4, <2>1
  <2>3. t # <<>>
    BY <2>2
  <2> QED BY <1>2, <1>3, <2>2, <2>3
<1>8. Follows(t, s, n, f)
  BY <1>4, <1>5, <1>6 DEF Follows, L
<1> QED BY <1>3, <1>7, <1>8 DEF t, L

(* n calls of run r follow those there are, with the correlations that     *)
(* follow the run's.                                                       *)
CallsFollow(r, n) ==
  /\ calls' \in Seq(CallRecords) /\ Len(calls') = Len(calls) + n
  /\ \A j \in Calls : calls'[j] = calls[j]
  /\ \A k \in 1..n :
       /\ calls'[Len(calls) + k].run = r
       /\ calls'[Len(calls) + k].corr = Cardinality(OfRun(r)) + k
       /\ calls'[Len(calls) + k].at = IF Emits(r) THEN "calling" ELSE "queued"

(* The calls of the run are n more, those of the other runs the same. *)
LEMMA RunGrows ==
  ASSUME AgentTyped, NEW r \in Runs, NEW n \in Nat, CallsFollow(r, n)
  PROVE  /\ Len(calls) \in Nat /\ Cardinality(OfRun(r)) \in Nat
         /\ \A j \in Calls : j \in Calls' /\ j <= Len(calls)
         /\ \A k \in 1..n : Len(calls) + k \in Calls' /\ Len(calls) + k \notin Calls
         /\ \A j \in Calls' : j \in Calls \/ \E k \in 1..n : j = Len(calls) + k
         /\ Cardinality(OfRun(r)') = Cardinality(OfRun(r)) + n
         /\ \A s : s # r => OfRun(s)' = OfRun(s)
<1> DEFINE L == Len(calls)
           New == L + 1..L + n
<1>1. L \in Nat
  BY ElementsTyped
<1>2. /\ Calls = 1..L /\ Calls' = 1..L + n
      /\ \A j \in 1..L : calls'[j] = calls[j]
      /\ \A k \in 1..n : calls'[L + k].run = r
  BY DEF CallsFollow, Calls
<1>3. /\ \A s : OfRun(s) = {j \in 1..L : calls[j].run = s}
      /\ \A s : OfRun(s)' = {j \in 1..L + n : calls'[j].run = s}
  BY <1>2 DEF OfRun, Calls
<1> HIDE DEF L
<1>4. \A j \in 1..L + n : j \in 1..L \/ (j \in New /\ \E k \in 1..n : j = L + k)
  <2> SUFFICES ASSUME NEW j \in 1..L + n, j \notin 1..L
               PROVE  j \in New /\ \E k \in 1..n : j = L + k
    OBVIOUS
  <2>1. j - L \in 1..n /\ j = L + (j - L) /\ j \in New
    BY <1>1
  <2> QED BY <2>1
<1>5. \A j \in New : calls'[j].run = r /\ j \in 1..L + n /\ j \notin 1..L
  <2> SUFFICES ASSUME NEW j \in New
               PROVE  calls'[j].run = r /\ j \in 1..L + n /\ j \notin 1..L
    OBVIOUS
  <2>1. j \in 1..L + n /\ j \notin 1..L
    BY <1>1
  <2> QED BY <1>2, <1>4, <2>1
<1>6. OfRun(r)' = OfRun(r) \cup New /\ OfRun(r) \cap New = {}
  <2>1. \A j \in 1..L : j \in 1..L + n
    BY <1>1
  <2>2. \A j \in 1..L + n : calls'[j].run = r <=> (j \in 1..L /\ calls[j].run = r) \/ j \in New
    BY <1>2, <1>4, <1>5
  <2> HIDE DEF New
  <2> QED BY <1>3, <1>5, <2>1, <2>2
<1>7. IsFiniteSet(OfRun(r)) /\ Cardinality(OfRun(r)) \in Nat
  <2>1. IsFiniteSet(1..L) /\ OfRun(r) \in SUBSET (1..L)
    BY <1>1, <1>3, FS_Interval
  <2> QED BY <2>1, FS_Subset, FS_CardinalityType
<1>8. IsFiniteSet(New) /\ Cardinality(New) = n
  <2>1. IsFiniteSet(New) /\ Cardinality(New) = IF L + 1 > L + n THEN 0 ELSE (L + n) - (L + 1) + 1
    BY <1>1, FS_Interval
  <2> QED BY <1>1, <2>1
<1>9. Cardinality(OfRun(r)') = Cardinality(OfRun(r)) + n
  <2>1. Cardinality(OfRun(r) \cup New)
          = Cardinality(OfRun(r)) + Cardinality(New) - Cardinality(OfRun(r) \cap New)
    BY <1>7, <1>8, FS_Union
  <2>2. Cardinality(OfRun(r) \cap New) = 0
    BY <1>6, FS_EmptySet
  <2> QED BY <1>6, <1>7, <1>8, <2>1, <2>2
<1>10. ASSUME NEW s, s # r PROVE OfRun(s)' = OfRun(s)
  <2>1. \A j \in 1..L : j \in 1..L + n
    BY <1>1
  <2>2. \A j \in 1..L + n : calls'[j].run = s <=> j \in 1..L /\ calls[j].run = s
    BY <1>2, <1>4, <1>5, <1>10
  <2> QED BY <1>3, <2>1, <2>2
<1>11. \A k \in 1..n : L + k \in 1..L + n /\ L + k \notin 1..L
  BY <1>1
<1>12. \A j \in 1..L : j \in 1..L + n /\ j <= L
  BY <1>1
<1> QED BY <1>1, <1>2, <1>4, <1>7, <1>9, <1>10, <1>11, <1>12 DEF L

(* An ascending sequence followed by the next n numbers above it ascends.  *)
LEMMA StillAscends ==
  ASSUME NEW s \in Seq(Nat), NEW t, NEW n \in Nat, NEW C \in Nat, NEW f,
         \A k \in 1..n : f[k] = C + k,
         Follows(t, s, n, f),
         \A k, l \in 1..Len(s) : k < l => s[k] < s[l],
         \A k \in 1..Len(s) : s[k] <= C
  PROVE  \A k, l \in 1..Len(t) : k < l => t[k] < t[l]
<1> SUFFICES ASSUME NEW k \in 1..Len(t), NEW l \in 1..Len(t), k < l
             PROVE  t[k] < t[l]
  OBVIOUS
<1>1. Len(s) \in Nat /\ \A j \in 1..Len(s) : s[j] \in Nat
  BY LenProperties, ElementOfSeq
<1>2. CASE k \in 1..Len(s) /\ l \in 1..Len(s)
  BY <1>2 DEF Follows
<1>3. CASE k \in 1..Len(s) /\ \E m \in 1..n : l = Len(s) + m
  <2>1. PICK m \in 1..n : l = Len(s) + m
    BY <1>3
  <2>2. t[l] = C + m /\ t[k] = s[k] /\ s[k] <= C
    BY <1>3, <2>1 DEF Follows
  <2> QED BY <1>1, <1>3, <2>2
<1>4. CASE \E m \in 1..n : k = Len(s) + m
  <2>1. PICK m \in 1..n : k = Len(s) + m
    BY <1>4
  <2>2. l \notin 1..Len(s)
    BY <1>1, <2>1
  <2>3. PICK p \in 1..n : l = Len(s) + p
    BY <2>2 DEF Follows
  <2>4. m < p
    BY <1>1, <2>1, <2>3
  <2>5. t[k] = C + m /\ t[l] = C + p
    BY <2>1, <2>3 DEF Follows
  <2> QED BY <2>4, <2>5
<1> QED BY <1>2, <1>3, <1>4 DEF Follows

(* The correlations of the new calls stay in order behind the others. *)
LEMMA CorrelationsFollow ==
  ASSUME TurnInv, NEW r \in Runs, NEW n \in Nat, CallsFollow(r, n), NEW f,
         \A k \in 1..n : f[k] = Cardinality(OfRun(r)) + k,
         Follows(pend'[r], pend[r], n, f),
         \A s \in Runs : s # r => pend'[s] = pend[s]
  PROVE  CorrelationsInOrder'
<1> DEFINE L == Len(calls)
           C == Cardinality(OfRun(r))
<1>1. AgentTyped /\ CorrelationsInOrder
  BY DEF TurnInv
<1>2. /\ L \in Nat /\ C \in Nat
      /\ \A j \in Calls : j \in Calls' /\ j <= L
      /\ \A k \in 1..n : L + k \in Calls' /\ L + k \notin Calls
      /\ \A j \in Calls' : j \in Calls \/ \E k \in 1..n : j = L + k
      /\ Cardinality(OfRun(r)') = C + n
      /\ \A s : s # r => OfRun(s)' = OfRun(s)
  BY <1>1, RunGrows
<1>3. /\ \A j \in Calls : calls'[j] = calls[j]
      /\ \A k \in 1..n : /\ calls'[L + k].run = r /\ calls'[L + k].corr = C + k
                         /\ calls'[L + k].at \in Open
  BY DEF CallsFollow, Open
<1>4. \A j \in Calls : calls[j].run \in Runs /\ calls[j].corr \in Nat /\ j \in Nat
  BY <1>1, ElementsTyped DEF Calls
<1>5. \A j \in Calls : calls[j].run = r => calls[j].corr <= C
  BY <1>1 DEF CorrelationsInOrder
<1>6. ASSUME NEW j \in Calls'
      PROVE  calls'[j].corr <= Cardinality({k \in 1..Len(calls') : calls'[k].run = calls'[j].run})
  <2>1. \A s : OfRun(s)' = {k \in 1..Len(calls') : calls'[k].run = s}
    BY DEF OfRun
  <2>2. CASE j \in Calls
    <3>1. calls'[j] = calls[j] /\ calls[j].corr <= Cardinality(OfRun(calls[j].run))
      BY <1>1, <1>3, <2>2 DEF CorrelationsInOrder
    <3>2. CASE calls[j].run = r
      <4>1. Cardinality({m \in 1..Len(calls') : calls'[m].run = calls'[j].run}) = C + n
        BY <1>2, <2>1, <3>1, <3>2
      <4>2. calls[j].corr <= C /\ calls[j].corr \in Nat
        BY <1>4, <1>5, <2>2, <3>2
      <4> HIDE DEF C
      <4> QED BY <1>2, <3>1, <4>1, <4>2
    <3>3. CASE calls[j].run # r
      <4> PICK s : s = calls[j].run
        OBVIOUS
      <4>1. {m \in 1..Len(calls') : calls'[m].run = calls'[j].run} = OfRun(s)'
        BY <2>1, <3>1
      <4>2. OfRun(s)' = OfRun(s)
        BY <1>2, <3>3
      <4>3. {m \in 1..Len(calls') : calls'[m].run = calls'[j].run} = OfRun(s)
        BY <4>1, <4>2
      <4> QED BY <3>1, <4>3
    <3> QED BY <3>2, <3>3
  <2>3. CASE j \notin Calls
    <3>1. PICK k \in 1..n : j = L + k
      BY <1>2, <2>3
    <3>2. C + k <= C + n
      BY <1>2
    <3>3. calls'[j].run = r /\ calls'[j].corr = C + k
      BY <1>3, <3>1
    <3>4. Cardinality({m \in 1..Len(calls') : calls'[m].run = calls'[j].run}) = C + n
      BY <1>2, <2>1, <3>3
    <3> QED BY <3>2, <3>3, <3>4
  <2> QED BY <2>2, <2>3
<1>7. ASSUME NEW i \in Calls', NEW j \in Calls', i < j, calls'[i].run = calls'[j].run
      PROVE  calls'[i].corr < calls'[j].corr
  <2>1. CASE i \in Calls /\ j \in Calls
    BY <1>1, <1>3, <1>7, <2>1 DEF CorrelationsInOrder
  <2>2. CASE i \in Calls /\ j \notin Calls
    <3>1. PICK k \in 1..n : j = L + k
      BY <1>2, <2>2
    <3>2. calls'[j].run = r /\ calls'[j].corr = C + k
      BY <1>3, <3>1
    <3>3. calls'[i].corr <= C /\ calls'[i].corr \in Nat
      BY <1>3, <1>4, <1>5, <1>7, <2>2, <3>2
    <3> QED BY <1>2, <3>2, <3>3
  <2>3. CASE i \notin Calls
    <3>1. PICK k \in 1..n : i = L + k
      BY <1>2, <2>3
    <3>2. j \notin Calls
      <4>1. ASSUME j \in Calls PROVE FALSE
        <5>1. j <= L /\ j \in Nat /\ L + k < j
          BY <1>2, <1>4, <1>7, <3>1, <4>1
        <5> QED BY <1>2, <5>1
      <4> QED BY <4>1
    <3>3. PICK m \in 1..n : j = L + m
      BY <1>2, <3>2
    <3>4. k < m
      BY <1>2, <1>7, <3>1, <3>3
    <3>5. calls'[i].corr = C + k /\ calls'[j].corr = C + m
      BY <1>3, <3>1, <3>3
    <3> QED BY <1>2, <3>4, <3>5
  <2> QED BY <2>1, <2>2, <2>3
<1>8. ASSUME NEW s \in Runs, NEW k \in 1..Len(pend'[s])
      PROVE  \E j \in Calls' : calls'[j].run = s /\ calls'[j].at \in Open
                               /\ pend'[s][k] = calls'[j].corr
  <2>1. \A l \in 1..Len(pend[s]) : \E j \in Calls :
          calls[j].run = s /\ calls[j].at \in Open /\ pend[s][l] = calls[j].corr
    BY <1>1 DEF CorrelationsInOrder
  <2>2. CASE k \in 1..Len(pend[s]) /\ pend'[s][k] = pend[s][k]
    BY <1>2, <1>3, <2>1, <2>2
  <2>3. CASE s = r /\ k \notin 1..Len(pend[s])
    <3>1. PICK m \in 1..n : k = Len(pend[r]) + m
      BY <2>3 DEF Follows
    <3>2. pend'[r][k] = f[m]
      BY <3>1 DEF Follows
    <3> QED BY <1>2, <1>3, <2>3, <3>2
  <2>4. s # r => k \in 1..Len(pend[s]) /\ pend'[s][k] = pend[s][k]
    OBVIOUS
  <2>5. s = r /\ k \in 1..Len(pend[s]) => pend'[s][k] = pend[s][k]
    BY DEF Follows
  <2> QED BY <2>2, <2>3, <2>4, <2>5
<1>9. ASSUME NEW j \in Calls', calls'[j].at \in Open
      PROVE  \E k \in 1..Len(pend'[calls'[j].run]) : pend'[calls'[j].run][k] = calls'[j].corr
  <2>1. CASE j \in Calls
    <3>1. calls'[j] = calls[j] /\ calls[j].run \in Runs
      BY <1>3, <1>4, <2>1
    <3>2. PICK k \in 1..Len(pend[calls[j].run]) : pend[calls[j].run][k] = calls[j].corr
      BY <1>1, <1>9, <2>1, <3>1 DEF CorrelationsInOrder
    <3>3. CASE calls[j].run = r
      <4>1. k \in 1..Len(pend'[r]) /\ pend'[r][k] = pend[r][k]
        BY <3>2, <3>3 DEF Follows
      <4> QED BY <3>1, <3>2, <3>3, <4>1
    <3>4. CASE calls[j].run # r
      BY <3>1, <3>2, <3>4
    <3> QED BY <3>3, <3>4
  <2>2. CASE j \notin Calls
    <3>1. PICK m \in 1..n : j = L + m
      BY <1>2, <2>2
    <3>2. Len(pend[r]) + m \in 1..Len(pend'[r]) /\ pend'[r][Len(pend[r]) + m] = f[m]
      BY DEF Follows
    <3>3. calls'[j].run = r /\ calls'[j].corr = f[m]
      BY <1>3, <3>1
    <3> QED BY <3>2, <3>3
  <2> QED BY <2>1, <2>2
<1>10. ASSUME NEW s \in Runs
       PROVE  \A k, l \in 1..Len(pend'[s]) : k < l => pend'[s][k] < pend'[s][l]
  <2>1. pend[s] \in Seq(Nat) /\ pend[r] \in Seq(Nat)
    BY <1>1 DEF AgentTyped
  <2>2. CASE s # r
    BY <1>1, <2>2 DEF CorrelationsInOrder
  <2>3. CASE s = r
    <3>1. \A k \in 1..Len(pend[r]) : pend[r][k] <= C
      BY <1>1, <1>5 DEF CorrelationsInOrder
    <3>2. \A k, l \in 1..Len(pend[r]) : k < l => pend[r][k] < pend[r][l]
      BY <1>1 DEF CorrelationsInOrder
    <3>3. \A k \in 1..n : f[k] = C + k
      OBVIOUS
    <3>5. C \in Nat
      BY <1>2
    <3> DEFINE p == pend[r]
               q == pend'[r]
    <3>6. p \in Seq(Nat) /\ Follows(q, p, n, f)
      BY <2>1
    <3>7. (\A k, l \in 1..Len(p) : k < l => p[k] < p[l]) /\ \A k \in 1..Len(p) : p[k] <= C
      BY <3>1, <3>2
    <3> HIDE DEF C, p, q
    <3>8. \A k, l \in 1..Len(q) : k < l => q[k] < q[l]
      BY <3>3, <3>5, <3>6, <3>7, StillAscends
    <3>4. \A k, l \in 1..Len(pend'[r]) : k < l => pend'[r][k] < pend'[r][l]
      BY <3>8 DEF q
    <3> QED BY <2>3, <3>4
  <2> QED BY <2>2, <2>3
<1>11. (\A j \in Calls : calls[j].corr <= Cardinality(OfRun(calls[j].run)))'
  BY <1>6 DEF OfRun
<1>12. (\A i, j \in Calls : i < j /\ calls[i].run = calls[j].run => calls[i].corr < calls[j].corr)'
  BY <1>7
<1> QED BY <1>8, <1>9, <1>10, <1>11, <1>12 DEF CorrelationsInOrder

(* The calls of a subagent go to the end of its run's queue at once. *)
LEMMA QueueFollows ==
  ASSUME TurnInv, NEW r \in Runs, NEW n \in Nat, CallsFollow(r, n), NEW f,
         \A k \in 1..n : f[k] = Len(calls) + k,
         \/ UNCHANGED queue /\ Emits(r)
         \/ /\ ~Emits(r) /\ Follows(queue'[r], queue[r], n, f)
            /\ queue[r] # <<>> => Head(queue'[r]) = Head(queue[r])
            /\ \A s \in Runs : s # r => queue'[s] = queue[s]
  PROVE  QueuesInOrder'
<1> DEFINE L == Len(calls)
<1>1. AgentTyped /\ QueuesInOrder
  BY DEF TurnInv
<1>2. /\ L \in Nat
      /\ \A j \in Calls : j \in Calls' /\ j <= L
      /\ \A k \in 1..n : L + k \in Calls' /\ L + k \notin Calls
      /\ \A j \in Calls' : j \in Calls \/ \E k \in 1..n : j = L + k
  BY <1>1, RunGrows
<1>3. /\ \A j \in Calls : calls'[j] = calls[j]
      /\ \A k \in 1..n : /\ calls'[L + k].run = r
                         /\ calls'[L + k].at = IF Emits(r) THEN "calling" ELSE "queued"
  BY DEF CallsFollow
<1>4. \A j \in Calls : calls[j].run \in Runs /\ j \in Nat
  BY <1>1, ElementsTyped DEF Calls
<1>5. \A s \in Runs : queue[s] \in Seq(Nat) /\ Len(queue[s]) \in Nat
  BY <1>1 DEF AgentTyped
<1>6. \A s \in Runs : queue'[s] = queue[s] \/ (s = r /\ ~Emits(r) /\ Follows(queue'[r], queue[r], n, f))
  OBVIOUS
<1>7. \A s \in Runs : \A k \in 1..Len(queue[s]) : k \in 1..Len(queue'[s]) /\ queue'[s][k] = queue[s][k]
  BY <1>6 DEF Follows
<1>8. ASSUME NEW s \in Runs, NEW k \in 1..Len(queue'[s])
      PROVE  queue'[s][k] \in Calls'
  <2>1. \A m \in 1..Len(queue[s]) : queue[s][m] \in Calls
    BY <1>1 DEF QueuesInOrder
  <2>2. CASE k \in 1..Len(queue[s])
    BY <1>2, <1>7, <2>1, <2>2
  <2>3. CASE k \notin 1..Len(queue[s])
    <3>1. s = r /\ Follows(queue'[r], queue[r], n, f)
      BY <1>6, <2>3
    <3>2. PICK m \in 1..n : k = Len(queue[r]) + m
      BY <2>3, <3>1 DEF Follows
    <3>3. queue'[r][k] = L + m
      BY <3>1, <3>2 DEF Follows
    <3> QED BY <1>2, <3>1, <3>3
  <2> QED BY <2>2, <2>3
<1>9. ASSUME NEW s \in Runs
      PROVE  \A k, l \in 1..Len(queue'[s]) : k < l => queue'[s][k] < queue'[s][l]
  <2>1. \A k, l \in 1..Len(queue[s]) : k < l => queue[s][k] < queue[s][l]
    BY <1>1 DEF QueuesInOrder
  <2>2. CASE queue'[s] = queue[s]
    BY <2>1, <2>2
  <2>3. CASE s = r /\ Follows(queue'[r], queue[r], n, f)
    <3> DEFINE p == queue[s]
               q == queue'[s]
    <3>1. p \in Seq(Nat) /\ Follows(q, p, n, f)
      BY <1>5, <2>3
    <3>2. \A k \in 1..Len(p) : p[k] <= L
      BY <1>1, <1>2 DEF QueuesInOrder
    <3>3. \A k \in 1..n : f[k] = L + k
      OBVIOUS
    <3>4. (\A k, l \in 1..Len(p) : k < l => p[k] < p[l]) /\ L \in Nat
      BY <1>2, <2>1
    <3> HIDE DEF L, p, q
    <3>5. \A k, l \in 1..Len(q) : k < l => q[k] < q[l]
      BY <3>1, <3>2, <3>3, <3>4, StillAscends
    <3> QED BY <3>5 DEF q
  <2> QED BY <1>6, <2>2, <2>3
<1>10. ASSUME NEW j \in Calls', calls'[j].at \in {"queued", "running"}
       PROVE  \E k \in 1..Len(queue'[calls'[j].run]) : queue'[calls'[j].run][k] = j
  <2>1. CASE j \in Calls
    <3>1. calls'[j] = calls[j] /\ calls[j].run \in Runs
      BY <1>3, <1>4, <2>1
    <3>2. PICK k \in 1..Len(queue[calls[j].run]) : queue[calls[j].run][k] = j
      BY <1>1, <1>10, <2>1, <3>1 DEF QueuesInOrder
    <3> QED BY <1>7, <3>1, <3>2
  <2>2. CASE j \notin Calls
    <3>1. PICK m \in 1..n : j = L + m
      BY <1>2, <2>2
    <3>2. calls'[j].run = r /\ ~Emits(r)
      BY <1>3, <1>10, <3>1
    <3>3. Follows(queue'[r], queue[r], n, f)
      BY <3>2
    <3>4. Len(queue[r]) + m \in 1..Len(queue'[r]) /\ queue'[r][Len(queue[r]) + m] = j
      BY <3>1, <3>3 DEF Follows
    <3> QED BY <3>2, <3>4
  <2> QED BY <2>1, <2>2
<1>11. ASSUME NEW j \in Calls', calls'[j].at = "running"
       PROVE  Head(queue'[calls'[j].run]) = j
  <2>1. j \in Calls
    BY <1>2, <1>3, <1>11
  <2>2. calls'[j] = calls[j] /\ calls[j].run \in Runs
    BY <1>3, <1>4, <2>1
  <2>3. Head(queue[calls[j].run]) = j
    BY <1>1, <1>11, <2>1, <2>2 DEF QueuesInOrder
  <2>4. PICK k \in 1..Len(queue[calls[j].run]) : queue[calls[j].run][k] = j
    BY <1>1, <1>11, <2>1, <2>2 DEF QueuesInOrder
  <2>5. queue[calls[j].run] # <<>>
    BY <2>4
  <2>6. Head(queue'[calls[j].run]) = Head(queue[calls[j].run])
    BY <2>2, <2>5
  <2> QED BY <2>2, <2>3, <2>6
<1>12. (\A s \in Runs : \A k \in 1..Len(queue[s]) : queue[s][k] \in Calls)'
  BY <1>8
<1>13. (\A s \in Runs : \A k, l \in 1..Len(queue[s]) : k < l => queue[s][k] < queue[s][l])'
  BY <1>9
<1>14. (\A j \in Calls : calls[j].at \in {"queued", "running"} =>
          \E k \in 1..Len(queue[calls[j].run]) : queue[calls[j].run][k] = j)'
  BY <1>10
<1>15. (\A j \in Calls : calls[j].at = "running" => Head(queue[calls[j].run]) = j)'
  BY <1>11
<1> QED BY <1>12, <1>13, <1>14, <1>15 DEF QueuesInOrder

(* The starts of the calls of the session agent are appended behind all    *)
(* that is in the feed.                                                    *)
LEMMA FeedFollows ==
  ASSUME TurnInv, NEW r \in Runs, NEW n \in Nat, CallsFollow(r, n), NEW f,
         \A k \in 1..n : f[k].type = "call" /\ f[k].call = Len(calls) + k,
         \/ UNCHANGED feed /\ ~Emits(r)
         \/ Follows(feed', feed, n, f) /\ Emits(r),
         \A l \in 1..Len(queue'[0]) : \E k \in 1..Len(queue[0]) : queue'[0][l] = queue[0][k]
  PROVE  FeedInOrder'
<1> DEFINE L == Len(calls)
           M == Len(feed)
<1>1. AgentTyped /\ FeedInOrder /\ 0 \in Runs /\ M \in Nat
  BY ElementsTyped DEF TurnInv
<1>2. /\ L \in Nat
      /\ \A j \in Calls : j \in Calls' /\ j <= L
      /\ \A k \in 1..n : L + k \in Calls' /\ L + k \notin Calls
      /\ \A j \in Calls' : j \in Calls \/ \E k \in 1..n : j = L + k
  BY <1>1, RunGrows
<1>3. /\ \A j \in Calls : calls'[j] = calls[j]
      /\ \A k \in 1..n : calls'[L + k].at = IF Emits(r) THEN "calling" ELSE "queued"
  BY DEF CallsFollow
<1>4. /\ \A k \in 1..M : k \in 1..Len(feed') /\ feed'[k] = feed[k]
      /\ \A k \in 1..Len(feed') : k \in 1..M \/ (Emits(r) /\ \E m \in 1..n : k = M + m)
      /\ Emits(r) => \A k \in 1..n : M + k \in 1..Len(feed') /\ feed'[M + k] = f[k]
  BY DEF Follows
<1>5. ASSUME NEW k \in 1..Len(feed')
      PROVE  feed'[k].call \in Calls' /\ calls'[feed'[k].call].at \in
               IF feed'[k].type = "call" THEN {"calling"} ELSE {"storing", "stored", "reporting", "done"}
  <2>1. CASE k \in 1..M
    <3>1. feed'[k] = feed[k] /\ feed[k].call \in Calls
      BY <1>1, <1>4, <2>1 DEF FeedInOrder
    <3>2. calls[feed[k].call].at \in
            IF feed[k].type = "call" THEN {"calling"} ELSE {"storing", "stored", "reporting", "done"}
      BY <1>1, <2>1 DEF FeedInOrder
    <3>3. calls'[feed[k].call] = calls[feed[k].call]
      BY <1>3, <3>1
    <3> QED BY <1>2, <3>1, <3>2, <3>3
  <2>2. CASE k \notin 1..M
    <3>1. PICK m \in 1..n : k = M + m
      BY <1>4, <2>2
    <3>2. Emits(r) /\ feed'[k].type = "call" /\ feed'[k].call = L + m
      BY <1>4, <2>2, <3>1
    <3> QED BY <1>2, <1>3, <3>2
  <2> QED BY <2>1, <2>2
<1>6. ASSUME NEW j \in Calls', calls'[j].at = "calling"
      PROVE  \E k \in 1..Len(feed') : feed'[k].type = "call" /\ feed'[k].call = j
  <2>1. CASE j \in Calls
    <3>1. PICK k \in 1..M : feed[k].type = "call" /\ feed[k].call = j
      BY <1>1, <1>3, <1>6, <2>1 DEF FeedInOrder
    <3> QED BY <1>4, <3>1
  <2>2. CASE j \notin Calls
    <3>1. PICK m \in 1..n : j = L + m
      BY <1>2, <2>2
    <3>2. Emits(r)
      BY <1>3, <1>6, <3>1
    <3>3. M + m \in 1..Len(feed') /\ feed'[M + m] = f[m]
      BY <1>4, <3>2
    <3>4. f[m].type = "call" /\ f[m].call = j
      BY <3>1
    <3> HIDE DEF M
    <3> QED BY <3>3, <3>4
  <2> QED BY <2>1, <2>2
<1>7. ASSUME NEW k \in 1..Len(feed'), NEW l \in 1..Len(feed'), k < l,
             feed'[k].type = "call", feed'[l].type = "call"
      PROVE  feed'[k].call < feed'[l].call
  <2>1. \A m \in 1..M : feed[m].call \in Nat /\ feed[m].call <= L
    <3>1. \A m \in 1..M : feed[m].call \in Calls
      BY <1>1 DEF FeedInOrder
    <3>2. \A j \in Calls : j \in Nat
      BY DEF Calls
    <3> QED BY <1>2, <3>1, <3>2
  <2>2. CASE k \in 1..M /\ l \in 1..M
    BY <1>1, <1>4, <1>7, <2>2 DEF FeedInOrder
  <2>3. CASE k \in 1..M /\ l \notin 1..M
    <3>1. PICK m \in 1..n : l = M + m
      BY <1>4, <2>3
    <3>2. feed'[l].call = L + m
      BY <1>4, <2>3, <3>1
    <3>3. feed'[k].call \in Nat /\ feed'[k].call <= L
      BY <1>4, <2>1, <2>3
    <3> HIDE DEF L
    <3> QED BY <1>2, <3>2, <3>3
  <2>4. CASE k \notin 1..M
    <3>1. PICK m \in 1..n : k = M + m
      BY <1>4, <2>4
    <3>2. l \notin 1..M
      BY <1>1, <1>7, <3>1
    <3>3. PICK p \in 1..n : l = M + p
      BY <1>4, <3>2
    <3>4. feed'[k].call = L + m /\ feed'[l].call = L + p
      BY <1>4, <2>4, <3>1, <3>3
    <3>5. m < p
      BY <1>1, <1>7, <3>1, <3>3
    <3> HIDE DEF L
    <3> QED BY <1>2, <3>4, <3>5
  <2> QED BY <2>2, <2>3, <2>4
<1>8. ASSUME NEW k \in 1..Len(feed'), feed'[k].type = "call", NEW l \in 1..Len(queue'[0])
      PROVE  queue'[0][l] < feed'[k].call
  <2>1. PICK q \in 1..Len(queue[0]) : queue'[0][l] = queue[0][q]
    OBVIOUS
  <2>2. queue[0][q] \in Calls /\ queue[0][q] \in Nat
    BY <1>1, <2>1 DEF TurnInv, QueuesInOrder, Calls
  <2>3. CASE k \in 1..M
    BY <1>1, <1>4, <1>8, <2>1, <2>3 DEF FeedInOrder
  <2>4. CASE k \notin 1..M
    <3>1. PICK m \in 1..n : k = M + m
      BY <1>4, <2>4
    <3>2. feed'[k].call = L + m
      BY <1>4, <2>4, <3>1
    <3> QED BY <1>2, <2>1, <2>2, <3>2
  <2> QED BY <2>3, <2>4
<1>9. /\ (\A k \in 1..Len(feed) : feed[k].call \in Calls)'
      /\ (\A k \in 1..Len(feed) :
            calls[feed[k].call].at \in
              IF feed[k].type = "call" THEN {"calling"} ELSE {"storing", "stored", "reporting", "done"})'
      /\ (\A j \in Calls : calls[j].at = "calling" =>
            \E k \in 1..Len(feed) : feed[k].type = "call" /\ feed[k].call = j)'
  BY <1>5, <1>6
<1> QED BY <1>7, <1>8, <1>9 DEF FeedInOrder

(* The model asks for one or more tools. *)
LEMMA ModelAsks ==
  ASSUME TurnInv, NEW r \in Runs, NEW kinds \in Answers(r), ModelCallsTools(r, kinds)
  PROVE  TurnInv'
<1>1. /\ AgentTyped /\ RunsNest /\ EndsMatchStarts /\ 0 \in Runs
      /\ calls \in Seq(CallRecords) /\ Len(calls) \in Nat
  BY ElementsTyped DEF TurnInv, AgentTyped
<1>2. PICK n \in 1..MaxWidth : Len(calls) + n <= MaxCalls /\ kinds \in [1..n -> Kinds(r)]
  BY DEF Answers
<1>3. n \in Nat /\ Len(kinds) = n
  <2>1. MaxWidth \in Nat
    BY BoundsAssumption
  <2> QED BY <1>2, <2>1
<1> DEFINE C == Cardinality(OfRun(r))
           L == Len(calls)
           corr == [k \in 1..n |-> C + k]
           new == [k \in 1..n |->
             [run |-> r, kind |-> kinds[k], at |-> IF Emits(r) THEN "calling" ELSE "queued",
              corr |-> C + k, ended |-> 0, lost |-> {}]]
           starts == [k \in 1..n |-> [type |-> "call", call |-> L + k, corr |-> C + k]]
           next == [k \in 1..n |-> L + k]
<1>4. C \in Nat
  <2>1. IsFiniteSet(1..Len(calls)) /\ OfRun(r) \in SUBSET (1..Len(calls))
    BY <1>1, FS_Interval DEF OfRun
  <2> QED BY <2>1, FS_Subset, FS_CardinalityType
<1>5. StartCorrelation(r, n) = corr
  BY DEF StartCorrelation
<1>6. /\ phase[r] = "generating" /\ \A i \in OfRun(r) : calls[i].at = "done"
      /\ calls' = calls \o new /\ pend' = [pend EXCEPT ![r] = @ \o corr]
      /\ Emits(r) => UNCHANGED queue
      /\ ~Emits(r) => queue' = [queue EXCEPT ![r] = @ \o next]
      /\ ~Emits(r) => UNCHANGED feed
      /\ Emits(r) => feed' = feed \o starts
      /\ UNCHANGED <<phase, exec>>
  <2>1. Asking(r) /\ UNCHANGED <<phase, exec>>
    BY DEF ModelCallsTools
  <2>2. /\ calls' = calls \o new /\ pend' = [pend EXCEPT ![r] = @ \o corr]
        /\ IF Emits(r)
           THEN feed' = feed \o starts /\ UNCHANGED queue
           ELSE queue' = [queue EXCEPT ![r] = @ \o next] /\ UNCHANGED feed
    BY <1>3, <1>5 DEF ModelCallsTools, ExecutorOf
  <2> QED BY <2>1, <2>2 DEF Asking
<1>7. \A k \in 1..n : kinds[k] \in Kinds(r)
  BY <1>2
<1>8. /\ corr \in [1..n -> Nat] /\ next \in [1..n -> Nat]
  BY <1>1, <1>3, <1>4
<1>9. new \in [1..n -> CallRecords] /\ starts \in [1..n -> FeedRecords]
  <2>1. ASSUME NEW k \in 1..n PROVE new[k] \in CallRecords /\ starts[k] \in FeedRecords
    <3>1. C + k \in Nat /\ L + k \in Nat /\ kinds[k] \in {"tool", "subagent"}
      BY <1>1, <1>3, <1>4, <1>7 DEF Kinds
    <3> HIDE DEF C, L
    <3> QED BY <3>1 DEF CallRecords, FeedRecords
  <2> HIDE DEF C, L
  <2> QED BY <2>1
<1>10. /\ calls' \in Seq(CallRecords) /\ Len(calls') = L + n
       /\ \A k \in 1..L : calls'[k] = calls[k]
       /\ \A k \in 1..n : calls'[L + k] = new[k]
  <2> HIDE DEF new
  <2> QED BY <1>1, <1>3, <1>6, <1>9, ConcatFollows DEF Follows
<1>11. \A k \in 1..n : /\ new[k].run = r /\ new[k].kind = kinds[k] /\ new[k].corr = C + k
                       /\ new[k].at = IF Emits(r) THEN "calling" ELSE "queued"
  OBVIOUS
<1> HIDE DEF new
<1>12. CallsFollow(r, n)
  BY <1>10, <1>11 DEF CallsFollow, Calls
<1>13. /\ \A j \in Calls : j \in Calls'
       /\ \A j \in Calls' : j \in Calls \/ \E k \in 1..n : j = L + k
       /\ \A j \in Calls : calls'[j] = calls[j]
  BY <1>1, <1>3, <1>12, RunGrows DEF CallsFollow
<1>14. pend' \in [Runs -> Seq(Nat)] /\ Follows(pend'[r], pend[r], n, corr)
       /\ \A s \in Runs : s # r => pend'[s] = pend[s]
  <2> DEFINE p == pend[r]
  <2>1. pend \in [Runs -> Seq(Nat)] /\ p \in Seq(Nat)
    BY <1>1 DEF AgentTyped
  <2>2. p \o corr \in Seq(Nat) /\ Follows(p \o corr, p, n, corr)
    <3> HIDE DEF p, corr
    <3> QED BY <1>3, <1>8, <2>1, ConcatFollows
  <2>3. pend' = [pend EXCEPT ![r] = p \o corr]
    BY <1>6
  <2> HIDE DEF corr
  <2> QED BY <2>1, <2>2, <2>3
<1>15. CorrelationsInOrder'
  <2>1. \A k \in 1..n : corr[k] = Cardinality(OfRun(r)) + k
    OBVIOUS
  <2> HIDE DEF corr
  <2> QED BY <1>3, <1>12, <1>14, <2>1, CorrelationsFollow
<1>16. queue' \in [Runs -> Seq(Nat)]
       /\ \/ UNCHANGED queue /\ Emits(r)
          \/ /\ ~Emits(r) /\ Follows(queue'[r], queue[r], n, next)
             /\ queue[r] # <<>> => Head(queue'[r]) = Head(queue[r])
             /\ \A s \in Runs : s # r => queue'[s] = queue[s]
  <2> DEFINE p == queue[r]
  <2>1. queue \in [Runs -> Seq(Nat)] /\ p \in Seq(Nat)
    BY <1>1 DEF AgentTyped
  <2>2. CASE Emits(r)
    BY <1>6, <2>1, <2>2
  <2>3. CASE ~Emits(r)
    <3>1. p \o next \in Seq(Nat) /\ Follows(p \o next, p, n, next)
          /\ (p # <<>> => Head(p \o next) = Head(p))
      <4> HIDE DEF p, next
      <4> QED BY <1>3, <1>8, <2>1, ConcatFollows
    <3>2. queue' = [queue EXCEPT ![r] = p \o next]
      BY <1>6, <2>3
    <3> HIDE DEF next
    <3>3. queue' \in [Runs -> Seq(Nat)] /\ queue'[r] = p \o next
          /\ \A s \in Runs : s # r => queue'[s] = queue[s]
      BY <2>1, <3>1, <3>2
    <3> QED BY <2>3, <3>1, <3>3
  <2> QED BY <2>2, <2>3
<1>17. QueuesInOrder'
  <2>1. \A k \in 1..n : next[k] = Len(calls) + k
    OBVIOUS
  <2> HIDE DEF next
  <2> QED BY <1>3, <1>12, <1>16, <2>1, QueueFollows
<1>18. feed' \in Seq(FeedRecords)
       /\ \/ UNCHANGED feed /\ ~Emits(r)
          \/ Follows(feed', feed, n, starts) /\ Emits(r)
  <2>1. feed \in Seq(FeedRecords)
    BY <1>1 DEF AgentTyped
  <2> HIDE DEF starts
  <2>2. feed \o starts \in Seq(FeedRecords) /\ Follows(feed \o starts, feed, n, starts)
    BY <1>3, <1>9, <2>1, ConcatFollows
  <2> QED BY <1>6, <2>1, <2>2
<1>19. FeedInOrder'
  <2>1. \A k \in 1..n : starts[k].type = "call" /\ starts[k].call = Len(calls) + k
    OBVIOUS
  <2>2. queue'[0] = queue[0]
    BY <1>1, <1>16 DEF Emits
  <2>3. \A l \in 1..Len(queue'[0]) : \E k \in 1..Len(queue[0]) : queue'[0][l] = queue[0][k]
    BY <2>2
  <2> HIDE DEF starts
  <2> QED BY <1>3, <1>12, <1>18, <2>1, <2>3, FeedFollows
<1>20. AgentTyped'
  BY <1>1, <1>2, <1>6, <1>10, <1>14, <1>16, <1>18 DEF AgentTyped
<1>21. RunsNest'
  <2>1. (exec \in {"none", "scheduled", "context"} =>
           calls = <<>> /\ \A s \in Runs : phase[s] = "off")'
    BY <1>1, <1>6 DEF RunsNest
  <2>2. ASSUME NEW j \in Calls', calls'[j].kind = "subagent" \/ calls'[j].at = "calling"
        PROVE  calls'[j].run = 0
    <3>1. CASE j \in Calls
      BY <1>1, <1>13, <2>2, <3>1 DEF RunsNest
    <3>2. CASE j \notin Calls
      <4>1. PICK k \in 1..n : j = L + k
        BY <1>13, <3>2
      <4>2. calls'[j] = new[k]
        BY <1>10, <4>1
      <4> QED BY <1>7, <1>11, <2>2, <4>2 DEF Kinds, Emits
    <3> QED BY <3>1, <3>2
  <2>3. (\A s \in Runs \ {0} : phase[s] \in {"target", "generating"} =>
           s \in Calls /\ calls[s].kind = "subagent" /\ calls[s].at = "running")'
    BY <1>1, <1>6, <1>13 DEF RunsNest
  <2>4. ASSUME NEW j \in Calls', calls'[j].at # "done"
        PROVE  phase'[calls'[j].run] = "generating"
    <3>1. CASE j \in Calls
      BY <1>1, <1>6, <1>13, <2>4, <3>1 DEF RunsNest
    <3>2. CASE j \notin Calls
      <4>1. PICK k \in 1..n : j = L + k
        BY <1>13, <3>2
      <4>2. calls'[j].run = r
        BY <1>10, <1>11, <4>1
      <4> QED BY <1>6, <4>2
    <3> QED BY <3>1, <3>2
  <2> QED BY <2>1, <2>2, <2>3, <2>4 DEF RunsNest
<1>22. EndsMatchStarts'
  <2>1. ASSUME NEW j \in Calls', calls'[j].at \notin {"calling", "queued", "running"}
        PROVE  calls'[j].ended = calls'[j].corr
    <3>1. j \in Calls
      <4>1. ASSUME j \notin Calls PROVE FALSE
        <5>1. PICK k \in 1..n : j = L + k
          BY <1>13, <4>1
        <5>2. calls'[j].at \in {"calling", "queued"}
          BY <1>10, <1>11, <5>1
        <5> QED BY <2>1, <5>2
      <4> QED BY <4>1
    <3> QED BY <1>1, <1>13, <2>1, <3>1 DEF EndsMatchStarts, Calls
  <2> QED BY <2>1 DEF EndsMatchStarts, Calls
<1> QED BY <1>15, <1>17, <1>19, <1>20, <1>21, <1>22 DEF TurnInv

-----------------------------------------------------------------------------
(* Every step of the turn. *)

(* A crash leaves nothing of the agent. *)
LEMMA CrashLeavesNothing ==
  ASSUME TurnInv, Crash
  PROVE  TurnInv'
<1>1. MaxCalls \in Nat /\ 0 \in Runs
  BY ElementsTyped, BoundsAssumption DEF TurnInv
<1>2. exec' = "lost" /\ calls' = <<>> /\ feed' = <<>> /\ Len(calls') = 0 /\ Len(feed') = 0
  BY DEF Crash
<1>3. /\ queue' = [r \in Runs |-> <<>>] /\ pend' = [r \in Runs |-> <<>>]
      /\ phase' = [r \in Runs |-> "off"]
  BY DEF Crash
<1>4. \A r \in Runs : Len(queue'[r]) = 0 /\ Len(pend'[r]) = 0
  BY <1>3
<1>5. AgentTyped'
  BY <1>1, <1>2, <1>3 DEF AgentTyped, Phases
<1>6. RunsNest'
  BY <1>2, <1>3 DEF RunsNest, Calls
<1>7. QueuesInOrder'
  BY <1>2, <1>4 DEF QueuesInOrder, Calls
<1>8. FeedInOrder'
  BY <1>2 DEF FeedInOrder, Calls
<1>9. CorrelationsInOrder'
  BY <1>2, <1>4 DEF CorrelationsInOrder, Calls
<1>10. EndsMatchStarts'
  BY <1>2 DEF EndsMatchStarts
<1> QED BY <1>5, <1>6, <1>7, <1>8, <1>9, <1>10 DEF TurnInv

(* A run under way belongs to an execution that has come to the agent. *)
LEMMA RunsLate ==
  ASSUME TurnInv, NEW r \in Runs, phase[r] # "off"
  PROVE  exec \notin {"none", "scheduled", "context"}
BY DEF TurnInv, RunsNest

(* The steps of a run. *)
LEMMA RunSteps ==
  ASSUME TurnInv, NEW r \in Runs,
         GotTarget(r) \/ TargetFails(r) \/ ModelFinishes(r) \/ ModelAborted(r) \/ ModelFails(r)
  PROVE  TurnInv'
<1>1. phase[r] # "off" /\ UNCHANGED <<calls, queue, pend, feed, exec>>
  BY DEF GotTarget, TargetFails, ModelFinishes, ModelAborted, ModelFails, ModelStops, Asking
<1>2. exec' \notin {"none", "scheduled", "context"}
  BY <1>1, RunsLate
<1>3. phase[r] = "target" => \A i \in OfRun(r) : calls[i].at = "done"
  BY DEF TurnInv, RunsNest, OfRun, Calls
<1>4. CASE GotTarget(r) \/ TargetFails(r)
  <2>1. phase[r] = "target"
    BY <1>4 DEF GotTarget, TargetFails
  <2>2. PICK p \in {"aborted", "generating", "failed"} : phase' = [phase EXCEPT ![r] = p]
    BY <1>4 DEF GotTarget, TargetFails
  <2>3. p \in Phases
    BY DEF Phases, Over
  <2> QED BY <1>1, <1>2, <1>3, <2>1, <2>2, <2>3, PhaseMoves
<1>5. CASE ModelFinishes(r) \/ ModelAborted(r) \/ ModelFails(r)
  <2>1. \A i \in OfRun(r) : calls[i].at = "done"
    BY <1>5 DEF ModelFinishes, ModelAborted, ModelFails, Asking
  <2>2. PICK p \in {"ok", "aborted", "failed"} : phase' = [phase EXCEPT ![r] = p]
    BY <1>5 DEF ModelFinishes, ModelAborted, ModelFails, ModelStops
  <2>3. p \in Phases
    BY DEF Phases, Over
  <2> QED BY <1>1, <1>2, <2>1, <2>2, <2>3, PhaseMoves
<1> QED BY <1>4, <1>5

(* The steps of a tool call. *)
LEMMA ToolSteps ==
  ASSUME TurnInv, NEW i \in Calls, NEW how \in Returns,
         StartTool(i) \/ ToolReturns(i, how) \/ SubagentReturns(i, how)
  PROVE  TurnInv'
<1>1. /\ calls[i].run \in Runs /\ i \in Runs /\ i # 0
      /\ calls[i].kind \in {"tool", "subagent"}
  BY ElementsTyped DEF TurnInv, CallRecords
<1>2. calls[i].kind = "tool" \/ calls[i].at # "running" => phase[i] \notin {"target", "generating"}
  BY <1>1 DEF TurnInv, RunsNest
<1>3. calls[i].at = "running" => Runnable(i)
  BY DEF TurnInv, QueuesInOrder, Runnable, ExecutorOf
<1>4. CASE StartTool(i)
  <2>1. calls[i].at = "queued" /\ Runnable(i) /\ UNCHANGED exec
    BY <1>4 DEF StartTool
  <2>2. CASE calls[i].kind = "subagent" /\ aborted
    <3>1. Settle(i, "error", entry) /\ UNCHANGED phase
      BY <1>4, <2>2 DEF StartTool
    <3> QED BY <1>2, <2>1, <3>1, ToolSettles
  <2>3. CASE ~(calls[i].kind = "subagent" /\ aborted)
    <3>1. /\ calls' = [calls EXCEPT ![i].at = "running"] /\ UNCHANGED <<queue, pend, feed>>
          /\ UNCHANGED phase
             \/ (calls[i].kind = "subagent" /\ phase' = [phase EXCEPT ![i] = "target"])
      BY <1>1, <1>4, <2>3 DEF StartTool
    <3> QED BY <2>1, <3>1, ToolStarts
  <2> QED BY <2>2, <2>3
<1>5. CASE ToolReturns(i, how)
  <2>1. /\ calls[i].at = "running" /\ calls[i].kind = "tool" /\ Settle(i, how, entry)
        /\ UNCHANGED <<phase, exec>>
    BY <1>5 DEF ToolReturns
  <2> QED BY <1>2, <1>3, <2>1, ToolSettles
<1>6. CASE SubagentReturns(i, how)
  <2>1. /\ calls[i].at = "running" /\ phase[i] \in Over
        /\ Settle(i, how, RecordSubagent(entry, i)) /\ UNCHANGED <<phase, exec>>
    BY <1>6 DEF SubagentReturns
  <2>2. phase[i] \notin {"target", "generating"}
    BY <2>1 DEF Over
  <2> QED BY <1>3, <2>1, <2>2, ToolSettles
<1> QED BY <1>4, <1>5, <1>6

(* The steps around a stored output. *)
LEMMA OutputSteps ==
  ASSUME TurnInv, NEW i \in Calls, StoreOutput(i) \/ StoreFails(i)
  PROVE  TurnInv'
<1>1. AgentTyped /\ calls[i] \in CallRecords
  BY ElementsTyped DEF TurnInv
<1>2. calls[i].at = "storing" /\ UNCHANGED <<phase, queue, pend, exec>>
  BY DEF StoreOutput, StoreFails
<1>3. CASE StoreOutput(i)
  <2> DEFINE c == [calls[i] EXCEPT !.at = "stored"]
  <2>1. c \in CallRecords /\ c.run = calls[i].run /\ c.corr = calls[i].corr
        /\ c.kind = calls[i].kind /\ c.ended = calls[i].ended /\ c.at = "stored"
    BY <1>1 DEF CallRecords
  <2>2. calls' = [calls EXCEPT ![i] = c]
    BY <1>3 DEF StoreOutput
  <2>3. feed' = AppendAndPublish("result", i, calls[i].ended)
    BY <1>3 DEF StoreOutput
  <2> HIDE DEF c
  <2> QED BY <1>2, <2>1, <2>2, <2>3, OutputHandled
<1>4. CASE StoreFails(i)
  <2> DEFINE c == [calls[i] EXCEPT !.at = "done", !.lost = @ \cup {"result"}]
  <2>1. c \in CallRecords /\ c.run = calls[i].run /\ c.corr = calls[i].corr
        /\ c.kind = calls[i].kind /\ c.ended = calls[i].ended /\ c.at = "done"
    BY <1>1 DEF CallRecords
  <2>2. calls' = [calls EXCEPT ![i] = c] /\ UNCHANGED feed
    BY <1>4 DEF StoreFails
  <2> HIDE DEF c
  <2> QED BY <1>2, <2>1, <2>2, OutputHandled
<1> QED BY <1>3, <1>4

(* The append at the head of the feed ends. *)
LEMMA AppendSteps ==
  ASSUME TurnInv, NEW k \in Appends, NEW lost \in SUBSET {"call", "result"},
         CallbackReturns(k, lost)
  PROVE  TurnInv'
<1> DEFINE i == feed[1].call
           to == IF feed[1].type = "call" THEN "queued" ELSE "done"
           c == [calls[i] EXCEPT !.at = to, !.lost = @ \cup lost]
<1>1. k = 1 /\ feed # <<>>
  BY DEF Appends
<1>2. AgentTyped /\ 1 \in 1..Len(feed) /\ feed[1] \in FeedRecords /\ i \in Calls
  <2>1. AgentTyped /\ feed \in Seq(FeedRecords)
    BY DEF TurnInv, AgentTyped
  <2>2. 1 \in 1..Len(feed)
    BY <1>1, <2>1, LenProperties
  <2> QED BY <2>1, <2>2, ElementsTyped DEF TurnInv, FeedInOrder
<1>3. calls[i] \in CallRecords
  BY <1>2, ElementsTyped
<1>4. c \in CallRecords /\ c.run = calls[i].run /\ c.corr = calls[i].corr
      /\ c.kind = calls[i].kind /\ c.ended = calls[i].ended /\ c.at = to
  <2> HIDE DEF i
  <2> QED BY <1>3 DEF CallRecords
<1>5. /\ feed' = FeedAfter(1) /\ calls' = [calls EXCEPT ![i] = c]
      /\ UNCHANGED <<phase, pend, exec>>
  BY <1>1 DEF CallbackReturns
<1>6. queue' = IF feed[1].type = "call"
               THEN [queue EXCEPT ![calls[i].run] = Append(@, i)] ELSE queue
  BY <1>1 DEF CallbackReturns, Submit, ExecutorOf
<1> HIDE DEF c
<1>7. CASE feed[1].type = "call"
  <2>1. queue' = [queue EXCEPT ![c.run] = Append(@, feed[1].call)] /\ c.at = "queued"
    BY <1>4, <1>6, <1>7
  <2> QED BY <1>1, <1>4, <1>5, <1>7, <2>1, CallHandedOver
<1>8. CASE feed[1].type # "call"
  <2>1. feed[1].type = "result" /\ c.at = "done" /\ UNCHANGED queue
    BY <1>2, <1>4, <1>6, <1>8 DEF FeedRecords
  <2> QED BY <1>1, <1>4, <1>5, <2>1, ResultReported
<1> QED BY <1>7, <1>8

(* Every step keeps the turn in order. *)
LEMMA StepTurn == TurnInv /\ [Next]_vars => TurnInv'
<1> SUFFICES ASSUME TurnInv, [Next]_vars PROVE TurnInv'
  OBVIOUS
<1>1. CASE Start \/ Begin \/ ProvisionFails \/ Compact \/ Compacted \/ CompactionFails
           \/ AgentReturns \/ SettleMessage \/ RequestCancellation \/ Cancel
           \/ FinishProcessing \/ ListingFails \/ Export \/ ExportFails \/ UNCHANGED vars
  <2>1. UNCHANGED agent
    BY <1>1 DEF Start, Begin, ProvisionFails, Compact, Compacted, CompactionFails, AgentReturns,
                SettleMessage, RequestCancellation, Cancel, FinishProcessing, ListingFails,
                Export, ExportFails, vars
  <2>2. exec' \in {"none", "scheduled", "context"} => exec \in {"none", "scheduled", "context"}
    BY <1>1 DEF Start, Begin, ProvisionFails, Compact, Compacted, CompactionFails, AgentReturns,
                SettleMessage, RequestCancellation, Cancel, FinishProcessing, ListingFails,
                Export, ExportFails, vars
  <2> QED BY <2>1, <2>2, AgentUntouched
<1>2. CASE BuildContext
  <2>1. exec = "context" /\ UNCHANGED <<calls, queue, pend, feed>>
    BY <1>2 DEF BuildContext
  <2>2. CASE UNCHANGED phase
    <3>1. UNCHANGED agent
      BY <2>1, <2>2 DEF agent
    <3> QED BY <2>1, <3>1, AgentUntouched
  <2>3. CASE phase' = [phase EXCEPT ![0] = "target"] /\ exec' = "agent"
    <3>1. calls = <<>> /\ 0 \in Runs /\ "target" \in Phases
      BY <2>1, ElementsTyped DEF TurnInv, RunsNest, Phases
    <3>2. \A i \in OfRun(0) : calls[i].at = "done"
      BY <3>1 DEF OfRun
    <3>3. exec' \notin {"none", "scheduled", "context"}
      BY <2>3
    <3> QED BY <2>1, <2>3, <3>1, <3>2, <3>3, PhaseMoves
  <2> QED BY <1>2, <2>2, <2>3 DEF BuildContext
<1>3. CASE Crash
  BY <1>3, CrashLeavesNothing
<1>4. ASSUME NEW r \in Runs,
             GotTarget(r) \/ TargetFails(r) \/ ModelFinishes(r) \/ ModelAborted(r) \/ ModelFails(r)
      PROVE  TurnInv'
  BY <1>4, RunSteps
<1>5. ASSUME NEW i \in 1..Len(calls), NEW how \in Returns,
             StartTool(i) \/ ToolReturns(i, how) \/ SubagentReturns(i, how)
      PROVE  TurnInv'
  BY <1>5, ToolSteps DEF Calls
<1>6. ASSUME NEW i \in 1..Len(calls), StoreOutput(i) \/ StoreFails(i) PROVE TurnInv'
  BY <1>6, OutputSteps DEF Calls
<1>7. ASSUME NEW k \in Appends, AppendCommits(k) \/ AppendFails(k) PROVE TurnInv'
  <2>1. CASE AppendCommits(k)
    <3>1. CallbackReturns(k, {})
      BY <2>1 DEF AppendCommits
    <3> QED BY <3>1, AppendSteps
  <2>2. CASE AppendFails(k)
    <3>1. CallbackReturns(k, {feed[k].type})
      BY <2>2 DEF AppendFails
    <3>2. feed[k].type \in {"call", "result"}
      <4>1. k = 1 /\ feed # <<>> /\ feed \in Seq(FeedRecords)
        BY DEF Appends, TurnInv, AgentTyped
      <4>2. feed[1] \in FeedRecords
        BY <4>1, LenProperties, ElementOfSeq
      <4> QED BY <4>1, <4>2 DEF FeedRecords
    <3> QED BY <3>1, <3>2, AppendSteps
  <2> QED BY <1>7, <2>1, <2>2
<1>8. ASSUME NEW r \in Runs, NEW kinds \in Answers(r), ModelCallsTools(r, kinds)
      PROVE  TurnInv'
  BY <1>8, ModelAsks
<1>9. CASE Progress
  <2>1. "short" \in Returns
    BY DEF Returns
  <2> QED BY <1>1, <1>2, <1>4, <1>5, <1>6, <1>7, <1>9, <2>1 DEF Progress
<1>10. CASE Failure
  BY <1>1, <1>3, <1>4, <1>6, <1>7, <1>10 DEF Failure
<1> QED BY <1>1, <1>8, <1>9, <1>10 DEF Next

(* The invariant holds in every state. *)
THEOREM TurnIsInOrder == Spec => []TurnInv
<1>1. Init => TurnInv
  BY InitTurn
<1>2. TurnInv /\ [Next]_vars => TurnInv'
  BY StepTurn
<1> QED BY <1>1, <1>2, PTL DEF Spec

(* Whatever the model asks for at once, and inside a subagent too, at most *)
(* one tool runs at a time.  agent-runner.ts:67-99.                        *)
THEOREM ToolsAlwaysTakeTurns == Spec => []ToolsTakeTurns
<1>1. TurnInv => ToolsTakeTurns
  <2> SUFFICES ASSUME TurnInv, NEW i \in Calls, NEW j \in Calls,
                      calls[i].at = "running", calls[i].kind = "tool",
                      calls[j].at = "running", calls[j].kind = "tool"
               PROVE  i = j
    BY DEF ToolsTakeTurns, Calls
  <2>1. RunsNest /\ QueuesInOrder /\ calls[i].run \in Runs /\ calls[j].run \in Runs
    BY ElementsTyped DEF TurnInv
  <2>2. \A m \in Calls : calls[m].at = "running" => Head(queue[calls[m].run]) = m
    BY <2>1 DEF QueuesInOrder
  <2>3. ASSUME NEW m \in Calls, calls[m].at = "running", calls[m].run \in Runs, calls[m].run # 0
        PROVE  /\ calls[m].run = Head(queue[0])
               /\ calls[calls[m].run].kind = "subagent"
    <3> DEFINE r == calls[m].run
    <3>1. phase[r] = "generating"
      BY <2>1, <2>3 DEF RunsNest
    <3>2. r \in Calls /\ calls[r].kind = "subagent" /\ calls[r].at = "running"
      BY <2>1, <2>3, <3>1 DEF RunsNest
    <3>3. calls[r].run = 0
      BY <2>1, <3>2 DEF RunsNest
    <3> QED BY <2>2, <3>2, <3>3
  <2>4. calls[i].run = calls[j].run
    BY <2>1, <2>2, <2>3
  <2> QED BY <2>2, <2>4
<1> QED BY <1>1, TurnIsInOrder, PTL

(* The end of every call is reported under the correlation of its start,   *)
(* although the relay only knows the order in which the starts came.       *)
(* tool-event-relay.ts:267-282.                                            *)
THEOREM EndsAlwaysMatchStarts == Spec => []EndsMatchStarts
<1>1. TurnInv => EndsMatchStarts
  BY DEF TurnInv
<1> QED BY <1>1, TurnIsInOrder, PTL

-----------------------------------------------------------------------------
(* What a step does to the calls and to the feed. *)

(* Only call i changes, and keeps its run, its correlation and its kind.   *)
CallMoves(i) ==
  /\ i \in Calls /\ Calls' = Calls
  /\ \A j \in Calls : /\ calls'[j].run = calls[j].run /\ calls'[j].corr = calls[j].corr
                      /\ calls'[j].kind = calls[j].kind
  /\ \A j \in Calls : j # i => calls'[j] = calls[j]
  /\ \A r : OfRun(r)' = OfRun(r)

(* Call i begins to run, and with it the run it is.                        *)
ToolRuns(i) ==
  /\ CallMoves(i)
  /\ calls[i].at = "queued" /\ calls'[i].at = "running"
  /\ calls'[i].ended = calls[i].ended /\ calls'[i].lost = calls[i].lost
  /\ \/ calls[i].kind = "tool" /\ UNCHANGED phase
     \/ calls[i].kind = "subagent" /\ phase' = [phase EXCEPT ![i] = "target"]
  /\ UNCHANGED feed

(* Call i ends: its result is appended, stored first, or not reported.     *)
ToolEnds(i) ==
  /\ CallMoves(i)
  /\ calls[i].at \in {"queued", "running"}
  /\ calls[i].run # 0 => calls'[i].at = "done"
  /\ calls[i].run = 0 => calls'[i].at \in {"storing", "reporting"}
  /\ calls'[i].ended = calls[i].corr /\ calls'[i].lost = calls[i].lost
  /\ calls'[i].at = "reporting" => feed' = AppendAndPublish("result", i, calls[i].corr)
  /\ calls'[i].at # "reporting" => UNCHANGED feed
  /\ UNCHANGED phase

(* The output of call i is stored, or lost.                                *)
OutputGoes(i) ==
  /\ CallMoves(i)
  /\ calls[i].at = "storing" /\ calls'[i].ended = calls[i].ended
  /\ \/ /\ calls'[i].at = "stored" /\ calls'[i].lost = calls[i].lost
        /\ feed' = AppendAndPublish("result", i, calls[i].ended)
     \/ /\ calls'[i].at = "done" /\ calls'[i].lost = calls[i].lost \cup {"result"}
        /\ UNCHANGED feed
  /\ UNCHANGED phase

(* The append at the head of the feed ends.                                *)
AppendEnds(lost) ==
  /\ feed # <<>> /\ feed' = FeedAfter(1)
  /\ CallMoves(feed[1].call)
  /\ LET i == feed[1].call
     IN /\ calls'[i].at = IF feed[1].type = "call" THEN "queued" ELSE "done"
        /\ calls'[i].lost = calls[i].lost \cup lost
        /\ calls'[i].ended = calls[i].ended
  /\ UNCHANGED phase

(* A call that changes by itself moves.                                    *)
LEMMA CallSet ==
  ASSUME TurnInv, NEW i \in Calls, NEW c \in CallRecords, calls' = [calls EXCEPT ![i] = c],
         c.run = calls[i].run, c.corr = calls[i].corr, c.kind = calls[i].kind
  PROVE  CallMoves(i) /\ calls'[i] = c
<1>1. AgentTyped
  BY DEF TurnInv
<1>2. /\ Calls' = Calls
      /\ \A j \in Calls : calls'[j] = IF j = i THEN c ELSE calls[j]
      /\ \A j \in Calls : calls'[j].run = calls[j].run
      /\ \A r : OfRun(r)' = OfRun(r)
  BY <1>1, CallChanges
<1> QED BY <1>2 DEF CallMoves

(* A tool call that settles ends, under the correlation of its own start.  *)
LEMMA SettleEnds ==
  ASSUME TurnInv, NEW i \in Calls, calls[i].at \in {"queued", "running"}, Runnable(i),
         NEW how, NEW e, Settle(i, how, e), UNCHANGED phase
  PROVE  ToolEnds(i) /\ entry' = RecordToolCallEnd(e, calls[i].run, calls[i].corr)
<1> DEFINE r == calls[i].run
           x == calls[i].corr
           a == IF ~Emits(r) THEN "done" ELSE IF how = "long" THEN "storing" ELSE "reporting"
           c == [calls[i] EXCEPT !.at = a, !.ended = x]
<1>1. calls[i] \in CallRecords /\ x \in Nat /\ calls \in [Calls -> CallRecords]
  BY ElementsTyped DEF TurnInv
<1>2. EndCorrelation(r) = x
  BY HeadIsOldest
<1>3. a \in {"done", "storing", "reporting"} /\ (r # 0 => a = "done")
      /\ (r = 0 => a \in {"storing", "reporting"})
  BY DEF Emits
<1>4. /\ c \in CallRecords /\ c.run = r /\ c.corr = x /\ c.kind = calls[i].kind
      /\ c.ended = x /\ c.at = a /\ c.lost = calls[i].lost
  BY <1>1, <1>3 DEF CallRecords
<1>5. calls' = [calls EXCEPT ![i] = c]
  BY <1>1, <1>2 DEF Settle, EndCallback
<1>6. feed' = IF a = "reporting" THEN AppendAndPublish("result", i, x) ELSE feed
  BY <1>2 DEF Settle, EndCallback
<1>7. entry' = RecordToolCallEnd(e, r, x)
  BY <1>2 DEF Settle, EndCallback
<1> HIDE DEF a, c
<1>8. CallMoves(i) /\ calls'[i] = c
  BY <1>4, <1>5, CallSet
<1> QED BY <1>3, <1>4, <1>6, <1>7, <1>8 DEF ToolEnds

(* A call that the executor starts runs, and a subagent's run begins.      *)
LEMMA StartRuns ==
  ASSUME TurnInv, NEW i \in Calls, StartTool(i), ~(calls[i].kind = "subagent" /\ aborted)
  PROVE  /\ ToolRuns(i)
         /\ calls[i].kind = "tool" => UNCHANGED entry
         /\ calls[i].kind = "subagent" => entry' = StartAgentRun(entry, i)
<1> DEFINE c == [calls[i] EXCEPT !.at = "running"]
<1>1. calls[i] \in CallRecords /\ calls \in [Calls -> CallRecords]
  BY ElementsTyped DEF TurnInv
<1>2. /\ c \in CallRecords /\ c.run = calls[i].run /\ c.corr = calls[i].corr
      /\ c.kind = calls[i].kind /\ c.ended = calls[i].ended /\ c.lost = calls[i].lost
      /\ c.at = "running"
  BY <1>1 DEF CallRecords
<1>3. calls[i].kind \in {"tool", "subagent"}
  BY <1>1 DEF CallRecords
<1>4. /\ calls[i].at = "queued" /\ calls' = [calls EXCEPT ![i] = c] /\ UNCHANGED feed
      /\ calls[i].kind = "tool" => UNCHANGED <<phase, entry>>
      /\ calls[i].kind = "subagent" =>
           phase' = [phase EXCEPT ![i] = "target"] /\ entry' = StartAgentRun(entry, i)
  BY <1>3 DEF StartTool
<1> HIDE DEF c
<1>5. CallMoves(i) /\ calls'[i] = c
  BY <1>2, <1>4, CallSet
<1> QED BY <1>2, <1>3, <1>4, <1>5 DEF ToolRuns

(* Storing a long output moves its call on, or loses its result.           *)
LEMMA OutputMoves ==
  ASSUME TurnInv, NEW i \in Calls, StoreOutput(i) \/ StoreFails(i)
  PROVE  OutputGoes(i)
<1>1. calls[i] \in CallRecords
  BY ElementsTyped DEF TurnInv
<1>2. CASE StoreOutput(i)
  <2> DEFINE c == [calls[i] EXCEPT !.at = "stored"]
  <2>1. /\ c \in CallRecords /\ c.run = calls[i].run /\ c.corr = calls[i].corr
        /\ c.kind = calls[i].kind /\ c.ended = calls[i].ended /\ c.lost = calls[i].lost
        /\ c.at = "stored"
    BY <1>1 DEF CallRecords
  <2>2. /\ calls' = [calls EXCEPT ![i] = c] /\ calls[i].at = "storing" /\ UNCHANGED phase
        /\ feed' = AppendAndPublish("result", i, calls[i].ended)
    BY <1>2 DEF StoreOutput
  <2> HIDE DEF c
  <2>3. CallMoves(i) /\ calls'[i] = c
    BY <2>1, <2>2, CallSet
  <2> QED BY <2>1, <2>2, <2>3 DEF OutputGoes
<1>3. CASE StoreFails(i)
  <2> DEFINE c == [calls[i] EXCEPT !.at = "done", !.lost = @ \cup {"result"}]
  <2>1. /\ c \in CallRecords /\ c.run = calls[i].run /\ c.corr = calls[i].corr
        /\ c.kind = calls[i].kind /\ c.ended = calls[i].ended
        /\ c.lost = calls[i].lost \cup {"result"} /\ c.at = "done"
    BY <1>1 DEF CallRecords
  <2>2. /\ calls' = [calls EXCEPT ![i] = c] /\ calls[i].at = "storing" /\ UNCHANGED <<phase, feed>>
    BY <1>3 DEF StoreFails
  <2> HIDE DEF c
  <2>3. CallMoves(i) /\ calls'[i] = c
    BY <2>1, <2>2, CallSet
  <2> QED BY <2>1, <2>2, <2>3 DEF OutputGoes
<1> QED BY <1>2, <1>3

(* What happens when the append at the head of the feed ends.              *)
LEMMA AppendMoves ==
  ASSUME TurnInv, NEW k \in Appends, NEW lost \in SUBSET {"call", "result"},
         CallbackReturns(k, lost)
  PROVE  /\ AppendEnds(lost) /\ k = 1
         /\ 1 \in 1..Len(feed) /\ feed[1] \in FeedRecords /\ feed[1].call \in Calls
<1> DEFINE i == feed[1].call
           to == IF feed[1].type = "call" THEN "queued" ELSE "done"
           c == [calls[i] EXCEPT !.at = to, !.lost = @ \cup lost]
<1>1. k = 1 /\ feed # <<>>
  BY DEF Appends
<1>2. AgentTyped /\ 1 \in 1..Len(feed) /\ feed[1] \in FeedRecords /\ i \in Calls
  <2>1. AgentTyped /\ feed \in Seq(FeedRecords)
    BY DEF TurnInv, AgentTyped
  <2>2. 1 \in 1..Len(feed)
    BY <1>1, <2>1, LenProperties
  <2> QED BY <2>1, <2>2, ElementsTyped DEF TurnInv, FeedInOrder
<1>3. calls[i] \in CallRecords
  BY <1>2, ElementsTyped
<1>4. /\ c \in CallRecords /\ c.run = calls[i].run /\ c.corr = calls[i].corr
      /\ c.kind = calls[i].kind /\ c.ended = calls[i].ended /\ c.at = to
      /\ c.lost = calls[i].lost \cup lost
  <2> HIDE DEF i
  <2> QED BY <1>3 DEF CallRecords
<1>5. feed' = FeedAfter(1) /\ calls' = [calls EXCEPT ![i] = c] /\ UNCHANGED phase
  BY <1>1 DEF CallbackReturns
<1> HIDE DEF c
<1>6. CallMoves(i) /\ calls'[i] = c
  BY <1>2, <1>4, <1>5, CallSet
<1> QED BY <1>1, <1>2, <1>4, <1>5, <1>6 DEF AppendEnds


(* The answer of run r is n calls more, each to be announced if the run is *)
(* the session agent's.                                                    *)
Announced(r, n) ==
  [k \in 1..n |-> [type |-> "call", call |-> Len(calls) + k, corr |-> Cardinality(OfRun(r)) + k]]
CallsAsked(r, n) ==
  /\ n \in Nat /\ Len(calls) + n <= MaxCalls
  /\ phase[r] = "generating" /\ \A i \in OfRun(r) : calls[i].at = "done"
  /\ CallsFollow(r, n)
  /\ \A k \in 1..n : calls'[Len(calls) + k].ended = 0 /\ calls'[Len(calls) + k].lost = {}
  /\ r # 0 => UNCHANGED feed
  /\ r = 0 => Follows(feed', feed, n, Announced(r, n))
  /\ UNCHANGED phase

(* An answer of the model adds its calls, and records them.                *)
LEMMA ModelGrows ==
  ASSUME TurnInv, NEW r \in Runs, NEW kinds \in Answers(r), ModelCallsTools(r, kinds)
  PROVE  \E n \in Nat :
           /\ CallsAsked(r, n)
           /\ entry' = RecordToolCallStarts(entry, r, {Cardinality(OfRun(r)) + k : k \in 1..n})
<1>1. AgentTyped /\ 0 \in Runs /\ calls \in Seq(CallRecords) /\ Len(calls) \in Nat
  BY ElementsTyped DEF TurnInv, AgentTyped
<1>2. PICK n \in 1..MaxWidth : Len(calls) + n <= MaxCalls /\ kinds \in [1..n -> Kinds(r)]
  BY DEF Answers
<1>3. n \in Nat /\ Len(kinds) = n
  <2>1. MaxWidth \in Nat
    BY BoundsAssumption
  <2> QED BY <1>2, <2>1
<1> DEFINE C == Cardinality(OfRun(r))
           L == Len(calls)
           corr == [k \in 1..n |-> C + k]
           new == [k \in 1..n |->
             [run |-> r, kind |-> kinds[k], at |-> IF Emits(r) THEN "calling" ELSE "queued",
              corr |-> C + k, ended |-> 0, lost |-> {}]]
<1>4. C \in Nat
  <2>1. IsFiniteSet(1..Len(calls)) /\ OfRun(r) \in SUBSET (1..Len(calls))
    BY <1>1, FS_Interval DEF OfRun
  <2> QED BY <2>1, FS_Subset, FS_CardinalityType
<1>5. StartCorrelation(r, n) = corr
  BY DEF StartCorrelation
<1>6. /\ phase[r] = "generating" /\ \A i \in OfRun(r) : calls[i].at = "done"
      /\ calls' = calls \o new
      /\ ~Emits(r) => UNCHANGED feed
      /\ Emits(r) => feed' = feed \o Announced(r, n)
      /\ entry' = RecordToolCallStarts(entry, r, {corr[k] : k \in 1..n})
      /\ UNCHANGED phase
  <2>1. Asking(r) /\ UNCHANGED phase
    BY DEF ModelCallsTools
  <2>2. /\ calls' = calls \o new
        /\ entry' = RecordToolCallStarts(entry, r, {corr[k] : k \in 1..n})
        /\ IF Emits(r)
           THEN feed' = feed \o [k \in 1..n |->
                  [type |-> "call", call |-> L + k, corr |-> corr[k]]]
           ELSE UNCHANGED feed
    BY <1>3, <1>5 DEF ModelCallsTools
  <2>3. [k \in 1..n |-> [type |-> "call", call |-> L + k, corr |-> corr[k]]] = Announced(r, n)
    BY DEF Announced
  <2> HIDE DEF new, corr
  <2> QED BY <2>1, <2>2, <2>3 DEF Asking
<1>7. \A k \in 1..n : kinds[k] \in Kinds(r)
  BY <1>2
<1>8. new \in [1..n -> CallRecords] /\ Announced(r, n) \in [1..n -> FeedRecords]
  <2>1. ASSUME NEW k \in 1..n PROVE new[k] \in CallRecords /\ Announced(r, n)[k] \in FeedRecords
    <3>1. C + k \in Nat /\ L + k \in Nat /\ kinds[k] \in {"tool", "subagent"}
      BY <1>1, <1>3, <1>4, <1>7 DEF Kinds
    <3> QED BY <3>1 DEF CallRecords, FeedRecords, Announced
  <2>2. DOMAIN Announced(r, n) = 1..n /\ Announced(r, n) = [k \in 1..n |-> Announced(r, n)[k]]
    BY DEF Announced
  <2> HIDE DEF C, L
  <2> QED BY <2>1, <2>2
<1>9. /\ calls' \in Seq(CallRecords) /\ Len(calls') = L + n
      /\ \A k \in 1..L : calls'[k] = calls[k]
      /\ \A k \in 1..n : calls'[L + k] = new[k]
  <2>1. new \in [1..n -> CallRecords] /\ calls' = calls \o new
    BY <1>6, <1>8
  <2> HIDE DEF new
  <2>2. /\ calls \o new \in Seq(CallRecords) /\ Len(calls \o new) = Len(calls) + n
        /\ Follows(calls \o new, calls, n, new)
    BY <1>1, <1>3, <2>1, ConcatFollows
  <2> QED BY <2>1, <2>2 DEF Follows
<1>10. \A k \in 1..n : /\ new[k].run = r /\ new[k].kind = kinds[k] /\ new[k].corr = C + k
                       /\ new[k].at = IF Emits(r) THEN "calling" ELSE "queued"
                       /\ new[k].ended = 0 /\ new[k].lost = {}
  OBVIOUS
<1> HIDE DEF new
<1>11. CallsFollow(r, n)
  BY <1>9, <1>10 DEF CallsFollow, Calls
<1>12. r = 0 => Follows(feed', feed, n, Announced(r, n))
  <2>1. feed \in Seq(FeedRecords)
    BY <1>1 DEF AgentTyped
  <2>2. Follows(feed \o Announced(r, n), feed, n, Announced(r, n))
    BY <1>3, <1>8, <2>1, ConcatFollows
  <2> QED BY <1>6, <2>2 DEF Emits
<1>13. CallsAsked(r, n)
  BY <1>2, <1>3, <1>6, <1>9, <1>10, <1>11, <1>12 DEF CallsAsked, Emits
<1>14. {corr[k] : k \in 1..n} = {Cardinality(OfRun(r)) + k : k \in 1..n}
  OBVIOUS
<1> QED BY <1>3, <1>6, <1>13, <1>14

-----------------------------------------------------------------------------
(* The turn around the calls. *)

Begun == {"target", "generating"}
RunsBegun ==
  /\ phase[0] \in Begun => exec = "agent"
  /\ exec = "lost" => calls = <<>>
  /\ \A r \in Runs : r # 0 /\ phase[r] # "off" =>
       r \in Calls /\ calls[r].kind = "subagent" /\ calls[r].at \notin {"calling", "queued"}
  /\ \A i \in Calls : phase[calls[i].run] # "off"
  /\ \A i \in Calls : calls[i].at \in Open => calls[i].ended = 0

CorrelationsCover ==
  /\ \A i \in Calls : calls[i].corr # 0
  /\ \A r \in Runs : \A c \in 1..Cardinality(OfRun(r)) : \E i \in OfRun(r) : calls[i].corr = c

(* Each call is in the feed once at most; a call is announced in order.    *)
FeedOnce ==
  /\ \A i \in Calls : calls[i].at \in {"storing", "stored", "reporting"} => calls[i].run = 0
  /\ \A k \in 1..Len(feed) :
       /\ calls[feed[k].call].run = 0 /\ feed[k].corr = calls[feed[k].call].corr
       /\ feed[k].type = "result" => calls[feed[k].call].at \in {"stored", "reporting"}
  /\ \A k, l \in 1..Len(feed) : feed[k].call = feed[l].call => k = l
  /\ \A i, j \in OfRun(0) : i < j /\ calls[i].at = "calling" => calls[j].at = "calling"


(* The runs go on as long as their calls do. *)
LEMMA RunsRest ==
  ASSUME TurnInv, RunsBegun, UNCHANGED calls,
         phase'[0] \in Begun => exec' = "agent",
         exec' = "lost" => exec = "lost",
         \A r \in Runs : r # 0 /\ phase'[r] # "off" => phase[r] # "off",
         \A r \in Runs : phase[r] # "off" => phase'[r] # "off"
  PROVE  RunsBegun'
<1>1. \A i \in Calls : calls[i].run \in Runs
  BY ElementsTyped DEF TurnInv
<1> QED BY <1>1 DEF RunsBegun, Calls

(* A call that moves on, or begins to run, leaves no run without its call. *)
LEMMA RunsMove ==
  ASSUME TurnInv, RunsBegun, NEW i, CallMoves(i), UNCHANGED exec,
         calls'[i].at \notin {"calling", "queued"} \/ calls[i].at \in {"calling", "queued"},
         calls'[i].at \in Open => calls[i].at \in Open /\ calls'[i].ended = calls[i].ended,
         UNCHANGED phase \/ ToolRuns(i)
  PROVE  RunsBegun'
<1>1. AgentTyped /\ 0 \in Runs /\ i \in Runs /\ i # 0 /\ phase \in [Runs -> Phases]
  BY ElementsTyped DEF TurnInv, CallMoves, AgentTyped
<1>2. \A r \in Runs : r = i \/ phase'[r] = phase[r]
  BY <1>1 DEF ToolRuns
<1>3. \/ phase'[i] = phase[i]
      \/ phase'[i] # "off" /\ calls[i].kind = "subagent" /\ calls'[i].at = "running"
  BY <1>1 DEF ToolRuns
<1>4. \A j \in Calls : calls[j].run \in Runs
  BY <1>1, ElementsTyped
<1>5. /\ \A j \in Calls : calls'[j].run = calls[j].run /\ calls'[j].kind = calls[j].kind
      /\ \A j \in Calls : j # i => calls'[j] = calls[j]
      /\ Calls' = Calls /\ i \in Calls
  BY DEF CallMoves
<1>6. phase'[0] \in Begun => exec' = "agent"
  BY <1>1, <1>2 DEF RunsBegun
<1>7. exec' = "lost" => calls' = <<>>
  BY <1>5 DEF RunsBegun, Calls
<1>8. ASSUME NEW r \in Runs, r # 0, phase'[r] # "off"
      PROVE  r \in Calls /\ calls'[r].kind = "subagent" /\ calls'[r].at \notin {"calling", "queued"}
  <2>1. CASE r = i
    BY <1>1, <1>3, <1>5, <1>8, <2>1 DEF RunsBegun
  <2>2. CASE r # i
    BY <1>2, <1>5, <1>8, <2>2 DEF RunsBegun
  <2> QED BY <2>1, <2>2
<1>9. \A j \in Calls : phase'[calls'[j].run] # "off"
  BY <1>2, <1>3, <1>4, <1>5 DEF RunsBegun
<1>10. \A j \in Calls : calls'[j].at \in Open => calls'[j].ended = 0
  BY <1>5 DEF RunsBegun
<1> QED BY <1>5, <1>6, <1>7, <1>8, <1>9, <1>10 DEF RunsBegun

(* New calls are those of a run that has begun.                            *)
LEMMA RunsAsk ==
  ASSUME TurnInv, RunsBegun, NEW r \in Runs, NEW n \in Nat, CallsAsked(r, n), UNCHANGED exec
  PROVE  RunsBegun'
<1>1. AgentTyped
  BY DEF TurnInv
<1>2. /\ \A j \in Calls : j \in Calls' /\ calls'[j] = calls[j]
      /\ \A j \in Calls' : j \in Calls \/ \E k \in 1..n : j = Len(calls) + k
      /\ \A k \in 1..n : calls'[Len(calls) + k].run = r /\ calls'[Len(calls) + k].ended = 0
  BY <1>1, RunGrows DEF CallsAsked, CallsFollow
<1>3. exec' = "lost" => calls' = <<>>
  <2> SUFFICES ASSUME exec = "lost" PROVE FALSE
    BY DEF CallsAsked
  <2>1. exec = "lost" => calls = <<>>
    BY DEF RunsBegun
  <2>2. phase[r] = "generating" /\ r # 0 => r \in Calls
    BY DEF RunsBegun
  <2>3. phase[r] = "generating"
    BY DEF CallsAsked
  <2>4. r # 0
    BY <2>3 DEF RunsBegun, Begun
  <2>5. Calls = {}
    BY <2>1 DEF Calls
  <2> QED BY <2>2, <2>3, <2>4, <2>5
<1>4. phase' = phase /\ phase[r] = "generating"
  BY DEF CallsAsked
<1>5. (\A s \in Runs : s # 0 /\ phase[s] # "off" =>
        s \in Calls /\ calls[s].kind = "subagent" /\ calls[s].at \notin {"calling", "queued"})'
  BY <1>2, <1>4 DEF RunsBegun
<1>6. (\A i \in Calls : phase[calls[i].run] # "off")'
  BY <1>2, <1>4 DEF RunsBegun
<1>7. ASSUME NEW j \in Calls', calls'[j].at \in Open PROVE calls'[j].ended = 0
  <2>1. CASE j \in Calls
    BY <1>2, <1>7, <2>1 DEF RunsBegun
  <2>2. CASE j \notin Calls
    BY <1>2, <2>2
  <2> QED BY <2>1, <2>2
<1> QED BY <1>3, <1>4, <1>5, <1>6, <1>7 DEF RunsBegun

(* A call that moves keeps its correlation.                                *)
LEMMA CoverMoves ==
  ASSUME CorrelationsCover, NEW i, CallMoves(i)
  PROVE  CorrelationsCover'
<1>1. \A r, j : j \in OfRun(r) => j \in Calls
  BY DEF OfRun, Calls
<1>2. ASSUME NEW r \in Runs, NEW c \in 1..Cardinality(OfRun(r)')
      PROVE  \E j \in OfRun(r)' : calls'[j].corr = c
  <2>1. OfRun(r)' = OfRun(r)
    BY DEF CallMoves
  <2>2. PICK j \in OfRun(r) : calls[j].corr = c
    BY <1>2, <2>1 DEF CorrelationsCover
  <2> QED BY <1>1, <2>1, <2>2 DEF CallMoves
<1>3. \A j \in Calls' : calls'[j].corr # 0
  BY DEF CorrelationsCover, CallMoves
<1> QED BY <1>2, <1>3 DEF CorrelationsCover

(* New calls take the correlations that follow.                            *)
LEMMA CoverGrows ==
  ASSUME TurnInv, CorrelationsCover, NEW r \in Runs, NEW n \in Nat, CallsAsked(r, n)
  PROVE  CorrelationsCover'
<1> DEFINE C == Cardinality(OfRun(r))
<1>1. AgentTyped /\ CallsFollow(r, n)
  BY DEF TurnInv, CallsAsked
<1>2. /\ C \in Nat /\ Cardinality(OfRun(r)') = C + n
      /\ \A s : s # r => OfRun(s)' = OfRun(s)
      /\ \A j \in Calls : j \in Calls' /\ calls'[j] = calls[j]
      /\ \A k \in 1..n : Len(calls) + k \in Calls' /\ calls'[Len(calls) + k].run = r
                         /\ calls'[Len(calls) + k].corr = C + k
      /\ \A j \in Calls' : j \in Calls \/ \E k \in 1..n : j = Len(calls) + k
  BY <1>1, RunGrows DEF CallsFollow
<1>3. \A s, j : j \in OfRun(s) => j \in Calls /\ calls[j].run = s
  BY DEF OfRun, Calls
<1>4. \A s, j : j \in Calls' /\ calls'[j].run = s => j \in OfRun(s)'
  BY DEF OfRun, Calls
<1>5. ASSUME NEW s \in Runs, NEW c \in 1..Cardinality(OfRun(s)')
      PROVE  \E j \in OfRun(s)' : calls'[j].corr = c
  <2>1. CASE s # r \/ c <= C
    <3>1. c \in 1..Cardinality(OfRun(s))
      BY <1>2, <1>5, <2>1
    <3>2. PICK j \in OfRun(s) : calls[j].corr = c
      BY <3>1 DEF CorrelationsCover
    <3> QED BY <1>2, <1>3, <1>4, <3>2
  <2>2. CASE s = r /\ ~(c <= C)
    <3>1. c - C \in 1..n /\ C + (c - C) = c
      BY <1>2, <1>5, <2>2
    <3> QED BY <1>2, <1>4, <2>2, <3>1
  <2> QED BY <2>1, <2>2
<1>6. ASSUME NEW j \in Calls' PROVE calls'[j].corr # 0
  <2>1. CASE j \in Calls
    BY <1>2, <2>1 DEF CorrelationsCover
  <2>2. CASE j \notin Calls
    <3>1. PICK k \in 1..n : j = Len(calls) + k
      BY <1>2, <1>6, <2>2
    <3> QED BY <1>2, <3>1
  <2> QED BY <2>1, <2>2
<1> QED BY <1>5, <1>6 DEF CorrelationsCover

(* Whose entries the feed holds. *)
LEMMA FeedHolds ==
  ASSUME TurnInv, FeedOnce, NEW k \in 1..Len(feed)
  PROVE  /\ feed[k].call \in Calls /\ feed[k] \in FeedRecords
         /\ feed[k].type \in {"call", "result"}
         /\ feed[k].type = "call" => calls[feed[k].call].at = "calling"
         /\ calls[feed[k].call].at \in {"calling", "stored", "reporting"}
<1>1. feed[k] \in FeedRecords /\ FeedInOrder /\ k \in 1..Len(feed)
  BY ElementsTyped DEF TurnInv
<1>2. feed[k].type \in {"call", "result"}
  BY <1>1 DEF FeedRecords
<1>3. feed[k].call \in Calls
  BY <1>1 DEF FeedInOrder
<1>4. feed[k].type = "call" => calls[feed[k].call].at = "calling"
  BY <1>1 DEF FeedInOrder
<1>5. feed[k].type = "result" => calls[feed[k].call].at \in {"stored", "reporting"}
  BY DEF FeedOnce
<1> QED BY <1>1, <1>2, <1>3, <1>4, <1>5

(* A call that is not in the feed moves, or enters it with its result.     *)
LEMMA FeedMoves ==
  ASSUME TurnInv, FeedOnce, NEW i,
         CallMoves(i), calls[i].at \notin {"calling", "stored", "reporting"},
         calls'[i].at # "calling",
         calls'[i].at \in {"storing", "stored", "reporting"} => calls[i].run = 0,
         \/ UNCHANGED feed
         \/ /\ feed' = AppendAndPublish("result", i, calls[i].corr)
            /\ calls'[i].at \in {"stored", "reporting"} /\ calls[i].run = 0
  PROVE  FeedOnce'
<1>1. /\ \A j \in Calls : /\ calls'[j].run = calls[j].run /\ calls'[j].corr = calls[j].corr
                          /\ j # i => calls'[j] = calls[j]
      /\ Calls' = Calls /\ i \in Calls /\ OfRun(0)' = OfRun(0)
  BY DEF CallMoves
<1>2. /\ \A j \in Calls : calls'[j].at \in {"storing", "stored", "reporting"} => calls'[j].run = 0
      /\ \A j, m \in OfRun(0) : j < m /\ calls'[j].at = "calling" => calls'[m].at = "calling"
  <2>1. \A j \in OfRun(0) : j \in Calls
    BY DEF OfRun, Calls
  <2> QED BY <1>1, <2>1 DEF FeedOnce
<1>3. \A k \in 1..Len(feed) :
        /\ feed[k].call \in Calls /\ feed[k].call # i /\ calls'[feed[k].call] = calls[feed[k].call]
        /\ calls[feed[k].call].run = 0 /\ feed[k].corr = calls[feed[k].call].corr
        /\ feed[k].type = "result" => calls[feed[k].call].at \in {"stored", "reporting"}
  BY <1>1, FeedHolds DEF FeedOnce
<1>4. CASE UNCHANGED feed
  <2>1. \A k, l \in 1..Len(feed) : feed[k].call = feed[l].call => k = l
    BY DEF FeedOnce
  <2> QED BY <1>1, <1>2, <1>3, <1>4, <2>1 DEF FeedOnce
<1>5. CASE /\ feed' = AppendAndPublish("result", i, calls[i].corr)
           /\ calls'[i].at \in {"stored", "reporting"} /\ calls[i].run = 0
  <2> DEFINE e == [type |-> "result", call |-> i, corr |-> calls[i].corr]
  <2>1. feed \in Seq(FeedRecords) /\ e \in FeedRecords
    <3>1. i \in Nat /\ calls[i].corr \in Nat
      BY <1>1, ElementsTyped DEF TurnInv, Runs, CallRecords, Calls
    <3> QED BY <3>1 DEF TurnInv, AgentTyped, FeedRecords
  <2>2. feed' = Append(feed, e)
    BY <1>5 DEF AppendAndPublish
  <2>3. e.type = "result" /\ e.call = i /\ e.corr = calls[i].corr
    OBVIOUS
  <2> HIDE DEF e
  <2>4. /\ Len(feed) \in Nat /\ Len(feed') = Len(feed) + 1 /\ feed'[Len(feed) + 1] = e
        /\ \A k \in 1..Len(feed) : feed'[k] = feed[k]
    BY <2>1, <2>2, AppendProperties, LenProperties
  <2>5. \A k \in 1..Len(feed') : k \in 1..Len(feed) \/ k = Len(feed) + 1
    BY <2>4
  <2>6. ASSUME NEW k \in 1..Len(feed')
        PROVE  /\ calls'[feed'[k].call].run = 0 /\ feed'[k].corr = calls'[feed'[k].call].corr
               /\ feed'[k].type = "result" => calls'[feed'[k].call].at \in {"stored", "reporting"}
    <3>1. CASE k \in 1..Len(feed)
      BY <1>3, <2>4, <3>1
    <3>2. CASE k = Len(feed) + 1
      BY <1>1, <1>5, <2>3, <2>4, <3>2
    <3> QED BY <2>5, <3>1, <3>2
  <2>7. ASSUME NEW k \in 1..Len(feed'), NEW l \in 1..Len(feed'), feed'[k].call = feed'[l].call
        PROVE  k = l
    <3>1. \A m \in 1..Len(feed) : feed'[m].call # i
      BY <1>3, <2>4
    <3>2. feed'[Len(feed) + 1].call = i
      BY <2>3, <2>4
    <3>3. \A m, o \in 1..Len(feed) : feed[m].call = feed[o].call => m = o
      BY DEF FeedOnce
    <3> QED BY <2>4, <2>5, <2>7, <3>1, <3>2, <3>3
  <2> QED BY <1>1, <1>2, <2>6, <2>7 DEF FeedOnce
<1> QED BY <1>4, <1>5

(* The head leaves the feed and its call moves on.                         *)
LEMMA FeedAppends ==
  ASSUME TurnInv, FeedOnce, NEW lost, AppendEnds(lost)
  PROVE  FeedOnce'
<1> DEFINE i == feed[1].call
<1>1. AgentTyped /\ FeedInOrder /\ feed # <<>> /\ feed' = FeedAfter(1) /\ CallMoves(i)
  BY DEF TurnInv, AppendEnds
<1>2. /\ 1 \in 1..Len(feed)
      /\ \A k \in 1..Len(feed') :
           feed'[k] = feed[k + 1] /\ k + 1 \in 1..Len(feed) /\ 1 < k + 1
      /\ \A k \in 1..Len(feed) :
           k = 1 \/ (k - 1 \in 1..Len(feed') /\ feed'[k - 1] = feed[k])
  BY <1>1, FeedPops
<1>3. /\ \A j \in Calls : /\ calls'[j].run = calls[j].run /\ calls'[j].corr = calls[j].corr
                          /\ j # i => calls'[j] = calls[j]
      /\ Calls' = Calls /\ i \in Calls /\ OfRun(0)' = OfRun(0)
  BY <1>1 DEF CallMoves
<1>4. calls'[i].at = IF feed[1].type = "call" THEN "queued" ELSE "done"
  BY DEF AppendEnds
<1>5. \A k \in 1..Len(feed) : feed[k].call \in Calls /\ (feed[k].call = i => k = 1)
  BY <1>2, FeedHolds DEF FeedOnce
<1>6. /\ feed[1].type \in {"call", "result"}
      /\ feed[1].type = "call" => calls[i].at = "calling"
      /\ feed[1].type = "result" => calls[i].at # "calling"
  BY <1>2, FeedHolds DEF FeedOnce
<1> HIDE DEF i
<1>7. \A j \in Calls : calls'[j].at \in {"storing", "stored", "reporting"} => calls'[j].run = 0
  BY <1>3, <1>4 DEF FeedOnce
<1>8. ASSUME NEW k \in 1..Len(feed')
      PROVE  /\ calls'[feed'[k].call].run = 0 /\ feed'[k].corr = calls'[feed'[k].call].corr
             /\ feed'[k].type = "result" => calls'[feed'[k].call].at \in {"stored", "reporting"}
  <2> DEFINE l == k + 1
  <2>1. feed'[k] = feed[l] /\ l \in 1..Len(feed) /\ l # 1
    BY <1>2
  <2> HIDE DEF l
  <2>2. feed[l].call \in Calls /\ feed[l].call # i
    BY <1>5, <2>1
  <2> QED BY <1>3, <2>1, <2>2 DEF FeedOnce
<1>9. ASSUME NEW k \in 1..Len(feed'), NEW l \in 1..Len(feed'), feed'[k].call = feed'[l].call
      PROVE  k = l
  <2>1. /\ k + 1 \in 1..Len(feed) /\ l + 1 \in 1..Len(feed)
        /\ feed[k + 1].call = feed[l + 1].call
    BY <1>2, <1>9
  <2>2. \A a, b \in 1..Len(feed) : feed[a].call = feed[b].call => a = b
    BY DEF FeedOnce
  <2>3. k + 1 = l + 1
    BY <2>1, <2>2
  <2> QED BY <2>3
<1>10. ASSUME NEW j \in OfRun(0), NEW m \in OfRun(0), j < m, calls'[j].at = "calling"
       PROVE  calls'[m].at = "calling"
  <2>1. j \in Calls /\ m \in Calls
    BY DEF OfRun, Calls
  <2>2. j # i /\ calls[j].at = "calling"
    BY <1>3, <1>4, <1>10, <2>1
  <2>3. calls[m].at = "calling"
    BY <1>10, <2>2 DEF FeedOnce
  <2>4. m # i
    <3> SUFFICES ASSUME m = i PROVE FALSE
      OBVIOUS
    <3>1. feed[1].type = "call"
      BY <1>6, <2>3
    <3>2. PICK k \in 1..Len(feed) : feed[k].type = "call" /\ feed[k].call = j
      BY <1>1, <2>1, <2>2 DEF FeedInOrder
    <3>3. 1 < k
      BY <1>2, <2>2, <3>2 DEF i
    <3>4. feed[1].call < feed[k].call
      BY <1>1, <1>2, <3>1, <3>2, <3>3 DEF FeedInOrder
    <3>5. i < j /\ i \in Nat /\ j \in Nat
      BY <1>3, <2>1, <3>2, <3>4, ElementsTyped DEF i, TurnInv, Runs, Calls
    <3> QED BY <1>10, <3>5
  <2> QED BY <1>3, <2>1, <2>3, <2>4
<1> QED BY <1>3, <1>7, <1>8, <1>9, <1>10 DEF FeedOnce

(* New calls of the session agent enter the feed behind all others.        *)
LEMMA FeedGrows ==
  ASSUME TurnInv, FeedOnce, NEW r \in Runs, NEW n \in Nat, CallsAsked(r, n)
  PROVE  FeedOnce'
<1> DEFINE C == Cardinality(OfRun(r))
           L == Len(calls)
<1>1. AgentTyped /\ CallsFollow(r, n) /\ 0 \in Runs
  BY ElementsTyped DEF TurnInv, CallsAsked
<1>2. /\ C \in Nat /\ L \in Nat
      /\ \A j \in Calls : j \in Calls' /\ calls'[j] = calls[j] /\ j <= L
      /\ \A k \in 1..n : L + k \in Calls' /\ L + k \notin Calls
      /\ \A j \in Calls' : j \in Calls \/ \E k \in 1..n : j = L + k
      /\ \A k \in 1..n : /\ calls'[L + k].run = r /\ calls'[L + k].corr = C + k
                         /\ calls'[L + k].at = IF Emits(r) THEN "calling" ELSE "queued"
  BY <1>1, RunGrows DEF CallsFollow
<1>3. \A j, s : j \in OfRun(s) <=> j \in Calls /\ calls[j].run = s
  BY DEF OfRun, Calls
<1>4. \A j : j \in OfRun(0)' <=> j \in Calls' /\ calls'[j].run = 0
  BY DEF OfRun, Calls
<1> HIDE DEF L, C
<1>5. \A j \in Calls' : calls'[j].at \in {"storing", "stored", "reporting"} => calls'[j].run = 0
  <2> SUFFICES ASSUME NEW j \in Calls', calls'[j].at \in {"storing", "stored", "reporting"}
               PROVE  calls'[j].run = 0
    OBVIOUS
  <2>1. j \in Calls
    BY <1>2
  <2> QED BY <1>2, <2>1 DEF FeedOnce
<1>6. CASE r # 0
  <2>1. UNCHANGED feed
    BY <1>6 DEF CallsAsked
  <2>2. \A k \in 1..Len(feed) : feed[k].call \in Calls /\ calls'[feed[k].call] = calls[feed[k].call]
    BY <1>2, FeedHolds
  <2>3. \A j : j \in OfRun(0)' => j \in OfRun(0) /\ calls'[j] = calls[j]
    BY <1>2, <1>3, <1>4, <1>6
  <2>4. \A j, m \in OfRun(0)' : j < m /\ calls'[j].at = "calling" => calls'[m].at = "calling"
    BY <2>3 DEF FeedOnce
  <2>5. \A k, l \in 1..Len(feed') : feed'[k].call = feed'[l].call => k = l
    BY <2>1 DEF FeedOnce
  <2>6. \A k \in 1..Len(feed') :
          /\ calls'[feed'[k].call].run = 0 /\ feed'[k].corr = calls'[feed'[k].call].corr
          /\ feed'[k].type = "result" => calls'[feed'[k].call].at \in {"stored", "reporting"}
    BY <2>1, <2>2 DEF FeedOnce
  <2> QED BY <1>5, <2>4, <2>5, <2>6 DEF FeedOnce
<1>7. CASE r = 0
  <2>1. ASSUME NEW k \in 1..Len(feed) PROVE FALSE
    <3>1. feed[k].call \in Calls /\ calls[feed[k].call].at # "done"
      BY FeedHolds
    <3>2. calls[feed[k].call].run = 0
      BY DEF FeedOnce
    <3> QED BY <1>3, <1>7, <3>1, <3>2 DEF CallsAsked
  <2>2. /\ \A k \in 1..n : feed'[Len(feed) + k] = Announced(0, n)[k]
        /\ \A k \in 1..Len(feed') : \E m \in 1..n : k = Len(feed) + m
    BY <1>7, <2>1 DEF CallsAsked, Follows
  <2>3. \A m \in 1..n : /\ Announced(0, n)[m].type = "call" /\ Announced(0, n)[m].call = L + m
                        /\ Announced(0, n)[m].corr = C + m
    BY <1>7 DEF Announced, L, C
  <2>4. \A k \in 1..Len(feed') : \E m \in 1..n :
          /\ k = Len(feed) + m /\ feed'[k].type = "call" /\ feed'[k].call = L + m
          /\ feed'[k].corr = C + m
    <3> SUFFICES ASSUME NEW k \in 1..Len(feed')
                 PROVE  \E m \in 1..n :
                          /\ k = Len(feed) + m /\ feed'[k].type = "call" /\ feed'[k].call = L + m
                          /\ feed'[k].corr = C + m
      OBVIOUS
    <3>1. PICK m \in 1..n : k = Len(feed) + m
      BY <2>2
    <3>2. feed'[k] = Announced(0, n)[m]
      BY <2>2, <3>1
    <3> QED BY <2>3, <3>1, <3>2
  <2>5. ASSUME NEW k \in 1..Len(feed')
        PROVE  /\ calls'[feed'[k].call].run = 0 /\ feed'[k].corr = calls'[feed'[k].call].corr
               /\ feed'[k].type = "result" => calls'[feed'[k].call].at \in {"stored", "reporting"}
    <3>1. PICK m \in 1..n : feed'[k].type = "call" /\ feed'[k].call = L + m /\ feed'[k].corr = C + m
      BY <2>4
    <3> QED BY <1>2, <1>7, <3>1
  <2>6. ASSUME NEW k \in 1..Len(feed'), NEW l \in 1..Len(feed'), feed'[k].call = feed'[l].call
        PROVE  k = l
    <3>1. PICK m \in 1..n : k = Len(feed) + m /\ feed'[k].call = L + m
      BY <2>4
    <3>2. PICK o \in 1..n : l = Len(feed) + o /\ feed'[l].call = L + o
      BY <2>4
    <3>3. m = o
      BY <1>2, <2>6, <3>1, <3>2
    <3> QED BY <3>1, <3>2, <3>3
  <2>7. ASSUME NEW j \in OfRun(0)', NEW m \in OfRun(0)', j < m, calls'[j].at = "calling"
        PROVE  calls'[m].at = "calling"
    <3>1. j \notin Calls
      BY <1>2, <1>3, <1>4, <1>7, <2>7 DEF CallsAsked
    <3>2. PICK k \in 1..n : j = L + k
      BY <1>2, <1>4, <3>1
    <3>3. m \notin Calls
      <4>1. m \in Calls => m <= L /\ m \in Nat
        BY <1>2 DEF Calls
      <4> QED BY <1>2, <2>7, <3>2, <4>1
    <3>4. PICK l \in 1..n : m = L + l
      BY <1>2, <1>4, <3>3
    <3> QED BY <1>2, <1>7, <3>4 DEF Emits
  <2> QED BY <1>5, <2>5, <2>6, <2>7 DEF FeedOnce
<1> QED BY <1>6, <1>7

-----------------------------------------------------------------------------
(* The events. *)

EventRecords == [type : {"call", "result"} \cup Terminal, call : Nat, corr : Corrs]

(* Unless the server lost the turn, the events of calls and results are    *)
(* those of the session agent's calls: each that is announced has its      *)
(* event and each that is done its result, except what was lost, none has  *)
(* two, and they are in order.                                             *)
Told(i, type) == \E k \in 1..Len(events) : events[k].type = type /\ events[k].call = i
OfCalls == {k \in 1..Len(events) : events[k].type \in {"call", "result"}}
EventsOfCalls ==
  \A k \in OfCalls :
    /\ events[k].call \in OfRun(0) /\ events[k].corr = calls[events[k].call].corr
    /\ calls[events[k].call].at # "calling"
    /\ events[k].type = "result" => calls[events[k].call].at = "done"
CallsTold ==
  \A i \in OfRun(0) :
    /\ calls[i].at = "calling" \/ "call" \in calls[i].lost \/ Told(i, "call")
    /\ calls[i].at # "done" \/ "result" \in calls[i].lost \/ Told(i, "result")
ToldInOrder ==
  \A k, l \in OfCalls :
    /\ events[k].type = events[l].type /\ events[k].call = events[l].call => k = l
    /\ events[k].type = "call" /\ events[l].type = "result" /\ events[k].call = events[l].call
         => k < l
    /\ events[k].type = "call" /\ events[l].type = "call" /\ events[k].call < events[l].call
         => k < l
EventsTell ==
  /\ events \in Seq(EventRecords)
  /\ exec # "lost" => EventsOfCalls /\ CallsTold /\ ToldInOrder

(* The events grow by one. *)
LEMMA EventsGrow ==
  ASSUME events \in Seq(EventRecords), NEW e \in EventRecords, events' = Append(events, e)
  PROVE  /\ events' \in Seq(EventRecords) /\ Len(events) \in Nat /\ Len(events') = Len(events) + 1
         /\ events'[Len(events')] = e
         /\ \A k \in 1..Len(events) : k \in 1..Len(events') /\ events'[k] = events[k]
                                      /\ k < Len(events')
         /\ \A k \in 1..Len(events') : k \in 1..Len(events) \/ k = Len(events')
         /\ Len(events') \in 1..Len(events')
         /\ \A i, type : Told(i, type) => Told(i, type)'
         /\ Told(e.call, e.type)'
<1>1. /\ events' \in Seq(EventRecords) /\ Len(events) \in Nat /\ Len(events') = Len(events) + 1
      /\ events'[Len(events) + 1] = e
      /\ \A k \in 1..Len(events) : events'[k] = events[k]
  BY AppendProperties, LenProperties
<1>2. /\ \A k \in 1..Len(events) : k \in 1..Len(events') /\ k < Len(events')
      /\ \A k \in 1..Len(events') : k \in 1..Len(events) \/ k = Len(events')
      /\ Len(events') \in 1..Len(events')
  BY <1>1
<1>3. \A i, type : Told(i, type) => Told(i, type)'
  BY <1>1, <1>2 DEF Told
<1>4. Told(e.call, e.type)'
  BY <1>1, <1>2 DEF Told
<1> QED BY <1>1, <1>2, <1>3, <1>4

(* An outcome is not about a call. *)
LEMMA EventsRest ==
  ASSUME EventsTell, UNCHANGED calls, exec = "lost" => exec' = "lost",
         \/ UNCHANGED events
         \/ \E to \in Terminal : events' = Append(events, [type |-> to, call |-> 0, corr |-> 0])
  PROVE  EventsTell'
<1>1. OfRun(0)' = OfRun(0)
  BY DEF OfRun
<1>2. CASE UNCHANGED events
  <2>1. OfCalls' = OfCalls /\ \A i, type : Told(i, type)' <=> Told(i, type)
    BY <1>2 DEF OfCalls, Told
  <2>2. EventsOfCalls => EventsOfCalls'
    BY <1>1, <1>2, <2>1 DEF EventsOfCalls
  <2>3. CallsTold => CallsTold'
    BY <1>1, <2>1 DEF CallsTold
  <2>4. ToldInOrder => ToldInOrder'
    BY <1>2, <2>1 DEF ToldInOrder
  <2> QED BY <1>2, <2>2, <2>3, <2>4 DEF EventsTell
<1>3. ASSUME NEW to \in Terminal, events' = Append(events, [type |-> to, call |-> 0, corr |-> 0])
      PROVE  EventsTell'
  <2> DEFINE e == [type |-> to, call |-> 0, corr |-> 0]
  <2>1. e \in EventRecords /\ e.type \notin {"call", "result"} /\ events' = Append(events, e)
    BY <1>3, BoundsAssumption DEF EventRecords, Corrs, Terminal
  <2> HIDE DEF e
  <2>2. /\ events' \in Seq(EventRecords)
        /\ events'[Len(events')] = e
        /\ \A k \in 1..Len(events) : k \in 1..Len(events') /\ events'[k] = events[k]
        /\ \A k \in 1..Len(events') : k \in 1..Len(events) \/ k = Len(events')
        /\ \A i, type : Told(i, type) => Told(i, type)'
    BY <2>1, EventsGrow DEF EventsTell
  <2>3. OfCalls' = OfCalls /\ \A k \in OfCalls : events'[k] = events[k]
    BY <2>1, <2>2 DEF OfCalls
  <2>4. ASSUME exec # "lost" PROVE EventsOfCalls' /\ CallsTold' /\ ToldInOrder'
    <3>1. EventsOfCalls /\ CallsTold /\ ToldInOrder
      BY <2>4 DEF EventsTell
    <3>2. EventsOfCalls'
      BY <1>1, <2>3, <3>1 DEF EventsOfCalls
    <3>3. CallsTold'
      BY <1>1, <2>2, <3>1 DEF CallsTold
    <3>4. ToldInOrder'
      BY <2>3, <3>1 DEF ToldInOrder
    <3> QED BY <3>2, <3>3, <3>4
  <2> QED BY <2>2, <2>4 DEF EventsTell
<1> QED BY <1>2, <1>3

(* What a call loses is remembered. *)
LEMMA EventsMove ==
  ASSUME EventsTell, NEW i, CallMoves(i), UNCHANGED <<events, exec>>,
         calls[i].at # "done", calls'[i].at # "calling", calls[i].lost \subseteq calls'[i].lost,
         calls[i].run = 0 /\ calls[i].at = "calling" => "call" \in calls'[i].lost,
         calls[i].run = 0 /\ calls'[i].at = "done" => "result" \in calls'[i].lost
  PROVE  EventsTell'
<1>1. /\ \A j \in Calls : calls'[j].corr = calls[j].corr /\ (j # i => calls'[j] = calls[j])
      /\ OfRun(0)' = OfRun(0)
  BY DEF CallMoves
<1>2. \A j \in OfRun(0) : j \in Calls /\ calls[j].run = 0
  BY DEF OfRun, Calls
<1>3. OfCalls' = OfCalls /\ \A j, type : Told(j, type)' <=> Told(j, type)
  BY DEF OfCalls, Told
<1>4. ASSUME exec # "lost" PROVE EventsOfCalls' /\ CallsTold' /\ ToldInOrder'
  <2>1. EventsOfCalls /\ CallsTold /\ ToldInOrder
    BY <1>4 DEF EventsTell
  <2>2. EventsOfCalls'
    BY <1>1, <1>2, <1>3, <2>1 DEF EventsOfCalls
  <2>3. CallsTold'
    <3> SUFFICES ASSUME NEW j \in OfRun(0)
                 PROVE  /\ calls'[j].at = "calling" \/ "call" \in calls'[j].lost \/ Told(j, "call")'
                        /\ calls'[j].at # "done" \/ "result" \in calls'[j].lost \/ Told(j, "result")'
      BY <1>1 DEF CallsTold
    <3>1. j \in Calls /\ calls[j].run = 0
      BY <1>2
    <3>2. /\ calls[j].at = "calling" \/ "call" \in calls[j].lost \/ Told(j, "call")
          /\ calls[j].at # "done" \/ "result" \in calls[j].lost \/ Told(j, "result")
      BY <2>1 DEF CallsTold
    <3> QED BY <1>1, <1>3, <3>1, <3>2
  <2>4. ToldInOrder'
    BY <1>3, <2>1 DEF ToldInOrder
  <2> QED BY <2>2, <2>3, <2>4
<1> QED BY <1>4 DEF EventsTell

(* Correlations are numbers up to the bound. *)
LEMMA CorrelationsBounded ==
  ASSUME TurnInv
  PROVE  \A i \in Calls : calls[i].corr \in Corrs
<1>1. AgentTyped /\ CorrelationsInOrder /\ MaxCalls \in Nat
  BY BoundsAssumption DEF TurnInv
<1>2. Len(calls) \in Nat /\ Len(calls) <= MaxCalls
  BY <1>1, ElementsTyped DEF AgentTyped
<1>3. ASSUME NEW i \in Calls PROVE calls[i].corr \in Corrs
  <2> DEFINE O == OfRun(calls[i].run)
  <2>1. O \subseteq 1..Len(calls) /\ IsFiniteSet(1..Len(calls)) /\ Cardinality(1..Len(calls)) = Len(calls)
    <3>1. IsFiniteSet(1..Len(calls))
          /\ Cardinality(1..Len(calls)) = IF 1 > Len(calls) THEN 0 ELSE Len(calls) - 1 + 1
      BY <1>2, FS_Interval
    <3> QED BY <1>2, <3>1 DEF OfRun
  <2>2. IsFiniteSet(O) /\ Cardinality(O) <= Len(calls) /\ Cardinality(O) \in Nat
    BY <2>1, FS_Subset, FS_CardinalityType
  <2>3. calls[i].corr \in Nat /\ calls[i].corr <= Cardinality(O)
    BY <1>1, ElementsTyped DEF CorrelationsInOrder
  <2> QED BY <1>1, <1>2, <2>2, <2>3 DEF Corrs
<1> QED BY <1>3

(* The append at the head of the feed is the next event of its call. *)
LEMMA EventsAppend ==
  ASSUME TurnInv, FeedOnce, EventsTell, AppendEnds({}),
         1 \in 1..Len(feed), events' = Append(events, feed[1]), UNCHANGED exec
  PROVE  EventsTell'
<1> DEFINE N == Len(events')
<1>e. PICK e : e = feed[1]
  OBVIOUS
<1>i. PICK i : i = e.call
  OBVIOUS
<1>1. /\ i \in Calls /\ e \in FeedRecords /\ e.type \in {"call", "result"}
      /\ e.type = "call" => calls[i].at = "calling"
      /\ e.type = "result" => calls[i].at \in {"stored", "reporting"}
      /\ calls[i].run = 0 /\ e.corr = calls[i].corr
  BY <1>e, <1>i, FeedHolds DEF FeedOnce
<1>2. CallMoves(i) /\ calls'[i].lost = calls[i].lost \cup {}
      /\ calls'[i].at = IF e.type = "call" THEN "queued" ELSE "done"
  BY <1>e, <1>i DEF AppendEnds
<1>3. e \in EventRecords
  <2>1. e.corr \in Corrs
    BY <1>1, CorrelationsBounded
  <2> QED BY <1>1, <2>1 DEF FeedRecords, EventRecords
<1>4. i \in Nat
  BY <1>1, ElementsTyped DEF TurnInv, Calls
<1>5. events \in Seq(EventRecords) /\ events' = Append(events, e)
  BY <1>e DEF EventsTell
<1>6. /\ events' \in Seq(EventRecords) /\ events'[N] = e
      /\ \A k \in 1..Len(events) : k \in 1..N /\ events'[k] = events[k] /\ k < N
      /\ \A k \in 1..N : k \in 1..Len(events) \/ k = N
      /\ N \in 1..N
      /\ \A j, type : Told(j, type) => Told(j, type)'
      /\ Told(e.call, e.type)'
  BY <1>3, <1>5, EventsGrow
<1> HIDE DEF N
<1>7. OfCalls' = OfCalls \cup {N} /\ \A k \in OfCalls : events'[k] = events[k] /\ k < N /\ k \in Nat
  BY <1>1, <1>6 DEF OfCalls, N
<1>8. /\ \A j \in Calls : calls'[j].corr = calls[j].corr /\ (j # i => calls'[j] = calls[j])
      /\ OfRun(0)' = OfRun(0) /\ i \in OfRun(0)
  BY <1>1, <1>2 DEF CallMoves, OfRun, Calls
<1>9. \A j \in OfRun(0) : j \in Calls /\ j \in Nat
  BY DEF OfRun, Calls
<1>10. ASSUME exec # "lost" PROVE EventsOfCalls' /\ CallsTold' /\ ToldInOrder'
  <2>1. EventsOfCalls /\ CallsTold /\ ToldInOrder
    BY <1>10 DEF EventsTell
  <2>2. \A k \in OfCalls : events[k].call = i => e.type = "result" /\ events[k].type = "call"
    <3> SUFFICES ASSUME NEW k \in OfCalls, events[k].call = i
                 PROVE  e.type = "result" /\ events[k].type = "call"
      OBVIOUS
    <3>1. calls[i].at # "calling" /\ (events[k].type = "result" => calls[i].at = "done")
      BY <2>1 DEF EventsOfCalls
    <3>2. events[k].type \in {"call", "result"}
      BY DEF OfCalls
    <3> QED BY <1>1, <3>1, <3>2
  <2>3. EventsOfCalls'
    <3> SUFFICES ASSUME NEW k \in OfCalls'
                 PROVE  /\ events'[k].call \in OfRun(0)
                        /\ events'[k].corr = calls'[events'[k].call].corr
                        /\ calls'[events'[k].call].at # "calling"
                        /\ events'[k].type = "result" => calls'[events'[k].call].at = "done"
      BY <1>8 DEF EventsOfCalls
    <3>1. CASE k = N
      BY <1>i, <1>1, <1>2, <1>6, <1>8, <3>1
    <3>2. CASE k \in OfCalls
      <4>1. events'[k] = events[k] /\ events[k].call \in OfRun(0) /\ events[k].call \in Calls
        BY <1>7, <1>9, <2>1, <3>2 DEF EventsOfCalls
      <4>2. CASE events[k].call = i
        BY <1>1, <1>2, <1>8, <2>1, <2>2, <3>2, <4>1, <4>2 DEF EventsOfCalls
      <4>3. CASE events[k].call # i
        BY <1>8, <2>1, <3>2, <4>1, <4>3 DEF EventsOfCalls
      <4> QED BY <4>2, <4>3
    <3> QED BY <1>7, <3>1, <3>2
  <2>4. CallsTold'
    <3> SUFFICES ASSUME NEW j \in OfRun(0)
                 PROVE  /\ calls'[j].at = "calling" \/ "call" \in calls'[j].lost \/ Told(j, "call")'
                        /\ calls'[j].at # "done" \/ "result" \in calls'[j].lost \/ Told(j, "result")'
      BY <1>8 DEF CallsTold
    <3>1. /\ calls[j].at = "calling" \/ "call" \in calls[j].lost \/ Told(j, "call")
          /\ calls[j].at # "done" \/ "result" \in calls[j].lost \/ Told(j, "result")
      BY <2>1 DEF CallsTold
    <3>2. CASE j # i
      BY <1>6, <1>8, <1>9, <3>1, <3>2
    <3>3. CASE j = i
      <4>1. e.type = "call" => Told(i, "call")' /\ calls'[i].at # "done"
        BY <1>i, <1>2, <1>6
      <4>2. e.type = "result" => Told(i, "result")' /\ calls[i].at # "calling"
        BY <1>i, <1>1, <1>6
      <4> QED BY <1>1, <1>2, <1>6, <3>1, <3>3, <4>1, <4>2
    <3> QED BY <3>2, <3>3
  <2>5. ASSUME NEW k \in OfCalls, e.type = "call", events[k].type = "call"
        PROVE  ~(i < events[k].call)
    <3> DEFINE j == events[k].call
    <3>1. j \in OfRun(0) /\ calls[j].at # "calling"
      BY <2>1 DEF EventsOfCalls
    <3> HIDE DEF j
    <3>2. i < j => calls[j].at = "calling"
      BY <1>1, <1>8, <2>5, <3>1 DEF FeedOnce
    <3> QED BY <3>1, <3>2 DEF j
  <2>6. ToldInOrder'
    <3> SUFFICES ASSUME NEW k \in OfCalls', NEW l \in OfCalls'
                 PROVE  /\ events'[k].type = events'[l].type /\ events'[k].call = events'[l].call => k = l
                        /\ events'[k].type = "call" /\ events'[l].type = "result"
                             /\ events'[k].call = events'[l].call => k < l
                        /\ events'[k].type = "call" /\ events'[l].type = "call"
                             /\ events'[k].call < events'[l].call => k < l
      BY DEF ToldInOrder
    <3>1. CASE k \in OfCalls /\ l \in OfCalls
      BY <1>7, <2>1, <3>1 DEF ToldInOrder
    <3>2. CASE k \in OfCalls /\ l = N
      BY <1>i, <1>6, <1>7, <2>2, <3>2
    <3>3. CASE k = N /\ l \in OfCalls
      BY <1>i, <1>6, <1>7, <2>2, <2>5, <3>3
    <3>4. CASE k = N /\ l = N
      BY <1>i, <1>1, <1>4, <1>6, <3>4
    <3> QED BY <1>7, <3>1, <3>2, <3>3, <3>4
  <2> QED BY <2>3, <2>4, <2>6
<1> QED BY <1>6, <1>10 DEF EventsTell

(* New calls have no events.                                               *)
LEMMA EventsAsk ==
  ASSUME TurnInv, EventsTell, NEW r \in Runs, NEW n \in Nat, CallsAsked(r, n),
         UNCHANGED <<events, exec>>
  PROVE  EventsTell'
<1>1. AgentTyped /\ CallsFollow(r, n)
  BY DEF TurnInv, CallsAsked
<1>2. /\ \A j \in Calls : j \in Calls' /\ calls'[j] = calls[j]
      /\ \A j \in Calls' : j \in Calls \/ \E k \in 1..n : j = Len(calls) + k
      /\ \A k \in 1..n : /\ calls'[Len(calls) + k].run = r
                         /\ r = 0 => calls'[Len(calls) + k].at = "calling"
  BY <1>1, RunGrows DEF CallsFollow, Emits
<1>3. \A j : j \in OfRun(0) <=> j \in Calls /\ calls[j].run = 0
  BY DEF OfRun, Calls
<1>4. \A j : j \in OfRun(0)' <=> j \in Calls' /\ calls'[j].run = 0
  BY DEF OfRun, Calls
<1>5. OfCalls' = OfCalls /\ \A j, type : Told(j, type)' <=> Told(j, type)
  BY DEF OfCalls, Told
<1>6. \A j \in OfRun(0)' : calls'[j].at = "calling" \/ (j \in OfRun(0) /\ calls'[j] = calls[j])
  <2> SUFFICES ASSUME NEW j \in OfRun(0)'
               PROVE  calls'[j].at = "calling" \/ (j \in OfRun(0) /\ calls'[j] = calls[j])
    OBVIOUS
  <2>1. CASE j \in Calls
    BY <1>2, <1>3, <1>4, <2>1
  <2>2. CASE j \notin Calls
    <3>1. j \in Calls' /\ calls'[j].run = 0
      BY <1>4
    <3>2. PICK k \in 1..n : j = Len(calls) + k
      BY <1>2, <2>2, <3>1
    <3> QED BY <1>2, <3>1, <3>2
  <2> QED BY <2>1, <2>2
<1>7. EventsOfCalls => EventsOfCalls'
  BY <1>2, <1>3, <1>4, <1>5 DEF EventsOfCalls
<1>8. CallsTold => CallsTold'
  BY <1>5, <1>6 DEF CallsTold
<1>9. ToldInOrder => ToldInOrder'
  BY <1>5 DEF ToldInOrder
<1> QED BY <1>7, <1>8, <1>9 DEF EventsTell

-----------------------------------------------------------------------------
(* The recorder's operations. *)

CallTells == UNION {[S -> {"open", "ended"}] : S \in SUBSET Corrs}
RunTells == UNION {[S -> [calls : CallTells, done : BOOLEAN]] : S \in SUBSET Runs}
Entries == [held : BOOLEAN, known : BOOLEAN, calls : CallTells, runs : RunTells]

(* What an entry tells of a run.                                           *)
CallsOf(e, r) == IF r \in DOMAIN e.runs THEN e.runs[r].calls ELSE <<>>
DoneOf(e, r) == r \in DOMAIN e.runs /\ e.runs[r].done

(* Maps of calls, by their elements.                                       *)
LEMMA CallTellsAre ==
  /\ \A f \in CallTells : DOMAIN f \subseteq Corrs /\ \A c \in DOMAIN f : f[c] \in {"open", "ended"}
  /\ \A S \in SUBSET Corrs : \A f \in [S -> {"open", "ended"}] : f \in CallTells
  /\ <<>> \in CallTells /\ DOMAIN <<>> = {}
<1>1. <<>> \in [{} -> {"open", "ended"}] /\ {} \in SUBSET Corrs
  OBVIOUS
<1>2. <<>> \in CallTells /\ DOMAIN <<>> = {}
  BY <1>1 DEF CallTells
<1> QED BY <1>2 DEF CallTells

(* Maps of runs, by their elements.                                        *)
LEMMA RunTellsAre ==
  /\ \A f \in RunTells : DOMAIN f \subseteq Runs
       /\ \A r \in DOMAIN f : f[r] \in [calls : CallTells, done : BOOLEAN]
  /\ \A S \in SUBSET Runs : \A f \in [S -> [calls : CallTells, done : BOOLEAN]] : f \in RunTells
  /\ <<>> \in RunTells
<1> DEFINE V == [calls : CallTells, done : BOOLEAN]
<1>1. \A f : f \in RunTells <=> \E S \in SUBSET Runs : f \in [S -> V]
  BY DEF RunTells
<1> HIDE DEF V
<1>2. <<>> \in [{} -> V] /\ {} \in SUBSET Runs
  OBVIOUS
<1>3. /\ \A f \in RunTells : DOMAIN f \subseteq Runs /\ \A r \in DOMAIN f : f[r] \in V
      /\ \A S \in SUBSET Runs : \A f \in [S -> V] : f \in RunTells
      /\ <<>> \in RunTells
  BY <1>1, <1>2
<1> QED BY <1>3 DEF V

(* What a map merged into another is. *)
LEMMA MergeIs ==
  ASSUME NEW f, NEW g
  PROVE  /\ DOMAIN Merge(f, g) = DOMAIN f \cup DOMAIN g
         /\ \A x \in DOMAIN f : Merge(f, g)[x] = f[x]
         /\ \A x \in DOMAIN g : x \notin DOMAIN f => Merge(f, g)[x] = g[x]
BY DEF Merge

(* Maps of calls merge into one.                                           *)
LEMMA MergeCalls ==
  ASSUME NEW f \in CallTells, NEW g \in CallTells
  PROVE  Merge(f, g) \in CallTells
<1> DEFINE S == DOMAIN f \cup DOMAIN g
<1>1. S \in SUBSET Corrs
  BY CallTellsAre
<1>2. Merge(f, g) \in [S -> {"open", "ended"}]
  BY CallTellsAre DEF Merge
<1> QED BY <1>1, <1>2, CallTellsAre

(* Maps of runs merge into one.                                            *)
LEMMA MergeRuns ==
  ASSUME NEW f \in RunTells, NEW g \in RunTells
  PROVE  Merge(f, g) \in RunTells
<1> DEFINE S == DOMAIN f \cup DOMAIN g
           V == [calls : CallTells, done : BOOLEAN]
<1>1. S \in SUBSET Runs
  BY RunTellsAre
<1>2. Merge(f, g) \in [S -> V]
  BY RunTellsAre DEF Merge
<1> QED BY <1>1, <1>2, RunTellsAre

(* A map of one run that has recorded nothing.                             *)
LEMMA NoRunIs ==
  ASSUME NEW r \in Runs
  PROVE  LET f == [x \in {r} |-> NoRun]
         IN f \in RunTells /\ DOMAIN f = {r} /\ f[r].calls = <<>> /\ f[r].done = FALSE
<1>1. NoRun \in [calls : CallTells, done : BOOLEAN] /\ NoRun.calls = <<>> /\ NoRun.done = FALSE
  BY CallTellsAre DEF NoRun
<1>2. [x \in {r} |-> NoRun] \in [{r} -> [calls : CallTells, done : BOOLEAN]] /\ {r} \in SUBSET Runs
  BY <1>1
<1> QED BY <1>1, <1>2, RunTellsAre

(* The entry that is not held tells nothing.                               *)
LEMMA NoEntryIs ==
  /\ NoEntry \in Entries /\ ~NoEntry.held /\ ~NoEntry.known
  /\ DOMAIN NoEntry.calls = {} /\ DOMAIN NoEntry.runs = {}
BY CallTellsAre, RunTellsAre DEF Entries, NoEntry

(* Holding an entry changes nothing else of it.                            *)
LEMMA HeldIs ==
  ASSUME NEW e \in Entries, NEW f, f = [e EXCEPT !.held = TRUE]
  PROVE  f \in Entries /\ f.held /\ f.known = e.known /\ f.calls = e.calls /\ f.runs = e.runs
BY DEF Entries

(* An entry that is not held is made anew. *)
LEMMA StateIs ==
  ASSUME NEW e \in Entries
  PROVE  /\ State(e) \in Entries /\ State(e).held
         /\ e.held => State(e) = e
         /\ ~e.held => ~State(e).known /\ DOMAIN State(e).calls = {} /\ DOMAIN State(e).runs = {}
<1>1. CASE e.held
  BY <1>1 DEF State
<1>2. CASE ~e.held
  <2>1. State(e) = [NoEntry EXCEPT !.held = TRUE]
    BY <1>2 DEF State
  <2> QED BY <1>2, <2>1, NoEntryIs, HeldIs
<1> QED BY <1>1, <1>2

(* A recording keeps what the entry is, and tells of run r more.           *)
Same(e, f) == f.held = e.held /\ f.known = e.known
TellsMore(e, f, r) ==
  /\ f \in Entries /\ Same(e, f)
  /\ DOMAIN f.runs = DOMAIN e.runs \cup {r}
  /\ \A x \in Runs : x # r => CallsOf(f, x) = CallsOf(e, x) /\ DoneOf(f, x) = DoneOf(e, x)

(* An entry with other runs.                                               *)
LEMMA RunsMerged ==
  ASSUME NEW e \in Entries, NEW R \in RunTells, NEW f, f = [e EXCEPT !.runs = R]
  PROVE  f \in Entries /\ Same(e, f) /\ f.calls = e.calls /\ f.runs = R
BY DEF Entries, Same

(* A run that is not in the entry enters it with no calls.                 *)
LEMMA EnsureIs ==
  ASSUME NEW e \in Entries, NEW r \in Runs
  PROVE  LET f == EnsureRun(e, r)
         IN /\ TellsMore(e, f, r) /\ f.calls = e.calls
            /\ CallsOf(f, r) = CallsOf(e, r) /\ DoneOf(f, r) = DoneOf(e, r)
<1>1. CASE r \in DOMAIN e.runs
  BY <1>1 DEF EnsureRun, TellsMore, Same
<1>2. CASE r \notin DOMAIN e.runs
  <2> DEFINE one == [x \in {r} |-> NoRun]
             R == Merge(e.runs, one)
             f == [e EXCEPT !.runs = R]
  <2>1. EnsureRun(e, r) = f
    BY <1>2 DEF EnsureRun
  <2>2. one \in RunTells /\ DOMAIN one = {r} /\ one[r].calls = <<>> /\ one[r].done = FALSE
    BY NoRunIs
  <2> HIDE DEF one
  <2>3. e.runs \in RunTells
    BY DEF Entries
  <2>4. /\ R \in RunTells /\ DOMAIN R = DOMAIN e.runs \cup {r}
        /\ \A x \in DOMAIN e.runs : R[x] = e.runs[x]
        /\ R[r] = one[r]
    <3>1. R \in RunTells
      BY <2>2, <2>3, MergeRuns
    <3>2. /\ DOMAIN R = DOMAIN e.runs \cup DOMAIN one
          /\ \A x \in DOMAIN e.runs : R[x] = e.runs[x]
          /\ \A x \in DOMAIN one : x \notin DOMAIN e.runs => R[x] = one[x]
      BY MergeIs
    <3> QED BY <1>2, <2>2, <3>1, <3>2
  <2> HIDE DEF R
  <2>5. f \in Entries /\ Same(e, f) /\ f.calls = e.calls /\ f.runs = R
    BY <2>4, RunsMerged
  <2> HIDE DEF f
  <2>6. \A x \in Runs : CallsOf(f, x) = CallsOf(e, x) /\ DoneOf(f, x) = DoneOf(e, x)
    BY <1>2, <2>2, <2>4, <2>5 DEF CallsOf, DoneOf
  <2> QED BY <2>1, <2>4, <2>5, <2>6 DEF TellsMore
<1> QED BY <1>1, <1>2

(* The calls of a run change. *)
LEMMA RunCallsSet ==
  ASSUME NEW e \in Entries, NEW r \in DOMAIN e.runs, NEW C \in CallTells,
         NEW f, f = [e EXCEPT !.runs[r].calls = C]
  PROVE  /\ TellsMore(e, f, r) /\ f.calls = e.calls
         /\ CallsOf(f, r) = C /\ DoneOf(f, r) = DoneOf(e, r)
<1> DEFINE x == [e.runs[r] EXCEPT !.calls = C]
           R == [e.runs EXCEPT ![r] = x]
<1>1. e.runs \in RunTells
  BY DEF Entries
<1>2. e.runs[r] \in [calls : CallTells, done : BOOLEAN]
  BY <1>1, RunTellsAre
<1>3. x \in [calls : CallTells, done : BOOLEAN] /\ x.calls = C /\ x.done = e.runs[r].done
  BY <1>2
<1>4. f = [e EXCEPT !.runs = R]
  BY DEF Entries
<1> HIDE DEF x
<1>5. /\ R \in RunTells /\ DOMAIN R = DOMAIN e.runs /\ R[r] = x
      /\ \A y \in DOMAIN e.runs : y # r => R[y] = e.runs[y]
  <2> DEFINE V == [calls : CallTells, done : BOOLEAN]
             S == DOMAIN e.runs
  <2>1. S \in SUBSET Runs /\ \A y \in S : e.runs[y] \in V
    BY <1>1, RunTellsAre
  <2>2. R = [y \in S |-> IF y = r THEN x ELSE e.runs[y]]
    OBVIOUS
  <2> HIDE DEF V, S, R
  <2>3. R \in [S -> V]
    BY <1>3, <2>1, <2>2 DEF V
  <2>4. R \in RunTells
    BY <2>1, <2>3, RunTellsAre DEF V
  <2> QED BY <2>2, <2>4 DEF S
<1> HIDE DEF R
<1>6. f \in Entries /\ Same(e, f) /\ f.calls = e.calls /\ f.runs = R
  BY <1>4, <1>5 DEF Entries, Same
<1>7. \A y \in Runs : y # r => CallsOf(f, y) = CallsOf(e, y) /\ DoneOf(f, y) = DoneOf(e, y)
  BY <1>5, <1>6 DEF CallsOf, DoneOf
<1>8. CallsOf(f, r) = C /\ DoneOf(f, r) = DoneOf(e, r)
  BY <1>3, <1>5, <1>6 DEF CallsOf, DoneOf
<1> QED BY <1>5, <1>6, <1>7, <1>8 DEF TellsMore

(* A run is done. *)
LEMMA RunDoneSet ==
  ASSUME NEW e \in Entries, NEW r \in DOMAIN e.runs, NEW f, f = [e EXCEPT !.runs[r].done = TRUE]
  PROVE  /\ TellsMore(e, f, r) /\ f.calls = e.calls
         /\ CallsOf(f, r) = CallsOf(e, r) /\ DoneOf(f, r)
<1> DEFINE x == [e.runs[r] EXCEPT !.done = TRUE]
           R == [e.runs EXCEPT ![r] = x]
<1>1. e.runs \in RunTells
  BY DEF Entries
<1>2. e.runs[r] \in [calls : CallTells, done : BOOLEAN]
  BY <1>1, RunTellsAre
<1>3. x \in [calls : CallTells, done : BOOLEAN] /\ x.calls = e.runs[r].calls /\ x.done = TRUE
  BY <1>2
<1>4. f = [e EXCEPT !.runs = R]
  BY DEF Entries
<1> HIDE DEF x
<1>5. /\ R \in RunTells /\ DOMAIN R = DOMAIN e.runs /\ R[r] = x
      /\ \A y \in DOMAIN e.runs : y # r => R[y] = e.runs[y]
  <2> DEFINE V == [calls : CallTells, done : BOOLEAN]
             S == DOMAIN e.runs
  <2>1. S \in SUBSET Runs /\ \A y \in S : e.runs[y] \in V
    BY <1>1, RunTellsAre
  <2>2. R = [y \in S |-> IF y = r THEN x ELSE e.runs[y]]
    OBVIOUS
  <2> HIDE DEF V, S, R
  <2>3. R \in [S -> V]
    BY <1>3, <2>1, <2>2 DEF V
  <2>4. R \in RunTells
    BY <2>1, <2>3, RunTellsAre DEF V
  <2> QED BY <2>2, <2>4 DEF S
<1> HIDE DEF R
<1>6. f \in Entries /\ Same(e, f) /\ f.calls = e.calls /\ f.runs = R
  BY <1>4, <1>5 DEF Entries, Same
<1>7. \A y \in Runs : y # r => CallsOf(f, y) = CallsOf(e, y) /\ DoneOf(f, y) = DoneOf(e, y)
  BY <1>5, <1>6 DEF CallsOf, DoneOf
<1>8. CallsOf(f, r) = CallsOf(e, r) /\ DoneOf(f, r)
  BY <1>3, <1>5, <1>6 DEF CallsOf, DoneOf
<1> QED BY <1>5, <1>6, <1>7, <1>8 DEF TellsMore

(* Recordings one after the other. *)
LEMMA MoreAndMore ==
  ASSUME NEW r, NEW e, NEW f, NEW g, TellsMore(e, f, r), TellsMore(f, g, r)
  PROVE  TellsMore(e, g, r)
BY DEF TellsMore, Same

(* The parts of an entry.                                                  *)
LEMMA EntryTyped ==
  ASSUME NEW e \in Entries
  PROVE  /\ e.held \in BOOLEAN /\ e.known \in BOOLEAN
         /\ e.calls \in CallTells /\ e.runs \in RunTells
         /\ DOMAIN e.runs \subseteq Runs
         /\ \A r : CallsOf(e, r) \in CallTells
BY CallTellsAre, RunTellsAre DEF Entries, CallsOf

(* What a recording of calls adds to the entry.                            *)
LEMMA RecordedIs ==
  ASSUME NEW e \in Entries, NEW r \in Runs, NEW recs \in CallTells
  PROVE  LET f == Recorded(e, r, recs)
             s == State(e)
         IN /\ TellsMore(s, f, r)
            /\ CallsOf(f, r) = Merge(recs, CallsOf(s, r)) /\ DoneOf(f, r) = DoneOf(s, r)
            /\ r # 0 \/ ~s.known => f.calls = s.calls
            /\ r = 0 /\ s.known => f.calls = Merge(recs, s.calls)
<1> DEFINE s == State(e)
           u == EnsureRun(s, r)
           C == Merge(recs, u.runs[r].calls)
           t == [u EXCEPT !.runs[r].calls = C]
<1>1. Recorded(e, r, recs) = IF IsSubagent(u, r) THEN t ELSE [t EXCEPT !.calls = Merge(recs, @)]
  BY DEF Recorded
<1>2. s \in Entries
  BY StateIs
<1> HIDE DEF s
<1>3. /\ TellsMore(s, u, r) /\ u.calls = s.calls
      /\ CallsOf(u, r) = CallsOf(s, r) /\ DoneOf(u, r) = DoneOf(s, r)
  BY <1>2, EnsureIs
<1> HIDE DEF u
<1>4. u \in Entries /\ r \in DOMAIN u.runs /\ u.runs[r].calls = CallsOf(u, r) /\ u.known = s.known
  BY <1>3 DEF TellsMore, CallsOf, Same
<1>5. C \in CallTells /\ C = Merge(recs, CallsOf(s, r))
  BY <1>3, <1>4, EntryTyped, MergeCalls
<1> HIDE DEF C
<1>6. /\ TellsMore(u, t, r) /\ t.calls = u.calls
      /\ CallsOf(t, r) = C /\ DoneOf(t, r) = DoneOf(u, r)
  BY <1>4, <1>5, RunCallsSet
<1> HIDE DEF t
<1>7. /\ TellsMore(s, t, r) /\ t.calls = s.calls
      /\ CallsOf(t, r) = C /\ DoneOf(t, r) = DoneOf(s, r)
  BY <1>3, <1>6, MoreAndMore
<1>8. CASE r # 0 \/ ~s.known
  BY <1>1, <1>4, <1>5, <1>7, <1>8 DEF IsSubagent, s
<1>9. CASE r = 0 /\ s.known
  <2> DEFINE D == Merge(recs, t.calls)
             f == [t EXCEPT !.calls = D]
  <2>1. Recorded(e, r, recs) = f
    BY <1>1, <1>4, <1>9 DEF IsSubagent
  <2>2. t \in Entries /\ t.calls \in CallTells
    BY <1>7, EntryTyped DEF TellsMore
  <2>3. D \in CallTells /\ D = Merge(recs, s.calls)
    BY <1>7, <2>2, MergeCalls
  <2> HIDE DEF D
  <2>4. f \in Entries /\ Same(t, f) /\ f.runs = t.runs /\ f.calls = D
    BY <2>2, <2>3 DEF Entries, Same
  <2> HIDE DEF f
  <2>5. \A x : CallsOf(f, x) = CallsOf(t, x) /\ DoneOf(f, x) = DoneOf(t, x)
    BY <2>4 DEF CallsOf, DoneOf
  <2>6. TellsMore(s, f, r)
    BY <1>7, <2>4, <2>5 DEF TellsMore, Same
  <2> QED BY <1>5, <1>7, <1>9, <2>1, <2>3, <2>4, <2>5, <2>6 DEF s
<1> QED BY <1>8, <1>9

(* What the start of a run does to the entry: the run has no calls.        *)
LEMMA StartRunIs ==
  ASSUME NEW e \in Entries, NEW r \in Runs
  PROVE  LET f == StartAgentRun(e, r)
         IN /\ TellsMore(State(e), f, r) /\ f.calls = State(e).calls
            /\ CallsOf(f, r) = <<>> /\ ~DoneOf(f, r)
<1> DEFINE s == State(e)
           one == [x \in {r} |-> NoRun]
           R == Merge(one, s.runs)
           f == [s EXCEPT !.runs = R]
<1>1. StartAgentRun(e, r) = f
  BY DEF StartAgentRun
<1>2. s \in Entries /\ s.runs \in RunTells
  BY StateIs, EntryTyped
<1> HIDE DEF s
<1>3. one \in RunTells /\ DOMAIN one = {r} /\ one[r].calls = <<>> /\ one[r].done = FALSE
  BY NoRunIs
<1> HIDE DEF one
<1>4. /\ R \in RunTells /\ DOMAIN R = DOMAIN s.runs \cup {r} /\ R[r] = one[r]
      /\ \A x \in DOMAIN s.runs : x # r => R[x] = s.runs[x]
  <2>1. R \in RunTells
    BY <1>2, <1>3, MergeRuns
  <2>2. /\ DOMAIN R = DOMAIN one \cup DOMAIN s.runs
        /\ \A x \in DOMAIN one : R[x] = one[x]
        /\ \A x \in DOMAIN s.runs : x \notin DOMAIN one => R[x] = s.runs[x]
    BY MergeIs
  <2> QED BY <1>3, <2>1, <2>2
<1> HIDE DEF R
<1>5. f \in Entries /\ Same(s, f) /\ f.calls = s.calls /\ f.runs = R
  BY <1>2, <1>4 DEF Entries, Same
<1> HIDE DEF f
<1>6. \A x \in Runs : x # r => CallsOf(f, x) = CallsOf(s, x) /\ DoneOf(f, x) = DoneOf(s, x)
  BY <1>4, <1>5 DEF CallsOf, DoneOf
<1>7. CallsOf(f, r) = <<>> /\ ~DoneOf(f, r)
  BY <1>3, <1>4, <1>5 DEF CallsOf, DoneOf
<1>8. TellsMore(s, f, r)
  BY <1>4, <1>5, <1>6 DEF TellsMore
<1> QED BY <1>1, <1>5, <1>7, <1>8 DEF s

(* What the usage of a run does to the entry.                              *)
LEMMA UsageIs ==
  ASSUME NEW e \in Entries, NEW r \in Runs
  PROVE  LET f == RecordUsage(e, r)
             s == State(e)
         IN /\ TellsMore(s, f, r) /\ f.calls = s.calls
            /\ CallsOf(f, r) = CallsOf(s, r) /\ DoneOf(f, r) = DoneOf(s, r)
<1>1. RecordUsage(e, r) = EnsureRun(State(e), r) /\ State(e) \in Entries
  BY StateIs DEF RecordUsage
<1> HIDE DEF State
<1> QED BY <1>1, EnsureIs

(* The subagent's run is done, whatever its runner recorded.               *)
LEMMA SubagentIs ==
  ASSUME NEW e \in Entries, NEW r \in Runs
  PROVE  LET f == RecordSubagent(e, r)
             s == State(e)
         IN /\ TellsMore(s, f, r) /\ f.calls = s.calls
            /\ CallsOf(f, r) = CallsOf(s, r) /\ DoneOf(f, r)
<1> DEFINE s == State(e)
           u == EnsureRun(s, r)
           f == [u EXCEPT !.runs[r].done = TRUE]
<1>1. RecordSubagent(e, r) = f
  BY DEF RecordSubagent
<1>2. s \in Entries
  BY StateIs
<1> HIDE DEF s
<1>3. /\ TellsMore(s, u, r) /\ u.calls = s.calls
      /\ CallsOf(u, r) = CallsOf(s, r) /\ DoneOf(u, r) = DoneOf(s, r)
  BY <1>2, EnsureIs
<1> HIDE DEF u
<1>4. u \in Entries /\ r \in DOMAIN u.runs
  BY <1>3 DEF TellsMore
<1>5. /\ TellsMore(u, f, r) /\ f.calls = u.calls
      /\ CallsOf(f, r) = CallsOf(u, r) /\ DoneOf(f, r)
  BY <1>4, RunDoneSet
<1> HIDE DEF f
<1>6. TellsMore(s, f, r)
  BY <1>3, <1>5, MoreAndMore
<1> QED BY <1>1, <1>3, <1>5, <1>6 DEF s

(* A runner that ends says so, if the entry knows its run.                 *)
LEMMA FinishIs ==
  ASSUME NEW e \in Entries, NEW r \in Runs
  PROVE  LET f == FinishAgentRun(e, r)
             s == State(e)
         IN /\ f \in Entries /\ Same(s, f) /\ f.calls = s.calls
            /\ DOMAIN f.runs = DOMAIN s.runs
            /\ \A x \in Runs : /\ CallsOf(f, x) = CallsOf(s, x)
                               /\ DoneOf(s, x) => DoneOf(f, x)
            /\ r \in DOMAIN s.runs => DoneOf(f, r)
<1> DEFINE s == State(e)
           f == FinishAgentRun(e, r)
<1>1. s \in Entries
  BY StateIs
<1>2. f = IF r \in DOMAIN s.runs THEN [s EXCEPT !.runs[r].done = TRUE] ELSE s
  BY DEF FinishAgentRun
<1> HIDE DEF s, f
<1>3. CASE r \in DOMAIN s.runs
  <2>1. f = [s EXCEPT !.runs[r].done = TRUE]
    BY <1>2, <1>3
  <2>2. /\ TellsMore(s, f, r) /\ f.calls = s.calls
        /\ CallsOf(f, r) = CallsOf(s, r) /\ DoneOf(f, r)
    BY <1>1, <1>3, <2>1, RunDoneSet
  <2>3. \A x \in Runs : CallsOf(f, x) = CallsOf(s, x) /\ (DoneOf(s, x) => DoneOf(f, x))
    BY <2>2 DEF TellsMore
  <2> QED BY <1>3, <2>2, <2>3 DEF TellsMore, s, f
<1>4. CASE r \notin DOMAIN s.runs
  BY <1>1, <1>2, <1>4 DEF s, f, Same
<1> QED BY <1>3, <1>4


-----------------------------------------------------------------------------
(* What an entry tells of the session agent's calls. *)

(* An entry that was made anew tells of no call.                           *)
EntrySound(e) ==
  e \in Entries /\ (~e.held => ~e.known) /\ (~e.known => DOMAIN e.calls = {})

(* A recording tells of the session agent's calls what was told, or that   *)
(* of recs too.                                                            *)
KeepsCalls(e, f) ==
  /\ EntrySound(f) /\ f.held /\ f.known = e.known
  /\ \A c \in DOMAIN f.calls : c \in DOMAIN e.calls /\ f.calls[c] = e.calls[c]
RecordsCalls(e, f, recs) ==
  /\ EntrySound(f) /\ f.held /\ f.known = e.known
  /\ \A c \in DOMAIN f.calls :
       \/ c \in DOMAIN recs /\ f.calls[c] = recs[c]
       \/ c \notin DOMAIN recs /\ c \in DOMAIN e.calls /\ f.calls[c] = e.calls[c]

(* The entry as a recording finds it tells no more calls.                  *)
LEMMA StateKeeps ==
  ASSUME NEW e, EntrySound(e)
  PROVE  KeepsCalls(e, State(e))
<1>1. e \in Entries /\ (~e.held => ~e.known) /\ (~e.known => DOMAIN e.calls = {})
  BY DEF EntrySound
<1>2. /\ State(e) \in Entries /\ State(e).held
      /\ e.held => State(e) = e
      /\ ~e.held => ~State(e).known /\ DOMAIN State(e).calls = {}
  BY <1>1, StateIs
<1>3. State(e).known \in BOOLEAN /\ e.known \in BOOLEAN
  BY <1>1, <1>2, EntryTyped
<1>4. CASE e.held
  BY <1>1, <1>2, <1>4 DEF EntrySound, KeepsCalls
<1>5. CASE ~e.held
  <2>1. State(e).known = e.known
    BY <1>1, <1>2, <1>3, <1>5
  <2> QED BY <1>1, <1>2, <1>5, <2>1 DEF EntrySound, KeepsCalls
<1> QED BY <1>4, <1>5

(* A recording that leaves the calls of the session agent alone.           *)
LEMMA KeptWith ==
  ASSUME NEW e, EntrySound(e), NEW f \in Entries, Same(State(e), f), f.calls = State(e).calls
  PROVE  KeepsCalls(e, f)
BY StateKeeps DEF EntrySound, KeepsCalls, Same

(* The recordings about runs leave the session agent's calls alone.        *)
LEMMA RunKeeps ==
  ASSUME NEW e, EntrySound(e), NEW r \in Runs
  PROVE  /\ KeepsCalls(e, StartAgentRun(e, r))
         /\ KeepsCalls(e, FinishAgentRun(e, r))
         /\ KeepsCalls(e, RecordUsage(e, r))
         /\ KeepsCalls(e, RecordSubagent(e, r))
<1>1. e \in Entries
  BY DEF EntrySound
<1>2. KeepsCalls(e, StartAgentRun(e, r))
  BY <1>1, StartRunIs, KeptWith DEF TellsMore
<1>3. KeepsCalls(e, FinishAgentRun(e, r))
  BY <1>1, FinishIs, KeptWith
<1>4. KeepsCalls(e, RecordUsage(e, r))
  BY <1>1, UsageIs, KeptWith DEF TellsMore
<1>5. KeepsCalls(e, RecordSubagent(e, r))
  BY <1>1, SubagentIs, KeptWith DEF TellsMore
<1> QED BY <1>2, <1>3, <1>4, <1>5

(* The recordings of calls tell of the session agent's calls those of its  *)
(* run only.                                                               *)
LEMMA RecordedKeeps ==
  ASSUME NEW e, EntrySound(e), NEW r \in Runs, NEW recs \in CallTells
  PROVE  LET f == Recorded(e, r, recs)
         IN /\ r # 0 => KeepsCalls(e, f)
            /\ r = 0 => RecordsCalls(e, f, recs)
<1> DEFINE f == Recorded(e, r, recs)
           s == State(e)
<1>1. e \in Entries
  BY DEF EntrySound
<1>2. /\ TellsMore(s, f, r)
      /\ r # 0 \/ ~s.known => f.calls = s.calls
      /\ r = 0 /\ s.known => f.calls = Merge(recs, s.calls)
  BY <1>1, RecordedIs
<1>3. KeepsCalls(e, s)
  BY StateKeeps
<1> HIDE DEF f, s
<1>4. f \in Entries /\ f.held = s.held /\ f.known = s.known
  BY <1>2 DEF TellsMore, Same
<1>5. r # 0 \/ ~s.known => KeepsCalls(e, f) /\ (~s.known => DOMAIN f.calls = {})
  BY <1>2, <1>3, <1>4 DEF KeepsCalls, EntrySound
<1>6. r = 0 /\ s.known => RecordsCalls(e, f, recs)
  <2> SUFFICES ASSUME r = 0, s.known PROVE RecordsCalls(e, f, recs)
    OBVIOUS
  <2>1. /\ DOMAIN f.calls = DOMAIN recs \cup DOMAIN s.calls
        /\ \A x \in DOMAIN recs : f.calls[x] = recs[x]
        /\ \A x \in DOMAIN s.calls : x \notin DOMAIN recs => f.calls[x] = s.calls[x]
    <3>1. f.calls = Merge(recs, s.calls)
      BY <1>2
    <3>2. /\ DOMAIN Merge(recs, s.calls) = DOMAIN recs \cup DOMAIN s.calls
          /\ \A x \in DOMAIN recs : Merge(recs, s.calls)[x] = recs[x]
          /\ \A x \in DOMAIN s.calls : x \notin DOMAIN recs => Merge(recs, s.calls)[x] = s.calls[x]
      BY MergeIs
    <3> QED BY <3>1, <3>2
  <2> QED BY <1>3, <1>4, <2>1 DEF KeepsCalls, RecordsCalls, EntrySound
<1>7. r = 0 /\ ~s.known => RecordsCalls(e, f, recs)
  BY <1>5 DEF KeepsCalls, RecordsCalls
<1> QED BY <1>5, <1>6, <1>7 DEF f

-----------------------------------------------------------------------------
(* The agent works only while the execution waits for it. *)

LEMMA AgentQuiet ==
  ASSUME TurnInv, RunsBegun, FeedOnce, exec # "agent"
  PROVE  /\ \A r \in Runs : phase[r] \notin Begun
         /\ \A i \in Calls : calls[i].at = "done"
         /\ feed = <<>>
<1>1. AgentTyped /\ RunsNest /\ 0 \in Runs
  BY ElementsTyped DEF TurnInv
<1>2. phase[0] \notin Begun
  BY DEF RunsBegun
<1>3. \A i \in Calls : calls[i].run = 0 => calls[i].at = "done"
  BY <1>1, <1>2 DEF RunsNest, Begun
<1>4. ASSUME NEW r \in Runs, r # 0, phase[r] \in Begun PROVE FALSE
  <2>1. r \in Calls /\ calls[r].kind = "subagent" /\ calls[r].at = "running"
    BY <1>1, <1>4 DEF RunsNest, Begun
  <2>2. calls[r].run = 0
    BY <1>1, <2>1 DEF RunsNest
  <2> QED BY <1>3, <2>1, <2>2
<1>5. ASSUME NEW i \in Calls PROVE calls[i].at = "done"
  <2>1. calls[i].run \in Runs /\ (calls[i].at # "done" => phase[calls[i].run] = "generating")
    BY <1>1, ElementsTyped DEF RunsNest
  <2> QED BY <1>2, <1>4, <2>1 DEF Begun
<1>6. feed = <<>>
  <2>1. ASSUME NEW k \in 1..Len(feed) PROVE FALSE
    <3>1. feed[k].call \in Calls /\ calls[feed[k].call].at \in {"calling", "stored", "reporting"}
      BY FeedHolds
    <3> QED BY <1>5, <3>1
  <2>2. feed \in Seq(FeedRecords)
    BY <1>1 DEF AgentTyped
  <2>3. Len(feed) = 0
    BY <1>1, <2>1, ElementsTyped
  <2> QED BY <2>2, <2>3, EmptySeq
<1> QED BY <1>2, <1>4, <1>5, <1>6

(* The steps of the agent, those of the message around it.                 *)
RunStep(r) ==
  GotTarget(r) \/ TargetFails(r) \/ ModelFinishes(r) \/ ModelAborted(r) \/ ModelFails(r)
ToolStep(i) ==
  StartTool(i) \/ \E how \in Returns : ToolReturns(i, how) \/ SubagentReturns(i, how)
OutputStep(i) == StoreOutput(i) \/ StoreFails(i)
AppendStep(k) == AppendCommits(k) \/ AppendFails(k)
AskStep(r) == \E kinds \in Answers(r) : ModelCallsTools(r, kinds)
AgentStep ==
  \/ \E r \in Runs : RunStep(r) \/ AskStep(r)
  \/ \E i \in Calls : ToolStep(i) \/ OutputStep(i)
  \/ \E k \in Appends : AppendStep(k)
MessageStep ==
  \/ Start \/ Begin \/ ProvisionFails \/ BuildContext \/ Compact \/ Compacted \/ CompactionFails
  \/ AgentReturns \/ SettleMessage \/ RequestCancellation \/ Cancel
  \/ FinishProcessing \/ ListingFails \/ Export \/ ExportFails

(* A step is one of the agent, one of the message around it, or a crash.   *)
LEMMA TwoKinds ==
  ASSUME [Next]_vars
  PROVE  AgentStep \/ MessageStep \/ Crash \/ UNCHANGED vars
<1>1. Progress => AgentStep \/ MessageStep
  BY DEF Progress, AgentStep, MessageStep, RunStep, ToolStep, OutputStep, AppendStep, Calls
<1>2. Failure => AgentStep \/ MessageStep \/ Crash
  BY DEF Failure, AgentStep, MessageStep, RunStep, OutputStep, AppendStep, Calls
<1> QED BY <1>1, <1>2 DEF Next, AgentStep, MessageStep, AskStep

(* The agent takes a step only while the execution awaits it, and settles  *)
(* nothing.                                                                *)
LEMMA AgentWorks ==
  ASSUME TurnInv, RunsBegun, FeedOnce, AgentStep
  PROVE  /\ exec = "agent" /\ UNCHANGED <<status, exec, aborted, final>>
         /\ UNCHANGED mishaps \/ Mishap
<1>1. ASSUME NEW r \in Runs, RunStep(r)
      PROVE  /\ phase[r] \in Begun /\ UNCHANGED <<status, exec, aborted, final>>
             /\ UNCHANGED mishaps \/ Mishap
  BY <1>1 DEF RunStep, GotTarget, TargetFails, ModelFinishes, ModelAborted, ModelFails, ModelStops,
              Asking, Begun
<1>2. ASSUME NEW r \in Runs, AskStep(r)
      PROVE  phase[r] \in Begun /\ UNCHANGED <<status, exec, aborted, final, mishaps>>
  BY <1>2 DEF AskStep, ModelCallsTools, Asking, Begun
<1>3. ASSUME NEW i \in Calls, ToolStep(i)
      PROVE  calls[i].at # "done" /\ UNCHANGED <<status, exec, aborted, final, mishaps>>
  BY <1>3 DEF ToolStep, StartTool, ToolReturns, SubagentReturns
<1>4. ASSUME NEW i \in Calls, OutputStep(i)
      PROVE  /\ calls[i].at # "done" /\ UNCHANGED <<status, exec, aborted, final>>
             /\ UNCHANGED mishaps \/ Mishap
  BY <1>4 DEF OutputStep, StoreOutput, StoreFails
<1>5. ASSUME NEW k \in Appends, AppendStep(k)
      PROVE  /\ feed # <<>> /\ UNCHANGED <<status, exec, aborted, final>>
             /\ UNCHANGED mishaps \/ Mishap
  BY <1>5 DEF AppendStep, AppendCommits, AppendFails, CallbackReturns, Appends
<1>6. /\ UNCHANGED <<status, exec, aborted, final>>
      /\ UNCHANGED mishaps \/ Mishap
      /\ \/ \E r \in Runs : phase[r] \in Begun
         \/ \E i \in Calls : calls[i].at # "done"
         \/ feed # <<>>
  BY <1>1, <1>2, <1>3, <1>4, <1>5 DEF AgentStep
<1>7. exec = "agent"
  <2> SUFFICES ASSUME exec # "agent" PROVE FALSE
    OBVIOUS
  <2>1. /\ \A r \in Runs : phase[r] \notin Begun
        /\ \A i \in Calls : calls[i].at = "done"
        /\ feed = <<>>
    BY AgentQuiet
  <2> QED BY <1>6, <2>1
<1> QED BY <1>6, <1>7

-----------------------------------------------------------------------------
(* Calls, feed and events stay in order. *)

TurnTold == RunsBegun /\ CorrelationsCover /\ FeedOnce /\ EventsTell

(* Calls and feed as they were. *)
LEMMA CallsRest ==
  ASSUME UNCHANGED <<calls, feed>>
  PROVE  (CorrelationsCover => CorrelationsCover') /\ (FeedOnce => FeedOnce')
BY DEF CorrelationsCover, FeedOnce, Calls, OfRun

(* What the steps of a run do.                                             *)
LEMMA RunStepIs ==
  ASSUME TurnInv, NEW r \in Runs, RunStep(r)
  PROVE  /\ UNCHANGED <<calls, feed, events>>
         /\ phase[r] \in Begun
         /\ \E p \in {"aborted", "generating", "failed", "ok"} :
              /\ phase' = [phase EXCEPT ![r] = p]
              /\ \/ UNCHANGED entry /\ p # "ok"
                 \/ entry' = FinishAgentRun(entry, r) /\ p # "ok"
                 \/ entry' = FinishAgentRun(RecordUsage(entry, r), r)
BY DEF RunStep, GotTarget, TargetFails, ModelFinishes, ModelAborted, ModelFails, ModelStops,
       Asking, Begun

(* A step of a run keeps what is told of the turn.                         *)
LEMMA RunStepTells ==
  ASSUME TurnInv, TurnTold, NEW r \in Runs, RunStep(r), exec = "agent", UNCHANGED exec
  PROVE  TurnTold'
<1>1. UNCHANGED <<calls, feed, events>> /\ phase[r] \in Begun
  BY RunStepIs
<1>2. PICK p \in {"aborted", "generating", "failed", "ok"} : phase' = [phase EXCEPT ![r] = p]
  BY RunStepIs
<1>3. phase \in [Runs -> Phases] /\ 0 \in Runs
  BY ElementsTyped DEF TurnInv, AgentTyped
<1>4. \A s \in Runs : phase'[s] = IF s = r THEN p ELSE phase[s]
  BY <1>2, <1>3
<1>5. \A s \in Runs : phase'[s] # "off" <=> phase[s] # "off"
  BY <1>1, <1>2, <1>4 DEF Begun
<1>6. RunsBegun'
  BY <1>1, <1>3, <1>5, RunsRest DEF TurnTold
<1>7. CorrelationsCover' /\ FeedOnce'
  BY <1>1, CallsRest DEF TurnTold
<1>8. EventsTell'
  BY <1>1, EventsRest DEF TurnTold
<1> QED BY <1>6, <1>7, <1>8 DEF TurnTold

(* What a step of a tool call does: it starts, or it ends.                 *)
EndRecorded(i, e) == entry' = RecordToolCallEnd(e, calls[i].run, calls[i].corr)

(* A tool call starts, or ends under its own correlation; a subagent that  *)
(* ends is recorded first.                                                 *)
LEMMA ToolStepIs ==
  ASSUME TurnInv, NEW i \in Calls, ToolStep(i)
  PROVE  /\ UNCHANGED events
         /\ \/ /\ ToolRuns(i)
               /\ calls[i].kind = "tool" => UNCHANGED entry
               /\ calls[i].kind = "subagent" => entry' = StartAgentRun(entry, i)
            \/ /\ ToolEnds(i)
               /\ calls[i].at = "queued" \/ calls[i].kind = "tool"
               /\ EndRecorded(i, entry)
            \/ /\ ToolEnds(i)
               /\ calls[i].kind = "subagent" /\ phase[i] \in Over
               /\ EndRecorded(i, RecordSubagent(entry, i))
<1>1. calls[i].kind \in {"tool", "subagent"} /\ i \in Runs
  BY ElementsTyped DEF TurnInv, CallRecords
<1>2. calls[i].at = "running" => Runnable(i)
  BY DEF TurnInv, QueuesInOrder, Runnable, ExecutorOf
<1>3. UNCHANGED events
  BY DEF ToolStep, StartTool, ToolReturns, SubagentReturns
<1>4. CASE StartTool(i)
  <2>1. calls[i].at = "queued" /\ Runnable(i)
    BY <1>4 DEF StartTool
  <2>2. CASE calls[i].kind = "subagent" /\ aborted
    <3>1. Settle(i, "error", entry) /\ UNCHANGED phase
      BY <1>4, <2>2 DEF StartTool
    <3>2. ToolEnds(i) /\ EndRecorded(i, entry)
      BY <2>1, <3>1, SettleEnds DEF EndRecorded
    <3> QED BY <1>3, <2>1, <3>2
  <2>3. CASE ~(calls[i].kind = "subagent" /\ aborted)
    BY <1>3, <1>4, <2>3, StartRuns
  <2> QED BY <2>2, <2>3
<1>5. ASSUME NEW how \in Returns, ToolReturns(i, how)
      PROVE  ToolEnds(i) /\ calls[i].kind = "tool" /\ EndRecorded(i, entry)
  <2>1. /\ calls[i].at = "running" /\ calls[i].kind = "tool" /\ Settle(i, how, entry)
        /\ UNCHANGED phase
    BY <1>5 DEF ToolReturns
  <2> QED BY <1>2, <2>1, SettleEnds DEF EndRecorded
<1>6. ASSUME NEW how \in Returns, SubagentReturns(i, how)
      PROVE  /\ ToolEnds(i) /\ calls[i].kind = "subagent" /\ phase[i] \in Over
             /\ EndRecorded(i, RecordSubagent(entry, i))
  <2>1. /\ calls[i].at = "running" /\ calls[i].kind = "subagent" /\ phase[i] \in Over
        /\ Settle(i, how, RecordSubagent(entry, i)) /\ UNCHANGED phase
    BY <1>6 DEF SubagentReturns
  <2> QED BY <1>2, <2>1, SettleEnds DEF EndRecorded
<1> QED BY <1>3, <1>4, <1>5, <1>6 DEF ToolStep

(* A step of a tool call keeps what is told of the turn.                   *)
LEMMA ToolTells ==
  ASSUME TurnInv, TurnTold, NEW i \in Calls, ToolStep(i), UNCHANGED exec
  PROVE  TurnTold'
<1>1. UNCHANGED events /\ (ToolRuns(i) \/ ToolEnds(i))
  BY ToolStepIs
<1>2. CallMoves(i)
  BY <1>1 DEF ToolRuns, ToolEnds
<1>3. RunsBegun /\ CorrelationsCover /\ FeedOnce /\ EventsTell
  BY DEF TurnTold
<1>4. CorrelationsCover'
  BY <1>2, <1>3, CoverMoves
<1>5. CASE ToolRuns(i)
  <2>1. /\ calls[i].at = "queued" /\ calls'[i].at = "running" /\ calls'[i].ended = calls[i].ended
        /\ calls'[i].lost = calls[i].lost /\ UNCHANGED feed
    BY <1>5 DEF ToolRuns
  <2>2. RunsBegun'
    BY <1>2, <1>3, <1>5, <2>1, RunsMove DEF Open
  <2>3. FeedOnce'
    BY <1>2, <1>3, <2>1, FeedMoves
  <2>4. EventsTell'
    BY <1>1, <1>2, <1>3, <2>1, EventsMove
  <2> QED BY <1>4, <2>2, <2>3, <2>4 DEF TurnTold
<1>6. CASE ToolEnds(i)
  <2>1. /\ calls[i].at \in {"queued", "running"} /\ calls'[i].at \in {"done", "storing", "reporting"}
        /\ calls[i].run = 0 => calls'[i].at \in {"storing", "reporting"}
        /\ calls[i].run # 0 => calls'[i].at = "done"
        /\ calls'[i].lost = calls[i].lost /\ UNCHANGED phase
        /\ calls'[i].at = "reporting" => feed' = AppendAndPublish("result", i, calls[i].corr)
        /\ calls'[i].at # "reporting" => UNCHANGED feed
    BY <1>6 DEF ToolEnds
  <2>2. RunsBegun'
    BY <1>2, <1>3, <2>1, RunsMove DEF Open
  <2>3. FeedOnce'
    BY <1>2, <1>3, <2>1, FeedMoves
  <2>4. EventsTell'
    BY <1>1, <1>2, <1>3, <2>1, EventsMove
  <2> QED BY <1>4, <2>2, <2>3, <2>4 DEF TurnTold
<1> QED BY <1>1, <1>5, <1>6

(* Storing an output keeps what is told of the turn.                       *)
LEMMA OutputTells ==
  ASSUME TurnInv, TurnTold, NEW i \in Calls, OutputStep(i), UNCHANGED exec
  PROVE  TurnTold'
<1>1. UNCHANGED <<events, entry>> /\ OutputGoes(i)
  BY OutputMoves DEF OutputStep, StoreOutput, StoreFails
<1>2. CallMoves(i) /\ calls[i].at = "storing" /\ UNCHANGED phase
  BY <1>1 DEF OutputGoes
<1>3. RunsBegun /\ CorrelationsCover /\ FeedOnce /\ EventsTell
  BY DEF TurnTold
<1>4. calls[i].ended = calls[i].corr /\ calls[i].run = 0
  BY <1>2, <1>3 DEF TurnInv, EndsMatchStarts, FeedOnce, Calls
<1>5. /\ calls'[i].at \in {"stored", "done"} /\ calls[i].lost \subseteq calls'[i].lost
      /\ calls'[i].at = "done" => "result" \in calls'[i].lost /\ UNCHANGED feed
      /\ calls'[i].at = "stored" => feed' = AppendAndPublish("result", i, calls[i].corr)
  BY <1>1, <1>4 DEF OutputGoes
<1>6. CorrelationsCover'
  BY <1>2, <1>3, CoverMoves
<1>7. RunsBegun'
  BY <1>2, <1>3, <1>5, RunsMove DEF Open
<1>8. FeedOnce'
  BY <1>2, <1>3, <1>4, <1>5, FeedMoves
<1>9. EventsTell'
  BY <1>1, <1>2, <1>3, <1>5, EventsMove
<1> QED BY <1>6, <1>7, <1>8, <1>9 DEF TurnTold

(* What the end of an append does. *)
LEMMA AppendStepIs ==
  ASSUME TurnInv, NEW k \in Appends, AppendStep(k)
  PROVE  /\ 1 \in 1..Len(feed) /\ feed[1] \in FeedRecords /\ feed[1].call \in Calls
         /\ \/ /\ AppendEnds({}) /\ events' = Append(events, feed[1])
               /\ \/ UNCHANGED entry
                  \/ /\ calls[feed[1].call].at = "stored"
                     /\ entry' = RecordToolCallEnd(entry, 0, feed[1].corr)
            \/ AppendEnds({feed[1].type}) /\ UNCHANGED <<events, entry>>
<1>1. k = 1 /\ 1 \in 1..Len(feed) /\ feed[1] \in FeedRecords
  <2>1. k = 1 /\ feed # <<>> /\ feed \in Seq(FeedRecords)
    BY DEF Appends, TurnInv, AgentTyped
  <2>2. 1 \in 1..Len(feed)
    BY <2>1, LenProperties
  <2> QED BY <2>1, <2>2, ElementsTyped DEF TurnInv
<1>2. feed[k].type \in {"call", "result"}
  BY <1>1 DEF FeedRecords
<1>3. CASE AppendCommits(k)
  <2>1. CallbackReturns(k, {})
    BY <1>3 DEF AppendCommits
  <2>2. AppendEnds({}) /\ feed[1].call \in Calls
    BY <2>1, AppendMoves
  <2> QED BY <1>1, <1>3, <2>2 DEF AppendCommits
<1>4. CASE AppendFails(k)
  <2>1. CallbackReturns(k, {feed[k].type}) /\ UNCHANGED <<events, entry>>
    BY <1>4 DEF AppendFails
  <2>2. AppendEnds({feed[k].type}) /\ feed[1].call \in Calls
    BY <1>2, <2>1, AppendMoves
  <2> QED BY <1>1, <2>1, <2>2
<1> QED BY <1>3, <1>4 DEF AppendStep

(* The end of an append keeps what is told of the turn.                    *)
LEMMA AppendTells ==
  ASSUME TurnInv, TurnTold, NEW k \in Appends, AppendStep(k), UNCHANGED exec
  PROVE  TurnTold'
<1>i. PICK i : i = feed[1].call
  OBVIOUS
<1>1. RunsBegun /\ CorrelationsCover /\ FeedOnce /\ EventsTell
  BY DEF TurnTold
<1>2. /\ 1 \in 1..Len(feed) /\ i \in Calls
      /\ \/ AppendEnds({}) /\ events' = Append(events, feed[1])
         \/ AppendEnds({feed[1].type}) /\ UNCHANGED events
  BY <1>i, AppendStepIs
<1>3. PICK lost : AppendEnds(lost)
  BY <1>2
<1>4. CallMoves(i) /\ UNCHANGED phase /\ calls'[i].ended = calls[i].ended
      /\ calls'[i].at = IF feed[1].type = "call" THEN "queued" ELSE "done"
  BY <1>i, <1>3 DEF AppendEnds
<1>5. /\ feed[1].type \in {"call", "result"}
      /\ feed[1].type = "call" => calls[i].at = "calling"
      /\ feed[1].type = "result" => calls[i].at \in {"stored", "reporting"}
  <2>1. feed[1].type = "result" => calls[feed[1].call].at \in {"stored", "reporting"}
    BY <1>1, <1>2 DEF FeedOnce
  <2> QED BY <1>1, <1>2, <1>i, <2>1, FeedHolds
<1>6. CorrelationsCover'
  BY <1>1, <1>4, CoverMoves
<1>7. RunsBegun'
  BY <1>1, <1>4, <1>5, RunsMove DEF Open
<1>8. FeedOnce'
  BY <1>1, <1>3, FeedAppends
<1>9. EventsTell'
  <2>1. CASE AppendEnds({}) /\ events' = Append(events, feed[1])
    BY <1>1, <1>2, <2>1, EventsAppend
  <2>2. CASE AppendEnds({feed[1].type}) /\ UNCHANGED events
    <3>1. calls'[i].lost = calls[i].lost \cup {feed[1].type}
      BY <1>i, <2>2 DEF AppendEnds
    <3> QED BY <1>1, <1>4, <1>5, <2>2, <3>1, EventsMove
  <2> QED BY <1>2, <2>1, <2>2
<1> QED BY <1>6, <1>7, <1>8, <1>9 DEF TurnTold

(* An answer of the model keeps what is told of the turn.                  *)
LEMMA AskTells ==
  ASSUME TurnInv, TurnTold, NEW r \in Runs, AskStep(r), UNCHANGED exec
  PROVE  TurnTold'
<1>1. PICK kinds \in Answers(r) : ModelCallsTools(r, kinds)
  BY DEF AskStep
<1>2. PICK n \in Nat : CallsAsked(r, n)
  BY <1>1, ModelGrows
<1>3. UNCHANGED events
  BY <1>1 DEF ModelCallsTools
<1>4. RunsBegun' /\ CorrelationsCover' /\ FeedOnce' /\ EventsTell'
  BY <1>2, <1>3, RunsAsk, CoverGrows, FeedGrows, EventsAsk DEF TurnTold
<1> QED BY <1>4 DEF TurnTold

(* The agent's steps keep what is told of the turn. *)
LEMMA AgentTells ==
  ASSUME TurnInv, TurnTold, AgentStep
  PROVE  TurnTold'
<1>1. exec = "agent" /\ UNCHANGED exec
  BY AgentWorks DEF TurnTold
<1> QED BY <1>1, RunStepTells, AskTells, ToolTells, OutputTells, AppendTells DEF AgentStep

(* What the steps of the message leave alone: the calls; a run begins only *)
(* with the agent; the events grow by an outcome at most.                  *)
Outcome(to) == [type |-> to, call |-> 0, corr |-> 0]
(* What the steps of the message leave of the agent, and add to the        *)
(* events.                                                                 *)
LEMMA MessageStepIs ==
  ASSUME MessageStep
  PROVE  /\ UNCHANGED <<calls, queue, pend, feed>>
         /\ \/ UNCHANGED phase
            \/ /\ exec = "context" /\ exec' = "agent"
               /\ phase' = [phase EXCEPT ![0] = "target"]
         /\ UNCHANGED events \/ \E to \in Terminal : events' = Append(events, Outcome(to))
         /\ (exec = "lost") <=> (exec' = "lost")
         /\ exec = "agent" => exec' = "agent" \/ phase[0] \in Over
<1>1. CASE Start \/ Begin \/ BuildContext \/ RequestCancellation
  BY <1>1 DEF Start, Begin, BuildContext, RequestCancellation, agent
<1>2. CASE Compact \/ Compacted \/ CompactionFails \/ AgentReturns
  BY <1>2 DEF Compact, Compacted, CompactionFails, AgentReturns, agent, Over
<1>3. CASE FinishProcessing \/ ListingFails \/ Export \/ ExportFails
  BY <1>3 DEF FinishProcessing, ListingFails, Export, ExportFails, agent
<1>4. CASE ProvisionFails \/ SettleMessage \/ Cancel
  <2>1. /\ UNCHANGED agent
        /\ UNCHANGED events \/ \E to \in {"completed", "failed", "cancelled"} : Settled(to)
        /\ (exec = "lost") <=> (exec' = "lost")
        /\ exec = "agent" => exec' = "agent"
    BY <1>4 DEF ProvisionFails, SettleMessage, Cancel
  <2>2. UNCHANGED events \/ \E to \in Terminal : events' = Append(events, Outcome(to))
    BY <2>1 DEF Settled, Terminal, Outcome
  <2> QED BY <2>1, <2>2 DEF agent
<1> QED BY <1>1, <1>2, <1>3, <1>4 DEF MessageStep

(* The steps of the message keep what is told of the turn.                 *)
LEMMA MessageTells ==
  ASSUME TurnInv, TurnTold, MessageStep
  PROVE  TurnTold'
<1>1. /\ UNCHANGED <<calls, feed>>
      /\ (exec = "lost") <=> (exec' = "lost")
      /\ UNCHANGED events \/ \E to \in Terminal : events' = Append(events, Outcome(to))
      /\ exec = "agent" => exec' = "agent" \/ phase[0] \in Over
      /\ \/ UNCHANGED phase
         \/ exec' = "agent" /\ phase' = [phase EXCEPT ![0] = "target"]
  BY MessageStepIs
<1>2. phase \in [Runs -> Phases] /\ 0 \in Runs
  BY ElementsTyped DEF TurnInv, AgentTyped
<1>3. CorrelationsCover' /\ FeedOnce'
  BY <1>1, CallsRest DEF TurnTold
<1>4. EventsTell'
  BY <1>1, EventsRest DEF TurnTold, Outcome
<1>5. \A s \in Runs : s # 0 => phase'[s] = phase[s]
  BY <1>1, <1>2
<1>6. phase'[0] = phase[0] \/ (phase'[0] = "target" /\ exec' = "agent")
  BY <1>1, <1>2
<1>7. phase'[0] \in Begun => exec' = "agent"
  BY <1>1, <1>6 DEF TurnTold, RunsBegun, Begun, Over
<1>8. RunsBegun'
  BY <1>1, <1>5, <1>6, <1>7, RunsRest DEF TurnTold
<1> QED BY <1>3, <1>4, <1>8 DEF TurnTold

(* After a restart nothing is told of the turn but its events.             *)
LEMMA CrashTells ==
  ASSUME TurnInv, TurnTold, Crash
  PROVE  TurnTold'
<1>1. /\ exec' = "lost" /\ calls' = <<>> /\ feed' = <<>> /\ Len(calls') = 0 /\ Len(feed') = 0
      /\ phase' = [r \in Runs |-> "off"] /\ UNCHANGED events
  BY DEF Crash
<1>2. 0 \in Runs /\ Calls' = {} /\ \A r : OfRun(r)' = {}
  BY <1>1, ElementsTyped DEF TurnInv, Calls, OfRun
<1>3. RunsBegun'
  BY <1>1, <1>2 DEF RunsBegun, Begun
<1>4. CorrelationsCover'
  <2>1. Cardinality({}) = 0
    BY FS_EmptySet
  <2>2. \A r \in Runs : Cardinality(OfRun(r)') = 0
    BY <1>2, <2>1
  <2> QED BY <1>2, <2>2 DEF CorrelationsCover
<1>5. FeedOnce'
  BY <1>1, <1>2 DEF FeedOnce
<1>6. EventsTell'
  BY <1>1 DEF TurnTold, EventsTell
<1> QED BY <1>3, <1>4, <1>5, <1>6 DEF TurnTold

(* Nothing is told at first.                                               *)
LEMMA InitTold == Init => TurnTold
<1> SUFFICES ASSUME Init PROVE TurnTold
  OBVIOUS
<1>1. /\ exec = "none" /\ calls = <<>> /\ feed = <<>> /\ Len(calls) = 0 /\ Len(feed) = 0
      /\ phase = [r \in Runs |-> "off"] /\ events = <<>> /\ Len(events) = 0
  BY DEF Init
<1>2. 0 \in Runs /\ Calls = {} /\ \A r : OfRun(r) = {}
  BY <1>1, BoundsAssumption DEF Runs, Calls, OfRun
<1>3. RunsBegun
  BY <1>1, <1>2 DEF RunsBegun, Begun
<1>4. CorrelationsCover
  <2>1. Cardinality({}) = 0
    BY FS_EmptySet
  <2>2. \A r \in Runs : Cardinality(OfRun(r)) = 0
    BY <1>2, <2>1
  <2> QED BY <1>2, <2>2 DEF CorrelationsCover
<1>5. FeedOnce
  BY <1>1, <1>2 DEF FeedOnce
<1>6. EventsTell
  BY <1>1, <1>2 DEF EventsTell, EventsOfCalls, CallsTold, ToldInOrder, OfCalls
<1> QED BY <1>3, <1>4, <1>5, <1>6 DEF TurnTold

(* Every step keeps what is told of the turn.                              *)
LEMMA StepTold == TurnInv /\ TurnTold /\ [Next]_vars => TurnTold'
<1> SUFFICES ASSUME TurnInv, TurnTold, [Next]_vars PROVE TurnTold'
  OBVIOUS
<1>1. CASE UNCHANGED vars
  <2>1. UNCHANGED <<phase, calls, feed, events, exec>>
    BY <1>1 DEF vars, agent
  <2>2. CorrelationsCover' /\ FeedOnce'
    BY <2>1, CallsRest DEF TurnTold
  <2>3. EventsTell'
    BY <2>1, EventsRest DEF TurnTold
  <2>4. RunsBegun'
    BY <2>1 DEF TurnTold, RunsBegun, Calls
  <2> QED BY <2>2, <2>3, <2>4 DEF TurnTold
<1> QED BY <1>1, TwoKinds, AgentTells, MessageTells, CrashTells

-----------------------------------------------------------------------------
(* The trace: the entry, and the calls of the committed events.            *)

LEMMA NormalizedIs ==
  ASSUME events \in Seq(EventRecords), NEW e
  PROVE  /\ Normalized(e) \in CallTells
         /\ \A k \in OfCalls : events[k].corr \in DOMAIN Normalized(e)
         /\ \A c \in DOMAIN Normalized(e) : \E k \in OfCalls : events[k].corr = c
         /\ \A k \in OfCalls : events[k].type = "result" => Normalized(e)[events[k].corr] = "ended"
<1> DEFINE S == {events[k].corr : k \in ToolEvents}
           ended == {events[k].corr : k \in {k \in ToolEvents : events[k].type = "result"}}
           N == [c \in S |-> IF c \in ended THEN "ended" ELSE "open"]
<1>1. Normalized(e) = N
  BY DEF Normalized
<1>2. ToolEvents = OfCalls
  BY DEF ToolEvents, OfCalls
<1>3. \A k \in OfCalls : events[k].corr \in Corrs
  <2>1. \A k \in 1..Len(events) : events[k] \in EventRecords
    BY LenProperties, ElementOfSeq
  <2> QED BY <2>1 DEF OfCalls, EventRecords
<1>4. S \in SUBSET Corrs /\ N \in [S -> {"open", "ended"}]
  BY <1>2, <1>3
<1>5. N \in CallTells
  BY <1>4, CallTellsAre
<1>6. /\ \A k \in OfCalls : events[k].corr \in S
      /\ \A c \in S : \E k \in OfCalls : events[k].corr = c
      /\ \A k \in OfCalls : events[k].type = "result" => events[k].corr \in ended
  BY <1>2
<1>7. DOMAIN N = S /\ \A c \in S : c \in ended => N[c] = "ended"
  OBVIOUS
<1> HIDE DEF N, S, ended
<1> QED BY <1>1, <1>5, <1>6, <1>7

(* A trace is its entry, and the calls of the events that the entry does   *)
(* not hold.                                                               *)
LEMMA TraceIs ==
  ASSUME events \in Seq(EventRecords), NEW e \in Entries
  PROVE  LET t == TraceOf(e)
             s == State(e)
         IN /\ t \in Entries /\ t.known = s.known /\ t.runs = s.runs
            /\ \A c \in DOMAIN s.calls : c \in DOMAIN t.calls /\ t.calls[c] = s.calls[c]
            /\ \A c \in DOMAIN t.calls : c \in DOMAIN s.calls \/ \E k \in OfCalls : events[k].corr = c
            /\ \A k \in OfCalls : events[k].corr \in DOMAIN t.calls
            /\ \A k \in OfCalls : events[k].type = "result" /\ events[k].corr \notin DOMAIN s.calls =>
                 t.calls[events[k].corr] = "ended"
<1> DEFINE s == State(e)
           N == Normalized(e)
           M == Merge(s.calls, N)
           N2 == Normalized(s)
           t == [s EXCEPT !.calls = M]
<1>1. s \in Entries /\ s.calls \in CallTells
  BY StateIs, EntryTyped
<1>2. TraceOf(e) = t
  BY DEF TraceOf
<1>3. /\ N \in CallTells
      /\ \A k \in OfCalls : events[k].corr \in DOMAIN N
      /\ \A c \in DOMAIN N : \E k \in OfCalls : events[k].corr = c
      /\ \A k \in OfCalls : events[k].type = "result" => N[events[k].corr] = "ended"
  BY NormalizedIs
<1> HIDE DEF s, N
<1>4. M \in CallTells
  BY <1>1, <1>3, MergeCalls
<1>5. /\ DOMAIN M = DOMAIN s.calls \cup DOMAIN N
      /\ \A x \in DOMAIN s.calls : M[x] = s.calls[x]
      /\ \A x \in DOMAIN N : x \notin DOMAIN s.calls => M[x] = N[x]
  BY MergeIs
<1> HIDE DEF M
<1>6. t \in Entries /\ t.known = s.known /\ t.runs = s.runs /\ t.calls = M
  BY <1>1, <1>4 DEF Entries
<1> HIDE DEF t
<1> QED BY <1>2, <1>3, <1>5, <1>6 DEF s

-----------------------------------------------------------------------------
(* The message around the turn. *)

Execs == {"none", "scheduled", "context", "agent", "compacting", "settling", "failing", "ended",
          "lost"}
FinalRecords ==
  [at : {"none", "listing", "unread", "exporting", "lost", "done"},
   outcome : {"none"} \cup Terminal, seen : Nat, trace : Entries]

MessageTyped ==
  /\ status \in {"queued", "working"} \cup Terminal
  /\ exec \in Execs /\ aborted \in BOOLEAN /\ mishaps \in 0..MaxMishaps
  /\ final \in FinalRecords
  /\ EntrySound(entry)

(* An outcome is finalized once; a turn that was not cancelled is over     *)
(* when it is, and its outcome its last event.                             *)
OutcomeKept ==
  /\ final.at = "none" <=> status \notin Terminal
  /\ final.at # "none" => final.outcome = status
  /\ status \in {"completed", "failed"} => exec \in {"ended", "lost"}
  /\ status \in {"completed", "failed"} /\ exec # "lost" =>
       Len(events) # 0 /\ events[Len(events)].type = status
  /\ final.at \in {"listing", "exporting"} /\ status # "cancelled" => exec = "ended"
  /\ final.at = "exporting" => final.seen <= Len(events)

TurnKept == TurnInv /\ TurnTold /\ MessageTyped /\ OutcomeKept

(* The agent's steps record only. *)
LEMMA MishapTyped ==
  ASSUME mishaps \in 0..MaxMishaps, UNCHANGED mishaps \/ Mishap
  PROVE  mishaps' \in 0..MaxMishaps
BY BoundsAssumption DEF Mishap

(* A settlement gives the message its outcome, its last event.             *)
LEMMA SettledIs ==
  ASSUME events \in Seq(EventRecords), NEW to \in Terminal, Settled(to)
  PROVE  /\ status' = to /\ final' \in FinalRecords
         /\ final'.at = "listing" /\ final'.outcome = to
         /\ Len(events') # 0 /\ events'[Len(events')].type = to
<1>1. Outcome(to) \in EventRecords /\ Outcome(to).type = to
  BY BoundsAssumption DEF Outcome, EventRecords, Corrs, Terminal
<1>2. /\ status' = to /\ events' = Append(events, Outcome(to))
      /\ final' = [NotFinal EXCEPT !.at = "listing", !.outcome = to]
  BY DEF Settled, Outcome
<1>3. Len(events') = Len(events) + 1 /\ Len(events) \in Nat /\ events'[Len(events')] = Outcome(to)
  BY <1>1, <1>2, EventsGrow
<1>4. final' \in FinalRecords /\ final'.at = "listing" /\ final'.outcome = to
  BY <1>2, NoEntryIs DEF FinalRecords, NotFinal
<1> QED BY <1>1, <1>2, <1>3, <1>4

(* One recording after the other. *)
LEMMA KeepsMore ==
  ASSUME NEW e, NEW f, NEW g, KeepsCalls(e, f)
  PROVE  /\ KeepsCalls(f, g) => KeepsCalls(e, g)
         /\ \A recs : RecordsCalls(f, g, recs) => RecordsCalls(e, g, recs)
BY DEF KeepsCalls, RecordsCalls

(* What the end of a call leaves of the session agent's calls.             *)
LEMMA EndKeeps ==
  ASSUME NEW e, EntrySound(e), NEW r \in Runs, NEW c \in Corrs
  PROVE  LET f == RecordToolCallEnd(e, r, c)
         IN /\ r # 0 => KeepsCalls(e, f)
            /\ r = 0 => RecordsCalls(e, f, [x \in {c} |-> "ended"])
<1>1. [x \in {c} |-> "ended"] \in [{c} -> {"open", "ended"}] /\ {c} \in SUBSET Corrs
  OBVIOUS
<1>2. [x \in {c} |-> "ended"] \in CallTells
  BY <1>1, CallTellsAre
<1> QED BY <1>2, RecordedKeeps DEF RecordToolCallEnd

(* What the start of calls leaves of the session agent's calls.            *)
LEMMA StartsKeep ==
  ASSUME NEW e, EntrySound(e), NEW r \in Runs, NEW S \in SUBSET Corrs
  PROVE  LET f == RecordToolCallStarts(e, r, S)
         IN /\ r # 0 => KeepsCalls(e, f)
            /\ r = 0 => RecordsCalls(e, f, [x \in S |-> "open"])
<1>1. [x \in S |-> "open"] \in [S -> {"open", "ended"}]
  OBVIOUS
<1>2. [x \in S |-> "open"] \in CallTells
  BY <1>1, CallTellsAre
<1> QED BY <1>2, RecordedKeeps DEF RecordToolCallStarts

(* What each step of the agent records. *)
LEMMA RunEntry ==
  ASSUME TurnInv, EntrySound(entry), NEW r \in Runs, RunStep(r)
  PROVE  UNCHANGED entry \/ KeepsCalls(entry, entry')
<1>1. CASE UNCHANGED entry
  BY <1>1
<1>2. CASE entry' = FinishAgentRun(entry, r)
  BY <1>2, RunKeeps
<1>3. CASE entry' = FinishAgentRun(RecordUsage(entry, r), r)
  <2>1. KeepsCalls(entry, RecordUsage(entry, r))
    BY RunKeeps
  <2>2. KeepsCalls(RecordUsage(entry, r), entry')
    BY <1>3, <2>1, RunKeeps DEF KeepsCalls
  <2> QED BY <2>1, <2>2, KeepsMore
<1> QED BY <1>1, <1>2, <1>3, RunStepIs

(* The agent has asked for calls whose correlations are numbers up to the  *)
(* bound.                                                                  *)
AskedCorrs(r, n) == {Cardinality(OfRun(r)) + k : k \in 1..n}

(* The correlations of new calls are within the bound.                     *)
LEMMA AskedBounded ==
  ASSUME TurnInv, NEW r \in Runs, NEW n \in Nat, Len(calls) + n <= MaxCalls
  PROVE  Cardinality(OfRun(r)) \in Nat /\ AskedCorrs(r, n) \in SUBSET Corrs
<1>1. Len(calls) \in Nat /\ MaxCalls \in Nat
  BY ElementsTyped, BoundsAssumption DEF TurnInv
<1>2. /\ IsFiniteSet(1..Len(calls))
      /\ Cardinality(1..Len(calls)) = IF 1 > Len(calls) THEN 0 ELSE Len(calls) - 1 + 1
  <2>1. 1 \in Int /\ Len(calls) \in Int
    BY <1>1
  <2> QED BY <2>1, FS_Interval
<1>3. OfRun(r) \subseteq 1..Len(calls) /\ Cardinality(1..Len(calls)) = Len(calls)
  BY <1>1, <1>2 DEF OfRun
<1>4. IsFiniteSet(OfRun(r)) /\ Cardinality(OfRun(r)) <= Len(calls) /\ Cardinality(OfRun(r)) \in Nat
  BY <1>2, <1>3, FS_Subset, FS_CardinalityType
<1>5. ASSUME NEW k \in 1..n PROVE Cardinality(OfRun(r)) + k \in Corrs
  BY <1>1, <1>4 DEF Corrs
<1> QED BY <1>4, <1>5 DEF AskedCorrs

(* An answer of the model records the starts of its calls.                 *)
LEMMA AskStepIs ==
  ASSUME TurnInv, NEW r \in Runs, AskStep(r)
  PROVE  /\ UNCHANGED events
         /\ \E n \in Nat : /\ CallsAsked(r, n) /\ AskedCorrs(r, n) \in SUBSET Corrs
                           /\ entry' = RecordToolCallStarts(entry, r, AskedCorrs(r, n))
<1>1. PICK kinds \in Answers(r) : ModelCallsTools(r, kinds)
  BY DEF AskStep
<1>2. PICK n \in Nat : /\ CallsAsked(r, n)
                       /\ entry' = RecordToolCallStarts(entry, r, AskedCorrs(r, n))
  BY <1>1, ModelGrows DEF AskedCorrs
<1>3. AskedCorrs(r, n) \in SUBSET Corrs
  BY <1>2, AskedBounded DEF CallsAsked
<1> QED BY <1>1, <1>2, <1>3 DEF ModelCallsTools

(* What a step of the agent leaves of the session agent's calls, as the    *)
(* entry tells them.                                                       *)
LEMMA AgentEntry ==
  ASSUME TurnInv, TurnTold, EntrySound(entry), AgentStep
  PROVE  EntrySound(entry')
<1>1. \A i \in Calls : calls[i].run \in Runs /\ calls[i].corr \in Corrs /\ i \in Runs /\ 0 \in Runs
  BY ElementsTyped, CorrelationsBounded DEF TurnInv
<1>2. ASSUME NEW r \in Runs, RunStep(r) PROVE EntrySound(entry')
  BY <1>2, RunEntry DEF KeepsCalls
<1>3. ASSUME NEW r \in Runs, AskStep(r) PROVE EntrySound(entry')
  <2>1. PICK n \in Nat : /\ AskedCorrs(r, n) \in SUBSET Corrs
                         /\ entry' = RecordToolCallStarts(entry, r, AskedCorrs(r, n))
    BY <1>3, AskStepIs
  <2> QED BY <2>1, StartsKeep DEF KeepsCalls, RecordsCalls
<1>4. ASSUME NEW i \in Calls, NEW e, EntrySound(e), EndRecorded(i, e)
      PROVE  EntrySound(entry')
  BY <1>1, <1>4, EndKeeps DEF EndRecorded, KeepsCalls, RecordsCalls
<1>5. ASSUME NEW i \in Calls, ToolStep(i) PROVE EntrySound(entry')
  <2>1. \/ UNCHANGED entry
        \/ entry' = StartAgentRun(entry, i)
        \/ EndRecorded(i, entry)
        \/ EndRecorded(i, RecordSubagent(entry, i))
    <3>1. calls[i].kind \in {"tool", "subagent"}
      BY ElementsTyped DEF TurnInv, CallRecords
    <3> QED BY <1>5, <3>1, ToolStepIs
  <2>2. KeepsCalls(entry, StartAgentRun(entry, i)) /\ KeepsCalls(entry, RecordSubagent(entry, i))
    BY <1>1, RunKeeps
  <2>3. EntrySound(StartAgentRun(entry, i)) /\ EntrySound(RecordSubagent(entry, i))
    BY <2>2 DEF KeepsCalls
  <2>4. CASE EndRecorded(i, entry)
    BY <1>4, <2>4
  <2>5. CASE EndRecorded(i, RecordSubagent(entry, i))
    BY <1>4, <2>3, <2>5
  <2> QED BY <2>1, <2>3, <2>4, <2>5
<1>6. ASSUME NEW i \in Calls, OutputStep(i) PROVE EntrySound(entry')
  BY <1>6 DEF OutputStep, StoreOutput, StoreFails
<1>7. ASSUME NEW k \in Appends, AppendStep(k) PROVE EntrySound(entry')
  <2>1. \/ UNCHANGED entry
        \/ /\ entry' = RecordToolCallEnd(entry, 0, feed[1].corr)
           /\ feed[1].call \in Calls /\ 1 \in 1..Len(feed)
    BY <1>7, AppendStepIs
  <2>2. CASE /\ entry' = RecordToolCallEnd(entry, 0, feed[1].corr)
             /\ feed[1].call \in Calls /\ 1 \in 1..Len(feed)
    <3>1. feed[1].corr \in Corrs /\ 0 \in Runs
      BY <1>1, <2>2 DEF TurnTold, FeedOnce
    <3> QED BY <2>2, <3>1, EndKeeps DEF KeepsCalls, RecordsCalls
  <2> QED BY <2>1, <2>2
<1> QED BY <1>2, <1>3, <1>5, <1>6, <1>7 DEF AgentStep

-----------------------------------------------------------------------------
(* The message keeps its types and its outcome. *)

(* What a step of the message does to the entry. *)
LEMMA MessageEntry ==
  ASSUME EntrySound(entry), MessageStep
  PROVE  /\ Start \/ Export \/ ExportFails \/ UNCHANGED entry \/ KeepsCalls(entry, entry')
         /\ EntrySound(entry')
<1>1. CASE Start
  <2>1. entry' = [NoEntry EXCEPT !.held = TRUE, !.known = TRUE]
    BY <1>1 DEF Start
  <2>2. entry' \in Entries /\ entry'.held /\ entry'.known
    BY <2>1, NoEntryIs DEF Entries
  <2> QED BY <1>1, <2>2 DEF EntrySound
<1>2. CASE Export \/ ExportFails
  <2>1. entry' = NoEntry
    BY <1>2 DEF Export, ExportFails, EntryAfterExport
  <2> QED BY <1>2, <2>1, NoEntryIs DEF EntrySound
<1>3. 0 \in Runs /\ KeepsCalls(entry, State(entry)) /\ EntrySound(State(entry))
  BY StateKeeps, BoundsAssumption DEF KeepsCalls, Runs
<1>4. CASE BuildContext \/ FinishProcessing
  <2>1. KeepsCalls(State(entry), StartAgentRun(State(entry), 0))
    BY <1>3, RunKeeps
  <2>2. KeepsCalls(entry, StartAgentRun(State(entry), 0))
    BY <1>3, <2>1, KeepsMore
  <2>3. entry' = State(entry) \/ entry' = StartAgentRun(State(entry), 0)
    BY <1>4 DEF BuildContext, FinishProcessing
  <2>4. KeepsCalls(entry, entry')
    BY <1>3, <2>2, <2>3
  <2> QED BY <2>4 DEF KeepsCalls
<1>5. CASE Compacted \/ CompactionFails
  <2>1. KeepsCalls(entry, RecordUsage(entry, 0))
    BY <1>3, RunKeeps
  <2>2. entry' = State(entry) \/ entry' = RecordUsage(entry, 0)
    BY <1>5 DEF Compacted, CompactionFails, RecordOwnUsage
  <2>3. KeepsCalls(entry, entry')
    BY <1>3, <2>1, <2>2
  <2> QED BY <2>3 DEF KeepsCalls
<1>6. CASE Begin \/ ProvisionFails \/ Compact \/ AgentReturns \/ SettleMessage
           \/ RequestCancellation \/ Cancel \/ ListingFails
  BY <1>6 DEF Begin, ProvisionFails, Compact, AgentReturns, SettleMessage, RequestCancellation,
              Cancel, ListingFails
<1> QED BY <1>1, <1>2, <1>4, <1>5, <1>6 DEF MessageStep

(* Steps before the outcome, and those that do not settle it. *)
LEMMA MessageKeeps ==
  ASSUME TurnKept, MessageStep
  PROVE  MessageTyped' /\ OutcomeKept'
<1>1. /\ MessageTyped /\ OutcomeKept /\ events \in Seq(EventRecords) /\ Len(events) \in Nat
  BY LenProperties DEF TurnKept, TurnTold, EventsTell
<1>2. EntrySound(entry)'
  BY <1>1, MessageEntry DEF MessageTyped
<1>3. /\ status \in {"queued", "working"} \cup Terminal
      /\ exec \in Execs /\ aborted \in BOOLEAN /\ mishaps \in 0..MaxMishaps
      /\ final \in FinalRecords
  BY <1>1 DEF MessageTyped
<1>4. CASE /\ Start \/ Begin \/ BuildContext \/ Compact \/ Compacted \/ CompactionFails
              \/ AgentReturns \/ RequestCancellation
  <2>1. UNCHANGED <<events, final>> /\ (UNCHANGED mishaps \/ Mishap)
    BY <1>4 DEF Start, Begin, BuildContext, Compact, Compacted, CompactionFails, AgentReturns,
                RequestCancellation
  <2>2. /\ exec' \in Execs /\ aborted' \in BOOLEAN
        /\ \/ UNCHANGED status
           \/ status = "queued" /\ status' = "working"
        /\ exec \notin {"ended", "lost"} \/ UNCHANGED exec
    BY <1>3, <1>4 DEF Start, Begin, BuildContext, Compact, Compacted, CompactionFails, AgentReturns,
                RequestCancellation, Execs
  <2>3. mishaps' \in 0..MaxMishaps
    BY <1>3, <2>1, MishapTyped
  <2>4. MessageTyped'
    BY <1>2, <1>3, <2>1, <2>2, <2>3 DEF MessageTyped
  <2>5. OutcomeKept'
    BY <1>1, <2>1, <2>2 DEF OutcomeKept, Terminal
  <2> QED BY <2>4, <2>5
<1>5. CASE ProvisionFails \/ SettleMessage \/ Cancel
  <2>1. /\ UNCHANGED aborted
        /\ UNCHANGED mishaps \/ Mishap
        /\ exec' = exec \/ (exec' = "ended" /\ exec # "lost")
        /\ \/ UNCHANGED <<status, events, final>>
           \/ status \notin Terminal /\ exec' = "ended" /\ Settled("failed")
           \/ status \notin Terminal /\ exec' = "ended" /\ Settled("completed")
           \/ status \notin Terminal /\ Settled("cancelled")
    BY <1>5 DEF ProvisionFails, SettleMessage, Cancel, Terminal
  <2>2. exec' \in Execs /\ aborted' \in BOOLEAN /\ mishaps' \in 0..MaxMishaps
    BY <1>3, <2>1, MishapTyped DEF Execs
  <2>3. CASE UNCHANGED <<status, events, final>>
    <3>1. OutcomeKept'
      BY <1>1, <2>1, <2>3 DEF OutcomeKept
    <3> QED BY <1>2, <1>3, <2>2, <2>3, <3>1 DEF MessageTyped
  <2>4. ASSUME NEW to \in Terminal, Settled(to), exec' = "ended" \/ to = "cancelled"
        PROVE  MessageTyped' /\ OutcomeKept'
    <3>1. /\ status' = to /\ final' \in FinalRecords
          /\ final'.at = "listing" /\ final'.outcome = to
          /\ Len(events') # 0 /\ events'[Len(events')].type = to
      BY <1>1, <2>4, SettledIs
    <3>2. MessageTyped'
      BY <1>2, <2>2, <3>1 DEF MessageTyped
    <3>3. OutcomeKept'
      BY <2>4, <3>1 DEF OutcomeKept, Terminal
    <3> QED BY <3>2, <3>3
  <2> QED BY <2>1, <2>3, <2>4 DEF Terminal
<1>6. CASE FinishProcessing \/ ListingFails \/ Export \/ ExportFails
  <2>1. /\ UNCHANGED <<status, exec, aborted, events>>
        /\ UNCHANGED mishaps \/ Mishap
    BY <1>6 DEF FinishProcessing, ListingFails, Export, ExportFails
  <2>2. TraceOf(entry) \in Entries
    BY <1>1, TraceIs DEF MessageTyped, EntrySound
  <2>3. /\ final' \in FinalRecords /\ final'.outcome = final.outcome
        /\ final.at \in {"listing", "exporting"}
        /\ \/ final.at = "listing" /\ final'.at = "exporting" /\ final'.seen = Len(events)
           \/ final'.at \in {"unread", "done"}
    <3>1. CASE FinishProcessing
      BY <1>1, <1>3, <2>2, <3>1 DEF FinishProcessing, FinalRecords
    <3>2. CASE ListingFails \/ Export \/ ExportFails
      BY <1>3, <3>2 DEF ListingFails, Export, ExportFails, FinalRecords
    <3> QED BY <1>6, <3>1, <3>2
  <2>4. mishaps' \in 0..MaxMishaps
    BY <1>3, <2>1, MishapTyped
  <2>5. MessageTyped'
    BY <1>2, <1>3, <2>1, <2>3, <2>4 DEF MessageTyped
  <2>6. OutcomeKept'
    BY <1>1, <2>1, <2>3 DEF OutcomeKept
  <2> QED BY <2>5, <2>6
<1> QED BY <1>4, <1>5, <1>6 DEF MessageStep

(* The agent keeps types and outcome.                                      *)
LEMMA AgentKeeps ==
  ASSUME TurnKept, AgentStep
  PROVE  MessageTyped' /\ OutcomeKept'
<1>1. TurnInv /\ TurnTold /\ MessageTyped /\ OutcomeKept /\ FeedOnce /\ RunsBegun
  BY DEF TurnKept, TurnTold
<1>2. /\ exec = "agent" /\ UNCHANGED <<status, exec, aborted, final>>
      /\ UNCHANGED mishaps \/ Mishap
  BY <1>1, AgentWorks
<1>3. EntrySound(entry)'
  BY <1>1, AgentEntry DEF MessageTyped
<1>4. mishaps' \in 0..MaxMishaps
  BY <1>1, <1>2, MishapTyped DEF MessageTyped
<1>5. MessageTyped'
  BY <1>1, <1>2, <1>3, <1>4 DEF MessageTyped
<1>6. UNCHANGED events \/ \E a : events' = Append(events, a)
  <2>1. ASSUME NEW r \in Runs, RunStep(r) \/ AskStep(r) PROVE UNCHANGED events
    BY <1>1, <2>1, RunStepIs, AskStepIs
  <2>2. ASSUME NEW i \in Calls, ToolStep(i) \/ OutputStep(i) PROVE UNCHANGED events
    BY <2>2, <1>1, ToolStepIs DEF OutputStep, StoreOutput, StoreFails
  <2>3. ASSUME NEW k \in Appends, AppendStep(k)
        PROVE  UNCHANGED events \/ \E a : events' = Append(events, a)
    BY <2>3 DEF AppendStep, AppendCommits, AppendFails
  <2> QED BY <2>1, <2>2, <2>3 DEF AgentStep
<1>7. Len(events) \in Nat /\ (Len(events') = Len(events) \/ Len(events') = Len(events) + 1)
  <2>1. events \in Seq(EventRecords)
    BY <1>1 DEF TurnTold, EventsTell
  <2>2. events' \in Seq(EventRecords)
    BY <1>1, AgentTells DEF TurnTold, EventsTell
  <2>3. Len(events) \in Nat
    BY <2>1, LenProperties
  <2>4. ASSUME NEW a, events' = Append(events, a) PROVE Len(events') = Len(events) + 1
    BY <2>1, <2>4
  <2> QED BY <1>6, <2>3, <2>4
<1>8. OutcomeKept'
  <2>1. status \notin {"completed", "failed"}
    BY <1>1, <1>2 DEF OutcomeKept
  <2>2. final.at = "exporting" => final.seen <= Len(events) /\ final.seen \in Nat
    BY <1>1 DEF OutcomeKept, MessageTyped, FinalRecords
  <2>3. final.at = "exporting" => final.seen <= Len(events')
    BY <1>7, <2>2
  <2>4. /\ final.at = "none" <=> status \notin Terminal
        /\ final.at # "none" => final.outcome = status
        /\ ~(final.at \in {"listing", "exporting"} /\ status # "cancelled")
    BY <1>1, <1>2, <2>1 DEF OutcomeKept
  <2> QED BY <1>2, <2>1, <2>3, <2>4 DEF OutcomeKept
<1> QED BY <1>5, <1>8

(* A restart keeps types and outcome.                                      *)
LEMMA CrashKeeps ==
  ASSUME TurnKept, Crash
  PROVE  MessageTyped' /\ OutcomeKept'
<1>1. MessageTyped /\ OutcomeKept
  BY DEF TurnKept
<1>2. /\ Mishap /\ UNCHANGED <<status, events>> /\ exec' = "lost" /\ aborted' = FALSE
      /\ entry' = NoEntry
      /\ final' = IF final.at \in {"listing", "exporting"} THEN [final EXCEPT !.at = "lost"] ELSE final
  BY DEF Crash
<1>3. EntrySound(entry)'
  BY <1>2, NoEntryIs DEF EntrySound
<1>4. mishaps' \in 0..MaxMishaps
  BY <1>1, <1>2, MishapTyped DEF MessageTyped
<1>5. /\ final' \in FinalRecords /\ final'.outcome = final.outcome
      /\ final'.at \notin {"listing", "exporting"}
      /\ final'.at = "none" <=> final.at = "none"
  BY <1>1, <1>2 DEF MessageTyped, FinalRecords
<1>6. MessageTyped'
  BY <1>1, <1>2, <1>3, <1>4, <1>5 DEF MessageTyped, Execs
<1>7. OutcomeKept'
  BY <1>1, <1>2, <1>5 DEF OutcomeKept
<1> QED BY <1>6, <1>7

(* The invariant of the turn and its message holds at first.               *)
LEMMA InitKept == Init => TurnKept
<1> SUFFICES ASSUME Init PROVE TurnKept
  OBVIOUS
<1>1. TurnInv /\ TurnTold
  BY InitTurn, InitTold
<1>2. /\ status = "queued" /\ exec = "none" /\ aborted = FALSE /\ mishaps = 0
      /\ entry = NoEntry /\ final = NotFinal
  BY DEF Init
<1>3. final \in FinalRecords /\ final.at = "none"
  BY <1>2, NoEntryIs DEF FinalRecords, NotFinal
<1>4. MessageTyped
  <2>1. EntrySound(entry)
    BY <1>2, NoEntryIs DEF EntrySound
  <2>2. mishaps \in 0..MaxMishaps
    BY <1>2, BoundsAssumption
  <2> QED BY <1>2, <1>3, <2>1, <2>2 DEF MessageTyped, Execs
<1>5. OutcomeKept
  BY <1>2, <1>3 DEF OutcomeKept, Terminal
<1> QED BY <1>1, <1>4, <1>5 DEF TurnKept

(* Every step keeps the invariant of the turn and its message.             *)
LEMMA StepKept == TurnKept /\ [Next]_vars => TurnKept'
<1> SUFFICES ASSUME TurnKept, [Next]_vars PROVE TurnKept'
  OBVIOUS
<1>1. TurnInv' /\ TurnTold'
  BY StepTurn, StepTold DEF TurnKept
<1>2. MessageTyped' /\ OutcomeKept'
  <2>1. CASE UNCHANGED vars
    BY <2>1 DEF vars, agent, TurnKept, MessageTyped, OutcomeKept
  <2> QED BY <2>1, TwoKinds, AgentKeeps, MessageKeeps, CrashKeeps
<1> QED BY <1>1, <1>2 DEF TurnKept

-----------------------------------------------------------------------------
(* What the entry tells of the session agent's calls that have ended. *)

EndsTold(e) ==
  \A i \in OfRun(0) : calls[i].at \notin Open /\ calls[i].corr \in DOMAIN e.calls =>
    e.calls[calls[i].corr] = "ended"

(* Ends stay told when each call that is over was so, or is told by the    *)
(* new entry.                                                              *)
LEMMA EndsGo ==
  ASSUME NEW e, NEW f, EndsTold(e),
         \A j \in OfRun(0)' : \/ calls'[j].at \in Open
                              \/ j \in OfRun(0) /\ calls'[j].corr = calls[j].corr,
         \A j \in OfRun(0)' : calls'[j].at \notin Open /\ calls[j].corr \in DOMAIN f.calls =>
           \/ f.calls[calls[j].corr] = "ended"
           \/ /\ calls[j].at \notin Open /\ calls[j].corr \in DOMAIN e.calls
              /\ f.calls[calls[j].corr] = e.calls[calls[j].corr]
  PROVE  EndsTold(f)'
<1> SUFFICES ASSUME NEW j \in OfRun(0)', calls'[j].at \notin Open, calls'[j].corr \in DOMAIN f.calls
             PROVE  f.calls[calls'[j].corr] = "ended"
  BY DEF EndsTold
<1>1. j \in OfRun(0) /\ calls'[j].corr = calls[j].corr
  OBVIOUS
<1>2. calls[j].at \notin Open /\ calls[j].corr \in DOMAIN e.calls => e.calls[calls[j].corr] = "ended"
  BY <1>1 DEF EndsTold
<1> QED BY <1>1, <1>2

(* A step that ends no call of the session agent, and records none.        *)
LEMMA EndsRest ==
  ASSUME NEW e, NEW f, EndsTold(e), f = e \/ KeepsCalls(e, f),
         \A j \in OfRun(0)' : \/ calls'[j].at \in Open
                              \/ /\ j \in OfRun(0) /\ calls'[j].corr = calls[j].corr
                                 /\ calls[j].at \notin Open
  PROVE  EndsTold(f)'
<1>1. \A c \in DOMAIN f.calls : c \in DOMAIN e.calls /\ f.calls[c] = e.calls[c]
  BY DEF KeepsCalls
<1> QED BY <1>1, EndsGo

(* Call i ends and is recorded, or had ended. *)
LEMMA EndsEnd ==
  ASSUME NEW e, NEW f, EndsTold(e), NEW i, CallMoves(i),
         calls[i].run = 0 => RecordsCalls(e, f, [x \in {calls[i].corr} |-> "ended"]),
         calls[i].run # 0 => KeepsCalls(e, f)
  PROVE  EndsTold(f)'
<1>1. /\ i \in Calls /\ OfRun(0)' = OfRun(0)
      /\ \A j \in Calls : calls'[j].corr = calls[j].corr /\ (j # i => calls'[j] = calls[j])
  BY DEF CallMoves
<1>2. \A j \in OfRun(0) : j \in Calls /\ calls[j].run = 0
  BY DEF OfRun, Calls
<1>3. CASE calls[i].run # 0
  BY <1>1, <1>2, <1>3, EndsRest
<1>4. CASE calls[i].run = 0
  <2> DEFINE recs == [x \in {calls[i].corr} |-> "ended"]
  <2>1. /\ DOMAIN recs = {calls[i].corr} /\ recs[calls[i].corr] = "ended"
        /\ \A c \in DOMAIN f.calls :
             \/ c \in DOMAIN recs /\ f.calls[c] = recs[c]
             \/ c \notin DOMAIN recs /\ c \in DOMAIN e.calls /\ f.calls[c] = e.calls[c]
    BY <1>4 DEF RecordsCalls
  <2> HIDE DEF recs
  <2>2. \A c \in DOMAIN f.calls :
          \/ f.calls[c] = "ended"
          \/ c # calls[i].corr /\ c \in DOMAIN e.calls /\ f.calls[c] = e.calls[c]
    BY <2>1
  <2>3. ASSUME NEW j \in OfRun(0), calls'[j].at \notin Open, calls[j].corr \in DOMAIN f.calls
        PROVE  \/ f.calls[calls[j].corr] = "ended"
               \/ /\ calls[j].at \notin Open /\ calls[j].corr \in DOMAIN e.calls
                  /\ f.calls[calls[j].corr] = e.calls[calls[j].corr]
    <3>1. CASE j = i
      BY <2>2, <2>3, <3>1
    <3>2. CASE j # i
      BY <1>1, <1>2, <2>2, <2>3, <3>2
    <3> QED BY <3>1, <3>2
  <2> QED BY <1>1, <1>2, <2>3, EndsGo
<1> QED BY <1>3, <1>4

(* New calls are open, and have correlations of their own. *)
LEMMA EndsAsk ==
  ASSUME TurnInv, NEW e, NEW f, EndsTold(e), NEW r \in Runs, NEW n \in Nat, CallsAsked(r, n),
         r = 0 => RecordsCalls(e, f, [x \in AskedCorrs(r, n) |-> "open"]),
         r # 0 => KeepsCalls(e, f)
  PROVE  EndsTold(f)'
<1>1. AgentTyped /\ CallsFollow(r, n) /\ CorrelationsInOrder
  BY DEF TurnInv, CallsAsked
<1>2. /\ \A j \in Calls : j \in Calls' /\ calls'[j] = calls[j]
      /\ \A j \in Calls' : j \in Calls \/ \E k \in 1..n : j = Len(calls) + k
      /\ \A k \in 1..n : /\ calls'[Len(calls) + k].run = r
                         /\ calls'[Len(calls) + k].at \in {"calling", "queued"}
      /\ Cardinality(OfRun(r)) \in Nat
  BY <1>1, RunGrows DEF CallsFollow
<1>3. \A s, j : j \in OfRun(s) <=> j \in Calls /\ calls[j].run = s
  BY DEF OfRun, Calls
<1>4. \A j : j \in OfRun(0)' <=> j \in Calls' /\ calls'[j].run = 0
  BY DEF OfRun, Calls
<1>5. \A j \in OfRun(0)' : calls'[j].at \in Open \/ (j \in OfRun(0) /\ calls'[j] = calls[j])
  <2> SUFFICES ASSUME NEW j \in OfRun(0)'
               PROVE  calls'[j].at \in Open \/ (j \in OfRun(0) /\ calls'[j] = calls[j])
    OBVIOUS
  <2>1. CASE j \in Calls
    BY <1>2, <1>3, <1>4, <2>1
  <2>2. CASE j \notin Calls
    <3>1. PICK k \in 1..n : j = Len(calls) + k
      BY <1>2, <1>4, <2>2
    <3> QED BY <1>2, <3>1 DEF Open
  <2> QED BY <2>1, <2>2
<1>6. CASE r # 0
  BY <1>5, <1>6, EndsRest
<1>7. CASE r = 0
  <2>1. \A j \in OfRun(0) : calls[j].corr \notin AskedCorrs(r, n)
    <3> SUFFICES ASSUME NEW j \in OfRun(0), NEW k \in 1..n,
                        calls[j].corr = Cardinality(OfRun(r)) + k
                 PROVE  FALSE
      BY DEF AskedCorrs
    <3>1. j \in Calls /\ calls[j].run = r
      BY <1>3, <1>7
    <3>2. calls[j].corr <= Cardinality(OfRun(r))
      BY <1>1, <3>1 DEF CorrelationsInOrder
    <3> QED BY <1>2, <3>2
  <2>2. \A c \in DOMAIN f.calls :
          \/ c \in AskedCorrs(r, n)
          \/ c \in DOMAIN e.calls /\ f.calls[c] = e.calls[c]
    BY <1>7 DEF RecordsCalls
  <2> QED BY <1>5, <2>1, <2>2, EndsGo
<1> QED BY <1>6, <1>7

(* What a new entry tells, the entry tells that is it.                     *)
LEMMA EndsNow ==
  ASSUME NEW f, f = entry', EndsTold(f)'
  PROVE  EndsTold(entry)'
BY DEF EndsTold

(* A step of a run leaves the ends as they are told.                       *)
LEMMA EndsOfRun ==
  ASSUME TurnKept, EndsTold(entry), NEW r \in Runs, RunStep(r)
  PROVE  EndsTold(entry)'
<1>1. PICK e : e = entry
  OBVIOUS
<1>2. PICK f : f = entry'
  OBVIOUS
<1>3. UNCHANGED calls
  BY RunStepIs DEF TurnKept
<1>4. f = e \/ KeepsCalls(e, f)
  BY <1>1, <1>2, RunEntry DEF TurnKept, MessageTyped
<1>5. EndsTold(e)
  BY <1>1
<1>6. EndsTold(f)'
  <2>1. \A c \in DOMAIN f.calls : c \in DOMAIN e.calls /\ f.calls[c] = e.calls[c]
    BY <1>4 DEF KeepsCalls
  <2>2. OfRun(0)' = OfRun(0)
    BY <1>3 DEF OfRun
  <2>3. \A j \in OfRun(0) : calls[j].at \notin Open /\ calls[j].corr \in DOMAIN f.calls =>
          f.calls[calls[j].corr] = "ended"
    BY <1>5, <2>1 DEF EndsTold
  <2> QED BY <1>3, <2>2, <2>3 DEF EndsTold
<1> QED BY <1>2, <1>6, EndsNow

(* Calls that are asked for have not ended.                                *)
LEMMA EndsOfAsk ==
  ASSUME TurnKept, EndsTold(entry), NEW r \in Runs, AskStep(r)
  PROVE  EndsTold(entry)'
<1>1. PICK e : e = entry
  OBVIOUS
<1>2. PICK f : f = entry'
  OBVIOUS
<1>3. TurnInv /\ EntrySound(e) /\ EndsTold(e)
  BY <1>1 DEF TurnKept, MessageTyped
<1>4. PICK n \in Nat : /\ CallsAsked(r, n) /\ AskedCorrs(r, n) \in SUBSET Corrs
                       /\ entry' = RecordToolCallStarts(entry, r, AskedCorrs(r, n))
  BY <1>3, AskStepIs
<1>5. PICK S : S = AskedCorrs(r, n)
  OBVIOUS
<1>6. f = RecordToolCallStarts(e, r, S) /\ S \in SUBSET Corrs
  BY <1>1, <1>2, <1>4, <1>5
<1>7. /\ r # 0 => KeepsCalls(e, f)
      /\ r = 0 => RecordsCalls(e, f, [x \in S |-> "open"])
  BY <1>3, <1>6, StartsKeep
<1>8. EndsTold(f)'
  BY <1>3, <1>4, <1>5, <1>7, EndsAsk
<1> QED BY <1>2, <1>8, EndsNow

(* A call that ends is recorded as ended.                                  *)
LEMMA EndsOfEnd ==
  ASSUME TurnKept, NEW i, CallMoves(i), NEW e, EntrySound(e), EndsTold(e),
         entry' = RecordToolCallEnd(e, calls[i].run, calls[i].corr)
  PROVE  EndsTold(entry)'
<1>1. PICK r : r = calls[i].run
  OBVIOUS
<1>2. PICK c : c = calls[i].corr
  OBVIOUS
<1>3. PICK f : f = entry'
  OBVIOUS
<1>4. r \in Runs /\ c \in Corrs
  BY <1>1, <1>2, ElementsTyped, CorrelationsBounded DEF TurnKept, TurnInv, CallMoves
<1>5. f = RecordToolCallEnd(e, r, c)
  BY <1>1, <1>2, <1>3
<1>6. /\ r # 0 => KeepsCalls(e, f)
      /\ r = 0 => RecordsCalls(e, f, [x \in {c} |-> "ended"])
  BY <1>4, <1>5, EndKeeps
<1>7. EndsTold(f)'
  BY <1>1, <1>2, <1>6, EndsEnd
<1> QED BY <1>3, <1>7, EndsNow

(* Call i moves, and is as open as it was. *)
LEMMA EndsOfMove ==
  ASSUME EndsTold(entry), NEW i, CallMoves(i), calls'[i].at \in Open \/ calls[i].at \notin Open,
         UNCHANGED entry \/ KeepsCalls(entry, entry')
  PROVE  EndsTold(entry)'
<1>1. PICK e : e = entry
  OBVIOUS
<1>2. PICK f : f = entry'
  OBVIOUS
<1>3. f = e \/ KeepsCalls(e, f)
  BY <1>1, <1>2
<1>4. /\ i \in Calls /\ OfRun(0)' = OfRun(0)
      /\ \A j \in Calls : calls'[j].corr = calls[j].corr /\ (j # i => calls'[j] = calls[j])
  BY DEF CallMoves
<1>5. \A j \in OfRun(0) : j \in Calls
  BY DEF OfRun, Calls
<1>6. \A j \in OfRun(0)' : \/ calls'[j].at \in Open
                           \/ /\ j \in OfRun(0) /\ calls'[j].corr = calls[j].corr
                              /\ calls[j].at \notin Open
  BY <1>4, <1>5
<1>7. EndsTold(e)
  BY <1>1
<1>8. EndsTold(f)'
  BY <1>3, <1>6, <1>7, EndsRest
<1> QED BY <1>2, <1>8, EndsNow

(* A step of a tool call tells its end, if it is one.                      *)
LEMMA EndsOfTool ==
  ASSUME TurnKept, EndsTold(entry), NEW i \in Calls, ToolStep(i)
  PROVE  EndsTold(entry)'
<1>1. TurnInv /\ EntrySound(entry) /\ i \in Runs /\ calls[i].kind \in {"tool", "subagent"}
  BY ElementsTyped DEF TurnKept, TurnInv, MessageTyped, CallRecords
<1>2. KeepsCalls(entry, StartAgentRun(entry, i)) /\ KeepsCalls(entry, RecordSubagent(entry, i))
  BY <1>1, RunKeeps
<1>3. CASE ToolRuns(i) /\ (UNCHANGED entry \/ entry' = StartAgentRun(entry, i))
  BY <1>2, <1>3, EndsOfMove DEF ToolRuns, Open
<1>4. ASSUME NEW e, e = entry \/ KeepsCalls(entry, e), ToolEnds(i), EndRecorded(i, e)
      PROVE  EndsTold(entry)'
  <2>1. EntrySound(e)
    BY <1>1, <1>4 DEF KeepsCalls
  <2>2. EndsTold(e)
    <3>1. \A c \in DOMAIN e.calls : c \in DOMAIN entry.calls /\ e.calls[c] = entry.calls[c]
      BY <1>4 DEF KeepsCalls
    <3> QED BY <3>1 DEF EndsTold
  <2> QED BY <1>4, <2>1, <2>2, EndsOfEnd DEF ToolEnds, EndRecorded
<1>5. \/ ToolRuns(i) /\ (UNCHANGED entry \/ entry' = StartAgentRun(entry, i))
      \/ ToolEnds(i) /\ EndRecorded(i, entry)
      \/ ToolEnds(i) /\ EndRecorded(i, RecordSubagent(entry, i))
  BY <1>1, ToolStepIs
<1>6. CASE ToolEnds(i) /\ EndRecorded(i, entry)
  <2>1. PICK e : e = entry
    OBVIOUS
  <2> QED BY <1>4, <1>6, <2>1
<1>7. CASE ToolEnds(i) /\ EndRecorded(i, RecordSubagent(entry, i))
  <2>1. PICK e : e = RecordSubagent(entry, i)
    OBVIOUS
  <2> QED BY <1>2, <1>4, <1>7, <2>1
<1> QED BY <1>3, <1>5, <1>6, <1>7

(* Storing an output ends no call.                                         *)
LEMMA EndsOfOutput ==
  ASSUME TurnKept, EndsTold(entry), NEW i \in Calls, OutputStep(i)
  PROVE  EndsTold(entry)'
<1>1. UNCHANGED entry /\ OutputGoes(i)
  BY OutputMoves DEF OutputStep, StoreOutput, StoreFails, TurnKept
<1> QED BY <1>1, EndsOfMove DEF OutputGoes, Open

(* An append ends no call; the end it records has come.                    *)
LEMMA EndsOfAppend ==
  ASSUME TurnKept, EndsTold(entry), NEW k \in Appends, AppendStep(k)
  PROVE  EndsTold(entry)'
<1>i. PICK i : i = feed[1].call
  OBVIOUS
<1>1. TurnInv /\ FeedOnce /\ EntrySound(entry)
  BY DEF TurnKept, TurnTold, MessageTyped
<1>2. /\ 1 \in 1..Len(feed) /\ i \in Calls
      /\ AppendEnds({}) \/ AppendEnds({feed[1].type})
      /\ \/ UNCHANGED entry
         \/ entry' = RecordToolCallEnd(entry, 0, feed[1].corr)
  BY <1>i, <1>1, AppendStepIs
<1>3. CallMoves(i) /\ calls'[i].at = IF feed[1].type = "call" THEN "queued" ELSE "done"
  BY <1>i, <1>2 DEF AppendEnds
<1>4. /\ feed[1].type \in {"call", "result"}
      /\ feed[1].type = "call" => calls[i].at = "calling"
      /\ calls[i].at \in {"calling", "stored", "reporting"}
      /\ feed[1].corr = calls[i].corr /\ calls[i].run = 0
      /\ feed[1].type = "result" => calls[i].at \in {"stored", "reporting"}
  BY <1>i, <1>1, <1>2, FeedHolds DEF FeedOnce
<1>5. CASE UNCHANGED entry
  BY <1>3, <1>4, <1>5, EndsOfMove DEF Open
<1>6. CASE entry' = RecordToolCallEnd(entry, 0, feed[1].corr)
  <2>1. PICK e : e = entry
    OBVIOUS
  <2>2. EntrySound(e) /\ EndsTold(e) /\ entry' = RecordToolCallEnd(e, calls[i].run, calls[i].corr)
    BY <1>1, <1>4, <1>6, <2>1
  <2> QED BY <1>3, <2>2, EndsOfEnd
<1> QED BY <1>2, <1>5, <1>6

(* What the entry tells of ended calls stays so. *)
LEMMA EndsStep ==
  ASSUME TurnKept, EndsTold(entry), [Next]_vars
  PROVE  EndsTold(entry)'
<1>1. CASE AgentStep
  BY <1>1, EndsOfRun, EndsOfAsk, EndsOfTool, EndsOfOutput, EndsOfAppend DEF AgentStep
<1>2. CASE MessageStep
  <2>1. EntrySound(entry) /\ TurnInv
    BY DEF TurnKept, MessageTyped
  <2>2. UNCHANGED calls /\ OfRun(0)' = OfRun(0)
    BY <1>2, MessageStepIs DEF OfRun
  <2>3. CASE UNCHANGED entry \/ KeepsCalls(entry, entry')
    <3>1. \A c \in DOMAIN entry'.calls : c \in DOMAIN entry.calls /\ entry'.calls[c] = entry.calls[c]
      BY <2>3 DEF KeepsCalls
    <3> QED BY <2>2, <3>1 DEF EndsTold
  <2>4. CASE Start \/ Export \/ ExportFails
    <3>1. DOMAIN entry'.calls = {}
      <4>1. entry' = NoEntry \/ entry' = [NoEntry EXCEPT !.held = TRUE, !.known = TRUE]
        BY <2>4 DEF Start, Export, ExportFails, EntryAfterExport
      <4> QED BY <4>1, NoEntryIs DEF NoEntry
    <3> QED BY <3>1 DEF EndsTold
  <2> QED BY <1>2, <2>1, <2>3, <2>4, MessageEntry
<1>3. CASE Crash
  <2>1. OfRun(0)' = {}
    BY <1>3 DEF Crash, OfRun
  <2> QED BY <2>1 DEF EndsTold
<1>4. CASE UNCHANGED vars
  BY <1>4 DEF vars, agent, EndsTold, OfRun
<1> QED BY <1>1, <1>2, <1>3, <1>4, TwoKinds

-----------------------------------------------------------------------------
(* What the entry tells of the whole turn. *)

(* The calls of a run, as f tells them. *)
Records(f, r) ==
  /\ DOMAIN f = 1..Cardinality(OfRun(r))
  /\ \A i \in OfRun(r) : f[calls[i].corr] = IF calls[i].at \in Open THEN "open" ELSE "ended"

RunCalls(e, r) == IF r = 0 THEN e.calls ELSE CallsOf(e, r)

TellsTurn(e) ==
  /\ e \in Entries /\ e.held /\ e.known
  /\ \A r \in Runs : Records(RunCalls(e, r), r)
  /\ \A r \in Runs : r # 0 => (r \in DOMAIN e.runs <=> phase[r] # "off")
  /\ \A r \in Runs : r # 0 /\ phase[r] # "off" /\ calls[r].at # "running" => DoneOf(e, r)
  /\ phase[0] = "ok" => DoneOf(e, 0)

(* The record of a run whose calls stay as open as they are. *)
LEMMA RecordsRest ==
  ASSUME NEW f, NEW r, Records(f, r), OfRun(r)' = OfRun(r),
         \A j \in OfRun(r) : calls'[j].corr = calls[j].corr
                             /\ (calls'[j].at \in Open <=> calls[j].at \in Open)
  PROVE  Records(f, r)'
BY DEF Records

(* Correlations of a run tell its calls apart, and are numbers from one.   *)
LEMMA CorrelationsApart ==
  ASSUME TurnInv, CorrelationsCover, NEW r \in Runs
  PROVE  /\ Cardinality(OfRun(r)) \in Nat
         /\ \A i, j \in OfRun(r) : calls[i].corr = calls[j].corr => i = j
         /\ \A i \in OfRun(r) : calls[i].corr \in 1..Cardinality(OfRun(r))
         /\ \A c \in 1..Cardinality(OfRun(r)) : \E i \in OfRun(r) : calls[i].corr = c
<1>1. CorrelationsInOrder /\ Len(calls) \in Nat /\ \A i \in Calls : calls[i].corr \in Nat
  BY ElementsTyped DEF TurnInv
<1>2. Cardinality(OfRun(r)) \in Nat
  <2>1. 0 \in Nat /\ Len(calls) + 0 <= MaxCalls
    BY <1>1 DEF TurnInv, AgentTyped
  <2> QED BY <2>1, AskedBounded
<1>3. \A i : i \in OfRun(r) => i \in Calls /\ i \in Nat /\ calls[i].run = r
  BY DEF OfRun, Calls
<1>4. ASSUME NEW i \in OfRun(r), NEW j \in OfRun(r), calls[i].corr = calls[j].corr PROVE i = j
  <2>1. /\ i < j => calls[i].corr < calls[j].corr
        /\ j < i => calls[j].corr < calls[i].corr
    BY <1>1, <1>3 DEF CorrelationsInOrder
  <2>2. i \in Nat /\ j \in Nat /\ calls[i].corr \in Nat
    BY <1>1, <1>3
  <2> QED BY <1>4, <2>1, <2>2
<1>5. ASSUME NEW i \in OfRun(r) PROVE calls[i].corr \in 1..Cardinality(OfRun(r))
  <2>1. calls[i].corr \in Nat /\ calls[i].corr # 0
    BY <1>1, <1>3 DEF CorrelationsCover
  <2>2. calls[i].corr <= Cardinality(OfRun(r))
    BY <1>1, <1>3 DEF CorrelationsInOrder
  <2> QED BY <1>2, <2>1, <2>2
<1>6. \A c \in 1..Cardinality(OfRun(r)) : \E i \in OfRun(r) : calls[i].corr = c
  BY DEF CorrelationsCover
<1> QED BY <1>2, <1>4, <1>5, <1>6

(* Call i has ended, and is told so. *)
LEMMA RecordsEnd ==
  ASSUME TurnInv, CorrelationsCover, NEW i, CallMoves(i), calls'[i].at \notin Open,
         NEW r, r = calls[i].run, NEW c, c = calls[i].corr, NEW f, Records(f, r)
  PROVE  Records(Merge([x \in {c} |-> "ended"], f), r)'
<1> DEFINE recs == [x \in {c} |-> "ended"]
           g == Merge(recs, f)
<1>1. r \in Runs /\ i \in OfRun(r)
  BY ElementsTyped DEF CallMoves, TurnInv, OfRun, Calls
<1>2. /\ \A j, k \in OfRun(r) : calls[j].corr = calls[k].corr => j = k
      /\ c \in 1..Cardinality(OfRun(r))
      /\ \A j \in OfRun(r) : calls[j].corr \in 1..Cardinality(OfRun(r))
  BY <1>1, CorrelationsApart
<1>3. /\ DOMAIN f = 1..Cardinality(OfRun(r))
      /\ \A j \in OfRun(r) : f[calls[j].corr] = IF calls[j].at \in Open THEN "open" ELSE "ended"
  BY DEF Records
<1>4. DOMAIN recs = {c} /\ recs[c] = "ended"
  OBVIOUS
<1> HIDE DEF recs
<1>5. /\ DOMAIN g = DOMAIN recs \cup DOMAIN f
      /\ \A x \in DOMAIN recs : g[x] = recs[x]
      /\ \A x \in DOMAIN f : x \notin DOMAIN recs => g[x] = f[x]
  BY MergeIs
<1> HIDE DEF g
<1>6. /\ OfRun(r)' = OfRun(r) /\ \A j \in OfRun(r) : j \in Calls
      /\ \A j \in Calls : calls'[j].corr = calls[j].corr /\ (j # i => calls'[j] = calls[j])
  BY DEF CallMoves, OfRun, Calls
<1>7. DOMAIN g = 1..Cardinality(OfRun(r))
  BY <1>2, <1>3, <1>4, <1>5
<1>8. ASSUME NEW j \in OfRun(r)
       PROVE  g[calls'[j].corr] = IF calls'[j].at \in Open THEN "open" ELSE "ended"
  <2>1. CASE j = i
    BY <1>4, <1>5, <1>6, <2>1
  <2>2. CASE j # i
    <3>1. calls[j].corr # c /\ calls[j].corr \in DOMAIN f
      BY <1>1, <1>2, <1>3, <2>2
    <3>2. g[calls[j].corr] = f[calls[j].corr]
      BY <1>4, <1>5, <3>1
    <3> QED BY <1>3, <1>6, <2>2, <3>2
  <2> QED BY <2>1, <2>2
<1>9. Records(g, r)'
  BY <1>6, <1>7, <1>8 DEF Records
<1> QED BY <1>9 DEF recs, g

(* New calls are open, and are told so. *)
LEMMA RecordsAsk ==
  ASSUME TurnInv, CorrelationsCover, NEW r \in Runs, NEW n \in Nat, CallsAsked(r, n),
         NEW S, S = AskedCorrs(r, n), NEW f, Records(f, r)
  PROVE  Records(Merge([x \in S |-> "open"], f), r)'
<1> DEFINE recs == [x \in S |-> "open"]
           g == Merge(recs, f)
<1>1. AgentTyped /\ CallsFollow(r, n) /\ CorrelationsInOrder
  BY DEF TurnInv, CallsAsked
<1>2. PICK C : C = Cardinality(OfRun(r))
  OBVIOUS
<1>3. /\ C \in Nat /\ Cardinality(OfRun(r)') = C + n
      /\ \A j \in Calls : j \in Calls' /\ calls'[j] = calls[j]
      /\ \A j \in Calls' : j \in Calls \/ \E k \in 1..n : j = Len(calls) + k
      /\ \A k \in 1..n : /\ calls'[Len(calls) + k].run = r
                         /\ calls'[Len(calls) + k].corr = C + k
                         /\ calls'[Len(calls) + k].at \in {"calling", "queued"}
  BY <1>1, <1>2, RunGrows DEF CallsFollow
<1>4. /\ DOMAIN f = 1..C
      /\ \A j \in OfRun(r) : f[calls[j].corr] = IF calls[j].at \in Open THEN "open" ELSE "ended"
  BY <1>2 DEF Records
<1>5. S = {C + k : k \in 1..n} /\ DOMAIN recs = S /\ \A c \in S : recs[c] = "open"
  BY <1>2 DEF AskedCorrs
<1> HIDE DEF recs
<1>6. /\ DOMAIN g = DOMAIN recs \cup DOMAIN f
      /\ \A x \in DOMAIN recs : g[x] = recs[x]
      /\ \A x \in DOMAIN f : x \notin DOMAIN recs => g[x] = f[x]
  BY MergeIs
<1> HIDE DEF g
<1>7. /\ \A j : j \in OfRun(r) <=> j \in Calls /\ calls[j].run = r
      /\ \A j : j \in OfRun(r)' <=> j \in Calls' /\ calls'[j].run = r
  BY DEF OfRun, Calls
<1>8. DOMAIN g = 1..(C + n)
  <2>1. \A c \in 1..(C + n) : c \in 1..C \/ c \in S
    <3> SUFFICES ASSUME NEW c \in 1..(C + n), c \notin 1..C PROVE c \in S
      OBVIOUS
    <3>1. c - C \in 1..n /\ C + (c - C) = c
      BY <1>3
    <3> QED BY <1>5, <3>1
  <2>2. \A c \in S : c \in 1..(C + n)
    BY <1>3, <1>5
  <2>3. \A c \in 1..C : c \in 1..(C + n)
    BY <1>3
  <2>4. DOMAIN g = S \cup 1..C
    BY <1>4, <1>5, <1>6
  <2> QED BY <2>1, <2>2, <2>3, <2>4
<1>9. ASSUME NEW j \in OfRun(r)'
      PROVE  g[calls'[j].corr] = IF calls'[j].at \in Open THEN "open" ELSE "ended"
  <2>1. CASE j \in Calls
    <3>1. j \in OfRun(r) /\ calls'[j] = calls[j]
      BY <1>3, <1>7, <2>1
    <3>2. calls[j].corr \in Nat /\ calls[j].corr <= C
      BY <1>1, <1>2, <1>7, <3>1, ElementsTyped DEF CorrelationsInOrder
    <3>3. calls[j].corr \notin S
      BY <1>3, <1>5, <3>2
    <3>4. calls[j].corr \in DOMAIN f
      BY <1>2, <1>4, <3>1, CorrelationsApart
    <3> QED BY <1>4, <1>5, <1>6, <3>1, <3>3, <3>4
  <2>2. CASE j \notin Calls
    <3>1. PICK k \in 1..n : j = Len(calls) + k
      BY <1>3, <1>7, <2>2
    <3>2. calls'[j].corr = C + k /\ calls'[j].at \in Open
      BY <1>3, <3>1 DEF Open
    <3> QED BY <1>5, <1>6, <3>2
  <2> QED BY <2>1, <2>2
<1>10. Records(g, r)'
  BY <1>3, <1>8, <1>9 DEF Records
<1> QED BY <1>10 DEF recs, g

(* What a recording about run r does to an entry that tells of the turn.   *)
Known(e) == e \in Entries /\ e.held /\ e.known
Tells(e, f, r) ==
  /\ Known(f) /\ DOMAIN f.runs = DOMAIN e.runs \cup {r}
  /\ \A x \in Runs : x # r => RunCalls(f, x) = RunCalls(e, x)
  /\ \A x \in Runs : DoneOf(e, x) => DoneOf(f, x)

(* A recording finds the entry that was started as it is.                  *)
LEMMA KnownState ==
  ASSUME NEW e, Known(e)
  PROVE  State(e) = e
BY DEF Known, State

(* A recording about one run tells of the others what was told.            *)
LEMMA MoreTells ==
  ASSUME NEW e, NEW f, NEW r, Known(e), TellsMore(e, f, r),
         DoneOf(e, r) => DoneOf(f, r), r = 0 \/ f.calls = e.calls
  PROVE  Tells(e, f, r)
BY DEF Known, TellsMore, Same, Tells, RunCalls

(* What a recording of calls tells of their run.                           *)
LEMMA RecordedTells ==
  ASSUME NEW e, Known(e), NEW r \in Runs, NEW recs \in CallTells, NEW f, f = Recorded(e, r, recs)
  PROVE  Tells(e, f, r) /\ RunCalls(f, r) = Merge(recs, RunCalls(e, r))
<1>1. e \in Entries /\ e.known /\ State(e) = e
  BY KnownState DEF Known
<1>2. /\ TellsMore(State(e), f, r)
      /\ CallsOf(f, r) = Merge(recs, CallsOf(State(e), r)) /\ DoneOf(f, r) = DoneOf(State(e), r)
      /\ r # 0 \/ ~State(e).known => f.calls = State(e).calls
      /\ r = 0 /\ State(e).known => f.calls = Merge(recs, State(e).calls)
  BY <1>1, RecordedIs
<1>3. Tells(e, f, r)
  BY <1>1, <1>2, MoreTells
<1> QED BY <1>1, <1>2, <1>3 DEF RunCalls

(* What the start of a run tells of it and of the others.                  *)
LEMMA StartTells ==
  ASSUME NEW e, Known(e), NEW r \in Runs, NEW f, f = StartAgentRun(e, r)
  PROVE  /\ Known(f) /\ DOMAIN f.runs = DOMAIN e.runs \cup {r}
         /\ \A x \in Runs : x # r => RunCalls(f, x) = RunCalls(e, x) /\ DoneOf(f, x) = DoneOf(e, x)
         /\ r = 0 => RunCalls(f, r) = RunCalls(e, r)
         /\ r # 0 => RunCalls(f, r) = <<>>
<1>1. e \in Entries /\ State(e) = e
  BY KnownState DEF Known
<1>2. /\ TellsMore(State(e), f, r) /\ f.calls = State(e).calls
      /\ CallsOf(f, r) = <<>> /\ ~DoneOf(f, r)
  BY <1>1, StartRunIs
<1>3. TellsMore(e, f, r) /\ f.calls = e.calls /\ CallsOf(f, r) = <<>>
  BY <1>1, <1>2
<1> QED BY <1>3 DEF TellsMore, Same, RunCalls, Known

(* The usage of a run tells nothing of its calls.                          *)
LEMMA UsageTells ==
  ASSUME NEW e, Known(e), NEW r \in Runs, NEW f, f = RecordUsage(e, r)
  PROVE  Tells(e, f, r) /\ RunCalls(f, r) = RunCalls(e, r)
<1>1. e \in Entries /\ State(e) = e
  BY KnownState DEF Known
<1>2. /\ TellsMore(State(e), f, r) /\ f.calls = State(e).calls
      /\ CallsOf(f, r) = CallsOf(State(e), r) /\ DoneOf(f, r) = DoneOf(State(e), r)
  BY <1>1, UsageIs
<1> QED BY <1>1, <1>2, MoreTells DEF RunCalls

(* The report of a subagent tells that its run is done.                    *)
LEMMA SubagentTells ==
  ASSUME NEW e, Known(e), NEW r \in Runs, NEW f, f = RecordSubagent(e, r)
  PROVE  Tells(e, f, r) /\ RunCalls(f, r) = RunCalls(e, r) /\ DoneOf(f, r)
<1>1. e \in Entries /\ State(e) = e
  BY KnownState DEF Known
<1>2. /\ TellsMore(State(e), f, r) /\ f.calls = State(e).calls
      /\ CallsOf(f, r) = CallsOf(State(e), r) /\ DoneOf(f, r)
  BY <1>1, SubagentIs
<1> QED BY <1>1, <1>2, MoreTells DEF RunCalls

(* The end of a run tells that it is done.                                 *)
LEMMA FinishTells ==
  ASSUME NEW e, Known(e), NEW r \in Runs, NEW f, f = FinishAgentRun(e, r)
  PROVE  /\ Known(f) /\ DOMAIN f.runs = DOMAIN e.runs
         /\ \A x \in Runs : RunCalls(f, x) = RunCalls(e, x) /\ (DoneOf(e, x) => DoneOf(f, x))
         /\ r \in DOMAIN e.runs => DoneOf(f, r)
<1>1. e \in Entries /\ State(e) = e /\ e.held /\ e.known
  BY KnownState DEF Known
<1>2. /\ f \in Entries /\ Same(State(e), f) /\ f.calls = State(e).calls
      /\ DOMAIN f.runs = DOMAIN State(e).runs
      /\ \A x \in Runs : /\ CallsOf(f, x) = CallsOf(State(e), x)
                         /\ DoneOf(State(e), x) => DoneOf(f, x)
      /\ r \in DOMAIN State(e).runs => DoneOf(f, r)
  BY <1>1, FinishIs
<1> QED BY <1>1, <1>2 DEF Known, Same, RunCalls

(* An entry tells of the turn when it does so after the step.              *)
LEMMA TellsGo ==
  ASSUME NEW e, NEW f, TellsTurn(e), Known(f),
         \A x \in Runs : Records(RunCalls(f, x), x)',
         \A x \in Runs : x # 0 => (x \in DOMAIN f.runs <=> phase'[x] # "off"),
         \A x \in Runs : x # 0 /\ phase'[x] # "off" /\ calls'[x].at # "running" => DoneOf(f, x),
         phase'[0] = "ok" => DoneOf(f, 0)
  PROVE  TellsTurn(f)'
BY DEF TellsTurn, Known

(* What a new entry tells of the turn, the entry tells that is it.         *)
LEMMA TellsNow ==
  ASSUME NEW f, f = entry', TellsTurn(f)'
  PROVE  TellsTurn(entry)'
BY DEF TellsTurn

(* A step of a run is told.                                                *)
LEMMA TellsOfRun ==
  ASSUME TurnKept, TellsTurn(entry), NEW r \in Runs, RunStep(r)
  PROVE  TellsTurn(entry)'
<1>1. PICK e : e = entry
  OBVIOUS
<1>2. PICK f : f = entry'
  OBVIOUS
<1>3. PICK u : u = RecordUsage(e, r)
  OBVIOUS
<1>4. TurnInv /\ phase \in [Runs -> Phases] /\ 0 \in Runs
  BY ElementsTyped DEF TurnKept, TurnInv, AgentTyped
<1>5. UNCHANGED calls /\ phase[r] \in Begun
  BY <1>4, RunStepIs
<1>6. PICK p \in {"aborted", "generating", "failed", "ok"} :
        /\ phase' = [phase EXCEPT ![r] = p]
        /\ \/ UNCHANGED entry /\ p # "ok"
           \/ entry' = FinishAgentRun(entry, r) /\ p # "ok"
           \/ entry' = FinishAgentRun(RecordUsage(entry, r), r)
  BY <1>4, RunStepIs
<1>7. \A x \in Runs : phase'[x] = IF x = r THEN p ELSE phase[x]
  BY <1>4, <1>6
<1>8. /\ Known(e)
      /\ \A x \in Runs : Records(RunCalls(e, x), x)
      /\ \A x \in Runs : x # 0 => (x \in DOMAIN e.runs <=> phase[x] # "off")
      /\ \A x \in Runs : x # 0 /\ phase[x] # "off" /\ calls[x].at # "running" => DoneOf(e, x)
      /\ phase[0] = "ok" => DoneOf(e, 0)
  BY <1>1 DEF TellsTurn, Known
<1>9. /\ Known(f)
      /\ \A x \in Runs : RunCalls(f, x) = RunCalls(e, x) /\ (DoneOf(e, x) => DoneOf(f, x))
      /\ DOMAIN f.runs = DOMAIN e.runs \/ DOMAIN f.runs = DOMAIN e.runs \cup {r}
      /\ p = "ok" => DoneOf(f, r)
  <2>1. CASE f = e /\ p # "ok"
    BY <1>8, <2>1
  <2>2. CASE f = FinishAgentRun(e, r) /\ p # "ok"
    BY <1>8, <2>2, FinishTells
  <2>3. CASE f = FinishAgentRun(u, r)
    <3>1. Tells(e, u, r) /\ RunCalls(u, r) = RunCalls(e, r)
      BY <1>3, <1>8, UsageTells
    <3>2. Known(u) /\ r \in DOMAIN u.runs
      BY <3>1 DEF Tells
    <3>3. /\ Known(f) /\ DOMAIN f.runs = DOMAIN u.runs
          /\ \A x \in Runs : RunCalls(f, x) = RunCalls(u, x) /\ (DoneOf(u, x) => DoneOf(f, x))
          /\ DoneOf(f, r)
      BY <2>3, <3>2, FinishTells
    <3> QED BY <3>1, <3>3 DEF Tells
  <2> QED BY <1>1, <1>2, <1>3, <1>6, <2>1, <2>2, <2>3
<1>10. \A x \in Runs : Records(RunCalls(f, x), x)'
  <2> SUFFICES ASSUME NEW x \in Runs PROVE Records(RunCalls(f, x), x)'
    OBVIOUS
  <2>1. PICK g : g = RunCalls(f, x)
    OBVIOUS
  <2>2. Records(g, x) /\ OfRun(x)' = OfRun(x)
    BY <1>5, <1>8, <1>9, <2>1 DEF OfRun
  <2>3. Records(g, x)'
    BY <1>5, <2>2, RecordsRest
  <2> QED BY <2>1, <2>3
<1>11. \A x \in Runs : x # 0 => (x \in DOMAIN f.runs <=> phase'[x] # "off")
  BY <1>5, <1>7, <1>8, <1>9 DEF Begun
<1>12. \A x \in Runs : x # 0 /\ phase'[x] # "off" /\ calls'[x].at # "running" => DoneOf(f, x)
  BY <1>5, <1>7, <1>8, <1>9 DEF Begun
<1>13. phase'[0] = "ok" => DoneOf(f, 0)
  BY <1>4, <1>7, <1>8, <1>9
<1>14. TellsTurn(f)'
  BY <1>1, <1>9, <1>10, <1>11, <1>12, <1>13, TellsGo
<1> QED BY <1>2, <1>14, TellsNow

(* Call i has ended, and its run and the entry know. *)
LEMMA TellsOfEnd ==
  ASSUME TurnKept, NEW i, CallMoves(i), calls'[i].at \notin Open, UNCHANGED phase,
         NEW e, TellsTurn(e), NEW g, Known(g), DOMAIN g.runs = DOMAIN e.runs,
         \A x \in Runs : RunCalls(g, x) = RunCalls(e, x) /\ (DoneOf(e, x) => DoneOf(g, x)),
         calls[i].at = "running" /\ phase[i] # "off" => DoneOf(g, i),
         NEW r, r = calls[i].run, NEW c, c = calls[i].corr,
         NEW f, f = RecordToolCallEnd(g, r, c)
  PROVE  TellsTurn(f)'
<1>1. /\ TurnInv /\ CorrelationsCover /\ RunsBegun
      /\ i \in Calls /\ r \in Runs /\ c \in Corrs /\ i \in Runs /\ phase \in [Runs -> Phases]
  BY ElementsTyped, CorrelationsBounded DEF TurnKept, TurnInv, AgentTyped, TurnTold, CallMoves
<1> DEFINE recs == [x \in {c} |-> "ended"]
<1>2. recs \in CallTells
  <2>1. recs \in [{c} -> {"open", "ended"}] /\ {c} \in SUBSET Corrs
    BY <1>1
  <2> QED BY <2>1, CallTellsAre
<1>3. f = Recorded(g, r, recs)
  BY DEF RecordToolCallEnd
<1> HIDE DEF recs
<1>4. Tells(g, f, r) /\ RunCalls(f, r) = Merge(recs, RunCalls(g, r))
  BY <1>1, <1>2, <1>3, RecordedTells
<1>5. /\ \A j \in Calls : calls'[j].corr = calls[j].corr /\ (j # i => calls'[j] = calls[j])
      /\ \A x : OfRun(x)' = OfRun(x)
  BY DEF CallMoves
<1>6. \A x, j : j \in OfRun(x) => j \in Calls /\ calls[j].run = x
  BY DEF OfRun, Calls
<1>7. \A x \in Runs : Records(RunCalls(e, x), x)
  BY DEF TellsTurn
<1>8. ASSUME NEW x \in Runs PROVE Records(RunCalls(f, x), x)'
  <2>1. CASE x = r
    <3>1. PICK h : h = RunCalls(e, r)
      OBVIOUS
    <3>2. Records(h, r)
      BY <1>1, <1>7, <3>1
    <3>3. Records(Merge([y \in {c} |-> "ended"], h), r)'
      BY <1>1, <3>2, RecordsEnd
    <3>4. RunCalls(f, x) = Merge([y \in {c} |-> "ended"], h)
      BY <1>1, <1>4, <2>1, <3>1 DEF recs
    <3> QED BY <2>1, <3>3, <3>4
  <2>2. CASE x # r
    <3>1. PICK h : h = RunCalls(f, x)
      OBVIOUS
    <3>2. h = RunCalls(e, x)
      BY <1>4, <2>2, <3>1 DEF Tells
    <3>3. Records(h, x)
      BY <1>7, <3>2
    <3>4. \A j \in OfRun(x) : calls'[j].corr = calls[j].corr
            /\ (calls'[j].at \in Open <=> calls[j].at \in Open)
      BY <1>5, <1>6, <2>2
    <3>5. Records(h, x)'
      BY <1>5, <3>3, <3>4, RecordsRest
    <3> QED BY <3>1, <3>5
  <2> QED BY <2>1, <2>2
<1>9. /\ Known(f) /\ DOMAIN f.runs = DOMAIN e.runs \cup {r}
      /\ \A x \in Runs : DoneOf(g, x) => DoneOf(f, x)
  BY <1>4 DEF Tells
<1>10. /\ \A x \in Runs : x # 0 => (x \in DOMAIN e.runs <=> phase[x] # "off")
       /\ \A x \in Runs : x # 0 /\ phase[x] # "off" /\ calls[x].at # "running" => DoneOf(e, x)
       /\ phase[0] = "ok" => DoneOf(e, 0)
  BY DEF TellsTurn
<1>11. \A x \in Runs : x # 0 => (x \in DOMAIN f.runs <=> phase'[x] # "off")
  <2>1. phase[r] # "off"
    BY <1>1 DEF RunsBegun
  <2> QED BY <1>9, <1>10, <2>1
<1>12. ASSUME NEW x \in Runs, x # 0, phase'[x] # "off", calls'[x].at # "running"
       PROVE  DoneOf(f, x)
  <2>1. x \in Calls /\ phase[x] # "off"
    BY <1>1, <1>12 DEF RunsBegun
  <2>2. CASE x = i
    BY <1>9, <1>10, <1>12, <2>1, <2>2
  <2>3. CASE x # i
    BY <1>5, <1>9, <1>10, <1>12, <2>1, <2>3
  <2> QED BY <2>2, <2>3
<1>13. phase'[0] = "ok" => DoneOf(f, 0)
  <2>1. 0 \in Runs
    BY <1>1, ElementsTyped DEF TurnInv
  <2> QED BY <1>9, <1>10, <2>1
<1>14. Known(f)
  BY <1>9
<1> QED BY <1>8, <1>11, <1>12, <1>13, <1>14, TellsGo

(* Call i moves, is as open as it was, and the run it is, if any, is known. *)
LEMMA TellsOfMove ==
  ASSUME TurnKept, NEW i, CallMoves(i), calls'[i].at \in Open <=> calls[i].at \in Open,
         NEW e, TellsTurn(e), NEW f, Known(f),
         \A x \in Runs : RunCalls(f, x) = RunCalls(e, x),
         \A x \in Runs : x # i /\ DoneOf(e, x) => DoneOf(f, x),
         \A x \in Runs : x # 0 => (x \in DOMAIN f.runs <=> phase'[x] # "off"),
         \A x \in Runs : x # i => phase'[x] = phase[x],
         phase'[i] # "off" /\ calls'[i].at # "running" => DoneOf(f, i)
  PROVE  TellsTurn(f)'
<1>1. /\ TurnInv /\ RunsBegun /\ i \in Calls /\ i \in Runs /\ i # 0 /\ 0 \in Runs
  BY ElementsTyped DEF TurnKept, TurnInv, TurnTold, CallMoves
<1>2. /\ \A j \in Calls : calls'[j].corr = calls[j].corr /\ (j # i => calls'[j] = calls[j])
      /\ \A x : OfRun(x)' = OfRun(x)
  BY DEF CallMoves
<1>3. \A x, j : j \in OfRun(x) => j \in Calls
  BY DEF OfRun, Calls
<1>4. /\ \A x \in Runs : Records(RunCalls(e, x), x)
      /\ \A x \in Runs : x # 0 /\ phase[x] # "off" /\ calls[x].at # "running" => DoneOf(e, x)
      /\ phase[0] = "ok" => DoneOf(e, 0)
  BY DEF TellsTurn
<1>5. ASSUME NEW x \in Runs PROVE Records(RunCalls(f, x), x)'
  <2>1. PICK h : h = RunCalls(f, x)
    OBVIOUS
  <2>2. Records(h, x)
    BY <1>4, <2>1
  <2>3. \A j \in OfRun(x) : calls'[j].corr = calls[j].corr
          /\ (calls'[j].at \in Open <=> calls[j].at \in Open)
    BY <1>2, <1>3
  <2>4. Records(h, x)'
    BY <1>2, <2>2, <2>3, RecordsRest
  <2> QED BY <2>1, <2>4
<1>6. ASSUME NEW x \in Runs, x # 0, phase'[x] # "off", calls'[x].at # "running"
      PROVE  DoneOf(f, x)
  <2>1. CASE x = i
    BY <1>6, <2>1
  <2>2. CASE x # i
    <3>1. phase[x] # "off"
      BY <1>6, <2>2
    <3>2. x \in Calls
      BY <1>1, <1>6, <3>1 DEF RunsBegun
    <3> QED BY <1>2, <1>4, <1>6, <2>2, <3>1, <3>2
  <2> QED BY <2>1, <2>2
<1>7. phase'[0] = "ok" => DoneOf(f, 0)
  BY <1>1, <1>4
<1> QED BY <1>5, <1>6, <1>7, TellsGo

(* A step of a tool call is told.                                          *)
LEMMA TellsOfTool ==
  ASSUME TurnKept, TellsTurn(entry), NEW i \in Calls, ToolStep(i)
  PROVE  TellsTurn(entry)'
<1>1. PICK e : e = entry
  OBVIOUS
<1>2. PICK f : f = entry'
  OBVIOUS
<1>3. /\ TurnInv /\ RunsBegun /\ i \in Runs /\ i # 0 /\ calls[i].kind \in {"tool", "subagent"}
      /\ phase \in [Runs -> Phases]
  BY ElementsTyped DEF TurnKept, TurnInv, TurnTold, CallRecords, AgentTyped
<1>4. TellsTurn(e) /\ Known(e)
  BY <1>1 DEF TellsTurn, Known
<1>5. \A x \in Runs : x # 0 => (x \in DOMAIN e.runs <=> phase[x] # "off")
  BY <1>4 DEF TellsTurn
<1>6. phase[i] # "off" => calls[i].kind = "subagent" /\ calls[i].at \notin {"calling", "queued"}
  BY <1>3 DEF RunsBegun
<1>7. CASE /\ ToolRuns(i)
           /\ calls[i].kind = "tool" => UNCHANGED entry
           /\ calls[i].kind = "subagent" => entry' = StartAgentRun(entry, i)
  <2>1. CallMoves(i) /\ calls[i].at = "queued" /\ calls'[i].at = "running"
    BY <1>7 DEF ToolRuns
  <2>2. phase[i] = "off"
    BY <1>6, <2>1
  <2>3. CASE calls[i].kind = "tool"
    <3>1. f = e /\ UNCHANGED phase
      BY <1>1, <1>2, <1>7, <2>3 DEF ToolRuns
    <3>2. TellsTurn(f)'
      BY <1>4, <1>5, <2>1, <2>2, <3>1, TellsOfMove DEF Open
    <3> QED BY <1>2, <3>2, TellsNow
  <2>4. CASE calls[i].kind = "subagent"
    <3>1. f = StartAgentRun(e, i) /\ phase' = [phase EXCEPT ![i] = "target"]
      BY <1>1, <1>2, <1>7, <2>4 DEF ToolRuns
    <3>2. /\ Known(f) /\ DOMAIN f.runs = DOMAIN e.runs \cup {i}
          /\ \A x \in Runs : x # i => RunCalls(f, x) = RunCalls(e, x) /\ DoneOf(f, x) = DoneOf(e, x)
          /\ RunCalls(f, i) = <<>>
      BY <1>3, <1>4, <3>1, StartTells
    <3>3. i \notin DOMAIN e.runs
      BY <1>3, <1>5, <2>2
    <3>4. RunCalls(e, i) = <<>>
      BY <1>3, <3>3 DEF RunCalls, CallsOf
    <3>5. \A x \in Runs : phase'[x] = IF x = i THEN "target" ELSE phase[x]
      BY <1>3, <3>1
    <3>6. \A x \in Runs : RunCalls(f, x) = RunCalls(e, x)
      BY <3>2, <3>4
    <3>7. \A x \in Runs : x # 0 => (x \in DOMAIN f.runs <=> phase'[x] # "off")
      BY <1>5, <3>2, <3>5
    <3>8. calls'[i].at \in Open <=> calls[i].at \in Open
      BY <2>1 DEF Open
    <3>9. TellsTurn(f)'
      BY <1>4, <2>1, <3>2, <3>5, <3>6, <3>7, <3>8, TellsOfMove
    <3> QED BY <1>2, <3>9, TellsNow
  <2> QED BY <1>3, <2>3, <2>4
<1>8. ASSUME ToolEnds(i), NEW g, Known(g), DOMAIN g.runs = DOMAIN e.runs,
             \A x \in Runs : RunCalls(g, x) = RunCalls(e, x) /\ (DoneOf(e, x) => DoneOf(g, x)),
             calls[i].at = "running" /\ phase[i] # "off" => DoneOf(g, i),
             EndRecorded(i, g)
      PROVE  TellsTurn(entry)'
  <2>1. PICK r : r = calls[i].run
    OBVIOUS
  <2>2. PICK c : c = calls[i].corr
    OBVIOUS
  <2>3. f = RecordToolCallEnd(g, r, c)
    BY <1>2, <1>8, <2>1, <2>2 DEF EndRecorded
  <2>4. CallMoves(i) /\ calls'[i].at \notin Open /\ UNCHANGED phase
    BY <1>8 DEF ToolEnds, Open
  <2>5. TellsTurn(f)'
    BY <1>4, <1>8, <2>1, <2>2, <2>3, <2>4, TellsOfEnd
  <2> QED BY <1>2, <2>5, TellsNow
<1>9. CASE /\ ToolEnds(i)
           /\ calls[i].at = "queued" \/ calls[i].kind = "tool"
           /\ EndRecorded(i, entry)
  <2>1. EndRecorded(i, e)
    BY <1>1, <1>9
  <2>2. ~(calls[i].at = "running" /\ phase[i] # "off")
    BY <1>6, <1>9
  <2> QED BY <1>4, <1>8, <1>9, <2>1, <2>2
<1>10. CASE /\ ToolEnds(i)
            /\ calls[i].kind = "subagent" /\ phase[i] \in Over
            /\ EndRecorded(i, RecordSubagent(entry, i))
  <2>1. PICK g : g = RecordSubagent(e, i)
    OBVIOUS
  <2>2. Tells(e, g, i) /\ RunCalls(g, i) = RunCalls(e, i) /\ DoneOf(g, i)
    BY <1>3, <1>4, <2>1, SubagentTells
  <2>3. phase[i] # "off"
    BY <1>10 DEF Over
  <2>4. i \in DOMAIN e.runs
    BY <1>3, <1>5, <2>3
  <2>5. DOMAIN g.runs = DOMAIN e.runs /\ Known(g)
    BY <2>2, <2>4 DEF Tells
  <2>6. \A x \in Runs : RunCalls(g, x) = RunCalls(e, x) /\ (DoneOf(e, x) => DoneOf(g, x))
    BY <2>2 DEF Tells
  <2>7. EndRecorded(i, g)
    BY <1>1, <1>10, <2>1
  <2> QED BY <1>8, <1>10, <2>2, <2>5, <2>6, <2>7
<1> QED BY <1>3, <1>7, <1>9, <1>10, ToolStepIs

(* Storing an output changes nothing that is told.                         *)
LEMMA TellsOfOutput ==
  ASSUME TurnKept, TellsTurn(entry), NEW i \in Calls, OutputStep(i)
  PROVE  TellsTurn(entry)'
<1>1. PICK f : f = entry /\ f = entry'
  BY DEF OutputStep, StoreOutput, StoreFails
<1>2. OutputGoes(i) /\ i \in Runs /\ TurnInv
  BY OutputMoves, ElementsTyped DEF OutputStep, TurnKept, TurnInv
<1>3. /\ CallMoves(i) /\ UNCHANGED phase
      /\ calls[i].at \notin Open /\ calls'[i].at \notin Open
      /\ calls[i].at # "running"
  BY <1>2 DEF OutputGoes, Open
<1>4. TellsTurn(f) /\ Known(f) /\ i # 0
  BY <1>1, ElementsTyped DEF TellsTurn, Known, TurnKept, TurnInv
<1>5. /\ \A x \in Runs : x # 0 => (x \in DOMAIN f.runs <=> phase'[x] # "off")
      /\ phase'[i] # "off" => DoneOf(f, i)
  BY <1>2, <1>3, <1>4 DEF TellsTurn
<1>6. TellsTurn(f)'
  BY <1>3, <1>4, <1>5, TellsOfMove
<1> QED BY <1>1, <1>6, TellsNow

(* An append changes nothing that is told: an end is recorded twice.       *)
LEMMA TellsOfAppend ==
  ASSUME TurnKept, TellsTurn(entry), NEW k \in Appends, AppendStep(k)
  PROVE  TellsTurn(entry)'
<1>1. PICK e : e = entry
  OBVIOUS
<1>2. PICK f : f = entry'
  OBVIOUS
<1>i. PICK i : i = feed[1].call
  OBVIOUS
<1>3. TurnInv /\ FeedOnce /\ TellsTurn(e) /\ Known(e)
  BY <1>1 DEF TurnKept, TurnTold, TellsTurn, Known
<1>4. /\ 1 \in 1..Len(feed) /\ i \in Calls /\ i \in Runs /\ i # 0
      /\ AppendEnds({}) \/ AppendEnds({feed[1].type})
      /\ \/ UNCHANGED entry
         \/ calls[i].at = "stored" /\ entry' = RecordToolCallEnd(entry, 0, feed[1].corr)
  BY <1>i, <1>3, AppendStepIs, ElementsTyped DEF TurnInv
<1>5. /\ CallMoves(i) /\ UNCHANGED phase
      /\ calls'[i].at = IF feed[1].type = "call" THEN "queued" ELSE "done"
  BY <1>i, <1>4 DEF AppendEnds
<1>6. /\ feed[1].type \in {"call", "result"}
      /\ feed[1].type = "call" => calls[i].at = "calling"
      /\ feed[1].type = "result" => calls[i].at \in {"stored", "reporting"}
      /\ feed[1].corr = calls[i].corr /\ calls[i].run = 0
  BY <1>i, <1>3, <1>4, FeedHolds DEF FeedOnce
<1>7. CASE UNCHANGED entry
  <2>1. f = e
    BY <1>1, <1>2, <1>7
  <2>2. calls'[i].at \in Open <=> calls[i].at \in Open
    BY <1>5, <1>6 DEF Open
  <2>3. /\ \A x \in Runs : x # 0 => (x \in DOMAIN f.runs <=> phase'[x] # "off")
        /\ phase'[i] # "off" => DoneOf(f, i)
    <3>1. calls[i].at # "running"
      BY <1>6
    <3> QED BY <1>3, <1>4, <1>5, <2>1, <3>1 DEF TellsTurn
  <2>4. TellsTurn(f)'
    BY <1>3, <1>5, <2>1, <2>2, <2>3, TellsOfMove
  <2> QED BY <1>2, <2>4, TellsNow
<1>8. CASE calls[i].at = "stored" /\ entry' = RecordToolCallEnd(entry, 0, feed[1].corr)
  <2>1. PICK r : r = calls[i].run
    OBVIOUS
  <2>2. PICK c : c = calls[i].corr
    OBVIOUS
  <2>3. f = RecordToolCallEnd(e, r, c)
    BY <1>1, <1>2, <1>6, <1>8, <2>1, <2>2
  <2>4. calls'[i].at \notin Open
    BY <1>5, <1>6, <1>8 DEF Open
  <2>5. TellsTurn(f)'
    BY <1>3, <1>5, <1>8, <2>1, <2>2, <2>3, <2>4, TellsOfEnd
  <2> QED BY <1>2, <2>5, TellsNow
<1> QED BY <1>4, <1>7, <1>8

(* The calls of an answer are told.                                        *)
LEMMA TellsOfAsk ==
  ASSUME TurnKept, TellsTurn(entry), NEW r \in Runs, AskStep(r)
  PROVE  TellsTurn(entry)'
<1>1. PICK e : e = entry
  OBVIOUS
<1>2. PICK f : f = entry'
  OBVIOUS
<1>3. TurnInv /\ RunsBegun /\ CorrelationsCover /\ TellsTurn(e) /\ Known(e)
  BY <1>1 DEF TurnKept, TurnTold, TellsTurn, Known
<1>4. PICK n \in Nat : /\ CallsAsked(r, n) /\ AskedCorrs(r, n) \in SUBSET Corrs
                       /\ entry' = RecordToolCallStarts(entry, r, AskedCorrs(r, n))
  BY <1>3, AskStepIs
<1>5. PICK S : S = AskedCorrs(r, n)
  OBVIOUS
<1> DEFINE recs == [x \in S |-> "open"]
<1>6. recs \in CallTells
  <2>1. recs \in [S -> {"open", "ended"}] /\ S \in SUBSET Corrs
    BY <1>4, <1>5
  <2> QED BY <2>1, CallTellsAre
<1>7. f = Recorded(e, r, recs)
  BY <1>1, <1>2, <1>4, <1>5 DEF RecordToolCallStarts
<1> HIDE DEF recs
<1>8. Tells(e, f, r) /\ RunCalls(f, r) = Merge(recs, RunCalls(e, r))
  BY <1>3, <1>6, <1>7, RecordedTells
<1>9. /\ \A j \in Calls : j \in Calls' /\ calls'[j] = calls[j]
      /\ \A x : x # r => OfRun(x)' = OfRun(x)
  <2>1. AgentTyped /\ CallsFollow(r, n)
    BY <1>3, <1>4 DEF TurnInv, CallsAsked
  <2> QED BY <2>1, RunGrows DEF CallsFollow
<1>10. \A x, j : j \in OfRun(x) => j \in Calls
  BY DEF OfRun, Calls
<1>11. /\ \A x \in Runs : Records(RunCalls(e, x), x)
       /\ \A x \in Runs : x # 0 => (x \in DOMAIN e.runs <=> phase[x] # "off")
       /\ \A x \in Runs : x # 0 /\ phase[x] # "off" /\ calls[x].at # "running" => DoneOf(e, x)
       /\ phase[0] = "ok" => DoneOf(e, 0)
  BY <1>3 DEF TellsTurn
<1>12. ASSUME NEW x \in Runs PROVE Records(RunCalls(f, x), x)'
  <2>1. CASE x = r
    <3>1. PICK h : h = RunCalls(e, r)
      OBVIOUS
    <3>2. Records(h, r)
      BY <1>11, <3>1
    <3>3. Records(Merge([y \in S |-> "open"], h), r)'
      BY <1>3, <1>4, <1>5, <3>2, RecordsAsk
    <3>4. RunCalls(f, x) = Merge([y \in S |-> "open"], h)
      BY <1>8, <2>1, <3>1 DEF recs
    <3> QED BY <2>1, <3>3, <3>4
  <2>2. CASE x # r
    <3>1. PICK h : h = RunCalls(f, x)
      OBVIOUS
    <3>2. h = RunCalls(e, x)
      BY <1>8, <2>2, <3>1 DEF Tells
    <3>3. Records(h, x)
      BY <1>11, <3>2
    <3>4. OfRun(x)' = OfRun(x)
      BY <1>9, <2>2
    <3>5. \A j \in OfRun(x) : calls'[j].corr = calls[j].corr
            /\ (calls'[j].at \in Open <=> calls[j].at \in Open)
      BY <1>9, <1>10
    <3>6. Records(h, x)'
      BY <3>3, <3>4, <3>5, RecordsRest
    <3> QED BY <3>1, <3>6
  <2> QED BY <2>1, <2>2
<1>13. UNCHANGED phase /\ phase[r] # "off"
  BY <1>4 DEF CallsAsked
<1>14. /\ Known(f) /\ DOMAIN f.runs = DOMAIN e.runs \cup {r}
       /\ \A x \in Runs : DoneOf(e, x) => DoneOf(f, x)
  BY <1>8 DEF Tells
<1>15. \A x \in Runs : x # 0 => (x \in DOMAIN f.runs <=> phase'[x] # "off")
  BY <1>11, <1>13, <1>14
<1>16. ASSUME NEW x \in Runs, x # 0, phase'[x] # "off", calls'[x].at # "running"
       PROVE  DoneOf(f, x)
  <2>1. x \in Calls
    BY <1>3, <1>13, <1>16 DEF RunsBegun
  <2> QED BY <1>9, <1>11, <1>13, <1>14, <1>16, <2>1
<1>17. phase'[0] = "ok" => DoneOf(f, 0)
  <2>1. 0 \in Runs
    BY <1>3, ElementsTyped DEF TurnInv
  <2> QED BY <1>11, <1>13, <1>14, <2>1
<1>18. TellsTurn(f)'
  BY <1>3, <1>12, <1>14, <1>15, <1>16, <1>17, TellsGo
<1> QED BY <1>2, <1>18, TellsNow

-----------------------------------------------------------------------------
(* The entry, from the start of the message to the export of its trace.    *)

(* The execution and the entry it started are there.                       *)
Tracked == exec \notin {"none", "lost"} /\ status # "cancelled" /\ final.at # "done"

(* A message that no calls were made for yet, as a new entry tells it. *)
LEMMA NewTells ==
  ASSUME TurnInv, exec = "none"
  PROVE  TellsTurn([NoEntry EXCEPT !.held = TRUE, !.known = TRUE])
<1> DEFINE e == [NoEntry EXCEPT !.held = TRUE, !.known = TRUE]
<1>1. calls = <<>> /\ Len(calls) = 0 /\ \A r \in Runs : phase[r] = "off"
  BY DEF TurnInv, RunsNest
<1>2. \A r \in Runs : OfRun(r) = {} /\ Cardinality(OfRun(r)) = 0
  <2>1. \A r \in Runs : OfRun(r) = {}
    BY <1>1 DEF OfRun
  <2> QED BY <2>1, FS_EmptySet
<1>3. e \in Entries /\ e.held /\ e.known /\ e.calls = <<>> /\ e.runs = <<>>
  BY NoEntryIs DEF Entries, NoEntry
<1>4. DOMAIN e.calls = {} /\ DOMAIN e.runs = {}
  BY <1>3, CallTellsAre
<1> HIDE DEF e
<1>5. \A r \in Runs : RunCalls(e, r) = <<>>
  BY <1>3, <1>4 DEF RunCalls, CallsOf
<1>6. \A r \in Runs : Records(RunCalls(e, r), r)
  BY <1>2, <1>5, CallTellsAre DEF Records
<1>7. 0 \in Runs
  BY ElementsTyped DEF TurnInv
<1>8. TellsTurn(e)
  BY <1>1, <1>3, <1>4, <1>6, <1>7 DEF TellsTurn
<1> QED BY <1>8 DEF e

(* A recording of the session agent's run that adds no call. *)
LEMMA TellsOfOwn ==
  ASSUME TurnInv, NEW e, TellsTurn(e), NEW f, Known(f), UNCHANGED calls,
         DOMAIN f.runs = DOMAIN e.runs \cup {0},
         \A x \in Runs : RunCalls(f, x) = RunCalls(e, x),
         \A x \in Runs : x # 0 => phase'[x] = phase[x] /\ (DoneOf(e, x) => DoneOf(f, x)),
         phase'[0] = "ok" => phase[0] = "ok" /\ (DoneOf(e, 0) => DoneOf(f, 0))
  PROVE  TellsTurn(f)'
<1>1. /\ \A x \in Runs : Records(RunCalls(e, x), x)
      /\ \A x \in Runs : x # 0 => (x \in DOMAIN e.runs <=> phase[x] # "off")
      /\ \A x \in Runs : x # 0 /\ phase[x] # "off" /\ calls[x].at # "running" => DoneOf(e, x)
      /\ phase[0] = "ok" => DoneOf(e, 0)
  BY DEF TellsTurn
<1>2. \A x \in Runs : OfRun(x)' = OfRun(x)
  BY DEF OfRun
<1>3. ASSUME NEW x \in Runs PROVE Records(RunCalls(f, x), x)'
  <2>1. PICK h : h = RunCalls(f, x)
    OBVIOUS
  <2>2. Records(h, x)
    BY <1>1, <2>1
  <2>3. Records(h, x)'
    BY <1>2, <2>2, RecordsRest
  <2> QED BY <2>1, <2>3
<1>4. \A x \in Runs : x # 0 => (x \in DOMAIN f.runs <=> phase'[x] # "off")
  BY <1>1
<1>5. \A x \in Runs : x # 0 /\ phase'[x] # "off" /\ calls'[x].at # "running" => DoneOf(f, x)
  BY <1>1
<1>6. phase'[0] = "ok" => DoneOf(f, 0)
  BY <1>1
<1> QED BY <1>3, <1>4, <1>5, <1>6, TellsGo

(* Calls, runs and entry as they were. *)
LEMMA TellsRest ==
  ASSUME TellsTurn(entry), UNCHANGED <<calls, phase, entry>>
  PROVE  TellsTurn(entry)'
<1>1. PICK e : e = entry
  OBVIOUS
<1>2. TellsTurn(e)
  BY <1>1
<1>3. TellsTurn(e)'
  BY <1>2 DEF TellsTurn, Records, OfRun
<1>4. e = entry'
  BY <1>1
<1> QED BY <1>3, <1>4, TellsNow

(* The steps of the message leave the entry telling the turn, as long as   *)
(* it is there.                                                            *)
LEMMA TellsOfMessage ==
  ASSUME TurnKept, Tracked => TellsTurn(entry), MessageStep, Tracked'
  PROVE  TellsTurn(entry)'
<1>1. PICK e : e = entry
  OBVIOUS
<1>2. PICK f : f = entry'
  OBVIOUS
<1>3. TurnInv /\ 0 \in Runs /\ phase \in [Runs -> Phases] /\ OutcomeKept
  BY ElementsTyped DEF TurnKept, TurnInv, AgentTyped
<1>4. UNCHANGED calls
  BY MessageStepIs
<1>5. CASE Start
  <2>1. /\ exec = "none" /\ UNCHANGED phase
        /\ entry' = [NoEntry EXCEPT !.held = TRUE, !.known = TRUE]
    BY <1>5 DEF Start, agent
  <2>2. PICK n : n = [NoEntry EXCEPT !.held = TRUE, !.known = TRUE]
    OBVIOUS
  <2>3. TellsTurn(n)
    BY <1>3, <2>1, <2>2, NewTells
  <2>4. TellsTurn(n)'
    BY <1>4, <2>1, <2>3 DEF TellsTurn, Records, OfRun
  <2> QED BY <2>1, <2>2, <2>4 DEF TellsTurn
<1>6. CASE ~Start
  <2>1. Tracked
    <3>1. exec \notin {"none", "lost"}
      <4>1. exec = "none" => exec' = "none" \/ status' = "cancelled"
        BY <1>6 DEF MessageStep, Begin, ProvisionFails, BuildContext, Compact, Compacted,
          CompactionFails, AgentReturns, SettleMessage, RequestCancellation, Cancel,
          FinishProcessing, ListingFails, Export, ExportFails
      <4>2. exec = "lost" => exec' = "lost"
        BY MessageStepIs
      <4> QED BY <4>1, <4>2 DEF Tracked
    <3>2. status # "cancelled" /\ final.at # "done"
      <4>1. status \in Terminal => UNCHANGED status
        BY DEF MessageStep, Start, Begin, ProvisionFails, BuildContext, Compact, Compacted,
          CompactionFails, AgentReturns, SettleMessage, RequestCancellation, Cancel,
          FinishProcessing, ListingFails, Export, ExportFails, Terminal
      <4>2. final.at = "done" => UNCHANGED final
        <5>1. final.at = "done" => status \in Terminal
          BY <1>3 DEF OutcomeKept
        <5>2. status \in Terminal /\ final.at = "done" => UNCHANGED final
          BY DEF MessageStep, Start, Begin, ProvisionFails, BuildContext, Compact, Compacted,
            CompactionFails, AgentReturns, SettleMessage, RequestCancellation, Cancel,
            FinishProcessing, ListingFails, Export, ExportFails, Terminal
        <5> QED BY <5>1, <5>2
      <4> QED BY <4>1, <4>2 DEF Tracked, Terminal
    <3> QED BY <3>1, <3>2 DEF Tracked
  <2>2. TellsTurn(entry) /\ TellsTurn(e) /\ Known(e)
    BY <1>1, <2>1 DEF TellsTurn, Known
  <2>3. State(entry) = entry
    BY <1>1, <2>2, KnownState
  <2>4. CASE UNCHANGED <<phase, entry>>
    BY <1>4, <2>2, <2>4, TellsRest
  <2>5. CASE BuildContext
    <3>1. CASE aborted
      <4>1. UNCHANGED <<phase, entry>>
        BY <2>3, <2>5, <3>1 DEF BuildContext
      <4> QED BY <2>4, <4>1
    <3>2. CASE ~aborted
      <4>1. f = StartAgentRun(e, 0) /\ phase' = [phase EXCEPT ![0] = "target"]
        BY <1>1, <1>2, <2>3, <2>5, <3>2 DEF BuildContext
      <4>2. /\ Known(f) /\ DOMAIN f.runs = DOMAIN e.runs \cup {0}
            /\ \A x \in Runs : x # 0 => RunCalls(f, x) = RunCalls(e, x) /\ DoneOf(f, x) = DoneOf(e, x)
            /\ RunCalls(f, 0) = RunCalls(e, 0)
        BY <1>3, <2>2, <4>1, StartTells
      <4>3. phase'[0] = "target" /\ \A x \in Runs : x # 0 => phase'[x] = phase[x]
        BY <1>3, <4>1
      <4>4. \A x \in Runs : RunCalls(f, x) = RunCalls(e, x)
        BY <4>2
      <4>5. TellsTurn(f)'
        BY <1>3, <1>4, <2>2, <4>2, <4>3, <4>4, TellsOfOwn
      <4> QED BY <1>2, <4>5, TellsNow
    <3> QED BY <3>1, <3>2
  <2>6. CASE Compacted \/ CompactionFails
    <3>1. f = RecordUsage(e, 0) /\ UNCHANGED phase
      <4>1. entry' = RecordOwnUsage(entry) /\ UNCHANGED phase
        BY <2>6 DEF Compacted, CompactionFails, agent
      <4> QED BY <1>1, <1>2, <2>2, <4>1 DEF RecordOwnUsage, Known
    <3>2. Tells(e, f, 0) /\ RunCalls(f, 0) = RunCalls(e, 0)
      BY <1>3, <2>2, <3>1, UsageTells
    <3>3. /\ Known(f) /\ DOMAIN f.runs = DOMAIN e.runs \cup {0}
          /\ \A x \in Runs : RunCalls(f, x) = RunCalls(e, x)
          /\ \A x \in Runs : DoneOf(e, x) => DoneOf(f, x)
      BY <3>2 DEF Tells
    <3>4. TellsTurn(f)'
      BY <1>3, <1>4, <2>2, <3>1, <3>3, TellsOfOwn
    <3> QED BY <1>2, <3>4, TellsNow
  <2>7. CASE FinishProcessing
    <3>1. UNCHANGED <<phase, entry>>
      BY <2>3, <2>7 DEF FinishProcessing, agent
    <3> QED BY <2>4, <3>1
  <2>8. CASE Export \/ ExportFails
    <3>1. final.at = "exporting" /\ final' = [final EXCEPT !.at = "done"]
      BY <2>8 DEF Export, ExportFails
    <3>2. final'.at = "done"
      BY <3>1 DEF TurnKept, MessageTyped, FinalRecords
    <3> QED BY <3>2 DEF Tracked
  <2>9. CASE Begin \/ ProvisionFails \/ Compact \/ AgentReturns \/ SettleMessage
             \/ RequestCancellation \/ Cancel \/ ListingFails
    <3>1. UNCHANGED <<phase, entry>>
      BY <2>9 DEF Begin, ProvisionFails, Compact, AgentReturns, SettleMessage, RequestCancellation,
                  Cancel, ListingFails, agent
    <3> QED BY <2>4, <3>1
  <2> QED BY <1>6, <2>5, <2>6, <2>7, <2>8, <2>9 DEF MessageStep
<1> QED BY <1>5, <1>6

EntryKept ==
  /\ EndsTold(entry)
  /\ exec \in {"none", "lost"} => ~entry.known
  /\ Tracked => TellsTurn(entry)
  /\ status \in {"completed", "failed"} /\ final.at = "done" => ~entry.held

(* A step of the agent is a step.                                          *)
LEMMA NextAgent == AgentStep => Next
BY DEF AgentStep, Next, Progress, Failure, RunStep, AskStep, ToolStep, OutputStep, AppendStep, Calls

(* A step of the message is a step.                                        *)
LEMMA NextMessage == MessageStep => Next
BY DEF MessageStep, Next, Progress, Failure

(* At first there is no entry.                                             *)
LEMMA InitEntry == Init => EntryKept
<1> SUFFICES ASSUME Init PROVE EntryKept
  OBVIOUS
<1>1. exec = "none" /\ entry = NoEntry /\ calls = <<>> /\ Len(calls) = 0 /\ status = "queued"
  BY DEF Init
<1>2. OfRun(0) = {}
  BY <1>1 DEF OfRun
<1> QED BY <1>1, <1>2, NoEntryIs DEF EntryKept, EndsTold, Tracked

(* The agent keeps the entry true.                                         *)
LEMMA AgentEntryKept ==
  ASSUME TurnKept, EntryKept, AgentStep
  PROVE  EntryKept'
<1>1. exec = "agent" /\ UNCHANGED <<status, exec, aborted, final>>
  BY AgentWorks DEF TurnKept, TurnTold
<1>2. status \notin {"completed", "failed"}
  BY <1>1 DEF TurnKept, OutcomeKept
<1>3. EndsTold(entry)'
  BY EndsStep, NextAgent DEF EntryKept
<1>4. Tracked' => TellsTurn(entry)'
  <2> SUFFICES ASSUME Tracked' PROVE TellsTurn(entry)'
    OBVIOUS
  <2>1. TellsTurn(entry)
    BY <1>1 DEF Tracked, EntryKept
  <2> QED BY <2>1, TellsOfRun, TellsOfAsk, TellsOfTool, TellsOfOutput, TellsOfAppend DEF AgentStep
<1> QED BY <1>1, <1>2, <1>3, <1>4 DEF EntryKept

(* The message keeps the entry true, and lets go of it.                    *)
LEMMA MessageEntryKept ==
  ASSUME TurnKept, EntryKept, MessageStep
  PROVE  EntryKept'
<1>1. /\ Start \/ Export \/ ExportFails \/ UNCHANGED entry \/ KeepsCalls(entry, entry')
  BY MessageEntry DEF TurnKept, MessageTyped
<1>2. EndsTold(entry)'
  BY EndsStep, NextMessage DEF EntryKept
<1>3. Tracked' => TellsTurn(entry)'
  BY TellsOfMessage DEF EntryKept
<1>4. exec' \in {"none", "lost"} => ~entry'.known
  <2> SUFFICES ASSUME exec' \in {"none", "lost"} PROVE ~entry'.known
    OBVIOUS
  <2>1. exec \in {"none", "lost"} /\ ~Start
    <3>1. ~Start
      BY DEF Start
    <3>2. exec = "lost" \/ exec' = "none"
      BY MessageStepIs
    <3>3. exec' = "none" => exec = "none"
      BY DEF MessageStep, Start, Begin, ProvisionFails, BuildContext, Compact, Compacted,
        CompactionFails, AgentReturns, SettleMessage, RequestCancellation, Cancel,
        FinishProcessing, ListingFails, Export, ExportFails
    <3> QED BY <3>1, <3>2, <3>3
  <2>2. ~entry.known
    BY <2>1 DEF EntryKept
  <2>3. CASE Export \/ ExportFails
    <3>1. entry' = NoEntry
      BY <2>3 DEF Export, ExportFails, EntryAfterExport
    <3> QED BY <3>1, NoEntryIs
  <2> QED BY <1>1, <2>1, <2>2, <2>3 DEF KeepsCalls
<1>5. status' \in {"completed", "failed"} /\ final'.at = "done" => ~entry'.held
  <2> SUFFICES ASSUME status' \in {"completed", "failed"}, final'.at = "done" PROVE ~entry'.held
    OBVIOUS
  <2>1. CASE Export \/ ExportFails
    <3>1. entry' = NoEntry
      BY <2>1 DEF Export, ExportFails, EntryAfterExport
    <3> QED BY <3>1, NoEntryIs
  <2>2. CASE ~(Export \/ ExportFails)
    <3>1. final \in FinalRecords
      BY DEF TurnKept, MessageTyped
    <3>2. UNCHANGED <<status, final>>
      <4>1. CASE ProvisionFails \/ SettleMessage \/ Cancel
        <5>1. UNCHANGED <<status, final>> \/ \E to \in {"completed", "failed", "cancelled"} : Settled(to)
          BY <4>1 DEF ProvisionFails, SettleMessage, Cancel
        <5>2. ASSUME NEW to \in {"completed", "failed", "cancelled"}, Settled(to) PROVE FALSE
          <6>1. final'.at = "listing"
            BY <5>2 DEF Settled, NotFinal
          <6> QED BY <6>1
        <5> QED BY <5>1, <5>2
      <4>2. CASE FinishProcessing \/ ListingFails
        BY <3>1, <4>2 DEF FinishProcessing, ListingFails, FinalRecords
      <4>3. CASE Begin
        BY <4>3 DEF Begin
      <4>4. CASE Start \/ BuildContext \/ Compact \/ Compacted \/ CompactionFails \/ AgentReturns
                 \/ RequestCancellation
        BY <4>4 DEF Start, BuildContext, Compact, Compacted, CompactionFails, AgentReturns,
                    RequestCancellation
      <4> QED BY <2>2, <4>1, <4>2, <4>3, <4>4 DEF MessageStep
    <3>3. exec \in {"ended", "lost"} /\ final.at = "done" /\ ~entry.held
      BY <3>2 DEF TurnKept, OutcomeKept, EntryKept
    <3>4. UNCHANGED entry
      BY <2>2, <3>3 DEF MessageStep, Start, Begin, ProvisionFails, BuildContext, Compact, Compacted,
        CompactionFails, AgentReturns, SettleMessage, RequestCancellation, Cancel,
        FinishProcessing, ListingFails
    <3> QED BY <3>3, <3>4
  <2> QED BY <2>1, <2>2
<1> QED BY <1>2, <1>3, <1>4, <1>5 DEF EntryKept

(* Every step keeps the entry true.                                        *)
LEMMA StepEntry == TurnKept /\ EntryKept /\ [Next]_vars => EntryKept'
<1> SUFFICES ASSUME TurnKept, EntryKept, [Next]_vars PROVE EntryKept'
  OBVIOUS
<1>1. CASE Crash
  <2>1. exec' = "lost" /\ entry' = NoEntry
    BY <1>1 DEF Crash
  <2>2. EndsTold(entry)'
    BY EndsStep DEF EntryKept
  <2> QED BY <2>1, <2>2, NoEntryIs DEF EntryKept, Tracked
<1>2. CASE UNCHANGED vars
  <2>1. UNCHANGED <<status, exec, calls, phase, entry, final>>
    BY <1>2 DEF vars, agent
  <2>2. EndsTold(entry)'
    BY EndsStep DEF EntryKept
  <2>3. Tracked' => TellsTurn(entry)'
    BY <2>1, TellsRest DEF EntryKept, Tracked
  <2> QED BY <2>1, <2>2, <2>3 DEF EntryKept
<1> QED BY <1>1, <1>2, TwoKinds, AgentEntryKept, MessageEntryKept

-----------------------------------------------------------------------------
(* The trace. *)

(* The calls of a run that are all over. *)
LEMMA AllAreEnded ==
  ASSUME TurnInv, CorrelationsCover, NEW r \in Runs, \A i \in Calls : calls[i].at = "done",
         NEW f \in CallTells, NEW g \in CallTells, Records(f, r),
         \A c \in DOMAIN f : c \in DOMAIN g /\ g[c] = f[c],
         \A c \in DOMAIN g : c \in DOMAIN f \/ \E i \in OfRun(r) : c = calls[i].corr
  PROVE  g = AllEnded(r)
<1>1. /\ Cardinality(OfRun(r)) \in Nat
      /\ \A i \in OfRun(r) : calls[i].corr \in 1..Cardinality(OfRun(r))
      /\ \A c \in 1..Cardinality(OfRun(r)) : \E i \in OfRun(r) : calls[i].corr = c
  BY CorrelationsApart
<1>2. DOMAIN f = 1..Cardinality(OfRun(r)) /\ \A i \in OfRun(r) : f[calls[i].corr] = "ended"
  <2>1. \A i \in OfRun(r) : calls[i].at \notin Open
    BY DEF OfRun, Calls, Open
  <2> QED BY <2>1 DEF Records
<1>3. DOMAIN g = 1..Cardinality(OfRun(r))
  <2>1. PICK D : D = 1..Cardinality(OfRun(r))
    OBVIOUS
  <2>2. DOMAIN f = D /\ \A i \in OfRun(r) : calls[i].corr \in D
    BY <1>1, <1>2, <2>1
  <2>3. \A c : c \in DOMAIN g <=> c \in D
    BY <2>2
  <2> QED BY <2>1, <2>3
<1>4. \A c \in 1..Cardinality(OfRun(r)) : g[c] = "ended"
  BY <1>1, <1>2
<1>5. g = [c \in DOMAIN g |-> g[c]]
  BY DEF CallTells
<1> QED BY <1>3, <1>4, <1>5 DEF AllEnded

(* The trace is whole when it is taken. *)
LEMMA TraceTaken ==
  ASSUME TurnKept, EntryKept, FinishProcessing, status # "cancelled"
  PROVE  TraceIsWhole'
<1>1. /\ TurnInv /\ RunsBegun /\ FeedOnce /\ CorrelationsCover /\ EventsTell
      /\ final \in FinalRecords /\ final.at = "listing" /\ 0 \in Runs
  BY ElementsTyped DEF TurnKept, TurnInv, TurnTold, MessageTyped, FinishProcessing
<1>2. exec = "ended"
  BY <1>1 DEF TurnKept, OutcomeKept
<1>3. \A i \in Calls : calls[i].at = "done"
  BY <1>1, <1>2, AgentQuiet
<1>4. PICK e : e = entry
  OBVIOUS
<1>5. TellsTurn(e) /\ Known(e) /\ State(e) = e
  <2>1. TellsTurn(e)
    BY <1>1, <1>2, <1>4 DEF EntryKept, Tracked
  <2> QED BY <2>1, KnownState DEF TellsTurn, Known
<1>6. PICK t : t = TraceOf(e)
  OBVIOUS
<1>7. /\ t \in Entries /\ t.known /\ t.runs = e.runs
      /\ \A c \in DOMAIN e.calls : c \in DOMAIN t.calls /\ t.calls[c] = e.calls[c]
      /\ \A c \in DOMAIN t.calls : c \in DOMAIN e.calls \/ \E k \in OfCalls : events[k].corr = c
  <2>1. events \in Seq(EventRecords) /\ e \in Entries /\ e.known
    BY <1>1, <1>5 DEF EventsTell, Known
  <2> QED BY <1>5, <1>6, <2>1, TraceIs
<1>8. final'.trace = t /\ final'.outcome = final.outcome
  BY <1>1, <1>4, <1>6 DEF FinishProcessing, FinalRecords
<1>9. UNCHANGED <<calls, phase>> /\ \A r : OfRun(r)' = OfRun(r)
  BY DEF FinishProcessing, agent, OfRun
<1>10. \A r : AllEnded(r)' = AllEnded(r)
  BY <1>9 DEF AllEnded
<1>11. /\ \A r \in Runs : Records(RunCalls(e, r), r)
       /\ \A r \in Runs : r # 0 => (r \in DOMAIN e.runs <=> phase[r] # "off")
       /\ \A r \in Runs : r # 0 /\ phase[r] # "off" /\ calls[r].at # "running" => DoneOf(e, r)
       /\ phase[0] = "ok" => DoneOf(e, 0)
  BY <1>5 DEF TellsTurn
<1>12. /\ e.calls \in CallTells /\ t.calls \in CallTells /\ DOMAIN e.runs \subseteq Runs
       /\ \A r \in DOMAIN e.runs : e.runs[r].calls \in CallTells
  <2>1. e \in Entries /\ e.runs \in RunTells /\ t.calls \in CallTells /\ e.calls \in CallTells
    BY <1>5, <1>7 DEF Entries, Known
  <2> QED BY <2>1, RunTellsAre
<1>13. t.calls = AllEnded(0)
  <2>1. \A c \in DOMAIN t.calls : c \in DOMAIN e.calls \/ \E i \in OfRun(0) : c = calls[i].corr
    <3>1. \A k \in OfCalls : events[k].call \in OfRun(0) /\ events[k].corr = calls[events[k].call].corr
      BY <1>1, <1>2 DEF EventsTell, EventsOfCalls
    <3> QED BY <1>7, <3>1
  <2>2. Records(e.calls, 0)
    BY <1>1, <1>11 DEF RunCalls
  <2> QED BY <1>1, <1>3, <1>7, <1>12, <2>1, <2>2, AllAreEnded
<1>14. ASSUME NEW r \in Runs, r # 0, phase[r] # "off"
       PROVE  r \in DOMAIN e.runs /\ e.runs[r].done /\ e.runs[r].calls = AllEnded(r)
  <2>1. r \in DOMAIN e.runs
    BY <1>11, <1>14
  <2>2. r \in Calls
    BY <1>1, <1>14 DEF RunsBegun
  <2>3. DoneOf(e, r)
    BY <1>3, <1>11, <1>14, <2>2
  <2>4. Records(e.runs[r].calls, r)
    BY <1>11, <1>14, <2>1 DEF RunCalls, CallsOf
  <2>5. e.runs[r].calls = AllEnded(r)
    BY <1>1, <1>3, <1>12, <2>1, <2>4, AllAreEnded
  <2> QED BY <2>1, <2>3, <2>5 DEF DoneOf
<1>15. DOMAIN e.runs \ {0} = {r \in Runs \ {0} : phase[r] # "off"}
  BY <1>11, <1>12
<1>16. /\ t.known /\ t.calls = AllEnded(0)'
       /\ DOMAIN t.runs \ {0} = {r \in Runs \ {0} : phase'[r] # "off"}
       /\ \A r \in {r \in Runs \ {0} : phase'[r] # "off"} :
            t.runs[r].done /\ t.runs[r].calls = AllEnded(r)'
       /\ phase'[0] = "ok" => 0 \in DOMAIN t.runs /\ t.runs[0].done
  BY <1>7, <1>9, <1>10, <1>11, <1>13, <1>14, <1>15 DEF DoneOf
<1> QED BY <1>8, <1>16 DEF TraceIsWhole

(* The trace covers the events there are when it is taken. *)
LEMMA TraceCovers ==
  ASSUME TurnKept, EntryKept, FinishProcessing
  PROVE  TraceCoversEvents'
<1>1. /\ TurnInv /\ EventsTell /\ EntrySound(entry) /\ events \in Seq(EventRecords)
      /\ final \in FinalRecords
  BY DEF TurnKept, TurnTold, EventsTell, MessageTyped
<1>2. PICK e : e = entry
  OBVIOUS
<1>3. PICK s : s = State(e)
  OBVIOUS
<1>4. PICK t : t = TraceOf(e)
  OBVIOUS
<1>5. /\ \A c \in DOMAIN s.calls : c \in DOMAIN t.calls /\ t.calls[c] = s.calls[c]
      /\ \A k \in OfCalls : events[k].corr \in DOMAIN t.calls
      /\ \A k \in OfCalls : events[k].type = "result" /\ events[k].corr \notin DOMAIN s.calls =>
           t.calls[events[k].corr] = "ended"
  <2>1. e \in Entries
    BY <1>1, <1>2 DEF EntrySound
  <2> QED BY <1>1, <1>3, <1>4, <2>1, TraceIs
<1>6. /\ final'.trace = t /\ final'.seen = Len(events) /\ UNCHANGED events
  BY <1>1, <1>2, <1>4 DEF FinishProcessing, FinalRecords
<1>7. ASSUME NEW k \in OfCalls, events[k].type = "result", events[k].corr \in DOMAIN s.calls
      PROVE  s.calls[events[k].corr] = "ended"
  <2>1. e.held /\ s = e /\ e.known
    <3>1. s.known \/ DOMAIN s.calls = {}
      BY <1>1, <1>2, <1>3, StateKeeps DEF KeepsCalls, EntrySound
    <3>2. e.held => s = e
      BY <1>3 DEF State
    <3>3. ~e.held => ~s.known
      BY <1>1, <1>2, <1>3, StateIs DEF EntrySound
    <3> QED BY <1>7, <3>1, <3>2, <3>3
  <2>2. exec # "lost"
    BY <1>2, <2>1 DEF EntryKept
  <2>3. PICK i : i = events[k].call
    OBVIOUS
  <2>4. i \in OfRun(0) /\ events[k].corr = calls[i].corr /\ calls[i].at = "done"
    BY <1>1, <1>7, <2>2, <2>3 DEF EventsTell, EventsOfCalls
  <2>5. EndsTold(e)
    BY <1>2 DEF EntryKept
  <2> QED BY <1>7, <2>1, <2>4, <2>5 DEF EndsTold, Open
<1>8. \A k \in OfCalls : events[k].type = "result" => t.calls[events[k].corr] = "ended"
  BY <1>5, <1>7
<1>9. \A k \in 1..Len(events) :
        /\ events[k].type \in {"call", "result"} => events[k].corr \in DOMAIN t.calls
        /\ events[k].type = "result" => t.calls[events[k].corr] = "ended"
  BY <1>5, <1>8 DEF OfCalls
<1> QED BY <1>6, <1>9 DEF TraceCoversEvents

(* Events that are committed stay. *)
LEMMA EventsStay ==
  ASSUME TurnKept, [Next]_vars
  PROVE  /\ Len(events) \in Nat
         /\ \A k \in 1..Len(events) : events'[k] = events[k]
<1>1. events \in Seq(EventRecords)
  BY DEF TurnKept, TurnTold, EventsTell
<1>2. UNCHANGED events \/ \E a : events' = Append(events, a)
  <2>1. TurnInv
    BY DEF TurnKept
  <2>2. ASSUME NEW r \in Runs, RunStep(r) \/ AskStep(r) PROVE UNCHANGED events
    BY <2>1, <2>2, RunStepIs, AskStepIs
  <2>3. ASSUME NEW i \in Calls, ToolStep(i) \/ OutputStep(i) PROVE UNCHANGED events
    BY <2>1, <2>3, ToolStepIs DEF OutputStep, StoreOutput, StoreFails
  <2>4. ASSUME NEW k \in Appends, AppendStep(k)
        PROVE  UNCHANGED events \/ \E a : events' = Append(events, a)
    BY <2>4 DEF AppendStep, AppendCommits, AppendFails
  <2>5. AgentStep => UNCHANGED events \/ \E a : events' = Append(events, a)
    BY <2>2, <2>3, <2>4 DEF AgentStep
  <2>6. MessageStep => UNCHANGED events \/ \E a : events' = Append(events, a)
    BY MessageStepIs
  <2> QED BY <2>5, <2>6, TwoKinds DEF Crash, vars
<1>3. Len(events) \in Nat
  BY <1>1, LenProperties
<1>4. ASSUME NEW a, events' = Append(events, a), NEW k \in 1..Len(events)
      PROVE  events'[k] = events[k]
  BY <1>1, <1>4
<1> QED BY <1>2, <1>3, <1>4

(* A trace that is being exported is the one that was taken. *)
LEMMA TraceStays ==
  ASSUME TurnKept, [Next]_vars, ~FinishProcessing
  PROVE  \/ final'.at # "exporting"
         \/ UNCHANGED final
<1>1. final \in FinalRecords
  BY DEF TurnKept, MessageTyped
<1>2. CASE AgentStep
  BY <1>2, AgentWorks DEF TurnKept, TurnTold
<1>3. CASE MessageStep
  <2>1. CASE ProvisionFails \/ SettleMessage \/ Cancel
    <3>1. UNCHANGED final \/ \E to \in {"completed", "failed", "cancelled"} : Settled(to)
      BY <2>1 DEF ProvisionFails, SettleMessage, Cancel
    <3>2. ASSUME NEW to \in {"completed", "failed", "cancelled"}, Settled(to)
          PROVE  final'.at = "listing"
      BY <3>2 DEF Settled, NotFinal
    <3> QED BY <3>1, <3>2
  <2>2. CASE ListingFails \/ Export \/ ExportFails
    BY <1>1, <2>2 DEF ListingFails, Export, ExportFails, FinalRecords
  <2>3. CASE Start \/ Begin \/ BuildContext \/ Compact \/ Compacted \/ CompactionFails
             \/ AgentReturns \/ RequestCancellation
    BY <2>3 DEF Start, Begin, BuildContext, Compact, Compacted, CompactionFails, AgentReturns,
                RequestCancellation
  <2> QED BY <1>3, <2>1, <2>2, <2>3 DEF MessageStep
<1>4. CASE Crash
  BY <1>1, <1>4 DEF Crash, FinalRecords
<1>5. CASE UNCHANGED vars
  BY <1>5 DEF vars
<1> QED BY <1>2, <1>3, <1>4, <1>5, TwoKinds

(* While it is exported, a turn that was not cancelled is over.            *)
LEMMA TurnStays ==
  ASSUME TurnKept, [Next]_vars, final.at = "exporting", final.outcome # "cancelled",
         UNCHANGED final
  PROVE  UNCHANGED <<calls, phase>>
<1>1. exec = "ended" /\ final \in FinalRecords
  BY DEF TurnKept, OutcomeKept, MessageTyped
<1>2. ~AgentStep
  BY <1>1, AgentWorks DEF TurnKept, TurnTold
<1>3. MessageStep => UNCHANGED <<calls, phase>>
  BY <1>1, MessageStepIs
<1>4. ~Crash
  BY <1>1 DEF Crash, FinalRecords
<1> QED BY <1>2, <1>3, <1>4, TwoKinds DEF vars, agent

TraceKept == TraceIsWhole /\ TraceCoversEvents

(* Every step keeps the trace whole, and covering its events.              *)
LEMMA StepTrace == TurnKept /\ EntryKept /\ TraceKept /\ [Next]_vars => TraceKept'
<1> SUFFICES ASSUME TurnKept, EntryKept, TraceKept, [Next]_vars PROVE TraceKept'
  OBVIOUS
<1>1. final \in FinalRecords
  BY DEF TurnKept, MessageTyped
<1>2. CASE FinishProcessing
  <2>1. TraceCoversEvents'
    BY <1>2, TraceCovers
  <2>2. CASE status = "cancelled"
    <3>1. final'.outcome = "cancelled"
      BY <1>1, <1>2, <2>2 DEF FinishProcessing, FinalRecords, TurnKept, OutcomeKept
    <3> QED BY <2>1, <3>1 DEF TraceKept, TraceIsWhole
  <2>3. CASE status # "cancelled"
    BY <1>2, <2>1, <2>3, TraceTaken DEF TraceKept
  <2> QED BY <2>2, <2>3
<1>3. CASE final'.at # "exporting"
  BY <1>3 DEF TraceKept, TraceIsWhole, TraceCoversEvents
<1>4. CASE UNCHANGED final /\ final.at = "exporting"
  <2>1. TraceCoversEvents'
    <3>1. final.seen \in Nat /\ final.seen <= Len(events) /\ Len(events) \in Nat
      BY <1>1, <1>4, EventsStay DEF FinalRecords, TurnKept, OutcomeKept
    <3>2. \A k \in 1..final.seen : events'[k] = events[k]
      BY <3>1, EventsStay
    <3> QED BY <1>4, <3>2 DEF TraceKept, TraceCoversEvents
  <2>2. TraceIsWhole'
    <3>1. CASE final.outcome = "cancelled"
      BY <1>4, <3>1 DEF TraceIsWhole
    <3>2. CASE final.outcome # "cancelled"
      <4>1. UNCHANGED <<calls, phase>>
        BY <1>4, <3>2, TurnStays
      <4>2. PICK t : t = final.trace
        OBVIOUS
      <4>3. \A r : OfRun(r)' = OfRun(r)
        BY <4>1 DEF OfRun
      <4>4. \A r : AllEnded(r)' = AllEnded(r)
        BY <4>3 DEF AllEnded
      <4> QED BY <1>4, <3>2, <4>1, <4>4 DEF TraceKept, TraceIsWhole
    <3> QED BY <3>1, <3>2
  <2> QED BY <2>1, <2>2 DEF TraceKept
<1> QED BY <1>2, <1>3, <1>4, TraceStays

-----------------------------------------------------------------------------
(* What the runs check of the turn, its events and its trace.              *)

TurnWhole == TurnKept /\ EntryKept /\ TraceKept

(* The invariant of the whole turn: calls, events, entry and trace.        *)
THEOREM TurnIsWhole == Spec => []TurnWhole
<1>1. Init => TurnWhole
  <2>1. Init => TraceKept
    BY DEF Init, NotFinal, TraceKept, TraceIsWhole, TraceCoversEvents
  <2> QED BY <2>1, InitKept, InitEntry DEF TurnWhole
<1>2. TurnWhole /\ [Next]_vars => TurnWhole'
  BY StepKept, StepEntry, StepTrace DEF TurnWhole
<1> QED BY <1>1, <1>2, PTL DEF Spec

(* An entry has its type.                                                  *)
LEMMA EntriesTyped ==
  ASSUME NEW e \in Entries
  PROVE  EntryType(e)
<1>1. /\ e.held \in BOOLEAN /\ e.known \in BOOLEAN /\ e.calls \in CallTells
      /\ DOMAIN e.runs \subseteq Runs
  BY EntryTyped
<1>2. DOMAIN e.calls \subseteq Corrs /\ \A c \in DOMAIN e.calls : e.calls[c] \in {"open", "ended"}
  BY <1>1, CallTellsAre
<1> QED BY <1>1, <1>2 DEF EntryType

(* Every variable of the turn keeps its type.                              *)
THEOREM TypeCorrect == Spec => []TypeOK
<1>1. TurnWhole => TypeOK
  <2> SUFFICES ASSUME TurnWhole PROVE TypeOK
    OBVIOUS
  <2>1. /\ TurnInv /\ AgentTyped /\ RunsBegun /\ MessageTyped /\ CorrelationsInOrder
        /\ EndsMatchStarts
    BY DEF TurnWhole, TurnKept, TurnTold, TurnInv
  <2>2. \A i \in Calls : calls[i].corr \in Corrs /\ calls[i] \in CallRecords
    BY <2>1, ElementsTyped, CorrelationsBounded
  <2>3. ASSUME NEW i \in Calls PROVE calls[i] \in CallType
    <3>1. calls[i].ended \in Corrs
      <4>1. calls[i].at \in Open => calls[i].ended = 0
        BY <2>1 DEF RunsBegun
      <4>2. calls[i].at \notin Open => calls[i].ended = calls[i].corr
        BY <2>1 DEF EndsMatchStarts, Calls, Open
      <4>3. 0 \in Corrs
        BY BoundsAssumption DEF Corrs
      <4> QED BY <2>2, <4>1, <4>2, <4>3
    <3> QED BY <2>2, <3>1 DEF CallRecords, CallType
  <2>4. \A r \in Runs : \A k \in 1..Len(queue[r]) : queue[r][k] \in Calls
    BY <2>1 DEF TurnInv, QueuesInOrder
  <2>5. \A r \in Runs : \A k \in 1..Len(pend[r]) : pend[r][k] \in Corrs
    BY <2>1, <2>2 DEF CorrelationsInOrder
  <2>6. \A k \in 1..Len(feed) : feed[k].call \in Calls
    BY <2>1 DEF TurnInv, FeedInOrder
  <2>7. EntryType(entry) /\ EntryType(final.trace)
    <3>1. entry \in Entries /\ final.trace \in Entries
      BY <2>1 DEF MessageTyped, EntrySound, FinalRecords
    <3> QED BY <3>1, EntriesTyped
  <2>8. /\ status \in {"queued", "working"} \cup Terminal
        /\ exec \in {"none", "scheduled", "context", "agent", "compacting", "settling",
                    "failing", "ended", "lost"}
        /\ aborted \in BOOLEAN /\ mishaps \in 0..MaxMishaps
        /\ phase \in [Runs -> {"off", "target", "generating"} \cup Over] /\ Len(calls) <= MaxCalls
    BY <2>1 DEF MessageTyped, Execs, AgentTyped, Phases
  <2> QED BY <2>3, <2>4, <2>5, <2>6, <2>7, <2>8 DEF TypeOK, Calls
<1> QED BY <1>1, TurnIsWhole, PTL

(* When a message has completed or failed, the feed tells its whole turn,  *)
(* in order and once, except what was lost, and ends with the outcome.     *)
THEOREM FeedTellsTheWholeTurn == Spec => []FeedTellsTheTurn
<1>1. TurnWhole => FeedTellsTheTurn
  <2> SUFFICES ASSUME TurnWhole, status \in {"completed", "failed"}, exec # "lost"
               PROVE  /\ events[Len(events)].type = status
                      /\ \A i \in OfRun(0) :
                           /\ \A type \in {"call", "result"} \ calls[i].lost :
                                Cardinality(At(i, type)) = 1
                           /\ \A k \in At(i, "call"), l \in At(i, "result") : k < l
                           /\ \A j \in OfRun(0) : i < j =>
                                \A k \in At(i, "call"), l \in At(j, "call") : k < l
    BY DEF FeedTellsTheTurn
  <2>1. /\ TurnInv /\ RunsBegun /\ FeedOnce /\ OutcomeKept
        /\ EventsOfCalls /\ CallsTold /\ ToldInOrder
    BY DEF TurnWhole, TurnKept, TurnTold, EventsTell
  <2>2. exec = "ended" /\ events[Len(events)].type = status
    BY <2>1 DEF OutcomeKept
  <2>3. \A i \in Calls : calls[i].at = "done"
    BY <2>1, <2>2, AgentQuiet
  <2>4. \A i, type : type \in {"call", "result"} =>
          \A k \in At(i, type) : k \in OfCalls /\ events[k].type = type /\ events[k].call = i
    BY DEF At, OfCalls
  <2>5. ASSUME NEW i \in OfRun(0), NEW type \in {"call", "result"} \ calls[i].lost
        PROVE  Cardinality(At(i, type)) = 1
    <3>1. calls[i].at = "done"
      BY <2>3 DEF OfRun, Calls
    <3>2. Told(i, type)
      BY <2>1, <2>5, <3>1 DEF CallsTold
    <3>3. PICK k \in 1..Len(events) : events[k].type = type /\ events[k].call = i
      BY <3>2 DEF Told
    <3>4. k \in OfCalls /\ events[k].corr = calls[i].corr
      BY <2>1, <3>3 DEF OfCalls, EventsOfCalls
    <3>5. k \in At(i, type)
      BY <3>3, <3>4 DEF At
    <3>6. ASSUME NEW l \in At(i, type) PROVE l = k
      <4>1. l \in OfCalls /\ events[l].type = type /\ events[l].call = i
        BY <2>4, <2>5, <3>6
      <4> QED BY <2>1, <3>3, <3>4, <4>1 DEF ToldInOrder
    <3>7. At(i, type) = {k}
      BY <3>5, <3>6
    <3> QED BY <3>7, FS_Singleton
  <2>6. \A i \in OfRun(0) : \A k \in At(i, "call"), l \in At(i, "result") : k < l
    BY <2>1, <2>4 DEF ToldInOrder
  <2>7. \A i, j \in OfRun(0) : i < j => \A k \in At(i, "call"), l \in At(j, "call") : k < l
    BY <2>1, <2>4 DEF ToldInOrder
  <2> QED BY <2>2, <2>5, <2>6, <2>7
<1> QED BY <1>1, TurnIsWhole, PTL

(* The exported trace of a message that was not cancelled holds every call *)
(* of the session agent and of each subagent, all of them ended.           *)
THEOREM TraceHoldsTheTurn == Spec => []TraceIsWhole
<1>1. TurnWhole => TraceIsWhole
  BY DEF TurnWhole, TraceKept
<1> QED BY <1>1, TurnIsWhole, PTL

(* The exported trace holds every call whose event was committed before it *)
(* was taken, also after a restart that lost the entry.                    *)
THEOREM TraceHoldsTheEvents == Spec => []TraceCoversEvents
<1>1. TurnWhole => TraceCoversEvents
  BY DEF TurnWhole, TraceKept
<1> QED BY <1>1, TurnIsWhole, PTL

(* The recorder lets go of a message that completed or failed once its     *)
(* trace has been handed to the sinks.                                     *)
THEOREM EntryIsReleased == Spec => []EntryReleased
<1>1. TurnWhole => EntryReleased
  <2> SUFFICES ASSUME TurnWhole, final.at = "done", final.outcome # "cancelled"
               PROVE  ~entry.held
    BY DEF EntryReleased
  <2>1. OutcomeKept /\ EntryKept /\ MessageTyped
    BY DEF TurnWhole, TurnKept
  <2>2. status \in {"completed", "failed"}
    BY <2>1 DEF OutcomeKept, MessageTyped, Terminal
  <2> QED BY <2>1, <2>2 DEF EntryKept
<1> QED BY <1>1, TurnIsWhole, PTL
=============================================================================
