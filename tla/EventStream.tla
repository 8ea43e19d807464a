---------------------------- MODULE EventStream ----------------------------
(***************************************************************************)
(* The event stream of the chat sessions, end to end: producers append     *)
(* events in transactions under the lock on the session row, publish them  *)
(* to the SseHub once the transaction has committed, the SSE route         *)
(* subscribes a connection, replays from Postgres and goes live, and the   *)
(* EventSource of a browser tab reads, loses its connection and resumes    *)
(* from the last id it was given.  The server may restart.                 *)
(*                                                                         *)
(* A step is a database call, the synchronous code between two awaits, or  *)
(* the delivery of one event to the browser.                               *)
(***************************************************************************)
EXTENDS Naturals, Sequences, FiniteSets, SequencesExt

CONSTANTS
  Sessions,
  Producers,    \* concurrent operations that append events
  Tabs,         \* browser tabs, one EventSource each
  None,         \* no session, no producer
  MaxEvents,    \* bound: events in the log
  MaxMishaps    \* bound: what else happens to connections, requests, server
                \* and route, together

ASSUME NoneAssumption == None \notin Sessions \cup Producers
ASSUME BoundAssumption == MaxEvents \in Nat /\ MaxMishaps \in Nat

VARIABLES
  log,         \* the event rows of each session, in commit order
  counter,     \* chat_sessions.next_event_sequence
  lock,        \* the producer that holds the session row FOR UPDATE
  tx,          \* the append of each producer
  overtaking,  \* continuations of two commits may run in either order
  conn,        \* the SseClient of a tab's connection, and its replay
  wire,        \* events written to the response and not yet received
  open,        \* the session whose EventSource the tab has open
  failed,      \* EventSource gave up: a reconnect got an error status
  cursor,      \* the last event id of the EventSource
  seen,        \* sequences in the events state of useEventStream
  mishaps

rows == <<log, counter, lock>>
browser == <<open, failed, cursor, seen>>
streamVars == <<rows, tx, overtaking, conn, wire, browser, mishaps>>

(* Events that make the page reload the session, and the others. *)
Types == {"lifecycle", "detail"}
Event == [sequence : Nat \ {0}, type : Types]

IdleTx == [at |-> "idle", session |-> None, events |-> <<>>]
Closed ==
  [at |-> "closed", after |-> 0, lastSent |-> 0, buffered |-> {}, replay |-> {}]

Sequences(s) == {log[s][i].sequence : i \in DOMAIN log[s]}

StreamInit ==
  /\ log = [s \in Sessions |-> <<>>]
  /\ counter = [s \in Sessions |-> 1]
  /\ lock = [s \in Sessions |-> None]
  /\ tx = [p \in Producers |-> IdleTx]
  /\ overtaking \in BOOLEAN
  /\ conn = [t \in Tabs |-> Closed]
  /\ wire = [t \in Tabs |-> <<>>]
  /\ open = [t \in Tabs |-> None]
  /\ failed = [t \in Tabs |-> FALSE]
  /\ cursor = [t \in Tabs |-> 0]
  /\ seen = [t \in Tabs |-> {}]
  /\ mishaps = 0

-----------------------------------------------------------------------------
(* The database side: appendSessionEventInTransaction. *)

Room(n) ==
  Cardinality(UNION {{s} \X DOMAIN log[s] : s \in Sessions}) + n <= MaxEvents

(* SELECT next_event_sequence ... FOR UPDATE waits for the row's holder. *)
LockRowUnlocked(p, s) ==
  /\ tx[p].at = "idle"
  /\ Room(1)
  /\ tx' = [tx EXCEPT ![p] = [at |-> "locked", session |-> s,
              events |-> <<[sequence |-> counter[s], type |-> "detail"]>>]]
  /\ lock' = [lock EXCEPT ![s] = p]
  /\ UNCHANGED <<log, counter, overtaking, conn, wire, browser, mishaps>>

LockRow(p, s) ==
  /\ tx[p].at = "idle"
  /\ lock[s] = None
  /\ Room(1)
  /\ tx' = [tx EXCEPT ![p] = [at |-> "locked", session |-> s,
              events |-> <<[sequence |-> counter[s], type |-> "detail"]>>]]
  /\ lock' = [lock EXCEPT ![s] = p]
  /\ UNCHANGED <<log, counter, overtaking, conn, wire, browser, mishaps>>

(***************************************************************************)
(* The transaction commits its rows: one event or, as the transactions of  *)
(* a message do, several that follow each other.                           *)
(***************************************************************************)
Commit(p, types) ==
  LET s == tx[p].session
      first == tx[p].events[1].sequence
      events == [i \in DOMAIN types |->
                   [sequence |-> first + i - 1, type |-> types[i]]]
  IN /\ tx[p].at = "locked"
     /\ Room(Len(types))
     /\ log' = [log EXCEPT ![s] = @ \o events]
     /\ counter' = [counter EXCEPT ![s] = @ + Len(types)]
     /\ lock' = [lock EXCEPT ![s] = None]
     /\ tx' = [tx EXCEPT ![p] = [@ EXCEPT !.at = "committed", !.events = events]]
     /\ UNCHANGED <<overtaking, conn, wire, browser, mishaps>>

(* The transaction throws: nothing was appended. *)
Abort(p) ==
  /\ tx[p].at = "locked"
  /\ lock' = [lock EXCEPT ![tx[p].session] = None]
  /\ tx' = [tx EXCEPT ![p] = IdleTx]
  /\ UNCHANGED <<log, counter, overtaking, conn, wire, browser, mishaps>>

-----------------------------------------------------------------------------
(* The hub and the route. *)

Above(events, n) == {e \in events : e.sequence > n}
InOrder(events) ==
  CHOOSE q \in [1..Cardinality(events) -> events] :
    /\ \A e \in events : \E i \in DOMAIN q : q[i] = e
    /\ \A i, j \in DOMAIN q : i < j => q[i].sequence < q[j].sequence
Highest(events, n) ==
  CHOOSE m \in {n} \cup {e.sequence : e \in events} :
    /\ m >= n
    /\ \A e \in events : m >= e.sequence

(* What one client gets of events that are published together. *)
Live(t, events) == InOrder(Above(ToSet(events), conn[t].lastSent))

Subscribed(s) == {t \in Tabs : open[t] = s /\ conn[t].at # "closed"}

(* publish(): buffered while the client replays, else sent if it is new. *)
DeliverLiveOnly(s, events) ==
  /\ conn' = [t \in Tabs |->
       IF t \in Subscribed(s) /\ conn[t].at = "live"
       THEN [conn[t] EXCEPT !.lastSent = Highest(ToSet(events), @)]
       ELSE conn[t]]
  /\ wire' = [t \in Tabs |->
       IF t \in Subscribed(s) /\ conn[t].at = "live"
       THEN wire[t] \o Live(t, events) ELSE wire[t]]

Deliver(s, events) ==
  /\ conn' = [t \in Tabs |->
       IF t \notin Subscribed(s) THEN conn[t]
       ELSE IF conn[t].at = "live"
       THEN [conn[t] EXCEPT !.lastSent = Highest(ToSet(events), @)]
       ELSE [conn[t] EXCEPT !.buffered = @ \cup ToSet(events)]]
  /\ wire' = [t \in Tabs |->
       IF t \in Subscribed(s) /\ conn[t].at = "live"
       THEN wire[t] \o Live(t, events) ELSE wire[t]]

(* Another commit of the session, with lower sequences, is not published yet. *)
Overtakes(p) ==
  \E q \in Producers \ {p} :
    /\ tx[q].at = "committed"
    /\ tx[q].session = tx[p].session
    /\ tx[q].events[1].sequence < tx[p].events[1].sequence

(* The code after the transaction's await. *)
Publish(p) ==
  /\ tx[p].at = "committed"
  /\ overtaking \/ ~Overtakes(p)
  /\ Deliver(tx[p].session, tx[p].events)
  /\ tx' = [tx EXCEPT ![p] = IdleTx]
  /\ UNCHANGED <<rows, overtaking, browser, mishaps>>

(* GET /events with Last-Event-ID: subscribed before anything is read. *)
Connect(t) ==
  /\ open[t] # None /\ ~failed[t]
  /\ conn[t].at = "closed"
  /\ conn' = [conn EXCEPT ![t] = [Closed EXCEPT
                !.at = "replaying", !.after = cursor[t], !.lastSent = cursor[t]]]
  /\ UNCHANGED <<rows, tx, overtaking, wire, browser, mishaps>>

(* listSessionEvents reads its snapshot, to be returned later. *)
ReadReplaySkipping(t) ==
  /\ conn[t].at = "replaying"
  /\ conn' = [conn EXCEPT ![t] = [@ EXCEPT
                !.at = "read",
                !.replay = Above(ToSet(log[open[t]]), conn[t].after + 1)]]
  /\ UNCHANGED <<rows, tx, overtaking, wire, browser, mishaps>>

ReadReplay(t) ==
  /\ conn[t].at = "replaying"
  /\ conn' = [conn EXCEPT ![t] = [@ EXCEPT
                !.at = "read",
                !.replay = Above(ToSet(log[open[t]]), conn[t].after)]]
  /\ UNCHANGED <<rows, tx, overtaking, wire, browser, mishaps>>

(* The query, or the session's ownership check, throws: an error status.   *)
(* EventSource does not reconnect after one.                               *)
FailReplay(t) ==
  /\ conn[t].at = "replaying"
  /\ mishaps < MaxMishaps
  /\ mishaps' = mishaps + 1
  /\ conn' = [conn EXCEPT ![t] = Closed]
  /\ failed' = [failed EXCEPT ![t] = TRUE]
  /\ UNCHANGED <<rows, tx, overtaking, wire, open, cursor, seen>>

(* The replay is written, then finishReplay sends what the buffer adds. *)
FinishReplayUnfiltered(t) ==
  LET replayLast == Highest(conn[t].replay, conn[t].after)
  IN /\ conn[t].at = "read"
     /\ wire' = [wire EXCEPT ![t] =
                   @ \o InOrder(conn[t].replay) \o InOrder(conn[t].buffered)]
     /\ conn' = [conn EXCEPT ![t] = [@ EXCEPT
                   !.at = "live", !.buffered = {}, !.replay = {},
                   !.lastSent = Highest(conn[t].buffered, replayLast)]]
     /\ UNCHANGED <<rows, tx, overtaking, browser, mishaps>>

FinishReplayKeepsBuffer(t) ==
  LET replayLast == Highest(conn[t].replay, conn[t].after)
      added == Above(conn[t].buffered, replayLast)
  IN /\ conn[t].at = "read"
     /\ wire' = [wire EXCEPT ![t] = @ \o InOrder(conn[t].replay) \o InOrder(added)]
     /\ conn' = [conn EXCEPT ![t] = [@ EXCEPT
                   !.at = "live", !.replay = {}, !.lastSent = Highest(added, replayLast)]]
     /\ UNCHANGED <<rows, tx, overtaking, browser, mishaps>>

FinishReplayDropsBuffer(t) ==
  LET replayLast == Highest(conn[t].replay, conn[t].after)
  IN /\ conn[t].at = "read"
     /\ wire' = [wire EXCEPT ![t] = @ \o InOrder(conn[t].replay)]
     /\ conn' = [conn EXCEPT ![t] = [@ EXCEPT
                   !.at = "live", !.buffered = {}, !.replay = {},
                   !.lastSent = replayLast]]
     /\ UNCHANGED <<rows, tx, overtaking, browser, mishaps>>

FinishReplay(t) ==
  LET replayLast == Highest(conn[t].replay, conn[t].after)
      added == Above(conn[t].buffered, replayLast)
  IN /\ conn[t].at = "read"
     /\ wire' = [wire EXCEPT ![t] = @ \o InOrder(conn[t].replay) \o InOrder(added)]
     /\ conn' = [conn EXCEPT ![t] = [@ EXCEPT
                   !.at = "live", !.buffered = {}, !.replay = {},
                   !.lastSent = Highest(added, replayLast)]]
     /\ UNCHANGED <<rows, tx, overtaking, browser, mishaps>>

(* The connection is lost with what was under way; the hub unsubscribes. *)
Disconnect(t) ==
  /\ conn[t].at # "closed"
  /\ mishaps < MaxMishaps
  /\ mishaps' = mishaps + 1
  /\ conn' = [conn EXCEPT ![t] = Closed]
  /\ wire' = [wire EXCEPT ![t] = <<>>]
  /\ UNCHANGED <<rows, tx, overtaking, browser>>

(***************************************************************************)
(* The server stops and starts: connections, buffers and what was          *)
(* committed but not published are gone, open transactions roll back.      *)
(***************************************************************************)
Restart ==
  /\ mishaps < MaxMishaps
  /\ mishaps' = mishaps + 1
  /\ tx' = [p \in Producers |-> IdleTx]
  /\ lock' = [s \in Sessions |-> None]
  /\ conn' = [t \in Tabs |-> Closed]
  /\ wire' = [t \in Tabs |-> <<>>]
  /\ UNCHANGED <<log, counter, overtaking, browser>>

-----------------------------------------------------------------------------
(* The browser: useEventStream. *)

(* The effect runs for another session, or for none. *)
OpenStream(t, s) ==
  /\ open' = [open EXCEPT ![t] = s]
  /\ failed' = [failed EXCEPT ![t] = FALSE]
  /\ cursor' = [cursor EXCEPT ![t] = 0]
  /\ seen' = [seen EXCEPT ![t] = IF s = None THEN @ ELSE {}]
  /\ conn' = [conn EXCEPT ![t] = Closed]
  /\ wire' = [wire EXCEPT ![t] = <<>>]

(* One event arrives: its id is the new cursor, a repeated one is dropped. *)
Receive(t) ==
  /\ wire[t] # <<>>
  /\ LET e == Head(wire[t])
     IN /\ cursor' = [cursor EXCEPT ![t] = e.sequence]
        /\ seen' = [seen EXCEPT ![t] = @ \cup {e.sequence}]
  /\ wire' = [wire EXCEPT ![t] = Tail(@)]
  /\ UNCHANGED <<rows, tx, overtaking, conn, open, failed, mishaps>>

-----------------------------------------------------------------------------
Transaction(p) == Abort(p) \/ \E n \in 1..2 : \E types \in [1..n -> Types] : Commit(p, types)
Connection(t) == Connect(t) \/ ReadReplay(t) \/ FinishReplay(t) \/ Receive(t)
Loss == Restart \/ \E t \in Tabs : FailReplay(t) \/ Disconnect(t)

StreamNext ==
  \/ \E p \in Producers : Transaction(p) \/ Publish(p) \/ \E s \in Sessions : LockRow(p, s)
  \/ \E t \in Tabs : Connection(t)
  \/ Loss
=============================================================================
