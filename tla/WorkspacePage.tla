--------------------------- MODULE WorkspacePage ---------------------------
(***************************************************************************)
(* ChatWorkspacePage on top of the event stream.  The page loads a session *)
(* and its messages, opens the stream of the session it has loaded, and    *)
(* loads both again whenever a lifecycle event it has not handled arrives. *)
(* Requests take any time and may be answered in any order.  The route may *)
(* change to another session; the component stays mounted.                 *)
(*                                                                         *)
(* What a request reads is abstracted to a version: how many lifecycle     *)
(* events the session's rows have seen.                                    *)
(***************************************************************************)
EXTENDS EventStream

VARIABLES
  route,     \* :sessionId of the URL
  shown,     \* the session and messages states
  handled,   \* lastHandledSequence
  fetches,   \* refresh() calls in flight
  started,   \* how many were started, to number them
  visits,    \* how many sessions the tab's route has named
  orderly    \* history: no answer was lost or overtaken by a later one

pageVars == <<route, shown, handled, fetches, started, visits, orderly>>
vars == <<streamVars, pageVars>>

Unread == -1
Nothing == [of |-> None, session |-> 0, messages |-> 0]
Refresh(s, n) == [of |-> s, number |-> n, session |-> Unread, messages |-> Unread]

Version(s) ==
  Cardinality({i \in DOMAIN log[s] : log[s][i].type = "lifecycle"})

(* The events state of a tab, whichever session it was filled from. *)
Unhandled(t, from, s) ==
  {n \in seen[t] : n > from /\ \E i \in DOMAIN log[s] :
                     log[s][i] = [sequence |-> n, type |-> "lifecycle"]}

LastSeen(t) == CHOOSE n \in seen[t] : \A m \in seen[t] : m <= n

Init ==
  /\ StreamInit
  /\ route \in [Tabs -> Sessions]
  /\ shown = [t \in Tabs |-> Nothing]
  /\ handled = [t \in Tabs |-> 0]
  /\ fetches = [t \in Tabs |-> {Refresh(route[t], 1)}]
  /\ started = [t \in Tabs |-> 1]
  /\ visits = [t \in Tabs |-> 1]
  /\ orderly = [t \in Tabs |-> TRUE]

-----------------------------------------------------------------------------
(* getChatSession and listMessages run side by side, each a read of its own. *)
ReadSession(t, f) ==
  /\ f.session = Unread
  /\ fetches' = [fetches EXCEPT
       ![t] = (@ \ {f}) \cup {[f EXCEPT !.session = Version(f.of)]}]
  /\ UNCHANGED <<streamVars, route, shown, handled, started, visits, orderly>>

ReadMessages(t, f) ==
  /\ f.messages = Unread
  /\ fetches' = [fetches EXCEPT
       ![t] = (@ \ {f}) \cup {[f EXCEPT !.messages = Version(f.of)]}]
  /\ UNCHANGED <<streamVars, route, shown, handled, started, visits, orderly>>

(***************************************************************************)
(* Both have answered: setSession, setMessages.  A new eventsUrl closes    *)
(* the EventSource and opens the one of the session just loaded.           *)
(***************************************************************************)
Answer(t, f) ==
  /\ f.session # Unread /\ f.messages # Unread
  /\ fetches' = [fetches EXCEPT ![t] = @ \ {f}]
  /\ shown' = [shown EXCEPT
       ![t] = [of |-> f.of, session |-> f.session, messages |-> f.messages]]
  /\ orderly' = [orderly EXCEPT
       ![t] = @ /\ \A g \in fetches[t] : g.number >= f.number]
  /\ IF open[t] = f.of
     THEN UNCHANGED browser /\ UNCHANGED <<conn, wire>>
     ELSE OpenStream(t, f.of)
  /\ UNCHANGED <<rows, tx, overtaking, mishaps, route, handled, started, visits>>

(* A request throws: the error is shown at most, nothing tries again. *)
FailFetch(t, f) ==
  /\ mishaps < MaxMishaps
  /\ mishaps' = mishaps + 1
  /\ fetches' = [fetches EXCEPT ![t] = @ \ {f}]
  /\ orderly' = [orderly EXCEPT ![t] = FALSE]
  /\ UNCHANGED <<rows, tx, overtaking, conn, wire, browser, route, shown,
                 handled, started, visits>>

(* The effect on [sessionEvents, refresh]. *)
HandleEventsCoalesced(t) ==
  /\ open[t] # None
  /\ Unhandled(t, handled[t], open[t]) # {}
  /\ handled' = [handled EXCEPT ![t] = LastSeen(t)]
  /\ started' = [started EXCEPT ![t] = @ + 1]
  /\ fetches' = [fetches EXCEPT
       ![t] = IF @ # {} THEN @ ELSE {Refresh(route[t], started[t] + 1)}]
  /\ UNCHANGED <<streamVars, route, shown, visits, orderly>>

HandleEvents(t) ==
  /\ open[t] # None
  /\ Unhandled(t, handled[t], open[t]) # {}
  /\ handled' = [handled EXCEPT ![t] = LastSeen(t)]
  /\ started' = [started EXCEPT ![t] = @ + 1]
  /\ fetches' = [fetches EXCEPT ![t] = @ \cup {Refresh(route[t], started[t] + 1)}]
  /\ UNCHANGED <<streamVars, route, shown, visits, orderly>>

(***************************************************************************)
(* The route changes.  The effect on [sessionId] resets the page and loads *)
(* the new session; the effect on [sessionEvents, refresh] runs after it,  *)
(* with the events of the old session, because refresh is a new function.  *)
(* eventsUrl becomes null, which leaves the events state as it is.         *)
(***************************************************************************)
Navigate(t, s) ==
  LET again == open[t] # None /\ Unhandled(t, 0, open[t]) # {}
      calls == IF again THEN 2 ELSE 1
  IN /\ s # route[t]
     /\ mishaps < MaxMishaps
     /\ mishaps' = mishaps + 1
     /\ visits' = [visits EXCEPT ![t] = @ + 1]
     /\ route' = [route EXCEPT ![t] = s]
     /\ shown' = [shown EXCEPT ![t] = Nothing]
     /\ handled' = [handled EXCEPT ![t] = IF again THEN LastSeen(t) ELSE 0]
     /\ started' = [started EXCEPT ![t] = @ + calls]
     /\ fetches' = [fetches EXCEPT
          ![t] = @ \cup {Refresh(s, started[t] + i) : i \in 1..calls}]
     /\ OpenStream(t, None)
     /\ UNCHANGED <<rows, tx, overtaking, orderly>>

-----------------------------------------------------------------------------
Request(t) ==
  \E f \in fetches[t] : ReadSession(t, f) \/ ReadMessages(t, f) \/ Answer(t, f)

PageNext ==
  \E t \in Tabs :
    \/ Request(t)
    \/ HandleEvents(t)
    \/ \E f \in fetches[t] : FailFetch(t, f)
    \/ \E s \in Sessions : Navigate(t, s)

Stream == StreamNext /\ UNCHANGED pageVars

Next == Stream \/ PageNext

Spec == Init /\ [][Next]_vars

-----------------------------------------------------------------------------
TypeOK ==
  /\ log \in [Sessions -> Seq(Event)]
  /\ counter \in [Sessions -> Nat \ {0}]
  /\ lock \in [Sessions -> Producers \cup {None}]
  /\ tx \in [Producers -> [at : {"idle", "locked", "committed"},
                           session : Sessions \cup {None}, events : Seq(Event)]]
  /\ overtaking \in BOOLEAN
  /\ conn \in [Tabs -> [at : {"closed", "replaying", "read", "live"},
                        after : Nat, lastSent : Nat,
                        buffered : SUBSET Event, replay : SUBSET Event]]
  /\ \A t \in Tabs :
       conn[t].at \in {"closed", "live"} => conn[t].buffered = {} /\ conn[t].replay = {}
  /\ wire \in [Tabs -> Seq(Event)]
  /\ open \in [Tabs -> Sessions \cup {None}]
  /\ failed \in [Tabs -> BOOLEAN]
  /\ cursor \in [Tabs -> Nat]
  /\ seen \in [Tabs -> SUBSET (Nat \ {0})]
  /\ mishaps \in 0..MaxMishaps
  /\ route \in [Tabs -> Sessions]
  /\ shown \in [Tabs -> [of : Sessions \cup {None}, session : Nat, messages : Nat]]
  /\ handled \in [Tabs -> Nat]
  /\ started \in [Tabs -> Nat]
  /\ visits \in [Tabs -> Nat]
  /\ orderly \in [Tabs -> BOOLEAN]
  /\ \A t \in Tabs : \A f \in fetches[t] :
       /\ f.of \in Sessions
       /\ f.number \in 1..started[t]
       /\ {f.session, f.messages} \subseteq Nat \cup {Unread}

(***************************************************************************)
(* The sequences of a session are its positions, 1, 2, 3, ..., whichever   *)
(* transactions commit, in whichever order, and whichever roll back.       *)
(* Violated if two appends could read the same next_event_sequence.        *)
(***************************************************************************)
SequencesDense ==
  \A s \in Sessions :
    /\ counter[s] = Len(log[s]) + 1
    /\ \A i \in DOMAIN log[s] : log[s][i].sequence = i

(***************************************************************************)
(* Whatever replay, buffer and live publication put on a connection        *)
(* reaches the tab in increasing sequence, each event once, and above what *)
(* the tab has: the replay/live race duplicates and reorders nothing.      *)
(***************************************************************************)
WireIncreases ==
  \A t \in Tabs : open[t] # None =>
    /\ \A i \in DOMAIN wire[t] : wire[t][i].sequence > cursor[t]
    /\ \A i, j \in DOMAIN wire[t] : i < j => wire[t][i].sequence < wire[t][j].sequence

(* Only committed events are sent. *)
SentIsCommitted ==
  \A t \in Tabs : open[t] # None =>
    /\ ToSet(wire[t]) \subseteq ToSet(log[open[t]])
    /\ seen[t] \subseteq Sequences(open[t])

(***************************************************************************)
(* A cursor stands for everything up to it, as resuming with Last-Event-ID *)
(* takes it to: unless publications overtake each other, a tab has every   *)
(* event at or below its cursor, through lost connections and restarts.    *)
(***************************************************************************)
ResumeLosesNothing ==
  ~overtaking => \A t \in Tabs : open[t] # None => 1..cursor[t] \subseteq seen[t]

(* Nothing is on its way to the tab and nothing is left for it to do. *)
Quiet(t) ==
  /\ \A p \in Producers : tx[p].at = "idle"
  /\ conn[t].at = "live" /\ wire[t] = <<>>
  /\ fetches[t] = {}
  /\ open[t] # None /\ Unhandled(t, handled[t], open[t]) = {}

Current(t) ==
  shown[t] = [of |-> route[t], session |-> Version(route[t]),
              messages |-> Version(route[t])]

(***************************************************************************)
(* A page at rest shows the session of its URL as it is in the database:   *)
(* no change of the rows goes unnoticed, if no publication overtakes       *)
(* another, the page's requests are answered in order, and the tab has     *)
(* shown no other session before.                                          *)
(***************************************************************************)
QuietPageIsCurrent ==
  \A t \in Tabs :
    Quiet(t) /\ orderly[t] /\ ~overtaking /\ visits[t] = 1 => Current(t)

(***************************************************************************)
(* The same of a tab that has followed a link from one session to another: *)
(* "The workspace uses session status, activeMessageId, and message        *)
(* processingStatus to show working state".                                *)
(***************************************************************************)
QuietPageIsCurrentAfterLink ==
  \A t \in Tabs : Quiet(t) /\ orderly[t] /\ ~overtaking => Current(t)

(***************************************************************************)
(* A connection at rest is complete: when it is live, all it was sent has  *)
(* arrived and every commit is published, the tab has every event of the   *)
(* session, whatever it missed while it was away or replaying.             *)
(***************************************************************************)
SettledStreamIsComplete ==
  \A t \in Tabs :
    /\ ~overtaking
    /\ conn[t].at = "live" /\ wire[t] = <<>>
    /\ \A p \in Producers : tx[p].at # "committed"
    => seen[t] = Sequences(open[t])

Feed ==
  INSTANCE EventFeed WITH length <- [s \in Sessions |-> Len(log[s])],
                          position <- cursor, overtaken <- overtaking

(* The rows and the tabs' cursors implement the feed of EventFeed. *)
ImplementsFeed == Feed!Spec
=============================================================================
