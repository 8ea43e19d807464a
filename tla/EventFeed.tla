----------------------------- MODULE EventFeed -----------------------------
(***************************************************************************)
(* What the event stream promises, with no mention of transactions, hub,   *)
(* connections or replay: each session has a feed that only grows at its   *)
(* end, and each tab reads the feed it has open from the start, entry by   *)
(* entry, whatever is lost on the way.  EventStream implements this.       *)
(***************************************************************************)
EXTENDS Naturals

CONSTANTS
  Sessions,
  Tabs,
  None        \* no session

VARIABLES
  length,    \* entries in the feed of each session
  open,      \* the session each tab has open, or nothing
  position,  \* how far the tab has read
  overtaken  \* announcements may overtake each other: a tab may then skip

vars == <<length, open, position, overtaken>>

Init ==
  /\ length = [s \in Sessions |-> 0]
  /\ open = [t \in Tabs |-> None]
  /\ position = [t \in Tabs |-> 0]
  /\ overtaken \in BOOLEAN

Grow(s, n) ==
  /\ length' = [length EXCEPT ![s] = @ + n]
  /\ UNCHANGED <<open, position, overtaken>>

Turn(t) ==
  /\ \A u \in Tabs \ {t} : open'[u] = open[u]
  /\ position' = [position EXCEPT ![t] = 0]
  /\ UNCHANGED <<length, overtaken>>

Read(t) ==
  /\ open[t] \in Sessions
  /\ \E p \in position[t] + 1 .. length[open[t]] :
       /\ overtaken \/ p = position[t] + 1
       /\ position' = [position EXCEPT ![t] = p]
  /\ UNCHANGED <<length, open, overtaken>>

Next ==
  \/ \E s \in Sessions, n \in 1..2 : Grow(s, n)
  \/ \E t \in Tabs : Turn(t) \/ Read(t)

Spec == Init /\ [][Next]_vars
=============================================================================
