------------------------ MODULE WorkspacePageProofs ------------------------
(***************************************************************************)
(* Theorems about the workspace page and the event stream under it, for    *)
(* any set of sessions, producers and tabs, any number of events and       *)
(* mishaps: what is in the log, on the wires, in the tabs and on the page, *)
(* and that rows and cursors implement EventFeed.                          *)
(*                                                                         *)
(* The inductive invariant relates, for each tab, what it has read, what   *)
(* is on its wire, what its connection has sent or holds back, and what is *)
(* committed and not published yet: read, sent and unpublished events are  *)
(* consecutive parts of the log.                                           *)
(*                                                                         *)
(* On top of it: the types, and that a page at rest is current.  For that  *)
(* the invariant follows the newest request of a tab whose route has named *)
(* one session: what it has read holds every event the page had handled    *)
(* when it was started, and it is in flight or it is what the page shows.  *)
(***************************************************************************)
EXTENDS WorkspacePage, BoundedSets, FiniteSetTheorems, TLAPS

-----------------------------------------------------------------------------
(* The operators on sets of events. *)

(* Highest is an upper bound of the sequences and of n, and one of them. *)
LEMMA HighestIs ==
  ASSUME NEW events, NEW n \in Nat, NEW k \in Nat,
         \A e \in events : e.sequence \in Nat /\ e.sequence <= k
  PROVE  /\ Highest(events, n) \in Nat /\ Highest(events, n) >= n
         /\ \A e \in events : Highest(events, n) >= e.sequence
         /\ Highest(events, n) = n \/ \E e \in events : Highest(events, n) = e.sequence
<1> DEFINE T == {n} \cup {e.sequence : e \in events}
           S == {m + 1 : m \in T}
<1>1. T \subseteq Nat /\ n \in T
  OBVIOUS
<1>2. \A m \in T : m <= n + k
  OBVIOUS
<1> HIDE DEF T
<1>3. S \subseteq 1..(n + k + 1) /\ S # {}
  BY <1>1, <1>2
<1>4. PICK z \in S : \A y \in S : y <= z
  <2>1. n + k + 1 \in Nat
    OBVIOUS
  <2> HIDE DEF S
  <2> QED BY <1>3, <2>1, Greatest
<1>5. PICK m \in T : z = m + 1
  BY <1>4
<1>6. ASSUME NEW j \in T PROVE j <= m
  <2>1. j + 1 \in S
    OBVIOUS
  <2> QED BY <2>1, <1>1, <1>4, <1>5
<1>7. m \in T /\ m >= n /\ \A e \in events : m >= e.sequence
  <2>1. \A e \in events : e.sequence \in T
    BY DEF T
  <2> QED BY <1>1, <1>6, <2>1
<1>8. /\ Highest(events, n) \in T /\ Highest(events, n) >= n
      /\ \A e \in events : Highest(events, n) >= e.sequence
  BY <1>7 DEF Highest, T
<1> QED BY <1>1, <1>8 DEF T

(* Sets of events that are entries of one feed, each at its sequence. *)
Entries(g, n, S) ==
  /\ \A k \in 1..n : g[k].sequence = k
  /\ \A e \in S : e.sequence \in 1..n /\ g[e.sequence] = e

IsInOrder(q, S) ==
  /\ \A e \in S : \E i \in DOMAIN q : q[i] = e
  /\ \A i, j \in DOMAIN q : i < j => q[i].sequence < q[j].sequence

(* Such a set can be put in order. *)
LEMMA OrderExists ==
  ASSUME NEW g, NEW n \in Nat, NEW S, Entries(g, n, S)
  PROVE  /\ IsFiniteSet(S)
         /\ \E q \in [1..Cardinality(S) -> S] : IsInOrder(q, S)
<1> DEFINE P(m) == \A U : Entries(g, m, U) =>
                     /\ IsFiniteSet(U)
                     /\ \E q \in [1..Cardinality(U) -> U] : IsInOrder(q, U)
           Bad == {m \in Nat : ~P(m)}
<1>1. P(0)
  <2>1. SUFFICES ASSUME NEW U, Entries(g, 0, U)
                 PROVE  /\ IsFiniteSet(U)
                        /\ \E q \in [1..Cardinality(U) -> U] : IsInOrder(q, U)
    OBVIOUS
  <2>2. U = {}
    BY <2>1 DEF Entries
  <2>3. IsFiniteSet(U) /\ Cardinality(U) = 0
    BY <2>2, FS_EmptySet
  <2>4. 1..Cardinality(U) = {}
    BY <2>3
  <2>5. [i \in {} |-> i] \in [1..Cardinality(U) -> U]
    BY <2>4
  <2>6. IsInOrder([i \in {} |-> i], U)
    BY <2>2 DEF IsInOrder
  <2> QED BY <2>3, <2>5, <2>6
<1>2. ASSUME NEW m \in Nat, P(m) PROVE P(m + 1)
  <2>1. SUFFICES ASSUME NEW U, Entries(g, m + 1, U)
                 PROVE  /\ IsFiniteSet(U)
                        /\ \E q \in [1..Cardinality(U) -> U] : IsInOrder(q, U)
    OBVIOUS
  <2>2. CASE g[m + 1] \notin U
    <3>1. Entries(g, m, U)
      BY <2>1, <2>2 DEF Entries
    <3> QED BY <1>2, <3>1
  <2>3. CASE g[m + 1] \in U
    <3> DEFINE last == g[m + 1]
               V == U \ {last}
               c == Cardinality(V)
    <3>1. \A e \in U : e.sequence \in 1..(m + 1) /\ (e.sequence = m + 1 <=> e = last)
      <4>1. last.sequence = m + 1
        BY <2>1 DEF Entries
      <4> QED BY <2>1, <4>1 DEF Entries
    <3>2. Entries(g, m, V)
      BY <2>1, <3>1 DEF Entries
    <3>3. IsFiniteSet(V) /\ \E q \in [1..c -> V] : IsInOrder(q, V)
      BY <1>2, <3>2
    <3>4. PICK q \in [1..c -> V] : IsInOrder(q, V)
      BY <3>3
    <3>5. U = V \cup {last} /\ last \notin V
      BY <2>3
    <3> HIDE DEF V, last
    <3>6. IsFiniteSet(U) /\ Cardinality(U) = c + 1 /\ c \in Nat
      BY <3>3, <3>5, FS_AddElement, FS_CardinalityType
    <3> HIDE DEF c
    <3> DEFINE r == [i \in 1..(c + 1) |-> IF i = c + 1 THEN last ELSE q[i]]
    <3>7. r \in [1..Cardinality(U) -> U]
      <4>1. \A i \in 1..(c + 1) : i # c + 1 => i \in 1..c
        BY <3>6
      <4>2. \A i \in 1..(c + 1) : (IF i = c + 1 THEN last ELSE q[i]) \in U
        BY <3>4, <3>5, <4>1
      <4> QED BY <3>6, <4>2
    <3>8. ASSUME NEW e \in U PROVE \E i \in 1..(c + 1) : r[i] = e
      <4>1. CASE e = last
        BY <3>6, <4>1
      <4>2. CASE e # last
        <5>1. PICK i \in 1..c : q[i] = e
          BY <3>4, <3>5, <4>2 DEF IsInOrder
        <5> QED BY <3>6, <5>1
      <4> QED BY <4>1, <4>2
    <3>9. ASSUME NEW i \in 1..(c + 1), NEW j \in 1..(c + 1), i < j
          PROVE  r[i].sequence < r[j].sequence
      <4>1. i \in 1..c /\ r[i] = q[i] /\ q[i] \in V
        BY <3>4, <3>6, <3>9
      <4>2. CASE j = c + 1
        <5>1. r[j] = last /\ last.sequence = m + 1
          BY <3>1, <3>5, <4>2
        <5>2. q[i].sequence \in 1..m
          BY <3>2, <4>1 DEF Entries
        <5> QED BY <4>1, <5>1, <5>2
      <4>3. CASE j # c + 1
        <5>1. j \in 1..c /\ r[j] = q[j]
          BY <3>6, <4>3
        <5> QED BY <3>4, <3>9, <4>1, <5>1 DEF IsInOrder
      <4> QED BY <4>2, <4>3
    <3>10. IsInOrder(r, U)
      <4>1. DOMAIN r = 1..(c + 1)
        OBVIOUS
      <4> HIDE DEF r
      <4> QED BY <3>8, <3>9, <4>1 DEF IsInOrder
    <3> QED BY <3>6, <3>7, <3>10
  <2> QED BY <2>2, <2>3
<1>3. Bad = {}
  <2>1. SUFFICES ASSUME Bad # {} PROVE FALSE
    OBVIOUS
  <2>2. PICK m \in Bad : \A y \in Bad : m <= y
    <3> HIDE DEF P
    <3>1. Bad \subseteq Nat
      OBVIOUS
    <3> HIDE DEF Bad
    <3> QED BY <2>1, <3>1, Least
  <2> HIDE DEF P
  <2>3. m \in Nat /\ ~P(m) /\ m # 0
    BY <1>1, <2>2
  <2>4. m - 1 \in Nat /\ m - 1 \notin Bad
    BY <2>2, <2>3
  <2>5. P(m - 1)
    BY <2>4
  <2>6. P((m - 1) + 1)
    BY <1>2, <2>4, <2>5
  <2> QED BY <2>3, <2>6
<1>4. P(n)
  <2> HIDE DEF P
  <2> QED BY <1>3
<1> QED BY <1>4

(* InOrder is a sequence of just these events, in increasing sequence. *)
LEMMA InOrderIs ==
  ASSUME NEW g, NEW n \in Nat, NEW S, Entries(g, n, S)
  PROVE  /\ InOrder(S) \in Seq(S)
         /\ IsInOrder(InOrder(S), S)
<1>1. IsFiniteSet(S) /\ \E q \in [1..Cardinality(S) -> S] : IsInOrder(q, S)
  BY OrderExists
<1>2. InOrder(S) \in [1..Cardinality(S) -> S] /\ IsInOrder(InOrder(S), S)
  BY <1>1 DEF InOrder, IsInOrder
<1>3. Cardinality(S) \in Nat
  BY <1>1, FS_CardinalityType
<1> QED BY <1>2, <1>3

-----------------------------------------------------------------------------
(***************************************************************************)
(* The rows: sequences are positions; a locked transaction has read the    *)
(* counter as it is; a committed one that is not published yet holds a     *)
(* stretch of the feed, and no other holds a part of it.                   *)
(***************************************************************************)
TxRecords ==
  [at : {"idle", "locked", "committed"}, session : Sessions \cup {None},
   events : Seq(Event)]

InFeed(g, e) == e.sequence \in 1..Len(g) /\ g[e.sequence] = e

Stretch(g, events) ==
  /\ events # <<>>
  /\ \A i \in DOMAIN events :
       InFeed(g, events[i]) /\ events[i].sequence = events[1].sequence + i - 1

Holds(r, s, n) ==
  /\ r.at = "committed" /\ r.session = s
  /\ \E i \in DOMAIN r.events : r.events[i].sequence = n

RowsTyped ==
  /\ log \in [Sessions -> Seq(Event)]
  /\ counter \in [Sessions -> Nat \ {0}]
  /\ lock \in [Sessions -> Producers \cup {None}]
  /\ tx \in [Producers -> TxRecords]
  /\ \A p \in Producers : tx[p].at # "idle" => tx[p].session \in Sessions

LocksHeld ==
  \A p \in Producers : tx[p].at = "locked" =>
    /\ lock[tx[p].session] = p
    /\ tx[p].events[1].sequence = counter[tx[p].session]

Stretches ==
  \A p \in Producers : tx[p].at = "committed" => Stretch(log[tx[p].session], tx[p].events)

Disjoint ==
  \A p, q \in Producers : \A s \in Sessions, n \in Nat :
    Holds(tx[p], s, n) /\ Holds(tx[q], s, n) => p = q

RowsInv == RowsTyped /\ SequencesDense /\ LocksHeld /\ Stretches /\ Disjoint

(* An idle transaction is well formed and holds nothing. *)
LEMMA IdleHoldsNothing ==
  /\ IdleTx \in TxRecords /\ IdleTx.at = "idle"
  /\ \A s, n : ~Holds(IdleTx, s, n)
<1>1. <<>> \in Seq(Event)
  OBVIOUS
<1> QED BY <1>1 DEF IdleTx, TxRecords, Holds

(* A step that adds no rows, and leaves each committed transaction alone    *)
(* or ends it, keeps the stretches and their disjointness.                  *)
LEMMA NoCommitKeeps ==
  ASSUME RowsInv, UNCHANGED <<log, counter>>,
         \A q \in Producers : tx'[q].at = "committed" => tx'[q] = tx[q]
  PROVE  SequencesDense' /\ Stretches' /\ Disjoint'
<1>1. SequencesDense'
  <2>1. SequencesDense /\ log' = log /\ counter' = counter
    BY DEF RowsInv
  <2> QED BY <2>1 DEF SequencesDense
<1>2. Stretches'
  <2>1. Stretches
    BY DEF RowsInv
  <2> QED BY <2>1 DEF Stretches
<1>3. Disjoint'
  <2>1. SUFFICES ASSUME NEW p \in Producers, NEW q \in Producers, NEW s \in Sessions,
                        NEW n \in Nat, Holds(tx'[p], s, n), Holds(tx'[q], s, n)
                 PROVE  p = q
    BY DEF Disjoint
  <2>2. tx'[p] = tx[p] /\ tx'[q] = tx[q]
    BY <2>1 DEF Holds
  <2> QED BY <2>1, <2>2 DEF RowsInv, Disjoint
<1> QED BY <1>1, <1>2, <1>3

(* Reading the counter under the row's lock. *)
LEMMA LockRowKeeps ==
  ASSUME RowsInv, NEW p \in Producers, NEW s \in Sessions, LockRow(p, s)
  PROVE  RowsInv' /\ \A q \in Producers : tx'[q].at = "committed" => tx'[q] = tx[q]
<1> DEFINE e == [sequence |-> counter[s], type |-> "detail"]
           r == [at |-> "locked", session |-> s, events |-> <<e>>]
<1>1. /\ tx[p].at = "idle" /\ lock[s] = None
      /\ tx' = [tx EXCEPT ![p] = r] /\ lock' = [lock EXCEPT ![s] = p]
      /\ log' = log /\ counter' = counter
  BY DEF LockRow, rows
<1>2. e \in Event /\ e.sequence = counter[s]
  BY DEF RowsInv, RowsTyped, Event, Types
<1>3. r \in TxRecords /\ r.at = "locked" /\ r.session = s /\ r.events = <<e>>
      /\ r.events[1] = e
  <2>1. <<e>> \in Seq(Event)
    BY <1>2
  <2> HIDE DEF e
  <2> QED BY <2>1 DEF TxRecords
<1> HIDE DEF r, e
<1>4. \A q \in Producers : tx'[q] = IF q = p THEN r ELSE tx[q]
  BY <1>1 DEF RowsInv, RowsTyped
<1>5. RowsTyped'
  <2>1. RowsTyped
    BY DEF RowsInv
  <2>2. tx' \in [Producers -> TxRecords] /\ lock' \in [Sessions -> Producers \cup {None}]
    BY <2>1, <1>1, <1>3 DEF RowsTyped
  <2>3. ASSUME NEW q \in Producers, tx'[q].at # "idle" PROVE tx'[q].session \in Sessions
    BY <2>1, <2>3, <1>3, <1>4 DEF RowsTyped
  <2> QED BY <2>1, <2>2, <2>3, <1>1 DEF RowsTyped
<1>6. LocksHeld'
  <2>1. ASSUME NEW q \in Producers, tx'[q].at = "locked"
        PROVE  /\ lock'[tx'[q].session] = q
               /\ tx'[q].events[1].sequence = counter[tx'[q].session]
    <3>1. CASE q = p
      <4>1. tx'[q] = r
        BY <1>4, <3>1
      <4> QED BY <1>1, <1>2, <1>3, <3>1, <4>1 DEF RowsInv, RowsTyped
    <3>2. CASE q # p
      <4>1. tx'[q] = tx[q] /\ tx[q].at = "locked"
        BY <1>4, <2>1, <3>2
      <4>2. /\ lock[tx[q].session] = q /\ tx[q].session \in Sessions
            /\ tx[q].events[1].sequence = counter[tx[q].session]
        BY <4>1 DEF RowsInv, RowsTyped, LocksHeld
      <4>3. tx[q].session # s
        BY <1>1, <4>2, NoneAssumption
      <4> QED BY <1>1, <4>1, <4>2, <4>3 DEF RowsInv, RowsTyped
    <3> QED BY <3>1, <3>2
  <2> QED BY <2>1, <1>1 DEF LocksHeld
<1>7. \A q \in Producers : tx'[q].at = "committed" => tx'[q] = tx[q]
  BY <1>3, <1>4
<1>8. SequencesDense' /\ Stretches' /\ Disjoint'
  BY <1>1, <1>7, NoCommitKeeps
<1> QED BY <1>5, <1>6, <1>7, <1>8 DEF RowsInv

(* Transactions that end: their producers are idle and hold no lock. *)
LEMMA EndingKeeps ==
  ASSUME RowsInv, log' = log, counter' = counter,
         tx' \in [Producers -> TxRecords],
         lock' \in [Sessions -> Producers \cup {None}],
         \A q \in Producers : tx'[q] = tx[q] \/ tx'[q] = IdleTx,
         \A q \in Producers : tx'[q].at = "locked" =>
           lock'[tx[q].session] = lock[tx[q].session]
  PROVE  RowsInv'
<1>1. \A q \in Producers : tx'[q].at # "idle" => tx'[q] = tx[q]
  BY IdleHoldsNothing
<1>2. RowsTyped'
  <2>1. RowsTyped
    BY DEF RowsInv
  <2> QED BY <2>1, <1>1 DEF RowsTyped
<1>3. LocksHeld'
  <2>1. LocksHeld
    BY DEF RowsInv
  <2>2. ASSUME NEW q \in Producers, tx'[q].at = "locked"
        PROVE  /\ lock'[tx'[q].session] = q
               /\ tx'[q].events[1].sequence = counter[tx'[q].session]
    <3>1. tx'[q] = tx[q]
      BY <1>1, <2>2
    <3> QED BY <2>1, <2>2, <3>1 DEF LocksHeld
  <2> QED BY <2>2 DEF LocksHeld
<1>4. SequencesDense' /\ Stretches' /\ Disjoint'
  BY <1>1, NoCommitKeeps
<1> QED BY <1>2, <1>3, <1>4 DEF RowsInv

(* A transaction that throws frees its lock. *)
LEMMA AbortKeeps ==
  ASSUME RowsInv, NEW p \in Producers, Abort(p)
  PROVE  RowsInv' /\ \A q \in Producers : tx'[q].at = "committed" => tx'[q] = tx[q]
<1>1. /\ tx[p].at = "locked" /\ tx' = [tx EXCEPT ![p] = IdleTx]
      /\ lock' = [lock EXCEPT ![tx[p].session] = None]
      /\ log' = log /\ counter' = counter
  BY DEF Abort
<1>2. RowsTyped /\ LocksHeld
  BY DEF RowsInv
<1>3. \A q \in Producers : tx'[q] = IF q = p THEN IdleTx ELSE tx[q]
  BY <1>1, <1>2 DEF RowsTyped
<1>4. tx' \in [Producers -> TxRecords] /\ lock' \in [Sessions -> Producers \cup {None}]
  BY <1>1, <1>2, IdleHoldsNothing DEF RowsTyped
<1>5. ASSUME NEW q \in Producers, tx'[q].at = "locked"
      PROVE  lock'[tx[q].session] = lock[tx[q].session]
  <2>1. q # p /\ tx[q].at = "locked"
    BY <1>3, <1>5, IdleHoldsNothing
  <2>2. lock[tx[q].session] = q /\ lock[tx[p].session] = p
    BY <2>1, <1>1, <1>2 DEF LocksHeld
  <2>3. tx[q].session # tx[p].session /\ tx[q].session \in Sessions
    BY <2>1, <2>2, <1>2 DEF RowsTyped
  <2> QED BY <2>3, <1>1, <1>2 DEF RowsTyped
<1>6. RowsInv'
  BY <1>1, <1>3, <1>4, <1>5, EndingKeeps
<1> QED BY <1>3, <1>6, IdleHoldsNothing

(* A publication ends the transaction it announces. *)
LEMMA PublishKeepsRows ==
  ASSUME RowsInv, NEW p \in Producers, Publish(p)
  PROVE  RowsInv'
<1>1. /\ tx[p].at = "committed" /\ tx' = [tx EXCEPT ![p] = IdleTx]
      /\ log' = log /\ counter' = counter /\ lock' = lock
  BY DEF Publish, rows
<1>2. RowsTyped
  BY DEF RowsInv
<1>3. \A q \in Producers : tx'[q] = IF q = p THEN IdleTx ELSE tx[q]
  BY <1>1, <1>2 DEF RowsTyped
<1>4. tx' \in [Producers -> TxRecords] /\ lock' \in [Sessions -> Producers \cup {None}]
  BY <1>1, <1>2, IdleHoldsNothing DEF RowsTyped
<1> QED BY <1>1, <1>3, <1>4, EndingKeeps

(* A restart ends every transaction. *)
LEMMA RestartKeepsRows ==
  ASSUME RowsInv, Restart
  PROVE  RowsInv'
<1>1. /\ tx' = [p \in Producers |-> IdleTx] /\ lock' = [s \in Sessions |-> None]
      /\ log' = log /\ counter' = counter
  BY DEF Restart
<1>2. tx' \in [Producers -> TxRecords] /\ lock' \in [Sessions -> Producers \cup {None}]
  BY <1>1, IdleHoldsNothing
<1>3. \A q \in Producers : tx'[q] = IdleTx
  BY <1>1
<1> QED BY <1>1, <1>2, <1>3, IdleHoldsNothing, EndingKeeps

(* What leaves the rows and the transactions alone. *)
LEMMA RowsUnchanged ==
  ASSUME RowsInv, log' = log, counter' = counter, lock' = lock, tx' = tx
  PROVE  RowsInv'
<1>1. RowsTyped
  BY DEF RowsInv
<1> QED BY <1>1, EndingKeeps DEF RowsTyped

(***************************************************************************)
(* What a commit does: the feed of one session grows by events that number *)
(* on from its length, and the transaction holds just those.               *)
(***************************************************************************)
Grown(p, s, events) ==
  /\ s \in Sessions /\ events \in Seq(Event) /\ Len(events) \in 1..2
  /\ \A i \in DOMAIN events : events[i].sequence = Len(log[s]) + i
  /\ log' = [log EXCEPT ![s] = @ \o events]
  /\ tx[p].at = "locked" /\ tx[p].session = s
  /\ tx' = [tx EXCEPT ![p] = [tx[p] EXCEPT !.at = "committed", !.events = events]]

(* A commit appends its events to one feed and frees the lock. *)
LEMMA CommitGrows ==
  ASSUME RowsInv, NEW p \in Producers, NEW n \in 1..2, NEW types \in [1..n -> Types],
         Commit(p, types)
  PROVE  /\ \E events : Grown(p, tx[p].session, events) /\ Len(events) = n
         /\ counter' = [counter EXCEPT ![tx[p].session] = @ + n]
         /\ lock' = [lock EXCEPT ![tx[p].session] = None]
<1> DEFINE s == tx[p].session
           first == tx[p].events[1].sequence
           events == [i \in DOMAIN types |->
                        [sequence |-> first + i - 1, type |-> types[i]]]
<1>1. /\ tx[p].at = "locked"
      /\ log' = [log EXCEPT ![s] = @ \o events]
      /\ counter' = [counter EXCEPT ![s] = @ + Len(types)]
      /\ lock' = [lock EXCEPT ![s] = None]
      /\ tx' = [tx EXCEPT ![p] = [@ EXCEPT !.at = "committed", !.events = events]]
  BY DEF Commit
<1>2. s \in Sessions /\ counter[s] = Len(log[s]) + 1 /\ first = counter[s] /\ Len(log[s]) \in Nat
  BY <1>1 DEF RowsInv, RowsTyped, SequencesDense, LocksHeld
<1>3. types \in Seq(Types) /\ Len(types) = n /\ DOMAIN types = 1..n
  BY DEF Types
<1>4. events \in [1..n -> Event]
  <2>1. ASSUME NEW i \in 1..n PROVE [sequence |-> first + i - 1, type |-> types[i]] \in Event
    <3>1. first + i - 1 \in Nat \ {0} /\ types[i] \in Types
      BY <1>2, <1>3
    <3> HIDE DEF first
    <3> QED BY <3>1 DEF Event
  <2> QED BY <2>1, <1>3
<1>5. events \in Seq(Event) /\ Len(events) = n
  BY <1>4
<1>6. \A i \in DOMAIN events : events[i].sequence = Len(log[s]) + i
  <2>1. DOMAIN events = 1..n
    BY <1>3
  <2>2. ASSUME NEW i \in 1..n PROVE events[i].sequence = Len(log[s]) + i
    <3>1. events[i].sequence = first + i - 1
      BY <1>3
    <3> HIDE DEF events
    <3> QED BY <3>1, <1>2
  <2> QED BY <2>1, <2>2
<1>7. tx' = [tx EXCEPT ![p] = [tx[p] EXCEPT !.at = "committed", !.events = events]]
  BY <1>1 DEF RowsInv, RowsTyped
<1> HIDE DEF events, first
<1>8. Grown(p, s, events)
  BY <1>1, <1>2, <1>5, <1>6, <1>7 DEF Grown
<1> QED BY <1>1, <1>3, <1>5, <1>8

(* What was in the feed stays there, and the events are added to it. *)
LEMMA GrownFeed ==
  ASSUME RowsInv, NEW p \in Producers, NEW s, NEW events, Grown(p, s, events)
  PROVE  /\ log' \in [Sessions -> Seq(Event)]
         /\ \A z \in Sessions \ {s} : log'[z] = log[z]
         /\ Len(log'[s]) = Len(log[s]) + Len(events)
         /\ \A k \in 1..Len(log[s]) : log'[s][k] = log[s][k]
         /\ \A i \in DOMAIN events : log'[s][Len(log[s]) + i] = events[i]
         /\ \A z \in Sessions : \A e : InFeed(log[z], e) => InFeed(log'[z], e)
<1>1. log \in [Sessions -> Seq(Event)] /\ s \in Sessions /\ events \in Seq(Event)
  BY DEF RowsInv, RowsTyped, Grown
<1>2. log' = [log EXCEPT ![s] = log[s] \o events]
  BY DEF Grown
<1>3. log'[s] = log[s] \o events /\ \A z \in Sessions \ {s} : log'[z] = log[z]
  BY <1>1, <1>2
<1>4. log[s] \in Seq(Event)
  BY <1>1
<1>5. log[s] \o events \in Seq(Event)
  BY <1>1, <1>4
<1>6. log' \in [Sessions -> Seq(Event)]
  BY <1>1, <1>2, <1>5
<1>7. /\ Len(log'[s]) = Len(log[s]) + Len(events)
      /\ \A k \in 1..Len(log[s]) : log'[s][k] = log[s][k]
      /\ \A i \in DOMAIN events : log'[s][Len(log[s]) + i] = events[i]
  BY <1>1, <1>3, <1>4
<1>8. ASSUME NEW z \in Sessions, NEW e, InFeed(log[z], e) PROVE InFeed(log'[z], e)
  <2>1. CASE z # s
    BY <1>3, <1>8, <2>1
  <2>2. CASE z = s
    <3>1. Len(log[s]) \in Nat /\ Len(events) \in Nat
      BY <1>1, <1>4
    <3> QED BY <1>7, <1>8, <2>2, <3>1 DEF InFeed
  <2> QED BY <2>1, <2>2
<1> QED BY <1>3, <1>6, <1>7, <1>8

(* A committed transaction holds sequences of its session's feed only. *)
LEMMA HeldIsInFeed ==
  ASSUME RowsInv, NEW q \in Producers, NEW s, NEW n, Holds(tx[q], s, n)
  PROVE  s \in Sessions /\ n \in 1..Len(log[s])
<1>1. tx[q].at = "committed" /\ tx[q].session = s
  BY DEF Holds
<1>2. PICK i \in DOMAIN tx[q].events : tx[q].events[i].sequence = n
  BY DEF Holds
<1>3. Stretch(log[s], tx[q].events)
  BY <1>1 DEF RowsInv, Stretches
<1> QED BY <1>1, <1>2, <1>3 DEF RowsInv, RowsTyped, Stretch, InFeed

(* A commit keeps the invariant of the rows. *)
LEMMA CommitKeepsRows ==
  ASSUME RowsInv, NEW p \in Producers, NEW n \in 1..2, NEW types \in [1..n -> Types],
         Commit(p, types)
  PROVE  RowsInv'
<1> DEFINE s == tx[p].session
<1>1. PICK events : Grown(p, s, events) /\ Len(events) = n
  BY CommitGrows
<1>2. /\ counter' = [counter EXCEPT ![s] = @ + n]
      /\ lock' = [lock EXCEPT ![s] = None]
  BY CommitGrows
<1>3. /\ RowsTyped /\ SequencesDense /\ LocksHeld /\ Stretches /\ Disjoint
  BY DEF RowsInv
<1> DEFINE r == [tx[p] EXCEPT !.at = "committed", !.events = events]
<1>4. /\ s \in Sessions /\ events \in Seq(Event) /\ tx[p].at = "locked"
      /\ \A i \in DOMAIN events : events[i].sequence = Len(log[s]) + i
      /\ tx' = [tx EXCEPT ![p] = r]
      /\ Len(log[s]) \in Nat /\ DOMAIN events = 1..n /\ lock[s] = p
      /\ tx[p] \in TxRecords
  BY <1>1, <1>3 DEF Grown, RowsTyped, LocksHeld
<1>5. r \in TxRecords /\ r.at = "committed" /\ r.session = s /\ r.events = events
  BY <1>4 DEF TxRecords
<1>6. /\ log' \in [Sessions -> Seq(Event)]
      /\ \A z \in Sessions \ {s} : log'[z] = log[z]
      /\ Len(log'[s]) = Len(log[s]) + n
      /\ \A k \in 1..Len(log[s]) : log'[s][k] = log[s][k]
      /\ \A i \in 1..n : log'[s][Len(log[s]) + i] = events[i]
      /\ \A z \in Sessions : \A e : InFeed(log[z], e) => InFeed(log'[z], e)
  <2>1. Grown(p, s, events) /\ Len(events) = n /\ DOMAIN events = 1..n
    BY <1>1, <1>4
  <2> HIDE DEF s, r
  <2>2. /\ log' \in [Sessions -> Seq(Event)]
        /\ \A z \in Sessions \ {s} : log'[z] = log[z]
        /\ Len(log'[s]) = Len(log[s]) + Len(events)
        /\ \A k \in 1..Len(log[s]) : log'[s][k] = log[s][k]
        /\ \A i \in DOMAIN events : log'[s][Len(log[s]) + i] = events[i]
        /\ \A z \in Sessions : \A e : InFeed(log[z], e) => InFeed(log'[z], e)
    BY <2>1, GrownFeed
  <2> QED BY <2>1, <2>2
<1> HIDE DEF s, r
<1>7. \A q \in Producers : tx'[q] = IF q = p THEN r ELSE tx[q]
  BY <1>3, <1>4 DEF RowsTyped
<1>8. RowsTyped'
  <2>1. tx' \in [Producers -> TxRecords] /\ lock' \in [Sessions -> Producers \cup {None}]
    BY <1>2, <1>3, <1>4, <1>5 DEF RowsTyped
  <2>2. counter' \in [Sessions -> Nat \ {0}]
    <3>1. counter \in [Sessions -> Nat \ {0}]
      BY <1>3 DEF RowsTyped
    <3>2. counter[s] + n \in Nat \ {0}
      BY <1>4, <3>1
    <3> QED BY <1>2, <3>1, <3>2
  <2>3. \A q \in Producers : tx'[q].at # "idle" => tx'[q].session \in Sessions
    BY <1>3, <1>4, <1>5, <1>7 DEF RowsTyped
  <2> QED BY <1>6, <2>1, <2>2, <2>3 DEF RowsTyped
<1>9. SequencesDense'
  <2>1. ASSUME NEW z \in Sessions
        PROVE  /\ counter'[z] = Len(log'[z]) + 1
               /\ \A i \in DOMAIN log'[z] : log'[z][i].sequence = i
    <3>1. /\ counter[z] = Len(log[z]) + 1
          /\ \A i \in DOMAIN log[z] : log[z][i].sequence = i
          /\ log'[z] \in Seq(Event) /\ log[z] \in Seq(Event)
      BY <1>3, <1>6 DEF SequencesDense, RowsTyped
    <3>2. CASE z # s
      <4>1. counter'[z] = counter[z] /\ log'[z] = log[z]
        BY <1>2, <1>3, <1>6, <3>2 DEF RowsTyped
      <4> QED BY <3>1, <4>1
    <3>3. CASE z = s
      <4>1. counter'[s] = counter[s] + n
        BY <1>2, <1>3, <1>4 DEF RowsTyped
      <4>2. DOMAIN log[s] = 1..Len(log[s]) /\ DOMAIN log'[s] = 1..(Len(log[s]) + n)
        BY <1>6, <3>1, <3>3
      <4>3. ASSUME NEW i \in 1..(Len(log[s]) + n) PROVE log'[s][i].sequence = i
        <5>1. CASE i \in 1..Len(log[s])
          BY <1>6, <3>1, <3>3, <4>2, <5>1
        <5>2. CASE i \notin 1..Len(log[s])
          <6>1. i - Len(log[s]) \in 1..n /\ i = Len(log[s]) + (i - Len(log[s]))
            BY <1>4, <4>3, <5>2
          <6>2. log'[s][i] = events[i - Len(log[s])]
            BY <1>6, <6>1
          <6> QED BY <1>4, <6>1, <6>2
        <5> QED BY <5>1, <5>2
      <4>4. counter'[s] = Len(log'[s]) + 1
        BY <1>4, <1>6, <3>1, <3>3, <4>1
      <4> QED BY <3>3, <4>2, <4>3, <4>4
    <3> QED BY <3>2, <3>3
  <2> QED BY <2>1 DEF SequencesDense
<1>10. LocksHeld'
  <2>1. ASSUME NEW q \in Producers, tx'[q].at = "locked"
        PROVE  /\ lock'[tx'[q].session] = q
               /\ tx'[q].events[1].sequence = counter'[tx'[q].session]
    <3>1. q # p /\ tx'[q] = tx[q]
      BY <1>5, <1>7, <2>1
    <3>2. /\ lock[tx[q].session] = q /\ tx[q].session \in Sessions
          /\ tx[q].events[1].sequence = counter[tx[q].session]
      BY <1>3, <2>1, <3>1 DEF LocksHeld, RowsTyped
    <3>3. tx[q].session # s
      BY <1>4, <3>1, <3>2
    <3> QED BY <1>2, <1>3, <3>1, <3>2, <3>3 DEF RowsTyped
  <2> QED BY <2>1 DEF LocksHeld
<1>11. Stretches'
  <2>1. ASSUME NEW q \in Producers, tx'[q].at = "committed"
        PROVE  Stretch(log'[tx'[q].session], tx'[q].events)
    <3>1. CASE q = p
      <4>1. ASSUME NEW i \in 1..n
            PROVE InFeed(log'[s], events[i]) /\ events[i].sequence = events[1].sequence + i - 1
        <5>1. /\ events[i].sequence = Len(log[s]) + i
              /\ events[1].sequence = Len(log[s]) + 1
              /\ log'[s][Len(log[s]) + i] = events[i]
          <6>1. 1 \in 1..n
            OBVIOUS
          <6> QED BY <1>4, <1>6, <4>1, <6>1
        <5> QED BY <1>4, <1>6, <5>1 DEF InFeed
      <4>2. events # <<>>
        BY <1>4
      <4>3. Stretch(log'[s], events)
        BY <1>4, <4>1, <4>2 DEF Stretch
      <4> QED BY <1>5, <1>7, <3>1, <4>3
    <3>2. CASE q # p
      <4>1. tx'[q] = tx[q]
        BY <1>7, <3>2
      <4>2. Stretch(log[tx[q].session], tx[q].events) /\ tx[q].session \in Sessions
        BY <1>3, <2>1, <4>1 DEF Stretches, RowsTyped
      <4>3. Stretch(log'[tx[q].session], tx[q].events)
        BY <1>6, <4>2 DEF Stretch
      <4> QED BY <4>1, <4>3
    <3> QED BY <3>1, <3>2
  <2> QED BY <2>1 DEF Stretches
<1>12. Disjoint'
  <2>1. ASSUME NEW m, Holds(r, s, m) PROVE m > Len(log[s])
    BY <2>1, <1>4, <1>5 DEF Holds
  <2>2. ASSUME NEW q \in Producers, NEW z \in Sessions, NEW m \in Nat,
               Holds(tx'[p], z, m), Holds(tx'[q], z, m)
        PROVE  q = p
    <3>1. Holds(r, z, m) /\ z = s
      BY <1>5, <1>7, <2>2 DEF Holds
    <3>2. SUFFICES ASSUME q # p PROVE FALSE
      OBVIOUS
    <3>3. Holds(tx[q], s, m)
      BY <1>7, <2>2, <3>1, <3>2
    <3> QED BY <1>4, <2>1, <3>1, <3>3, HeldIsInFeed
  <2>3. ASSUME NEW o \in Producers, NEW q \in Producers, NEW z \in Sessions, NEW m \in Nat,
               Holds(tx'[o], z, m), Holds(tx'[q], z, m)
        PROVE  o = q
    <3>1. CASE o = p \/ q = p
      BY <2>2, <2>3, <3>1
    <3>2. CASE o # p /\ q # p
      BY <1>3, <1>7, <2>3, <3>2 DEF Disjoint
    <3> QED BY <3>1, <3>2
  <2> QED BY <2>3 DEF Disjoint
<1> QED BY <1>8, <1>9, <1>10, <1>11, <1>12 DEF RowsInv

(* The committed events of a session that are not published yet. *)
PendingIn(x, s) == {n \in Nat : \E q \in Producers : Holds(x[q], s, n)}

(***************************************************************************)
(* Unless it overtakes, a transaction that is published is below all the   *)
(* pending events of its session: stretches are disjoint and have no gaps. *)
(***************************************************************************)
LEMMA NotOvertaken ==
  ASSUME RowsInv, NEW p \in Producers, tx[p].at = "committed", ~Overtakes(p),
         NEW o \in Producers, o # p, NEW n, Holds(tx[o], tx[p].session, n)
  PROVE  \A i \in DOMAIN tx[p].events : tx[p].events[i].sequence < n
<1> DEFINE s == tx[p].session
           mine == tx[p].events
           theirs == tx[o].events
<1>1. tx[o].at = "committed" /\ tx[o].session = s /\ \E j \in DOMAIN theirs : theirs[j].sequence = n
  BY DEF Holds
<1>2. s \in Sessions /\ tx \in [Producers -> TxRecords] /\ log[s] \in Seq(Event)
  BY DEF RowsInv, RowsTyped
<1>3. mine \in Seq(Event) /\ theirs \in Seq(Event)
  BY <1>2 DEF TxRecords
<1>4. Stretch(log[s], mine) /\ Stretch(log[s], theirs)
  BY <1>1 DEF RowsInv, Stretches
<1>5. ~(theirs[1].sequence < mine[1].sequence)
  BY <1>1 DEF Overtakes
<1>6. \A m \in Nat : ~(Holds(tx[p], s, m) /\ Holds(tx[o], s, m))
  BY <1>2 DEF RowsInv, Disjoint
<1>7. \A i \in DOMAIN mine, j \in DOMAIN theirs :
        ~(mine[i].sequence = theirs[j].sequence /\ mine[i].sequence \in Nat)
  BY <1>1, <1>6 DEF Holds
<1> HIDE DEF mine, theirs, s
<1>8. /\ \A i \in DOMAIN mine : mine[i].sequence \in Nat /\ mine[i].sequence = mine[1].sequence + i - 1
      /\ \A j \in DOMAIN theirs : theirs[j].sequence \in Nat /\ theirs[j].sequence = theirs[1].sequence + j - 1
  BY <1>2, <1>4 DEF Stretch, InFeed
<1>9. /\ DOMAIN mine = 1..Len(mine) /\ DOMAIN theirs = 1..Len(theirs)
      /\ Len(mine) \in Nat /\ Len(theirs) \in Nat
      /\ 1 \in DOMAIN mine /\ 1 \in DOMAIN theirs
  BY <1>3, <1>4 DEF Stretch
<1>10. PICK j \in DOMAIN theirs : theirs[j].sequence = n
  BY <1>1
<1>11. mine[1].sequence < theirs[1].sequence /\ theirs[1].sequence <= n
  BY <1>5, <1>7, <1>8, <1>9, <1>10
<1>12. ASSUME NEW i \in DOMAIN mine, ~(mine[i].sequence < n) PROVE FALSE
  <2> DEFINE k == theirs[1].sequence - mine[1].sequence + 1
  <2>1. k \in 1..Len(mine)
    <3>1. /\ mine[1].sequence \in Nat /\ theirs[1].sequence \in Nat /\ n \in Nat
          /\ mine[i].sequence = mine[1].sequence + i - 1 /\ i \in 1..Len(mine)
      BY <1>8, <1>9, <1>10, <1>12
    <3>2. theirs[1].sequence <= mine[1].sequence + i - 1
      BY <1>11, <1>12, <3>1
    <3> QED BY <1>9, <1>11, <3>1, <3>2
  <2>2. mine[k].sequence = theirs[1].sequence
    BY <2>1, <1>8, <1>9
  <2> QED BY <2>1, <2>2, <1>7, <1>8, <1>9
<1> QED BY <1>12 DEF mine

-----------------------------------------------------------------------------
(***************************************************************************)
(* A tab that has the session of feed g open, with connection c, wire w,   *)
(* cursor cu and events se; P are the pending events of the session.       *)
(***************************************************************************)
ConnRecords ==
  [at : {"closed", "replaying", "read", "live"}, after : Nat, lastSent : Nat,
   buffered : SUBSET Event, replay : SUBSET Event]

OnWire(w, n) == \E i \in DOMAIN w : w[i].sequence = n

WireBetween(g, w, lo, hi) ==
  /\ w \in Seq(Event)
  /\ \A i \in DOMAIN w : InFeed(g, w[i]) /\ w[i].sequence \in lo + 1..hi
  /\ \A i, j \in DOMAIN w : i < j => w[i].sequence < w[j].sequence

Mark(c) == Highest(c.replay, c.after)

Reader(g, c, w, cu, se) ==
  /\ cu \in 0..Len(g) /\ se \subseteq 1..cu
  /\ c.at \in {"replaying", "read"} => c.after = cu /\ \A e \in c.buffered : InFeed(g, e)
  /\ c.at = "read" => Mark(c) \in cu..Len(g) /\ c.replay = {g[k] : k \in cu + 1..Mark(c)}
  /\ c.at = "live" => c.lastSent \in cu..Len(g) /\ WireBetween(g, w, cu, c.lastSent)

(***************************************************************************)
(* Nothing is lost: what the tab has not read is on the wire, or in the    *)
(* replay or the buffer, or still to be published and then above the rest. *)
(***************************************************************************)
Complete(g, P, c, w, cu, se) ==
  /\ 1..cu \subseteq se
  /\ c.at = "read" => \A n \in Mark(c) + 1..Len(g) :
       g[n] \in c.buffered \/ (n \in P /\ \A e \in c.buffered : e.sequence < n)
  /\ c.at = "live" =>
       /\ \A n \in cu + 1..c.lastSent : OnWire(w, n)
       /\ \A n \in c.lastSent + 1..Len(g) : n \in P

Tab(s, g, P, ov, c, w, cu, se) ==
  /\ s \in Sessions \cup {None} /\ c \in ConnRecords /\ w \in Seq(Event)
  /\ c.at # "live" => w = <<>>
  /\ s = None => c.at = "closed"
  /\ s # None => Reader(g, c, w, cu, se)
  /\ s # None /\ ~ov => Complete(g, P, c, w, cu, se)

(* A feed whose sequences are its positions. *)
Dense(g) == g \in Seq(Event) /\ \A i \in 1..Len(g) : g[i].sequence = i

(* Events of a feed are entries of it, as InOrderIs asks. *)
LEMMA FeedEntries ==
  ASSUME NEW g, Dense(g), NEW S, \A e \in S : InFeed(g, e)
  PROVE  Entries(g, Len(g), S) /\ Len(g) \in Nat /\ S \subseteq Event
BY DEF Dense, Entries, InFeed

(* Events above a wire's end are appended in order. *)
LEMMA AppendInOrder ==
  ASSUME NEW g, Dense(g), NEW w, NEW lo \in Nat, NEW mid \in Nat, NEW hi \in Nat,
         lo <= mid, mid <= hi, WireBetween(g, w, lo, mid),
         NEW S, \A e \in S : InFeed(g, e) /\ e.sequence \in mid + 1..hi
  PROVE  /\ WireBetween(g, w \o InOrder(S), lo, hi)
         /\ \A n : OnWire(w, n) => OnWire(w \o InOrder(S), n)
         /\ \A e \in S : OnWire(w \o InOrder(S), e.sequence)
<1> DEFINE v == InOrder(S)
           u == w \o v
<1>1. v \in Seq(S) /\ IsInOrder(v, S) /\ S \subseteq Event
  BY FeedEntries, InOrderIs
<1>2. v \in Seq(Event) /\ w \in Seq(Event) /\ \A i \in DOMAIN v : v[i] \in S
  BY <1>1 DEF WireBetween
<1> HIDE DEF v
<1>3. /\ u \in Seq(Event)
      /\ DOMAIN u = 1..(Len(w) + Len(v)) /\ Len(w) \in Nat /\ Len(v) \in Nat
      /\ DOMAIN w = 1..Len(w) /\ DOMAIN v = 1..Len(v)
      /\ \A i \in 1..Len(w) : u[i] = w[i]
      /\ \A i \in 1..Len(v) : u[Len(w) + i] = v[i]
  BY <1>2
<1> HIDE DEF u
<1>4. \A i \in DOMAIN u : i \in 1..Len(w) \/ (i - Len(w) \in 1..Len(v) /\ i = Len(w) + (i - Len(w)))
  BY <1>3
<1>5. ASSUME NEW i \in DOMAIN u
      PROVE  InFeed(g, u[i]) /\ u[i].sequence \in lo + 1..hi
  <2>1. CASE i \in 1..Len(w)
    BY <1>3, <2>1 DEF WireBetween
  <2>2. CASE i - Len(w) \in 1..Len(v) /\ i = Len(w) + (i - Len(w))
    <3>1. u[i] = v[i - Len(w)] /\ u[i] \in S
      BY <1>2, <1>3, <2>2
    <3> QED BY <3>1
  <2> QED BY <1>4, <2>1, <2>2
<1>6. ASSUME NEW i \in DOMAIN u, NEW j \in DOMAIN u, i < j
      PROVE  u[i].sequence < u[j].sequence
  <2>1. CASE j \in 1..Len(w)
    BY <1>3, <1>6, <2>1 DEF WireBetween
  <2>2. CASE i \in 1..Len(w) /\ j - Len(w) \in 1..Len(v) /\ j = Len(w) + (j - Len(w))
    <3>1. u[j] \in S /\ u[i] = w[i]
      BY <1>2, <1>3, <2>2
    <3>2. u[i].sequence \in lo + 1..mid /\ u[j].sequence \in mid + 1..hi
      BY <1>3, <2>2, <3>1 DEF WireBetween
    <3> QED BY <3>2
  <2>3. CASE /\ i - Len(w) \in 1..Len(v) /\ i = Len(w) + (i - Len(w))
             /\ j - Len(w) \in 1..Len(v) /\ j = Len(w) + (j - Len(w))
    <3>1. u[i] = v[i - Len(w)] /\ u[j] = v[j - Len(w)] /\ i - Len(w) < j - Len(w)
      BY <1>3, <1>6, <2>3
    <3> QED BY <1>1, <1>3, <2>3, <3>1 DEF IsInOrder
  <2> QED BY <1>3, <1>4, <1>6, <2>1, <2>2, <2>3
<1>7. WireBetween(g, u, lo, hi)
  BY <1>3, <1>5, <1>6 DEF WireBetween
<1>8. ASSUME NEW n, OnWire(w, n) PROVE OnWire(u, n)
  <2>1. PICK i \in 1..Len(w) : w[i].sequence = n
    BY <1>3, <1>8 DEF OnWire
  <2> QED BY <1>3, <2>1 DEF OnWire
<1>9. ASSUME NEW e \in S PROVE OnWire(u, e.sequence)
  <2>1. PICK i \in 1..Len(v) : v[i] = e
    BY <1>1, <1>3 DEF IsInOrder
  <2>2. Len(w) + i \in DOMAIN u /\ u[Len(w) + i] = e
    BY <1>3, <2>1
  <2> QED BY <2>2 DEF OnWire
<1> QED BY <1>7, <1>8, <1>9 DEF u, v

(* The head of a wire is the lowest event on it. *)
LEMMA WireHead ==
  ASSUME NEW g, NEW w, NEW lo \in Nat, NEW hi \in Nat,
         WireBetween(g, w, lo, hi), w # <<>>
  PROVE  /\ Head(w).sequence \in lo + 1..hi /\ InFeed(g, Head(w)) /\ Head(w) = w[1]
         /\ WireBetween(g, Tail(w), Head(w).sequence, hi)
         /\ \A n : OnWire(w, n) => n >= Head(w).sequence
         /\ \A n : OnWire(w, n) /\ n # Head(w).sequence => OnWire(Tail(w), n)
<1>1. /\ w \in Seq(Event) /\ Len(w) \in Nat /\ Len(w) # 0
      /\ DOMAIN w = 1..Len(w) /\ Head(w) = w[1] /\ 1 \in DOMAIN w
      /\ Tail(w) \in Seq(Event) /\ DOMAIN Tail(w) = 1..(Len(w) - 1)
      /\ \A i \in 1..(Len(w) - 1) : Tail(w)[i] = w[i + 1]
  BY DEF WireBetween
<1>2. \A i \in DOMAIN w : InFeed(g, w[i]) /\ w[i].sequence \in lo + 1..hi
  BY DEF WireBetween
<1>3. \A i, j \in DOMAIN w : i < j => w[i].sequence < w[j].sequence
  BY DEF WireBetween
<1>4. \A i \in 1..(Len(w) - 1) : i + 1 \in DOMAIN w /\ 1 < i + 1
  BY <1>1
<1>5. ASSUME NEW i \in 1..(Len(w) - 1)
      PROVE  InFeed(g, Tail(w)[i]) /\ Tail(w)[i].sequence \in Head(w).sequence + 1..hi
  <2>1. Head(w).sequence < w[i + 1].sequence
    BY <1>1, <1>3, <1>4
  <2> QED BY <1>1, <1>2, <1>4, <2>1
<1>6. ASSUME NEW i \in 1..(Len(w) - 1), NEW j \in 1..(Len(w) - 1), i < j
      PROVE  Tail(w)[i].sequence < Tail(w)[j].sequence
  <2>1. i + 1 < j + 1
    BY <1>6
  <2> QED BY <1>1, <1>3, <1>4, <2>1
<1>7. WireBetween(g, Tail(w), Head(w).sequence, hi)
  BY <1>1, <1>5, <1>6 DEF WireBetween
<1>8. ASSUME NEW n, OnWire(w, n)
      PROVE  n >= Head(w).sequence /\ (n # Head(w).sequence => OnWire(Tail(w), n))
  <2>1. PICK i \in DOMAIN w : w[i].sequence = n
    BY <1>8 DEF OnWire
  <2>2. CASE i = 1
    BY <1>1, <1>2, <2>1, <2>2
  <2>3. CASE i # 1
    <3>1. 1 < i /\ i - 1 \in 1..(Len(w) - 1) /\ Tail(w)[i - 1] = w[i]
      BY <1>1, <2>1, <2>3
    <3>2. Head(w).sequence < n
      BY <1>1, <1>3, <2>1, <3>1
    <3> QED BY <1>1, <1>2, <2>1, <3>1, <3>2 DEF OnWire
  <2> QED BY <2>2, <2>3
<1> QED BY <1>1, <1>2, <1>7, <1>8

-----------------------------------------------------------------------------
(* What each step does to one tab. *)

LEMMA ClosedTyped ==
  Closed \in ConnRecords /\ Closed.at = "closed"
BY DEF Closed, ConnRecords

(* The connection is lost, whatever is pending. *)
LEMMA TabShuts ==
  ASSUME NEW s, NEW g, NEW P, NEW Q, NEW ov, NEW c, NEW w, NEW cu, NEW se,
         Tab(s, g, P, ov, c, w, cu, se)
  PROVE  Tab(s, g, Q, ov, Closed, <<>>, cu, se)
<1>1. <<>> \in Seq(Event)
  OBVIOUS
<1>2. s # None => Reader(g, Closed, <<>>, cu, se)
  BY ClosedTyped DEF Tab, Reader
<1>3. s # None /\ ~ov => Complete(g, Q, Closed, <<>>, cu, se)
  BY ClosedTyped DEF Tab, Complete
<1> QED BY <1>1, <1>2, <1>3, ClosedTyped DEF Tab

(* A stream is opened anew, or closed. *)
LEMMA TabOpens ==
  ASSUME NEW s \in Sessions \cup {None}, NEW g, NEW P, NEW ov, NEW se,
         s # None => Dense(g) /\ se = {}
  PROVE  Tab(s, g, P, ov, Closed, <<>>, 0, se)
<1>1. <<>> \in Seq(Event)
  OBVIOUS
<1>2. s # None => Reader(g, Closed, <<>>, 0, se)
  <2>1. SUFFICES ASSUME s # None PROVE Reader(g, Closed, <<>>, 0, se)
    OBVIOUS
  <2>2. Len(g) \in Nat /\ se = {}
    BY <2>1 DEF Dense
  <2> QED BY <2>2, ClosedTyped DEF Reader
<1>3. s # None /\ ~ov => Complete(g, P, Closed, <<>>, 0, se)
  BY ClosedTyped DEF Complete
<1> QED BY <1>1, <1>2, <1>3, ClosedTyped DEF Tab

(* A connection is accepted: subscribed from the tab's cursor. *)
LEMMA TabConnects ==
  ASSUME NEW s, NEW g, NEW P, NEW ov, NEW c, NEW w, NEW cu, NEW se,
         Tab(s, g, P, ov, c, w, cu, se), Dense(g), s # None, c.at = "closed",
         NEW d, d = [Closed EXCEPT !.at = "replaying", !.after = cu, !.lastSent = cu]
  PROVE  Tab(s, g, P, ov, d, w, cu, se)
<1>1. Reader(g, c, w, cu, se) /\ w = <<>> /\ cu \in Nat
  BY DEF Tab, Reader, Dense
<1>2. /\ d \in ConnRecords /\ d.at = "replaying" /\ d.after = cu /\ d.buffered = {}
  BY <1>1 DEF Closed, ConnRecords
<1>3. Reader(g, d, w, cu, se)
  BY <1>1, <1>2 DEF Reader
<1>4. ~ov => Complete(g, P, d, w, cu, se)
  BY <1>2 DEF Tab, Complete
<1> QED BY <1>1, <1>2, <1>3, <1>4 DEF Tab

(* The replay is read: all of the feed above the cursor. *)
LEMMA TabReads ==
  ASSUME NEW s, NEW g, NEW P, NEW ov, NEW c, NEW w, NEW cu, NEW se,
         Tab(s, g, P, ov, c, w, cu, se), Dense(g), c.at = "replaying",
         NEW d, d = [c EXCEPT !.at = "read", !.replay = Above(ToSet(g), c.after)]
  PROVE  Tab(s, g, P, ov, d, w, cu, se)
<1> DEFINE R == Above(ToSet(g), cu)
           N == Len(g)
<1>1. s # None /\ Reader(g, c, w, cu, se) /\ w = <<>> /\ cu \in 0..N /\ N \in Nat /\ c.after = cu
  BY DEF Tab, Reader, Dense
<1>2. R = {g[k] : k \in cu + 1..N}
  <2>1. g \in Seq(Event) /\ \A i \in 1..N : g[i].sequence = i
    BY DEF Dense
  <2>2. ToSet(g) = {g[k] : k \in 1..N}
    BY <2>1 DEF ToSet
  <2>3. \A k \in 1..N : k > cu <=> k \in cu + 1..N
    BY <1>1
  <2>4. \A k \in cu + 1..N : k \in 1..N
    BY <1>1
  <2> QED BY <2>1, <2>2, <2>3, <2>4 DEF Above
<1>3. \A e \in R : e \in Event /\ InFeed(g, e) /\ e.sequence \in cu + 1..N
  <2>1. \A k \in cu + 1..N : k \in 1..N /\ g[k] \in Event /\ g[k].sequence = k
    BY <1>1 DEF Dense
  <2> QED BY <1>2, <2>1 DEF InFeed
<1> HIDE DEF R, N
<1>4. d = [c EXCEPT !.at = "read", !.replay = R]
  BY <1>1 DEF R
<1>5. /\ d \in ConnRecords /\ d.at = "read" /\ d.after = cu /\ d.replay = R
      /\ d.buffered = c.buffered
  <2>1. c \in ConnRecords /\ R \in SUBSET Event
    BY <1>3 DEF Tab
  <2> QED BY <1>1, <1>4, <2>1 DEF ConnRecords
<1>6. Mark(d) = N
  <2>1. \A e \in R : e.sequence \in Nat /\ e.sequence <= N
    BY <1>1, <1>3
  <2>2. cu \in Nat
    BY <1>1
  <2>3. /\ Highest(R, cu) \in Nat /\ Highest(R, cu) >= cu
        /\ \A e \in R : Highest(R, cu) >= e.sequence
        /\ Highest(R, cu) = cu \/ \E e \in R : Highest(R, cu) = e.sequence
    BY <1>1, <2>1, <2>2, HighestIs
  <2>4. Highest(R, cu) <= N
    BY <1>1, <2>1, <2>3
  <2>5. CASE cu = N
    BY <1>1, <1>5, <2>3, <2>4, <2>5 DEF Mark
  <2>6. CASE cu # N
    <3>1. N \in cu + 1..N
      BY <1>1, <2>6
    <3>2. g[N] \in R
      BY <1>2, <3>1
    <3>3. g[N].sequence = N
      BY <1>1, <3>1 DEF Dense, N
    <3> QED BY <1>1, <1>5, <2>3, <2>4, <3>2, <3>3 DEF Mark
  <2> QED BY <2>5, <2>6
<1>7. Reader(g, d, w, cu, se)
  <2>1. Mark(d) \in cu..Len(g) /\ d.replay = {g[k] : k \in cu + 1..Mark(d)}
    BY <1>1, <1>2, <1>5, <1>6 DEF N
  <2> QED BY <1>1, <1>5, <2>1 DEF Reader
<1>8. ~ov => Complete(g, P, d, w, cu, se)
  <2>1. \A n \in Mark(d) + 1..Len(g) : FALSE
    BY <1>1, <1>6 DEF N
  <2> QED BY <1>1, <1>5, <2>1 DEF Tab, Complete
<1> QED BY <1>1, <1>5, <1>7, <1>8 DEF Tab

(* The replay is written and what the buffer adds to it. *)
LEMMA TabGoesLive ==
  ASSUME NEW s, NEW g, NEW P, NEW ov, NEW c, NEW w, NEW cu, NEW se,
         Tab(s, g, P, ov, c, w, cu, se), Dense(g), c.at = "read",
         NEW added, added = Above(c.buffered, Mark(c)),
         NEW d, d = [c EXCEPT !.at = "live", !.buffered = {}, !.replay = {},
                              !.lastSent = Highest(added, Mark(c))],
         NEW v, v = w \o InOrder(c.replay) \o InOrder(added)
  PROVE  Tab(s, g, P, ov, d, v, cu, se)
<1> DEFINE N == Len(g)
           M == Mark(c)
           L == Highest(added, M)
<1>1. /\ s # None /\ Reader(g, c, w, cu, se) /\ w = <<>> /\ N \in Nat
      /\ cu \in Nat /\ M \in Nat /\ cu <= M /\ M <= N
      /\ c.replay = {g[k] : k \in cu + 1..M}
      /\ \A e \in c.buffered : InFeed(g, e)
      /\ se \subseteq 1..cu /\ cu \in 0..N
  BY DEF Tab, Reader, Dense
<1>2. \A k \in 1..N : g[k] \in Event /\ g[k].sequence = k
  BY DEF Dense
<1>3. \A e \in added : e \in c.buffered /\ InFeed(g, e) /\ e.sequence > M
  BY <1>1 DEF Above
<1> HIDE DEF N, M
<1>4. \A e \in added : e.sequence \in Nat /\ e.sequence <= N
  BY <1>1, <1>3 DEF InFeed, N
<1>5. /\ L \in Nat /\ L >= M /\ \A e \in added : L >= e.sequence
      /\ L = M \/ \E e \in added : L = e.sequence
  BY <1>1, <1>4, HighestIs
<1>6. L \in cu..N
  BY <1>1, <1>4, <1>5
<1> HIDE DEF L
<1>7. /\ d \in ConnRecords /\ d.at = "live" /\ d.lastSent = L
  <2>1. c \in ConnRecords /\ {} \in SUBSET Event
    BY DEF Tab
  <2>2. d = [c EXCEPT !.at = "live", !.buffered = {}, !.replay = {}, !.lastSent = L]
    BY DEF L, M
  <2> QED BY <1>5, <2>1, <2>2 DEF ConnRecords
<1>8. \A e \in c.replay : InFeed(g, e) /\ e.sequence \in cu + 1..M
  <2>1. \A k \in cu + 1..M : k \in 1..N
    BY <1>1
  <2> QED BY <1>1, <1>2, <2>1 DEF InFeed, N
<1> DEFINE u == w \o InOrder(c.replay)
           x == u \o InOrder(added)
<1>9. /\ WireBetween(g, u, cu, M) /\ \A e \in c.replay : OnWire(u, e.sequence)
  <2>1. WireBetween(g, w, cu, cu)
    BY <1>1 DEF WireBetween
  <2>2. cu <= cu
    BY <1>1
  <2> QED BY <1>1, <1>8, <2>1, <2>2, AppendInOrder
<1>10. v = x
  OBVIOUS
<1> HIDE DEF u
<1>11. \A e \in added : InFeed(g, e) /\ e.sequence \in M + 1..L
  BY <1>1, <1>3, <1>4, <1>5
<1>12. /\ WireBetween(g, v, cu, L)
       /\ \A n : OnWire(u, n) => OnWire(v, n)
       /\ \A e \in added : OnWire(v, e.sequence)
  <2>1. M <= L
    BY <1>1, <1>5
  <2>2. /\ WireBetween(g, x, cu, L)
        /\ \A n : OnWire(u, n) => OnWire(x, n)
        /\ \A e \in added : OnWire(x, e.sequence)
    BY <1>1, <1>5, <1>9, <1>11, <2>1, AppendInOrder
  <2> HIDE DEF x
  <2> QED BY <1>10, <2>2
<1>13. Reader(g, d, v, cu, se)
  BY <1>1, <1>6, <1>7, <1>12 DEF Reader, N
<1>14. ASSUME ~ov PROVE Complete(g, P, d, v, cu, se)
  <2>1. /\ 1..cu \subseteq se
        /\ \A n \in M + 1..N :
             g[n] \in c.buffered \/ (n \in P /\ \A e \in c.buffered : e.sequence < n)
    BY <1>1, <1>14 DEF Tab, Complete, M, N
  <2>2. ASSUME NEW n \in M + 1..N, g[n] \in c.buffered PROVE g[n] \in added /\ g[n].sequence = n
    <3>1. n \in 1..N /\ n > M
      BY <1>1, <2>2
    <3> QED BY <1>2, <2>2, <3>1 DEF Above, M
  <2>3. ASSUME NEW n \in cu + 1..L PROVE OnWire(v, n)
    <3>1. CASE n <= M
      <4>1. n \in cu + 1..M /\ n \in 1..N
        BY <1>1, <1>5, <2>3, <3>1
      <4>2. g[n] \in c.replay /\ g[n].sequence = n
        BY <1>1, <1>2, <4>1
      <4> QED BY <1>9, <1>12, <4>2
    <3>2. CASE ~(n <= M)
      <4>1. n \in M + 1..N /\ n <= L /\ n > M /\ n \in Nat
        BY <1>1, <1>6, <2>3, <3>2
      <4>2. CASE g[n] \in c.buffered
        BY <1>12, <2>2, <4>1, <4>2
      <4>3. CASE \A e \in c.buffered : e.sequence < n
        <5>1. \A e \in added : e.sequence < n
          BY <1>3, <4>3
        <5> QED BY <1>1, <1>4, <1>5, <4>1, <5>1
      <4> QED BY <2>1, <4>1, <4>2, <4>3
    <3> QED BY <3>1, <3>2
  <2>4. ASSUME NEW n \in L + 1..N PROVE n \in P
    <3>1. n \in M + 1..N /\ n > L
      BY <1>1, <1>5, <2>4
    <3>2. g[n] \notin c.buffered
      <4>1. g[n] \in c.buffered => n <= L
        BY <1>5, <2>2, <3>1
      <4> QED BY <1>1, <1>5, <3>1, <4>1
    <3> QED BY <2>1, <3>1, <3>2
  <2> QED BY <1>7, <2>1, <2>3, <2>4 DEF Complete, N
<1>15. v \in Seq(Event)
  BY <1>12 DEF WireBetween
<1> QED BY <1>1, <1>7, <1>13, <1>14, <1>15 DEF Tab

(***************************************************************************)
(* One event arrives.  It is committed and above the cursor, and it is the *)
(* next one unless publications overtake each other.                       *)
(***************************************************************************)
LEMMA TabReceives ==
  ASSUME NEW s, NEW g, NEW P, NEW ov, NEW c, NEW w, NEW cu, NEW se,
         Tab(s, g, P, ov, c, w, cu, se), Dense(g), w # <<>>,
         NEW n, n = Head(w).sequence
  PROVE  /\ s # None /\ n \in cu + 1..Len(g) /\ cu \in Nat
         /\ Tab(s, g, P, ov, c, Tail(w), n, se \cup {n})
<1>1. /\ c.at = "live" /\ s # None /\ Reader(g, c, w, cu, se)
  BY DEF Tab
<1>2. /\ c.lastSent \in cu..Len(g) /\ WireBetween(g, w, cu, c.lastSent)
      /\ cu \in Nat /\ Len(g) \in Nat /\ se \subseteq 1..cu /\ c.lastSent \in Nat
  BY <1>1 DEF Reader, Dense
<1>3. /\ n \in cu + 1..c.lastSent
      /\ WireBetween(g, Tail(w), n, c.lastSent)
      /\ \A m : OnWire(w, m) => m >= n
      /\ \A m : OnWire(w, m) /\ m # n => OnWire(Tail(w), m)
  BY <1>2, WireHead
<1>4. n \in cu + 1..Len(g) /\ n \in Nat /\ c.lastSent \in n..Len(g)
  BY <1>2, <1>3
<1>5. se \cup {n} \subseteq 1..n
  <2>1. \A m \in 1..cu : m \in 1..n
    BY <1>2, <1>4
  <2>2. n \in 1..n
    BY <1>2, <1>4
  <2> QED BY <1>2, <2>1, <2>2
<1>6. Reader(g, c, Tail(w), n, se \cup {n})
  BY <1>1, <1>3, <1>4, <1>5 DEF Reader
<1>7. ASSUME ~ov PROVE Complete(g, P, c, Tail(w), n, se \cup {n})
  <2>1. /\ 1..cu \subseteq se
        /\ \A m \in cu + 1..c.lastSent : OnWire(w, m)
        /\ \A m \in c.lastSent + 1..Len(g) : m \in P
    BY <1>1, <1>7 DEF Tab, Complete
  <2>2. cu + 1 \in cu + 1..c.lastSent
    BY <1>2, <1>3
  <2>3. n = cu + 1
    BY <1>2, <1>3, <1>4, <2>1, <2>2
  <2>4. 1..n \subseteq se \cup {n}
    BY <1>2, <2>1, <2>3
  <2>5. ASSUME NEW m \in n + 1..c.lastSent PROVE OnWire(Tail(w), m)
    <3>1. m \in cu + 1..c.lastSent /\ m # n
      BY <1>2, <1>4, <2>5
    <3> QED BY <1>3, <2>1, <3>1
  <2> QED BY <1>1, <2>1, <2>3, <2>4, <2>5 DEF Complete
<1>8. Tail(w) \in Seq(Event)
  BY <1>3 DEF WireBetween
<1> QED BY <1>1, <1>2, <1>4, <1>6, <1>7, <1>8 DEF Tab

(* Unless publications overtake, a tab receives the sequence after its cursor. *)
LEMMA TabReceivesNext ==
  ASSUME NEW s, NEW g, NEW P, NEW ov, NEW c, NEW w, NEW cu, NEW se,
         Tab(s, g, P, ov, c, w, cu, se), Dense(g), w # <<>>, ~ov
  PROVE  Head(w).sequence = cu + 1
<1> DEFINE n == Head(w).sequence
<1>1. /\ c.at = "live" /\ Reader(g, c, w, cu, se) /\ Complete(g, P, c, w, cu, se)
  BY DEF Tab
<1>2. /\ c.lastSent \in cu..Len(g) /\ WireBetween(g, w, cu, c.lastSent)
      /\ cu \in Nat /\ Len(g) \in Nat /\ c.lastSent \in Nat
  BY <1>1 DEF Reader, Dense
<1>3. n \in cu + 1..c.lastSent /\ \A m : OnWire(w, m) => m >= n
  BY <1>2, WireHead
<1> HIDE DEF n
<1>4. cu + 1 \in cu + 1..c.lastSent
  BY <1>2, <1>3
<1>5. OnWire(w, cu + 1)
  BY <1>1, <1>4 DEF Complete
<1>6. n = cu + 1
  BY <1>2, <1>3, <1>5
<1> QED BY <1>6 DEF n

(* The feed grows by events that are pending. *)
LEMMA TabOutgrown ==
  ASSUME NEW s, NEW g, NEW h, NEW P, NEW Q, NEW ov, NEW c, NEW w, NEW cu, NEW se,
         Tab(s, g, P, ov, c, w, cu, se), Dense(g), Dense(h), Len(g) <= Len(h),
         \A e : InFeed(g, e) => InFeed(h, e),
         P \subseteq Q, \A n \in Len(g) + 1..Len(h) : n \in Q
  PROVE  Tab(s, h, Q, ov, c, w, cu, se)
<1>1. Len(g) \in Nat /\ Len(h) \in Nat
  BY DEF Dense
<1>2. \A k \in 1..Len(g) : h[k] = g[k]
  BY DEF Dense, InFeed
<1>3. ASSUME s # None PROVE Reader(h, c, w, cu, se)
  <2>1. Reader(g, c, w, cu, se)
    BY <1>3 DEF Tab
  <2>2. cu \in 0..Len(h) /\ se \subseteq 1..cu
    BY <1>1, <2>1 DEF Reader
  <2>3. c.at \in {"replaying", "read"} => c.after = cu /\ \A e \in c.buffered : InFeed(h, e)
    BY <2>1 DEF Reader
  <2>4. ASSUME c.at = "read"
        PROVE  Mark(c) \in cu..Len(h) /\ c.replay = {h[k] : k \in cu + 1..Mark(c)}
    <3>1. Mark(c) \in cu..Len(g) /\ c.replay = {g[k] : k \in cu + 1..Mark(c)} /\ cu \in Nat
      BY <1>1, <2>1, <2>4 DEF Reader
    <3>2. \A k \in cu + 1..Mark(c) : k \in 1..Len(g)
      BY <1>1, <3>1
    <3>3. \A k \in cu + 1..Mark(c) : h[k] = g[k]
      BY <1>2, <3>2
    <3>4. Mark(c) \in cu..Len(h)
      BY <1>1, <3>1
    <3> QED BY <3>1, <3>3, <3>4
  <2>5. ASSUME c.at = "live"
        PROVE  c.lastSent \in cu..Len(h) /\ WireBetween(h, w, cu, c.lastSent)
    <3>1. c.lastSent \in cu..Len(g) /\ WireBetween(g, w, cu, c.lastSent)
      BY <2>1, <2>5 DEF Reader
    <3>2. c.lastSent \in cu..Len(h)
      BY <1>1, <2>2, <3>1
    <3> QED BY <3>1, <3>2 DEF WireBetween
  <2> QED BY <2>2, <2>3, <2>4, <2>5 DEF Reader
<1>4. ASSUME s # None, ~ov PROVE Complete(h, Q, c, w, cu, se)
  <2>1. Reader(g, c, w, cu, se) /\ Complete(g, P, c, w, cu, se)
    BY <1>4 DEF Tab
  <2>2. ASSUME c.at = "read", NEW n \in Mark(c) + 1..Len(h)
        PROVE  h[n] \in c.buffered \/ (n \in Q /\ \A e \in c.buffered : e.sequence < n)
    <3>1. Mark(c) \in Nat /\ \A e \in c.buffered : InFeed(g, e)
      BY <1>1, <2>1, <2>2 DEF Reader
    <3>2. CASE n <= Len(g)
      <4>1. n \in Mark(c) + 1..Len(g) /\ n \in 1..Len(g)
        BY <1>1, <2>2, <3>1, <3>2
      <4> QED BY <1>2, <2>1, <2>2, <4>1 DEF Complete
    <3>3. CASE ~(n <= Len(g))
      <4>1. n \in Len(g) + 1..Len(h) /\ n > Len(g)
        BY <1>1, <2>2, <3>1, <3>3
      <4>2. \A e \in c.buffered : e.sequence < n
        BY <1>1, <3>1, <4>1 DEF InFeed
      <4> QED BY <4>1, <4>2
    <3> QED BY <3>2, <3>3
  <2>3. ASSUME c.at = "live"
        PROVE  /\ \A n \in cu + 1..c.lastSent : OnWire(w, n)
               /\ \A n \in c.lastSent + 1..Len(h) : n \in Q
    <3>1. /\ \A n \in cu + 1..c.lastSent : OnWire(w, n)
          /\ \A n \in c.lastSent + 1..Len(g) : n \in P
          /\ c.lastSent \in Nat
      BY <1>1, <2>1, <2>3 DEF Complete, Reader
    <3>2. \A n \in c.lastSent + 1..Len(h) : n \in c.lastSent + 1..Len(g) \/ n \in Len(g) + 1..Len(h)
      BY <1>1, <3>1
    <3> QED BY <3>1, <3>2
  <2>4. 1..cu \subseteq se
    BY <2>1 DEF Complete
  <2> QED BY <2>2, <2>3, <2>4 DEF Complete
<1> QED BY <1>3, <1>4 DEF Tab

(***************************************************************************)
(* Events are published: S are those of the transaction, P and Q what is   *)
(* pending before and after, and unless it overtakes, S is below Q.        *)
(***************************************************************************)
LEMMA TabBuffers ==
  ASSUME NEW s, NEW g, NEW P, NEW Q, NEW ov, NEW c, NEW w, NEW cu, NEW se,
         Tab(s, g, P, ov, c, w, cu, se), Dense(g), c.at \in {"replaying", "read"},
         NEW S, \A e \in S : InFeed(g, e),
         \A n \in P : n \in Q \/ g[n] \in S,
         ~ov => \A e \in S : \A n \in Q : e.sequence < n,
         NEW d, d = [c EXCEPT !.buffered = @ \cup S]
  PROVE  Tab(s, g, Q, ov, d, w, cu, se)
<1>1. s # None /\ Reader(g, c, w, cu, se) /\ w = <<>> /\ c \in ConnRecords
  BY DEF Tab
<1>2. S \subseteq Event
  BY FeedEntries
<1>3. /\ d \in ConnRecords /\ d.at = c.at /\ d.after = c.after /\ d.replay = c.replay
      /\ d.buffered = c.buffered \cup S
  BY <1>1, <1>2 DEF ConnRecords
<1>4. Mark(d) = Mark(c)
  BY <1>3 DEF Mark
<1>5. Reader(g, d, w, cu, se)
  BY <1>1, <1>3, <1>4 DEF Reader
<1>6. ASSUME ~ov PROVE Complete(g, Q, d, w, cu, se)
  <2>1. Complete(g, P, c, w, cu, se)
    BY <1>1, <1>6 DEF Tab
  <2>2. ASSUME c.at = "read", NEW n \in Mark(d) + 1..Len(g)
        PROVE  g[n] \in d.buffered \/ (n \in Q /\ \A e \in d.buffered : e.sequence < n)
    <3>1. g[n] \in c.buffered \/ (n \in P /\ \A e \in c.buffered : e.sequence < n)
      BY <1>4, <2>1, <2>2 DEF Complete
    <3>2. CASE g[n] \in c.buffered
      BY <1>3, <3>2
    <3>3. CASE n \in P /\ \A e \in c.buffered : e.sequence < n
      <4>1. CASE g[n] \in S
        BY <1>3, <4>1
      <4>2. CASE g[n] \notin S
        <5>1. n \in Q
          BY <3>3, <4>2
        <5> QED BY <1>3, <1>6, <3>3, <5>1
      <4> QED BY <4>1, <4>2
    <3> QED BY <3>1, <3>2, <3>3
  <2>3. d.at # "live" /\ 1..cu \subseteq se
    BY <1>3, <2>1 DEF Complete
  <2> QED BY <1>3, <2>2, <2>3 DEF Complete
<1> QED BY <1>1, <1>3, <1>5, <1>6 DEF Tab

(* A publication that reaches a live connection keeps the tab sound: what is*)
(* left pending is above what it was sent.                                 *)
LEMMA TabHears ==
  ASSUME NEW s, NEW g, NEW P, NEW Q, NEW ov, NEW c, NEW w, NEW cu, NEW se,
         Tab(s, g, P, ov, c, w, cu, se), Dense(g), s # None, c.at = "live",
         NEW S, \A e \in S : InFeed(g, e),
         \A n \in P : n \in Q \/ g[n] \in S,
         ~ov => \A e \in S : \A n \in Q : e.sequence < n,
         NEW d, d = [c EXCEPT !.lastSent = Highest(S, c.lastSent)],
         NEW v, v = w \o InOrder(Above(S, c.lastSent))
  PROVE  Tab(s, g, Q, ov, d, v, cu, se)
<1> DEFINE N == Len(g)
           l == c.lastSent
           A == Above(S, l)
           h == Highest(S, l)
<1>1. /\ Reader(g, c, w, cu, se) /\ c \in ConnRecords
      /\ N \in Nat /\ l \in Nat /\ cu \in Nat /\ cu <= l /\ l <= N
      /\ WireBetween(g, w, cu, l) /\ cu \in 0..N /\ se \subseteq 1..cu
  BY DEF Tab, Reader, Dense
<1>2. \A e \in S : e.sequence \in 1..N
  BY DEF InFeed
<1>3. \A e : e \in A <=> e \in S /\ e.sequence > l
  BY DEF Above
<1> HIDE DEF N, l, A
<1>4. /\ h \in Nat /\ h >= l /\ \A e \in S : h >= e.sequence
      /\ h = l \/ \E e \in S : h = e.sequence
  <2>1. \A e \in S : e.sequence \in Nat /\ e.sequence <= N
    BY <1>1, <1>2
  <2> QED BY <1>1, <2>1, HighestIs
<1>5. l <= h /\ h <= N
  BY <1>1, <1>2, <1>4
<1> HIDE DEF h
<1>6. d \in ConnRecords /\ d.at = "live" /\ d.lastSent = h
  <2>1. d = [c EXCEPT !.lastSent = h]
    BY DEF h, l
  <2> QED BY <1>1, <1>4, <2>1 DEF ConnRecords
<1>7. \A e \in A : InFeed(g, e) /\ e.sequence \in l + 1..h
  BY <1>1, <1>2, <1>3, <1>4
<1> DEFINE x == w \o InOrder(A)
<1>8. v = x
  BY DEF A, l
<1>9. /\ WireBetween(g, x, cu, h)
      /\ \A n : OnWire(w, n) => OnWire(x, n)
      /\ \A e \in A : OnWire(x, e.sequence)
  BY <1>1, <1>4, <1>5, <1>7, AppendInOrder
<1> HIDE DEF x
<1>10. Reader(g, d, v, cu, se)
  <2>1. h \in cu..Len(g)
    BY <1>1, <1>4, <1>5 DEF N
  <2> QED BY <1>1, <1>6, <1>8, <1>9, <2>1 DEF Reader, N
<1>11. ASSUME ~ov PROVE Complete(g, Q, d, v, cu, se)
  <2>1. /\ 1..cu \subseteq se
        /\ \A n \in cu + 1..l : OnWire(w, n)
        /\ \A n \in l + 1..N : n \in P
    BY <1>11 DEF Tab, Complete, l, N
  <2>2. ASSUME NEW n \in l + 1..N, g[n] \in S PROVE g[n].sequence = n /\ g[n] \in A
    <3>1. n \in 1..N /\ n > l
      BY <1>1, <2>2
    <3>2. g[n].sequence = n
      BY <3>1 DEF Dense, N
    <3> QED BY <1>3, <2>2, <3>1, <3>2
  <2>3. ASSUME NEW n \in cu + 1..h PROVE OnWire(v, n)
    <3>1. CASE n <= l
      <4>1. n \in cu + 1..l
        BY <1>1, <1>4, <2>3, <3>1
      <4> QED BY <1>8, <1>9, <2>1, <4>1
    <3>2. CASE ~(n <= l)
      <4>1. n \in l + 1..N /\ h # l /\ n <= h /\ n \in Nat
        BY <1>1, <1>4, <1>5, <2>3, <3>2
      <4>2. n \notin Q
        <5>1. PICK e \in S : h = e.sequence
          BY <1>4, <4>1
        <5>2. n \in Q => h < n
          BY <1>11, <5>1
        <5> QED BY <1>4, <4>1, <5>2
      <4>3. g[n] \in S
        BY <2>1, <4>1, <4>2
      <4> QED BY <1>8, <1>9, <2>2, <4>1, <4>3
    <3> QED BY <3>1, <3>2
  <2>4. ASSUME NEW n \in h + 1..N PROVE n \in Q
    <3>1. n \in l + 1..N /\ n > h /\ n \in Nat
      BY <1>1, <1>4, <2>4
    <3>2. g[n] \notin S
      <4>1. g[n] \in S => n <= h
        BY <1>4, <2>2, <3>1
      <4> QED BY <1>4, <3>1, <4>1
    <3> QED BY <2>1, <3>1, <3>2
  <2> QED BY <1>6, <2>1, <2>3, <2>4 DEF Complete, N
<1>12. v \in Seq(Event)
  BY <1>8, <1>9 DEF WireBetween
<1> QED BY <1>6, <1>10, <1>11, <1>12 DEF Tab

-----------------------------------------------------------------------------
(* The inductive invariant: the rows, and every tab. *)

TabsTyped ==
  /\ conn \in [Tabs -> ConnRecords] /\ wire \in [Tabs -> Seq(Event)]
  /\ open \in [Tabs -> Sessions \cup {None}]
  /\ cursor \in [Tabs -> Nat] /\ seen \in [Tabs -> SUBSET Nat]

TabInv(t) ==
  Tab(open[t], log[open[t]], PendingIn(tx, open[t]), overtaking,
      conn[t], wire[t], cursor[t], seen[t])

StreamInv == RowsInv /\ TabsTyped /\ \A t \in Tabs : TabInv(t)

(* A feed of the log is dense. *)
LEMMA LogIsDense ==
  ASSUME RowsInv, NEW s \in Sessions
  PROVE  Dense(log[s])
<1>1. log[s] \in Seq(Event) /\ \A i \in DOMAIN log[s] : log[s][i].sequence = i
  BY DEF RowsInv, RowsTyped, SequencesDense
<1> QED BY <1>1 DEF Dense

(* A step of one tab, with its connection d, wire v, session s, cursor k    *)
(* and events q afterwards.                                                 *)
LEMMA OneTabKeeps ==
  ASSUME StreamInv, NEW t \in Tabs,
         NEW d, NEW v, NEW s, NEW k \in Nat, NEW q \in SUBSET Nat,
         log' = log, counter' = counter, lock' = lock, tx' = tx, overtaking' = overtaking,
         conn' = [conn EXCEPT ![t] = d], wire' = [wire EXCEPT ![t] = v],
         open' = [open EXCEPT ![t] = s], cursor' = [cursor EXCEPT ![t] = k],
         seen' = [seen EXCEPT ![t] = q],
         Tab(s, log[s], PendingIn(tx, s), overtaking, d, v, k, q)
  PROVE  StreamInv'
<1>1. RowsInv'
  BY RowsUnchanged DEF StreamInv
<1>2. TabsTyped
  BY DEF StreamInv
<1>3. d \in ConnRecords /\ v \in Seq(Event) /\ s \in Sessions \cup {None}
  BY DEF Tab
<1>4. TabsTyped'
  BY <1>2, <1>3 DEF TabsTyped
<1>5. ASSUME NEW u \in Tabs PROVE TabInv(u)'
  <2>1. CASE u = t
    <3>1. conn'[u] = d /\ wire'[u] = v /\ open'[u] = s /\ cursor'[u] = k /\ seen'[u] = q
      BY <1>2, <2>1 DEF TabsTyped
    <3> QED BY <3>1 DEF TabInv
  <2>2. CASE u # t
    <3>1. /\ conn'[u] = conn[u] /\ wire'[u] = wire[u] /\ open'[u] = open[u]
          /\ cursor'[u] = cursor[u] /\ seen'[u] = seen[u]
      BY <1>2, <2>2 DEF TabsTyped
    <3> QED BY <3>1 DEF TabInv, StreamInv
  <2> QED BY <2>1, <2>2
<1> QED BY <1>1, <1>4, <1>5 DEF StreamInv

(* A step that leaves the stream alone. *)
LEMMA StreamUnchanged ==
  ASSUME StreamInv, log' = log, counter' = counter, lock' = lock, tx' = tx,
         overtaking' = overtaking, conn' = conn, wire' = wire, open' = open,
         cursor' = cursor, seen' = seen
  PROVE  StreamInv'
<1>1. RowsInv'
  BY RowsUnchanged DEF StreamInv
<1>2. TabsTyped'
  BY DEF StreamInv, TabsTyped
<1>3. \A t \in Tabs : TabInv(t)'
  BY DEF StreamInv, TabInv
<1> QED BY <1>1, <1>2, <1>3 DEF StreamInv

(* A step of the rows that leaves committed transactions and tabs alone. *)
LEMMA PendingUnchanged ==
  ASSUME StreamInv, RowsInv', log' = log, overtaking' = overtaking, conn' = conn,
         wire' = wire, open' = open, cursor' = cursor, seen' = seen,
         \A q \in Producers : tx'[q].at = "committed" => tx'[q] = tx[q],
         \A q \in Producers : tx[q].at = "committed" => tx'[q] = tx[q]
  PROVE  StreamInv'
<1>1. TabsTyped'
  BY DEF StreamInv, TabsTyped
<1>2. ASSUME NEW s PROVE PendingIn(tx', s) = PendingIn(tx, s)
  <2>1. \A q \in Producers, n \in Nat : Holds(tx'[q], s, n) <=> Holds(tx[q], s, n)
    BY DEF Holds
  <2> QED BY <2>1 DEF PendingIn
<1>3. \A t \in Tabs : TabInv(t)'
  BY <1>2 DEF StreamInv, TabInv
<1> QED BY <1>1, <1>3 DEF StreamInv

(* Locking the session row keeps the invariant of the stream. *)
LEMMA LockRowKeepsStream ==
  ASSUME StreamInv, NEW p \in Producers, NEW s \in Sessions, LockRow(p, s)
  PROVE  StreamInv'
<1>1. RowsInv' /\ \A q \in Producers : tx'[q].at = "committed" => tx'[q] = tx[q]
  BY LockRowKeeps DEF StreamInv
<1>2. \A q \in Producers : tx[q].at = "committed" => tx'[q] = tx[q]
  BY DEF LockRow, StreamInv, RowsInv, RowsTyped
<1>3. /\ log' = log /\ overtaking' = overtaking /\ conn' = conn
      /\ wire' = wire /\ open' = open /\ cursor' = cursor /\ seen' = seen
  BY DEF LockRow, browser
<1> QED BY <1>1, <1>2, <1>3, PendingUnchanged

(* So does a transaction that rolls back. *)
LEMMA AbortKeepsStream ==
  ASSUME StreamInv, NEW p \in Producers, Abort(p)
  PROVE  StreamInv'
<1>1. RowsInv' /\ \A q \in Producers : tx'[q].at = "committed" => tx'[q] = tx[q]
  BY AbortKeeps DEF StreamInv
<1>2. \A q \in Producers : tx[q].at = "committed" => tx'[q] = tx[q]
  BY DEF Abort, StreamInv, RowsInv, RowsTyped
<1>3. /\ log' = log /\ overtaking' = overtaking /\ conn' = conn
      /\ wire' = wire /\ open' = open /\ cursor' = cursor /\ seen' = seen
  BY DEF Abort, browser
<1> QED BY <1>1, <1>2, <1>3, PendingUnchanged

(* So does a commit, whose events become pending for every tab. *)
LEMMA CommitKeepsStream ==
  ASSUME StreamInv, NEW p \in Producers, NEW n \in 1..2, NEW types \in [1..n -> Types],
         Commit(p, types)
  PROVE  StreamInv'
<1> DEFINE s == tx[p].session
<1>1. RowsInv /\ RowsInv'
  BY CommitKeepsRows DEF StreamInv
<1>2. PICK events : Grown(p, s, events)
  BY <1>1, CommitGrows
<1>3. /\ s \in Sessions /\ events \in Seq(Event) /\ tx[p].at = "locked"
      /\ \A i \in DOMAIN events : events[i].sequence = Len(log[s]) + i
      /\ tx' = [tx EXCEPT ![p] = [tx[p] EXCEPT !.at = "committed", !.events = events]]
      /\ tx \in [Producers -> TxRecords]
  BY <1>1, <1>2 DEF Grown, RowsInv, RowsTyped
<1> HIDE DEF s
<1>4. /\ \A z \in Sessions \ {s} : log'[z] = log[z]
      /\ Len(log'[s]) = Len(log[s]) + Len(events)
      /\ \A z \in Sessions : \A e : InFeed(log[z], e) => InFeed(log'[z], e)
  <2>1. RowsInv /\ Grown(p, s, events)
    BY <1>1, <1>2
  <2>2. /\ log' \in [Sessions -> Seq(Event)]
        /\ \A z \in Sessions \ {s} : log'[z] = log[z]
        /\ Len(log'[s]) = Len(log[s]) + Len(events)
        /\ \A k \in 1..Len(log[s]) : log'[s][k] = log[s][k]
        /\ \A i \in DOMAIN events : log'[s][Len(log[s]) + i] = events[i]
        /\ \A z \in Sessions : \A e : InFeed(log[z], e) => InFeed(log'[z], e)
    BY <2>1, GrownFeed
  <2> QED BY <2>2
<1>5. /\ overtaking' = overtaking /\ conn' = conn
      /\ wire' = wire /\ open' = open /\ cursor' = cursor /\ seen' = seen
  BY DEF Commit, browser
<1>6. \A q \in Producers : tx[q].at = "committed" => tx'[q] = tx[q]
  BY <1>3
<1>7. ASSUME NEW z PROVE PendingIn(tx, z) \subseteq PendingIn(tx', z)
  <2>1. \A q \in Producers, m \in Nat : Holds(tx[q], z, m) => Holds(tx'[q], z, m)
    BY <1>6 DEF Holds
  <2> QED BY <2>1 DEF PendingIn
<1>8. ASSUME NEW m \in Len(log[s]) + 1..Len(log'[s]) PROVE m \in PendingIn(tx', s)
  <2>1. Len(log[s]) \in Nat /\ Len(events) \in Nat /\ DOMAIN events = 1..Len(events)
    BY <1>1, <1>3 DEF RowsInv, RowsTyped
  <2>2. m \in Nat /\ m - Len(log[s]) \in DOMAIN events /\ m = Len(log[s]) + (m - Len(log[s]))
    BY <1>4, <2>1
  <2>3. tx'[p] = [tx[p] EXCEPT !.at = "committed", !.events = events] /\ tx[p] \in TxRecords
    BY <1>3
  <2>4. tx'[p].at = "committed" /\ tx'[p].session = s /\ tx'[p].events = events
    BY <2>3 DEF TxRecords, s
  <2>5. events[m - Len(log[s])].sequence = m
    BY <1>3, <2>2
  <2>6. Holds(tx'[p], s, m)
    BY <2>2, <2>4, <2>5 DEF Holds
  <2> QED BY <2>2, <2>6 DEF PendingIn
<1>9. ASSUME NEW t \in Tabs PROVE TabInv(t)'
  <2> DEFINE z == open[t]
  <2>1. Tab(z, log[z], PendingIn(tx, z), overtaking, conn[t], wire[t], cursor[t], seen[t])
    BY DEF StreamInv, TabInv
  <2>2. z \in Sessions \cup {None}
    BY <2>1 DEF Tab
  <2> HIDE DEF z
  <2>3. Tab(z, log'[z], PendingIn(tx', z), overtaking, conn[t], wire[t], cursor[t], seen[t])
    <3>1. CASE z = None
      BY <2>1, <3>1 DEF Tab
    <3>2. CASE z \in Sessions
      <4>1. Dense(log[z]) /\ Dense(log'[z])
        <5>1. Dense(log[z])
          BY <1>1, <3>2, LogIsDense
        <5>2. Dense(log'[z])
          <6>1. log'[z] \in Seq(Event) /\ \A i \in DOMAIN log'[z] : log'[z][i].sequence = i
            BY <1>1, <3>2 DEF RowsInv, RowsTyped, SequencesDense
          <6> QED BY <6>1 DEF Dense
        <5> QED BY <5>1, <5>2
      <4>2. Len(log[z]) \in Nat /\ Len(events) \in Nat
        BY <1>3, <4>1 DEF Dense
      <4>3. Len(log[z]) <= Len(log'[z])
        BY <1>4, <3>2, <4>2
      <4>4. \A m \in Len(log[z]) + 1..Len(log'[z]) : m \in PendingIn(tx', z)
        <5>1. CASE z = s
          BY <1>8, <5>1
        <5>2. CASE z # s
          BY <1>4, <3>2, <4>2, <5>2
        <5> QED BY <5>1, <5>2
      <4>5. \A e : InFeed(log[z], e) => InFeed(log'[z], e)
        BY <1>4, <3>2
      <4>6. PendingIn(tx, z) \subseteq PendingIn(tx', z)
        BY <1>7
      <4> QED BY <2>1, <4>1, <4>3, <4>4, <4>5, <4>6, TabOutgrown
    <3> QED BY <2>2, <3>1, <3>2
  <2> QED BY <1>5, <2>3 DEF TabInv, z
<1>10. TabsTyped'
  BY <1>5 DEF StreamInv, TabsTyped
<1> QED BY <1>1, <1>9, <1>10 DEF StreamInv

(* A tab that is not connected does not depend on what is pending. *)
LEMMA TabAway ==
  ASSUME NEW s, NEW g, NEW P, NEW Q, NEW ov, NEW c, NEW w, NEW cu, NEW se,
         Tab(s, g, P, ov, c, w, cu, se), c.at = "closed"
  PROVE  Tab(s, g, Q, ov, c, w, cu, se)
BY DEF Tab, Complete

(* So does a publication. *)
LEMMA PublishKeepsStream ==
  ASSUME StreamInv, NEW p \in Producers, Publish(p)
  PROVE  StreamInv'
<1> DEFINE s == tx[p].session
           events == tx[p].events
           S == ToSet(events)
           P == PendingIn(tx, s)
           Q == PendingIn(tx', s)
<1>1. RowsInv /\ RowsInv' /\ TabsTyped /\ tx \in [Producers -> TxRecords]
  BY PublishKeepsRows DEF StreamInv, RowsInv, RowsTyped
<1>2. /\ tx[p].at = "committed" /\ (overtaking \/ ~Overtakes(p))
      /\ Deliver(s, events)
      /\ tx' = [tx EXCEPT ![p] = IdleTx]
      /\ log' = log /\ overtaking' = overtaking
      /\ open' = open /\ cursor' = cursor /\ seen' = seen
  BY DEF Publish, rows, browser
<1>3. s \in Sessions /\ Stretch(log[s], events) /\ Dense(log[s]) /\ events \in Seq(Event)
  BY <1>1, <1>2, LogIsDense DEF RowsInv, RowsTyped, Stretches, TxRecords
<1>4. \A q \in Producers : tx'[q] = IF q = p THEN IdleTx ELSE tx[q]
  BY <1>1, <1>2
<1>5. \A e \in S : InFeed(log[s], e) /\ \E i \in DOMAIN events : events[i] = e
  BY <1>3 DEF ToSet, Stretch
<1>6. \A i \in DOMAIN events : events[i] \in S
  BY <1>3 DEF ToSet
<1>7. ASSUME NEW n \in P PROVE n \in Q \/ log[s][n] \in S
  <2>1. PICK q \in Producers : Holds(tx[q], s, n)
    BY DEF PendingIn
  <2>2. CASE q = p
    <3>1. PICK i \in DOMAIN events : events[i].sequence = n
      BY <2>1, <2>2 DEF Holds
    <3>2. log[s][n] = events[i]
      BY <1>3, <3>1 DEF Stretch, InFeed
    <3> QED BY <1>6, <3>2
  <2>3. CASE q # p
    <3>1. n \in Nat
      BY DEF PendingIn
    <3> QED BY <1>4, <2>1, <2>3, <3>1 DEF PendingIn
  <2> QED BY <2>2, <2>3
<1>8. ASSUME ~overtaking, NEW e \in S, NEW n \in Q PROVE e.sequence < n
  <2>1. PICK o \in Producers : Holds(tx'[o], s, n)
    BY DEF PendingIn
  <2>2. o # p
    BY <1>4, <2>1, IdleHoldsNothing
  <2>3. Holds(tx[o], tx[p].session, n)
    BY <1>4, <2>1, <2>2
  <2>4. \A i \in DOMAIN tx[p].events : tx[p].events[i].sequence < n
    BY <1>1, <1>2, <1>8, <2>2, <2>3, NotOvertaken
  <2> QED BY <1>5, <2>4
<1> HIDE DEF P, Q, S
<1>9. ASSUME NEW z, z # s PROVE PendingIn(tx', z) = PendingIn(tx, z)
  <2>1. \A q \in Producers, n \in Nat : Holds(tx'[q], z, n) <=> Holds(tx[q], z, n)
    BY <1>4, <1>9, IdleHoldsNothing DEF Holds
  <2> QED BY <2>1 DEF PendingIn
<1>10. ASSUME NEW t \in Tabs
       PROVE  /\ TabInv(t)'
              /\ conn'[t] \in ConnRecords /\ wire'[t] \in Seq(Event)
  <2> DEFINE z == open[t]
  <2>1. Tab(z, log[z], PendingIn(tx, z), overtaking, conn[t], wire[t], cursor[t], seen[t])
    BY DEF StreamInv, TabInv
  <2>2. SUFFICES Tab(z, log[z], PendingIn(tx', z), overtaking, conn'[t], wire'[t],
                     cursor[t], seen[t])
    BY <1>2 DEF TabInv, Tab
  <2>3. CASE t \notin Subscribed(s)
    <3>1. conn'[t] = conn[t] /\ wire'[t] = wire[t]
      BY <1>2, <2>3 DEF Deliver
    <3>2. z # s \/ conn[t].at = "closed"
      BY <2>3 DEF Subscribed
    <3>3. CASE z # s
      BY <1>9, <2>1, <3>1, <3>3
    <3>4. CASE conn[t].at = "closed"
      BY <2>1, <3>1, <3>4, TabAway
    <3> QED BY <3>2, <3>3, <3>4
  <2>4. CASE t \in Subscribed(s)
    <3>1. z = s /\ conn[t].at # "closed" /\ s # None
      BY <1>3, <2>4, NoneAssumption DEF Subscribed
    <3>2. Tab(s, log[s], P, overtaking, conn[t], wire[t], cursor[t], seen[t])
      BY <2>1, <3>1 DEF P
    <3>3. conn[t].at \in {"closed", "replaying", "read", "live"}
      BY <2>1 DEF Tab, ConnRecords
    <3>4. CASE conn[t].at = "live"
      <4>1. /\ conn'[t] = [conn[t] EXCEPT !.lastSent = Highest(S, conn[t].lastSent)]
            /\ wire'[t] = wire[t] \o InOrder(Above(S, conn[t].lastSent))
        BY <1>2, <2>4, <3>4 DEF Deliver, Live, S
      <4>2. Tab(s, log[s], Q, overtaking, conn'[t], wire'[t], cursor[t], seen[t])
        <5>1. /\ \A e \in S : InFeed(log[s], e)
              /\ \A n \in P : n \in Q \/ log[s][n] \in S
              /\ ~overtaking => \A e \in S : \A n \in Q : e.sequence < n
          BY <1>5, <1>7, <1>8
        <5>2. Dense(log[s]) /\ s # None
          BY <1>3, <3>1
        <5> DEFINE c == conn[t]
                   d == conn'[t]
                   w == wire[t]
                   v == wire'[t]
        <5>3. Tab(s, log[s], P, overtaking, c, w, cursor[t], seen[t]) /\ c.at = "live"
          BY <3>2, <3>4
        <5>4. /\ d = [c EXCEPT !.lastSent = Highest(S, c.lastSent)]
              /\ v = w \o InOrder(Above(S, c.lastSent))
          BY <4>1
        <5> HIDE DEF s, events, c, d, w, v
        <5>5. Tab(s, log[s], Q, overtaking, d, v, cursor[t], seen[t])
          BY <5>1, <5>2, <5>3, <5>4, TabHears
        <5> QED BY <5>5 DEF d, v
      <4> QED BY <3>1, <4>2 DEF Q
    <3>5. CASE conn[t].at \in {"replaying", "read"}
      <4>1. conn'[t] = [conn[t] EXCEPT !.buffered = @ \cup S] /\ wire'[t] = wire[t]
        BY <1>2, <2>4, <3>5 DEF Deliver, S
      <4>2. Tab(s, log[s], Q, overtaking, conn'[t], wire[t], cursor[t], seen[t])
        <5>1. /\ \A e \in S : InFeed(log[s], e)
              /\ \A n \in P : n \in Q \/ log[s][n] \in S
              /\ ~overtaking => \A e \in S : \A n \in Q : e.sequence < n
          BY <1>5, <1>7, <1>8
        <5>2. Dense(log[s])
          BY <1>3
        <5> DEFINE c == conn[t]
                   d == conn'[t]
                   w == wire[t]
        <5>3. /\ Tab(s, log[s], P, overtaking, c, w, cursor[t], seen[t])
              /\ c.at \in {"replaying", "read"}
          BY <3>2, <3>5
        <5>4. d = [c EXCEPT !.buffered = @ \cup S]
          BY <4>1
        <5> HIDE DEF s, events, c, d, w
        <5>5. Tab(s, log[s], Q, overtaking, d, w, cursor[t], seen[t])
          BY <5>1, <5>2, <5>3, <5>4, TabBuffers
        <5> QED BY <5>5 DEF d, w
      <4> QED BY <3>1, <4>1, <4>2 DEF Q
    <3> QED BY <3>1, <3>3, <3>4, <3>5
  <2> QED BY <2>3, <2>4
<1>11. TabsTyped'
  <2>1. DOMAIN conn' = Tabs /\ DOMAIN wire' = Tabs
    BY <1>2 DEF Deliver
  <2>2. conn' = [t \in Tabs |-> conn'[t]] /\ wire' = [t \in Tabs |-> wire'[t]]
    BY <1>2 DEF Deliver
  <2>3. conn' \in [Tabs -> ConnRecords] /\ wire' \in [Tabs -> Seq(Event)]
    BY <1>10, <2>2
  <2> QED BY <1>1, <1>2, <2>3 DEF TabsTyped
<1> QED BY <1>1, <1>10, <1>11 DEF StreamInv

-----------------------------------------------------------------------------
(* The steps of one tab. *)

LEMMA ConnectKeeps ==
  ASSUME StreamInv, NEW t \in Tabs, Connect(t)
  PROVE  StreamInv'
<1> DEFINE s == open[t]
           k == cursor[t]
           q == seen[t]
           w == wire[t]
           d == [Closed EXCEPT !.at = "replaying", !.after = cursor[t], !.lastSent = cursor[t]]
<1>1. /\ RowsInv /\ TabsTyped
      /\ Tab(s, log[s], PendingIn(tx, s), overtaking, conn[t], wire[t], cursor[t], seen[t])
  BY DEF StreamInv, TabInv
<1>2. /\ s # None /\ conn[t].at = "closed"
      /\ conn' = [conn EXCEPT ![t] = d]
      /\ log' = log /\ counter' = counter /\ lock' = lock /\ tx' = tx
      /\ overtaking' = overtaking /\ wire' = wire /\ open' = open
      /\ cursor' = cursor /\ seen' = seen
  BY DEF Connect, rows, browser
<1>3. s \in Sessions /\ k \in Nat /\ q \in SUBSET Nat
  BY <1>1, <1>2 DEF TabsTyped
<1>4. /\ open' = [open EXCEPT ![t] = s]
      /\ wire' = [wire EXCEPT ![t] = w]
      /\ cursor' = [cursor EXCEPT ![t] = k] /\ seen' = [seen EXCEPT ![t] = q]
  BY <1>1, <1>2 DEF TabsTyped
<1>5. Dense(log[s])
  BY <1>1, <1>3, LogIsDense
<1>6. Tab(s, log[s], PendingIn(tx, s), overtaking, d, w, k, q)
  BY <1>1, <1>2, <1>5, TabConnects
<1>7. /\ conn' = [conn EXCEPT ![t] = d]
      /\ log' = log /\ counter' = counter /\ lock' = lock /\ tx' = tx
      /\ overtaking' = overtaking
  BY <1>2
<1> HIDE DEF d, s, k, q, w
<1> QED BY <1>3, <1>4, <1>6, <1>7, OneTabKeeps

(* So does the read of the replay. *)
LEMMA ReadReplayKeeps ==
  ASSUME StreamInv, NEW t \in Tabs, ReadReplay(t)
  PROVE  StreamInv'
<1> DEFINE s == open[t]
           k == cursor[t]
           q == seen[t]
           w == wire[t]
           d == [conn[t] EXCEPT !.at = "read",
                                !.replay = Above(ToSet(log[s]), conn[t].after)]
<1>1. /\ RowsInv /\ TabsTyped
      /\ Tab(s, log[s], PendingIn(tx, s), overtaking, conn[t], wire[t], cursor[t], seen[t])
  BY DEF StreamInv, TabInv
<1>2. /\ conn[t].at = "replaying"
      /\ conn' = [conn EXCEPT ![t] = d]
      /\ log' = log /\ counter' = counter /\ lock' = lock /\ tx' = tx
      /\ overtaking' = overtaking /\ wire' = wire /\ open' = open
      /\ cursor' = cursor /\ seen' = seen
  BY <1>1 DEF ReadReplay, rows, browser, TabsTyped
<1>3. s \in Sessions /\ k \in Nat /\ q \in SUBSET Nat
  BY <1>1, <1>2 DEF TabsTyped, Tab
<1>4. /\ open' = [open EXCEPT ![t] = s]
      /\ wire' = [wire EXCEPT ![t] = w]
      /\ cursor' = [cursor EXCEPT ![t] = k] /\ seen' = [seen EXCEPT ![t] = q]
  BY <1>1, <1>2 DEF TabsTyped
<1>5. Dense(log[s])
  BY <1>1, <1>3, LogIsDense
<1>6. Tab(s, log[s], PendingIn(tx, s), overtaking, d, w, k, q)
  BY <1>1, <1>2, <1>5, TabReads
<1>7. /\ conn' = [conn EXCEPT ![t] = d]
      /\ log' = log /\ counter' = counter /\ lock' = lock /\ tx' = tx
      /\ overtaking' = overtaking
  BY <1>2
<1> HIDE DEF d, s, k, q, w
<1> QED BY <1>3, <1>4, <1>6, <1>7, OneTabKeeps

(* So does the end of the replay, which empties the buffer. *)
LEMMA FinishReplayKeeps ==
  ASSUME StreamInv, NEW t \in Tabs, FinishReplay(t)
  PROVE  StreamInv'
<1> DEFINE s == open[t]
           k == cursor[t]
           q == seen[t]
           added == Above(conn[t].buffered, Mark(conn[t]))
           d == [conn[t] EXCEPT !.at = "live", !.buffered = {}, !.replay = {},
                                !.lastSent = Highest(added, Mark(conn[t]))]
           v == wire[t] \o InOrder(conn[t].replay) \o InOrder(added)
<1>1. /\ RowsInv /\ TabsTyped
      /\ Tab(s, log[s], PendingIn(tx, s), overtaking, conn[t], wire[t], cursor[t], seen[t])
  BY DEF StreamInv, TabInv
<1>2. /\ conn[t].at = "read"
      /\ conn' = [conn EXCEPT ![t] = d] /\ wire' = [wire EXCEPT ![t] = v]
      /\ log' = log /\ counter' = counter /\ lock' = lock /\ tx' = tx
      /\ overtaking' = overtaking /\ open' = open
      /\ cursor' = cursor /\ seen' = seen
  BY <1>1 DEF FinishReplay, Mark, rows, browser, TabsTyped
<1>3. s \in Sessions /\ k \in Nat /\ q \in SUBSET Nat
  BY <1>1, <1>2 DEF TabsTyped, Tab
<1>4. /\ open' = [open EXCEPT ![t] = s]
      /\ cursor' = [cursor EXCEPT ![t] = k] /\ seen' = [seen EXCEPT ![t] = q]
  BY <1>1, <1>2 DEF TabsTyped
<1>5. Dense(log[s])
  BY <1>1, <1>3, LogIsDense
<1>6. Tab(s, log[s], PendingIn(tx, s), overtaking, d, v, k, q)
  BY <1>1, <1>2, <1>5, TabGoesLive
<1>7. /\ conn' = [conn EXCEPT ![t] = d] /\ wire' = [wire EXCEPT ![t] = v]
      /\ log' = log /\ counter' = counter /\ lock' = lock /\ tx' = tx
      /\ overtaking' = overtaking
  BY <1>2
<1> HIDE DEF d, s, k, q, v, added
<1> QED BY <1>3, <1>4, <1>6, <1>7, OneTabKeeps

(* Reading an event is a read of the feed. *)
LEMMA ReceiveReads ==
  ASSUME StreamInv, NEW t \in Tabs, Receive(t)
  PROVE  StreamInv' /\ Feed!Read(t)
<1> DEFINE s == open[t]
           w == wire[t]
           n == Head(w).sequence
           d == conn[t]
           v == Tail(w)
           q == seen[t] \cup {n}
<1>1. /\ RowsInv /\ TabsTyped
      /\ Tab(s, log[s], PendingIn(tx, s), overtaking, d, w, cursor[t], seen[t])
  BY DEF StreamInv, TabInv
<1>2. /\ w # <<>> /\ wire' = [wire EXCEPT ![t] = v]
      /\ cursor' = [cursor EXCEPT ![t] = n] /\ seen' = [seen EXCEPT ![t] = q]
      /\ log' = log /\ counter' = counter /\ lock' = lock /\ tx' = tx
      /\ overtaking' = overtaking /\ conn' = conn /\ open' = open
  BY <1>1 DEF Receive, rows, TabsTyped
<1>3. s \in Sessions /\ cursor[t] \in Nat /\ seen[t] \in SUBSET Nat
  BY <1>1, <1>2 DEF TabsTyped, Tab, Reader
<1>4. Dense(log[s])
  BY <1>1, <1>3, LogIsDense
<1>5. /\ n \in cursor[t] + 1..Len(log[s]) /\ (overtaking \/ n = cursor[t] + 1)
      /\ Tab(s, log[s], PendingIn(tx, s), overtaking, d, v, n, q)
  <2> DEFINE e == seen[t]
             k == cursor[t]
             P == PendingIn(tx, s)
             g == log[s]
  <2>1. n = Head(w).sequence /\ w # <<>> /\ Dense(g) /\ Tab(s, g, P, overtaking, d, w, k, e)
    BY <1>1, <1>2, <1>4
  <2> HIDE DEF s, w, n, d, e, k, P, g
  <2>2. /\ s # None /\ n \in k + 1..Len(g) /\ k \in Nat
        /\ Tab(s, g, P, overtaking, d, Tail(w), n, e \cup {n})
    BY <2>1, TabReceives
  <2>3. ~overtaking => n = k + 1
    BY <2>1, TabReceivesNext
  <2> QED BY <2>2, <2>3 DEF e, k, P, g
<1>6. n \in Nat /\ q \in SUBSET Nat
  <2>1. Len(log[s]) \in Nat
    BY <1>4 DEF Dense
  <2> HIDE DEF n, s
  <2>2. n \in Nat
    BY <1>3, <1>5, <2>1
  <2> QED BY <1>3, <2>2
<1>7. conn' = [conn EXCEPT ![t] = d] /\ open' = [open EXCEPT ![t] = s]
  BY <1>1, <1>2 DEF TabsTyped
<1>8. Feed!Read(t)
  <2>1. [z \in Sessions |-> Len(log[z])][open[t]] = Len(log[s])
    BY <1>3
  <2> HIDE DEF n, d, v, q, w
  <2>2. \E m \in cursor[t] + 1..[z \in Sessions |-> Len(log[z])][open[t]] :
          (overtaking \/ m = cursor[t] + 1) /\ cursor' = [cursor EXCEPT ![t] = m]
    BY <1>2, <1>5, <2>1
  <2>3. [z \in Sessions |-> Len(log[z])]' = [z \in Sessions |-> Len(log[z])]
    BY <1>2
  <2> QED BY <1>2, <1>3, <2>2, <2>3 DEF Feed!Read
<1>9. /\ log' = log /\ counter' = counter /\ lock' = lock /\ tx' = tx
      /\ overtaking' = overtaking
      /\ wire' = [wire EXCEPT ![t] = v] /\ cursor' = [cursor EXCEPT ![t] = n]
      /\ seen' = [seen EXCEPT ![t] = q]
  BY <1>2
<1>10. StreamInv'
  <2> HIDE DEF s, w, n, d, v, q
  <2> QED BY <1>5, <1>6, <1>7, <1>9, OneTabKeeps
<1> QED BY <1>8, <1>10

(* The connection of a tab is lost, or refused. *)
LEMMA LossKeeps ==
  ASSUME StreamInv, NEW t \in Tabs, FailReplay(t) \/ Disconnect(t)
  PROVE  StreamInv'
<1> DEFINE s == open[t]
           k == cursor[t]
           q == seen[t]
           v == <<>>
<1>1. /\ TabsTyped
      /\ Tab(s, log[s], PendingIn(tx, s), overtaking, conn[t], wire[t], k, q)
  BY DEF StreamInv, TabInv
<1>2. /\ conn' = [conn EXCEPT ![t] = Closed]
      /\ log' = log /\ counter' = counter /\ lock' = lock /\ tx' = tx
      /\ overtaking' = overtaking
      /\ (wire' = wire /\ conn[t].at = "replaying") \/ wire' = [wire EXCEPT ![t] = v]
  BY DEF FailReplay, Disconnect, rows
<1>3. open' = open /\ cursor' = cursor /\ seen' = seen
  BY DEF FailReplay, Disconnect, browser
<1>4. wire' = [wire EXCEPT ![t] = v]
  <2>1. CASE wire' = wire /\ conn[t].at = "replaying"
    <3>1. wire[t] = v
      BY <1>1, <2>1 DEF Tab
    <3> QED BY <1>1, <2>1, <3>1 DEF TabsTyped
  <2> QED BY <1>2, <2>1
<1>5. /\ open' = [open EXCEPT ![t] = s] /\ cursor' = [cursor EXCEPT ![t] = k]
      /\ seen' = [seen EXCEPT ![t] = q] /\ k \in Nat /\ q \in SUBSET Nat
  BY <1>1, <1>3 DEF TabsTyped
<1>6. Tab(s, log[s], PendingIn(tx, s), overtaking, Closed, v, k, q)
  BY <1>1, TabShuts
<1>7. /\ conn' = [conn EXCEPT ![t] = Closed]
      /\ log' = log /\ counter' = counter /\ lock' = lock /\ tx' = tx
      /\ overtaking' = overtaking
  BY <1>2
<1> HIDE DEF s, k, q, v
<1> QED BY <1>4, <1>5, <1>6, <1>7, OneTabKeeps

(* So does a restart of the server. *)
LEMMA RestartKeeps ==
  ASSUME StreamInv, Restart
  PROVE  StreamInv'
<1>1. RowsInv'
  BY RestartKeepsRows DEF StreamInv
<1>2. /\ conn' = [t \in Tabs |-> Closed] /\ wire' = [t \in Tabs |-> <<>>]
      /\ log' = log /\ overtaking' = overtaking
      /\ open' = open /\ cursor' = cursor /\ seen' = seen
  BY DEF Restart, browser
<1>3. TabsTyped'
  <2>1. <<>> \in Seq(Event)
    OBVIOUS
  <2> QED BY <1>2, <2>1, ClosedTyped DEF StreamInv, TabsTyped
<1>4. ASSUME NEW t \in Tabs PROVE TabInv(t)'
  <2> DEFINE s == open[t]
  <2>1. Tab(s, log[s], PendingIn(tx, s), overtaking, conn[t], wire[t], cursor[t], seen[t])
    BY DEF StreamInv, TabInv
  <2>2. Tab(s, log[s], PendingIn(tx', s), overtaking, Closed, <<>>, cursor[t], seen[t])
    BY <2>1, TabShuts
  <2>3. conn'[t] = Closed /\ wire'[t] = <<>>
    BY <1>2
  <2> QED BY <1>2, <2>2, <2>3 DEF TabInv
<1> QED BY <1>1, <1>3, <1>4 DEF StreamInv

(* The stream of another session is opened, or none. *)
LEMMA OpenStreamTurns ==
  ASSUME StreamInv, NEW t \in Tabs, NEW s \in Sessions \cup {None}, OpenStream(t, s),
         log' = log, counter' = counter, lock' = lock, tx' = tx, overtaking' = overtaking
  PROVE  StreamInv' /\ Feed!Turn(t)
<1> DEFINE q == IF s = None THEN seen[t] ELSE {}
           v == <<>>
           k == 0
<1>1. /\ open' = [open EXCEPT ![t] = s] /\ cursor' = [cursor EXCEPT ![t] = k]
      /\ seen' = [seen EXCEPT ![t] = q]
      /\ conn' = [conn EXCEPT ![t] = Closed] /\ wire' = [wire EXCEPT ![t] = v]
      /\ TabsTyped /\ RowsInv
  BY DEF OpenStream, StreamInv
<1>2. k \in Nat /\ q \in SUBSET Nat
  BY <1>1 DEF TabsTyped
<1>3. Tab(s, log[s], PendingIn(tx, s), overtaking, Closed, v, k, q)
  <2>1. s # None => Dense(log[s]) /\ q = {}
    BY <1>1, LogIsDense
  <2> HIDE DEF q
  <2> QED BY <2>1, TabOpens
<1>4. StreamInv'
  <2> HIDE DEF q, v, k
  <2> QED BY <1>1, <1>2, <1>3, OneTabKeeps
<1>5. Feed!Turn(t)
  <2>1. \A u \in Tabs \ {t} : open'[u] = open[u]
    BY <1>1 DEF TabsTyped
  <2>2. [z \in Sessions |-> Len(log[z])]' = [z \in Sessions |-> Len(log[z])]
    OBVIOUS
  <2> QED BY <1>1, <2>1, <2>2 DEF Feed!Turn
<1> QED BY <1>4, <1>5

-----------------------------------------------------------------------------
(* The page's requests name sessions. *)

IsRequest(f) ==
  /\ f.of \in Sessions
  /\ f = [of |-> f.of, number |-> f.number, session |-> f.session, messages |-> f.messages]

PageInv ==
  /\ route \in [Tabs -> Sessions]
  /\ \A t \in Tabs : \A f \in fetches[t] : IsRequest(f)

(* What a step of the system does to the invariant and to the feed. *)
Advances ==
  StreamInv' /\ (Feed!Next \/ UNCHANGED Feed!vars)

(* A new request, and one that has read. *)
LEMMA RefreshIsRequest ==
  ASSUME NEW s \in Sessions, NEW n
  PROVE  IsRequest(Refresh(s, n))
BY DEF IsRequest, Refresh

(* A request that has read its part is a request. *)
LEMMA RequestReads ==
  ASSUME NEW f, IsRequest(f), NEW v
  PROVE  IsRequest([f EXCEPT !.session = v]) /\ IsRequest([f EXCEPT !.messages = v])
<1>1. /\ [f EXCEPT !.session = v] =
           [of |-> f.of, number |-> f.number, session |-> v, messages |-> f.messages]
      /\ [f EXCEPT !.messages = v] =
           [of |-> f.of, number |-> f.number, session |-> f.session, messages |-> v]
  BY DEF IsRequest
<1> QED BY <1>1 DEF IsRequest

(* The invariants hold at first. *)
LEMMA InitHolds ==
  ASSUME Init
  PROVE  StreamInv /\ PageInv /\ Feed!Init
<1>1. /\ log = [s \in Sessions |-> <<>>] /\ counter = [s \in Sessions |-> 1]
      /\ lock = [s \in Sessions |-> None] /\ tx = [p \in Producers |-> IdleTx]
      /\ overtaking \in BOOLEAN
      /\ conn = [t \in Tabs |-> Closed] /\ wire = [t \in Tabs |-> <<>>]
      /\ open = [t \in Tabs |-> None] /\ cursor = [t \in Tabs |-> 0]
      /\ seen = [t \in Tabs |-> {}]
      /\ route \in [Tabs -> Sessions] /\ fetches = [t \in Tabs |-> {Refresh(route[t], 1)}]
  BY DEF Init, StreamInit
<1>2. \A s \in Sessions : log[s] = <<>> /\ Len(log[s]) = 0 /\ counter[s] = 1
  BY <1>1
<1>3. <<>> \in Seq(Event)
  OBVIOUS
<1>4. RowsInv
  <2>1. \A p \in Producers : tx[p] = IdleTx
    BY <1>1
  <2>2. RowsTyped
    BY <1>1, <1>3, <2>1, IdleHoldsNothing DEF RowsTyped
  <2>3. SequencesDense
    BY <1>2 DEF SequencesDense
  <2>4. LocksHeld /\ Stretches /\ Disjoint
    BY <2>1, IdleHoldsNothing DEF LocksHeld, Stretches, Disjoint
  <2> QED BY <2>2, <2>3, <2>4 DEF RowsInv
<1>5. TabsTyped
  BY <1>1, <1>3, ClosedTyped DEF TabsTyped
<1>6. ASSUME NEW t \in Tabs PROVE TabInv(t)
  <2>1. open[t] = None /\ conn[t] = Closed /\ wire[t] = <<>>
    BY <1>1
  <2> QED BY <1>3, <2>1, ClosedTyped DEF TabInv, Tab
<1>7. PageInv
  BY <1>1, RefreshIsRequest DEF PageInv
<1>8. Feed!Init
  <2>1. [s \in Sessions |-> Len(log[s])] = [s \in Sessions |-> 0]
    BY <1>2
  <2> QED BY <1>1, <2>1 DEF Feed!Init
<1> QED BY <1>4, <1>5, <1>6, <1>7, <1>8 DEF StreamInv

(* A commit lets the feed of its session grow. *)
LEMMA CommitAdvances ==
  ASSUME StreamInv, NEW p \in Producers, NEW n \in 1..2, NEW types \in [1..n -> Types],
         Commit(p, types)
  PROVE  Advances
<1> DEFINE s == tx[p].session
           L == [z \in Sessions |-> Len(log[z])]
<1>1. StreamInv' /\ RowsInv
  BY CommitKeepsStream DEF StreamInv
<1>2. PICK events : Grown(p, s, events) /\ Len(events) = n
  BY <1>1, CommitGrows
<1>3. s \in Sessions /\ open' = open /\ cursor' = cursor /\ overtaking' = overtaking
  BY <1>2 DEF Grown, Commit, browser
<1> HIDE DEF s
<1>4. /\ \A z \in Sessions \ {s} : log'[z] = log[z]
      /\ Len(log'[s]) = Len(log[s]) + n
  <2>1. RowsInv /\ Grown(p, s, events)
    BY <1>1, <1>2
  <2>2. /\ log' \in [Sessions -> Seq(Event)]
        /\ \A z \in Sessions \ {s} : log'[z] = log[z]
        /\ Len(log'[s]) = Len(log[s]) + Len(events)
        /\ \A k \in 1..Len(log[s]) : log'[s][k] = log[s][k]
        /\ \A i \in DOMAIN events : log'[s][Len(log[s]) + i] = events[i]
        /\ \A z \in Sessions : \A e : InFeed(log[z], e) => InFeed(log'[z], e)
    BY <2>1, GrownFeed
  <2> QED BY <1>2, <2>2
<1>5. [z \in Sessions |-> Len(log'[z])] = [L EXCEPT ![s] = @ + n]
  BY <1>3, <1>4
<1>6. Feed!Grow(s, n)
  BY <1>3, <1>5 DEF Feed!Grow
<1>7. Feed!Next
  BY <1>3, <1>6 DEF Feed!Next
<1> QED BY <1>1, <1>7 DEF Advances

(* Steps that leave the feed, and what is open and read of it, alone. *)
LEMMA Stutters ==
  ASSUME StreamInv', log' = log, open' = open, cursor' = cursor, overtaking' = overtaking
  PROVE  Advances
<1>1. UNCHANGED Feed!vars
  BY DEF Feed!vars
<1> QED BY <1>1 DEF Advances

(* Every step of the stream keeps its invariant and advances the feed. *)
LEMMA StreamStep ==
  ASSUME StreamInv, StreamNext
  PROVE  Advances
<1>1. ASSUME NEW p \in Producers, Abort(p) PROVE Advances
  <2>1. log' = log /\ open' = open /\ cursor' = cursor /\ overtaking' = overtaking
    BY <1>1 DEF Abort, browser
  <2> QED BY <1>1, <2>1, AbortKeepsStream, Stutters
<1>2. ASSUME NEW p \in Producers, NEW n \in 1..2, NEW types \in [1..n -> Types],
             Commit(p, types)
      PROVE  Advances
  BY <1>2, CommitAdvances
<1>3. ASSUME NEW p \in Producers, Publish(p) PROVE Advances
  <2>1. log' = log /\ open' = open /\ cursor' = cursor /\ overtaking' = overtaking
    BY <1>3 DEF Publish, rows, browser
  <2> QED BY <1>3, <2>1, PublishKeepsStream, Stutters
<1>4. ASSUME NEW p \in Producers, NEW s \in Sessions, LockRow(p, s) PROVE Advances
  <2>1. log' = log /\ open' = open /\ cursor' = cursor /\ overtaking' = overtaking
    BY <1>4 DEF LockRow, browser
  <2> QED BY <1>4, <2>1, LockRowKeepsStream, Stutters
<1>5. ASSUME NEW t \in Tabs, Connect(t) \/ ReadReplay(t) \/ FinishReplay(t) PROVE Advances
  <2>1. log' = log /\ open' = open /\ cursor' = cursor /\ overtaking' = overtaking
    BY <1>5 DEF Connect, ReadReplay, FinishReplay, rows, browser
  <2>2. StreamInv'
    BY <1>5, ConnectKeeps, ReadReplayKeeps, FinishReplayKeeps
  <2> QED BY <2>1, <2>2, Stutters
<1>6. ASSUME NEW t \in Tabs, Receive(t) PROVE Advances
  <2>1. StreamInv' /\ Feed!Read(t)
    BY <1>6, ReceiveReads
  <2> QED BY <2>1 DEF Advances, Feed!Next
<1>7. ASSUME Restart PROVE Advances
  <2>1. log' = log /\ open' = open /\ cursor' = cursor /\ overtaking' = overtaking
    BY <1>7 DEF Restart, browser
  <2> QED BY <1>7, <2>1, RestartKeeps, Stutters
<1>8. ASSUME NEW t \in Tabs, FailReplay(t) \/ Disconnect(t) PROVE Advances
  <2>1. log' = log /\ open' = open /\ cursor' = cursor /\ overtaking' = overtaking
    BY <1>8 DEF FailReplay, Disconnect, rows, browser
  <2> QED BY <1>8, <2>1, LossKeeps, Stutters
<1> QED BY <1>1, <1>2, <1>3, <1>4, <1>5, <1>6, <1>7, <1>8
        DEF StreamNext, Transaction, Connection, Loss

(* So does every step of the page, which opens and closes streams. *)
LEMMA PageStep ==
  ASSUME StreamInv, PageInv, PageNext
  PROVE  Advances /\ PageInv'
<1>1. PICK t \in Tabs :
        \/ Request(t) \/ HandleEvents(t)
        \/ \E f \in fetches[t] : FailFetch(t, f)
        \/ \E s \in Sessions : Navigate(t, s)
  BY DEF PageNext
<1>2. ASSUME NEW new, \A f \in new : IsRequest(f),
             fetches' = [fetches EXCEPT ![t] = new],
             route' \in [Tabs -> Sessions]
      PROVE  PageInv'
  <2>1. ASSUME NEW u \in Tabs, NEW f \in fetches'[u] PROVE IsRequest(f)
    <3>1. fetches'[u] = new \/ fetches'[u] = fetches[u]
      BY <1>2
    <3> QED BY <1>2, <2>1, <3>1 DEF PageInv
  <2> QED BY <1>2, <2>1 DEF PageInv
<1>3. \A f \in fetches[t] : IsRequest(f)
  BY DEF PageInv
<1>4. ASSUME UNCHANGED streamVars PROVE Advances
  <2>1. /\ log' = log /\ counter' = counter /\ lock' = lock /\ tx' = tx
        /\ overtaking' = overtaking /\ conn' = conn /\ wire' = wire /\ open' = open
        /\ cursor' = cursor /\ seen' = seen
    BY <1>4 DEF streamVars, rows, browser
  <2> QED BY <2>1, StreamUnchanged, Stutters
<1>5. ASSUME NEW f \in fetches[t], ReadSession(t, f) \/ ReadMessages(t, f)
      PROVE  Advances /\ PageInv'
  <2>1. UNCHANGED streamVars /\ route' = route
    BY <1>5 DEF ReadSession, ReadMessages
  <2>2. \E v : fetches' = [fetches EXCEPT ![t] = (fetches[t] \ {f}) \cup {[f EXCEPT !.session = v]}]
            \/ fetches' = [fetches EXCEPT ![t] = (fetches[t] \ {f}) \cup {[f EXCEPT !.messages = v]}]
    BY <1>5 DEF ReadSession, ReadMessages
  <2>3. PICK v : \/ fetches' = [fetches EXCEPT ![t] = (fetches[t] \ {f}) \cup {[f EXCEPT !.session = v]}]
                 \/ fetches' = [fetches EXCEPT ![t] = (fetches[t] \ {f}) \cup {[f EXCEPT !.messages = v]}]
    BY <2>2
  <2>4. IsRequest([f EXCEPT !.session = v]) /\ IsRequest([f EXCEPT !.messages = v])
    BY <1>3, RequestReads
  <2>5. route' \in [Tabs -> Sessions]
    BY <2>1 DEF PageInv
  <2>6. PageInv'
    BY <1>2, <1>3, <2>3, <2>4, <2>5
  <2> QED BY <1>4, <2>1, <2>6
<1>6. ASSUME NEW f \in fetches[t], Answer(t, f) PROVE Advances /\ PageInv'
  <2>1. /\ fetches' = [fetches EXCEPT ![t] = fetches[t] \ {f}] /\ route' = route
        /\ log' = log /\ counter' = counter /\ lock' = lock /\ tx' = tx
        /\ overtaking' = overtaking
    BY <1>6 DEF Answer, rows
  <2>2. PageInv'
    BY <1>2, <1>3, <2>1 DEF PageInv
  <2>3. CASE open[t] = f.of
    <3>1. UNCHANGED browser /\ UNCHANGED <<conn, wire>>
      BY <1>6, <2>3 DEF Answer
    <3>2. conn' = conn /\ wire' = wire /\ open' = open /\ cursor' = cursor /\ seen' = seen
      BY <3>1 DEF browser
    <3> QED BY <2>1, <2>2, <3>2, StreamUnchanged, Stutters
  <2>4. CASE open[t] # f.of
    <3>1. OpenStream(t, f.of) /\ f.of \in Sessions
      BY <1>3, <1>6, <2>4 DEF Answer, IsRequest
    <3>2. StreamInv' /\ Feed!Turn(t)
      BY <2>1, <3>1, OpenStreamTurns
    <3> QED BY <2>2, <3>2 DEF Advances, Feed!Next
  <2> QED BY <2>3, <2>4
<1>7. ASSUME NEW f \in fetches[t], FailFetch(t, f) PROVE Advances /\ PageInv'
  <2>1. /\ fetches' = [fetches EXCEPT ![t] = fetches[t] \ {f}] /\ route' = route
        /\ log' = log /\ counter' = counter /\ lock' = lock /\ tx' = tx
        /\ overtaking' = overtaking /\ conn' = conn /\ wire' = wire
        /\ open' = open /\ cursor' = cursor /\ seen' = seen
    BY <1>7 DEF FailFetch, rows, browser
  <2>2. PageInv'
    BY <1>2, <1>3, <2>1 DEF PageInv
  <2> QED BY <2>1, <2>2, StreamUnchanged, Stutters
<1>8. ASSUME HandleEvents(t) PROVE Advances /\ PageInv'
  <2>1. /\ UNCHANGED streamVars /\ route' = route
        /\ fetches' = [fetches EXCEPT
             ![t] = fetches[t] \cup {Refresh(route[t], started[t] + 1)}]
    BY <1>8 DEF HandleEvents
  <2>2. route[t] \in Sessions /\ route' \in [Tabs -> Sessions]
    BY <2>1 DEF PageInv
  <2>3. IsRequest(Refresh(route[t], started[t] + 1))
    BY <2>2, RefreshIsRequest
  <2>4. PageInv'
    BY <1>2, <1>3, <2>1, <2>2, <2>3
  <2> QED BY <1>4, <2>1, <2>4
<1>9. ASSUME NEW s \in Sessions, Navigate(t, s) PROVE Advances /\ PageInv'
  <2>1. PICK calls : fetches' = [fetches EXCEPT
          ![t] = fetches[t] \cup {Refresh(s, started[t] + i) : i \in 1..calls}]
    BY <1>9 DEF Navigate
  <2>2. /\ route' = [route EXCEPT ![t] = s] /\ OpenStream(t, None)
        /\ log' = log /\ counter' = counter /\ lock' = lock /\ tx' = tx
        /\ overtaking' = overtaking
    BY <1>9 DEF Navigate, rows
  <2>3. \A i \in 1..calls : IsRequest(Refresh(s, started[t] + i))
    BY RefreshIsRequest
  <2>4. route' \in [Tabs -> Sessions]
    BY <2>2 DEF PageInv
  <2>5. PageInv'
    <3> DEFINE new == fetches[t] \cup {Refresh(s, started[t] + i) : i \in 1..calls}
    <3>1. \A f \in new : IsRequest(f)
      BY <1>3, <2>3
    <3>2. fetches' = [fetches EXCEPT ![t] = new]
      BY <2>1
    <3> HIDE DEF new
    <3> QED BY <1>2, <2>4, <3>1, <3>2
  <2>6. StreamInv' /\ Feed!Turn(t)
    BY <2>2, OpenStreamTurns
  <2> QED BY <2>5, <2>6 DEF Advances, Feed!Next
<1> QED BY <1>1, <1>5, <1>6, <1>7, <1>8, <1>9 DEF Request

(* The invariant holds throughout, and every step is one of the feed. *)
LEMMA NextAdvances ==
  ASSUME StreamInv, PageInv, [Next]_vars
  PROVE  Advances /\ PageInv'
<1>1. CASE Stream
  <2>1. StreamNext /\ route' = route /\ fetches' = fetches
    BY <1>1 DEF Stream, pageVars
  <2>2. Advances
    BY <2>1, StreamStep
  <2> QED BY <2>1, <2>2 DEF PageInv
<1>2. CASE PageNext
  BY <1>2, PageStep
<1>3. CASE UNCHANGED vars
  <2>1. /\ log' = log /\ counter' = counter /\ lock' = lock /\ tx' = tx
        /\ overtaking' = overtaking /\ conn' = conn /\ wire' = wire /\ open' = open
        /\ cursor' = cursor /\ seen' = seen /\ route' = route /\ fetches' = fetches
    BY <1>3 DEF vars, pageVars, streamVars, rows, browser
  <2>2. Advances
    BY <2>1, StreamUnchanged, Stutters
  <2> QED BY <2>1, <2>2 DEF PageInv
<1> QED BY <1>1, <1>2, <1>3 DEF Next

-----------------------------------------------------------------------------
(* What the invariant says. *)

(* The sequences of a session are the positions of its feed. *)
LEMMA SequencesAre ==
  ASSUME RowsInv, NEW s \in Sessions
  PROVE  Sequences(s) = 1..Len(log[s])
<1>1. log[s] \in Seq(Event) /\ \A i \in DOMAIN log[s] : log[s][i].sequence = i
  BY DEF RowsInv, RowsTyped, SequencesDense
<1>2. DOMAIN log[s] = 1..Len(log[s])
  BY <1>1
<1> QED BY <1>1, <1>2 DEF Sequences

(* The invariant gives what the runs check of the wire. *)
LEMMA WireSound ==
  ASSUME StreamInv
  PROVE  WireIncreases /\ SentIsCommitted
<1>1. SUFFICES ASSUME NEW t \in Tabs, open[t] # None
      PROVE  /\ \A i \in DOMAIN wire[t] : wire[t][i].sequence > cursor[t]
             /\ \A i, j \in DOMAIN wire[t] : i < j => wire[t][i].sequence < wire[t][j].sequence
             /\ ToSet(wire[t]) \subseteq ToSet(log[open[t]])
             /\ seen[t] \subseteq Sequences(open[t])
  BY DEF WireIncreases, SentIsCommitted
<1> DEFINE s == open[t]
           w == wire[t]
           g == log[s]
<1>2. /\ Reader(g, conn[t], w, cursor[t], seen[t])
      /\ conn[t].at # "live" => w = <<>>
      /\ s \in Sessions /\ w \in Seq(Event)
  BY <1>1 DEF StreamInv, TabInv, Tab
<1>3. g \in Seq(Event) /\ Len(g) \in Nat /\ cursor[t] \in Nat
  BY <1>2 DEF StreamInv, RowsInv, RowsTyped, Reader
<1>4. seen[t] \subseteq Sequences(s)
  <2>1. seen[t] \subseteq 1..cursor[t] /\ cursor[t] \in 0..Len(g)
    BY <1>2 DEF Reader
  <2>2. Sequences(s) = 1..Len(g)
    BY <1>2, SequencesAre DEF StreamInv
  <2> HIDE DEF g, s
  <2>3. \A n \in 1..cursor[t] : n \in 1..Len(g)
    BY <1>3, <2>1
  <2> QED BY <2>1, <2>2, <2>3
<1>5. CASE conn[t].at # "live"
  BY <1>2, <1>4, <1>5 DEF ToSet
<1>6. CASE conn[t].at = "live"
  <2>1. WireBetween(g, w, cursor[t], conn[t].lastSent) /\ conn[t].lastSent \in cursor[t]..Len(g)
    BY <1>2, <1>6 DEF Reader
  <2> HIDE DEF g, w, s
  <2>2. ASSUME NEW i \in DOMAIN w PROVE w[i].sequence > cursor[t] /\ w[i] \in ToSet(g)
    <3>1. InFeed(g, w[i]) /\ w[i].sequence \in cursor[t] + 1..conn[t].lastSent
      BY <2>1, <2>2 DEF WireBetween
    <3> QED BY <1>3, <2>1, <3>1 DEF InFeed, ToSet
  <2>3. \A i, j \in DOMAIN w : i < j => w[i].sequence < w[j].sequence
    BY <2>1 DEF WireBetween
  <2>4. ToSet(w) \subseteq ToSet(g)
    BY <2>2 DEF ToSet
  <2> QED BY <1>4, <2>2, <2>3, <2>4 DEF g, w, s
<1> QED BY <1>5, <1>6

(* The invariant gives what the runs check of a tab that has read. *)
LEMMA ReadingSound ==
  ASSUME StreamInv
  PROVE  ResumeLosesNothing /\ SettledStreamIsComplete
<1>1. ASSUME ~overtaking, NEW t \in Tabs, open[t] # None PROVE 1..cursor[t] \subseteq seen[t]
  BY <1>1 DEF StreamInv, TabInv, Tab, Complete
<1>2. ASSUME NEW t \in Tabs, ~overtaking, conn[t].at = "live", wire[t] = <<>>,
             \A p \in Producers : tx[p].at # "committed"
      PROVE  seen[t] = Sequences(open[t])
  <2> DEFINE s == open[t]
             g == log[s]
             c == conn[t]
             cu == cursor[t]
  <2>1. /\ s # None /\ s \in Sessions
        /\ Reader(g, c, wire[t], cu, seen[t])
        /\ Complete(g, PendingIn(tx, s), c, wire[t], cu, seen[t])
    BY <1>2 DEF StreamInv, TabInv, Tab
  <2>2. PendingIn(tx, s) = {}
    BY <1>2 DEF PendingIn, Holds
  <2>3. Sequences(s) = 1..Len(g)
    BY <2>1, SequencesAre DEF StreamInv
  <2>4. Len(g) \in Nat
    BY <2>1 DEF StreamInv, RowsInv, RowsTyped
  <2>5. \A n : ~OnWire(wire[t], n)
    BY <1>2 DEF OnWire
  <2>6. c.at = "live"
    BY <1>2
  <2> HIDE DEF s, g, c, cu
  <2>7. /\ cu \in 0..Len(g) /\ seen[t] \subseteq 1..cu /\ 1..cu \subseteq seen[t]
        /\ c.lastSent \in cu..Len(g)
        /\ \A n \in cu + 1..c.lastSent : FALSE
        /\ \A n \in c.lastSent + 1..Len(g) : FALSE
    BY <2>1, <2>2, <2>5, <2>6 DEF Reader, Complete
  <2>8. cu = Len(g)
    <3>1. c.lastSent \in cu + 1..c.lastSent \/ c.lastSent = cu
      BY <2>4, <2>7
    <3>2. Len(g) \in c.lastSent + 1..Len(g) \/ Len(g) = c.lastSent
      BY <2>4, <2>7
    <3> QED BY <2>7, <3>1, <3>2
  <2> QED BY <2>3, <2>7, <2>8 DEF s
<1>3. SettledStreamIsComplete
  BY <1>2 DEF SettledStreamIsComplete
<1> QED BY <1>1, <1>3 DEF ResumeLosesNothing

(***************************************************************************)
(* The theorems.  The invariant, and that every step of the system is one  *)
(* of the feed or leaves it alone.                                         *)
(***************************************************************************)
THEOREM StreamInvariant == Spec => [](StreamInv /\ PageInv)
<1>1. Init => StreamInv /\ PageInv
  BY InitHolds
<1>2. StreamInv /\ PageInv /\ [Next]_vars => (StreamInv /\ PageInv)'
  BY NextAdvances DEF Advances
<1> QED BY <1>1, <1>2, PTL DEF Spec

(* appendSessionEventInTransaction numbers the events of every session      *)
(* 1, 2, 3, ..., whichever transactions commit or roll back.                *)
THEOREM SequencesAreDense == Spec => []SequencesDense
<1>1. StreamInv => SequencesDense
  BY DEF StreamInv, RowsInv
<1> QED BY <1>1, StreamInvariant, PTL

(* What replay, buffer and live publication send arrives in order, once.    *)
THEOREM WireIsIncreasing == Spec => []WireIncreases
<1>1. StreamInv => WireIncreases
  BY WireSound
<1> QED BY <1>1, StreamInvariant, PTL

(* Only committed events are sent and kept.                                 *)
THEOREM OnlyCommittedIsSent == Spec => []SentIsCommitted
<1>1. StreamInv => SentIsCommitted
  BY WireSound
<1> QED BY <1>1, StreamInvariant, PTL

(* Resuming from the cursor is sound: the tab has all that is below it.     *)
THEOREM NothingIsLost == Spec => []ResumeLosesNothing
<1>1. StreamInv => ResumeLosesNothing
  BY ReadingSound
<1> QED BY <1>1, StreamInvariant, PTL

(* A live connection with nothing under way has brought everything.         *)
THEOREM SettledIsComplete == Spec => []SettledStreamIsComplete
<1>1. StreamInv => SettledStreamIsComplete
  BY ReadingSound
<1> QED BY <1>1, StreamInvariant, PTL

(* Rows, hub, route and EventSource together implement the feed.            *)
THEOREM FeedImplemented == Spec => ImplementsFeed
<1>1. Init => Feed!Init
  BY InitHolds
<1>2. StreamInv /\ PageInv /\ [Next]_vars => [Feed!Next]_(Feed!vars)
  BY NextAdvances DEF Advances
<1>3. Spec => [](StreamInv /\ PageInv)
  BY StreamInvariant
<1> QED BY <1>1, <1>2, <1>3, PTL DEF Spec, ImplementsFeed, Feed!Spec

-----------------------------------------------------------------------------
(* The types of what the stream and the page keep besides. *)

StreamTyped ==
  /\ failed \in [Tabs -> BOOLEAN]
  /\ seen \in [Tabs -> SUBSET (Nat \ {0})]
  /\ mishaps \in 0..MaxMishaps
  /\ \A t \in Tabs : conn[t].at \in {"closed", "live"} =>
       conn[t].buffered = {} /\ conn[t].replay = {}

IsFetch(f, n) ==
  /\ IsRequest(f)
  /\ f.number \in 1..n
  /\ {f.session, f.messages} \subseteq Nat \cup {Unread}

PageTyped ==
  /\ shown \in [Tabs -> [of : Sessions \cup {None}, session : Nat, messages : Nat]]
  /\ handled \in [Tabs -> Nat]
  /\ started \in [Tabs -> Nat]
  /\ visits \in [Tabs -> Nat \ {0}]
  /\ orderly \in [Tabs -> BOOLEAN]
  /\ fetches = [t \in Tabs |-> fetches[t]]
  /\ \A t \in Tabs : \A f \in fetches[t] : IsFetch(f, started[t])

(* A closed connection, and a live one, hold nothing back. *)
LEMMA ClosedHoldsNothing ==
  /\ Closed.buffered = {} /\ Closed.replay = {}
  /\ \A n : [Closed EXCEPT !.at = "replaying", !.after = n, !.lastSent = n].at = "replaying"
BY DEF Closed

(* A step of one tab's connection. *)
LEMMA ConnTyped ==
  ASSUME StreamTyped, TabsTyped, NEW t \in Tabs, NEW d,
         d.at \in {"closed", "live"} => d.buffered = {} /\ d.replay = {},
         conn' = [conn EXCEPT ![t] = d], seen' \in [Tabs -> SUBSET (Nat \ {0})],
         failed' \in [Tabs -> BOOLEAN], mishaps' \in 0..MaxMishaps
  PROVE  StreamTyped'
<1>1. ASSUME NEW u \in Tabs, conn'[u].at \in {"closed", "live"}
      PROVE  conn'[u].buffered = {} /\ conn'[u].replay = {}
  <2>1. conn'[u] = d \/ conn'[u] = conn[u]
    BY DEF TabsTyped
  <2> QED BY <1>1, <2>1 DEF StreamTyped
<1> QED BY <1>1 DEF StreamTyped

(* A mishap is within the bound. *)
LEMMA MishapTyped ==
  ASSUME StreamTyped, mishaps < MaxMishaps, mishaps' = mishaps + 1
  PROVE  mishaps' \in 0..MaxMishaps
<1> USE BoundAssumption
<1>1. mishaps \in 0..MaxMishaps
  BY DEF StreamTyped
<1> QED BY <1>1

(* Opening a stream keeps the types. *)
LEMMA OpenStreamTyped ==
  ASSUME StreamTyped, TabsTyped, NEW t \in Tabs, NEW s, OpenStream(t, s),
         mishaps' \in 0..MaxMishaps
  PROVE  StreamTyped'
<1>1. /\ failed' = [failed EXCEPT ![t] = FALSE]
      /\ seen' = [seen EXCEPT ![t] = IF s = None THEN seen[t] ELSE {}]
      /\ conn' = [conn EXCEPT ![t] = Closed]
  BY DEF OpenStream, StreamTyped
<1>2. failed' \in [Tabs -> BOOLEAN] /\ seen' \in [Tabs -> SUBSET (Nat \ {0})]
  BY <1>1 DEF StreamTyped
<1> QED BY <1>1, <1>2, ConnTyped, ClosedHoldsNothing

(* Publishing adds to a buffer of a client that replays only. *)
LEMMA DeliverTyped ==
  ASSUME StreamTyped, TabsTyped, NEW s, NEW events, Deliver(s, events),
         seen' = seen, failed' = failed, mishaps' = mishaps
  PROVE  StreamTyped'
<1>1. ASSUME NEW t \in Tabs, conn'[t].at \in {"closed", "live"}
      PROVE  conn'[t].buffered = {} /\ conn'[t].replay = {}
  <2>1. conn[t] \in ConnRecords
    BY DEF TabsTyped
  <2>2. conn'[t] = IF t \notin Subscribed(s) THEN conn[t]
                   ELSE IF conn[t].at = "live"
                   THEN [conn[t] EXCEPT !.lastSent = Highest(ToSet(events), conn[t].lastSent)]
                   ELSE [conn[t] EXCEPT !.buffered = conn[t].buffered \cup ToSet(events)]
    BY DEF Deliver
  <2>3. CASE t \notin Subscribed(s)
    BY <1>1, <2>2, <2>3 DEF StreamTyped
  <2>4. CASE t \in Subscribed(s) /\ conn[t].at = "live"
    <3>1. conn'[t].buffered = conn[t].buffered /\ conn'[t].replay = conn[t].replay
      BY <2>1, <2>2, <2>4 DEF ConnRecords
    <3> QED BY <2>4, <3>1 DEF StreamTyped
  <2>5. CASE t \in Subscribed(s) /\ conn[t].at # "live"
    <3>1. conn'[t].at = conn[t].at
      BY <2>1, <2>2, <2>5 DEF ConnRecords
    <3> QED BY <1>1, <2>5, <3>1 DEF Subscribed
  <2> QED BY <2>3, <2>4, <2>5
<1> QED BY <1>1 DEF StreamTyped

(* Every step of the stream keeps the types. *)
LEMMA StreamStepTyped ==
  ASSUME StreamInv, StreamTyped, StreamNext
  PROVE  StreamTyped'
<1>1. TabsTyped
  BY DEF StreamInv
<1>2. ASSUME UNCHANGED <<conn, seen, failed, mishaps>> PROVE StreamTyped'
  BY <1>2 DEF StreamTyped
<1>3. ASSUME NEW p \in Producers, Transaction(p) \/ \E s \in Sessions : LockRow(p, s)
      PROVE  StreamTyped'
  <2>1. UNCHANGED <<conn, seen, failed, mishaps>>
    BY <1>3 DEF Transaction, Abort, Commit, LockRow, browser
  <2> QED BY <1>2, <2>1
<1>4. ASSUME NEW p \in Producers, Publish(p) PROVE StreamTyped'
  <2>1. /\ Deliver(tx[p].session, tx[p].events)
        /\ seen' = seen /\ failed' = failed /\ mishaps' = mishaps
    BY <1>4 DEF Publish, browser
  <2> QED BY <1>1, <2>1, DeliverTyped
<1>5. ASSUME NEW t \in Tabs, Connect(t) PROVE StreamTyped'
  <2> DEFINE d == [Closed EXCEPT !.at = "replaying", !.after = cursor[t], !.lastSent = cursor[t]]
  <2>1. conn' = [conn EXCEPT ![t] = d] /\ seen' = seen /\ failed' = failed /\ mishaps' = mishaps
    BY <1>5 DEF Connect, browser
  <2>2. d.at = "replaying"
    BY ClosedHoldsNothing
  <2> HIDE DEF d
  <2> QED BY <1>1, <2>1, <2>2, ConnTyped DEF StreamTyped
<1>6. ASSUME NEW t \in Tabs, ReadReplay(t) PROVE StreamTyped'
  <2> DEFINE d == [conn[t] EXCEPT !.at = "read",
                     !.replay = Above(ToSet(log[open[t]]), conn[t].after)]
  <2>1. conn' = [conn EXCEPT ![t] = d] /\ seen' = seen /\ failed' = failed /\ mishaps' = mishaps
    BY <1>6, <1>1 DEF ReadReplay, browser, TabsTyped
  <2>2. d.at = "read"
    BY <1>1 DEF TabsTyped, ConnRecords
  <2> HIDE DEF d
  <2> QED BY <1>1, <2>1, <2>2, ConnTyped DEF StreamTyped
<1>7. ASSUME NEW t \in Tabs, FinishReplay(t) PROVE StreamTyped'
  <2> DEFINE last == Highest(conn[t].replay, conn[t].after)
             sent == Highest(Above(conn[t].buffered, last), last)
             d == [conn[t] EXCEPT !.at = "live", !.buffered = {}, !.replay = {},
                     !.lastSent = sent]
  <2>1. conn' = [conn EXCEPT ![t] = d] /\ seen' = seen /\ failed' = failed /\ mishaps' = mishaps
    BY <1>7, <1>1 DEF FinishReplay, browser, TabsTyped
  <2> HIDE DEF sent
  <2>2. d.buffered = {} /\ d.replay = {}
    BY <1>1 DEF TabsTyped, ConnRecords
  <2> HIDE DEF d
  <2> QED BY <1>1, <2>1, <2>2, ConnTyped DEF StreamTyped
<1>8. ASSUME NEW t \in Tabs, Receive(t) PROVE StreamTyped'
  <2>1. /\ wire[t] # <<>> /\ wire[t] \in Seq(Event)
        /\ seen' = [seen EXCEPT ![t] = seen[t] \cup {Head(wire[t]).sequence}]
        /\ conn' = conn /\ failed' = failed /\ mishaps' = mishaps
    BY <1>8, <1>1 DEF Receive, TabsTyped
  <2>2. Head(wire[t]).sequence \in Nat \ {0}
    <3>1. Head(wire[t]) \in Event
      BY <2>1
    <3> QED BY <3>1 DEF Event
  <2> HIDE DEF Receive
  <2>3. seen' \in [Tabs -> SUBSET (Nat \ {0})]
    BY <2>1, <2>2 DEF StreamTyped
  <2> QED BY <2>1, <2>3 DEF StreamTyped
<1>9. ASSUME NEW t \in Tabs, FailReplay(t) PROVE StreamTyped'
  <2>1. /\ conn' = [conn EXCEPT ![t] = Closed] /\ seen' = seen
        /\ failed' = [failed EXCEPT ![t] = TRUE]
        /\ mishaps < MaxMishaps /\ mishaps' = mishaps + 1
    BY <1>9 DEF FailReplay
  <2>2. failed' \in [Tabs -> BOOLEAN] /\ seen' \in [Tabs -> SUBSET (Nat \ {0})]
    BY <2>1 DEF StreamTyped
  <2> QED BY <1>1, <2>1, <2>2, ConnTyped, MishapTyped, ClosedHoldsNothing
<1>10. ASSUME NEW t \in Tabs, Disconnect(t) PROVE StreamTyped'
  <2>1. /\ conn' = [conn EXCEPT ![t] = Closed] /\ seen' = seen /\ failed' = failed
        /\ mishaps < MaxMishaps /\ mishaps' = mishaps + 1
    BY <1>10 DEF Disconnect, browser
  <2>2. failed' \in [Tabs -> BOOLEAN] /\ seen' \in [Tabs -> SUBSET (Nat \ {0})]
    BY <2>1 DEF StreamTyped
  <2> QED BY <1>1, <2>1, <2>2, ConnTyped, MishapTyped, ClosedHoldsNothing
<1>11. ASSUME Restart PROVE StreamTyped'
  <2>1. /\ conn' = [t \in Tabs |-> Closed] /\ seen' = seen /\ failed' = failed
        /\ mishaps < MaxMishaps /\ mishaps' = mishaps + 1
    BY <1>11 DEF Restart, browser
  <2> QED BY <2>1, MishapTyped, ClosedHoldsNothing DEF StreamTyped
<1> QED BY <1>3, <1>4, <1>5, <1>6, <1>7, <1>8, <1>9, <1>10, <1>11
        DEF StreamNext, Connection, Loss

(* The greatest event of a tab that has a session open. *)
LEMMA LastSeenIs ==
  ASSUME StreamInv, NEW t \in Tabs, open[t] # None, NEW from, NEW s,
         Unhandled(t, from, s) # {}
  PROVE  LastSeen(t) \in 1..Len(log[open[t]]) /\ Len(log[open[t]]) \in Nat
<1>1. /\ open[t] \in Sessions
      /\ cursor[t] \in 0..Len(log[open[t]]) /\ seen[t] \subseteq 1..cursor[t]
  BY DEF StreamInv, TabInv, Tab, Reader
<1>2. Len(log[open[t]]) \in Nat
  BY <1>1 DEF StreamInv, RowsInv, RowsTyped
<1>3. seen[t] # {}
  BY DEF Unhandled
<1> HIDE DEF StreamInv
<1>4. \E n \in seen[t] : \A m \in seen[t] : m <= n
  <2>1. cursor[t] \in Nat
    BY <1>1, <1>2
  <2> QED BY <1>1, <1>3, <2>1, Greatest
<1>5. LastSeen(t) \in seen[t]
  BY <1>4 DEF LastSeen
<1>6. \A n \in 1..cursor[t] : n \in 1..Len(log[open[t]])
  BY <1>1, <1>2
<1> QED BY <1>1, <1>2, <1>5, <1>6

(***************************************************************************)
(* The version of a session is the number of lifecycle events among the    *)
(* first k of its feed, for the k that are there when it is read.          *)
(***************************************************************************)
Upto(g, k) == Cardinality({i \in 1..k : g[i].type = "lifecycle"})

ReadFrom(g, n, v) == \E k \in n..Len(g) : v = Upto(g, k)

(* Versions are numbers. *)
LEMMA UptoIsNat ==
  ASSUME NEW g, NEW k \in Nat
  PROVE  Upto(g, k) \in Nat
<1>1. IsFiniteSet(1..k)
  BY FS_Interval
<1>2. IsFiniteSet({i \in 1..k : g[i].type = "lifecycle"})
  BY <1>1, FS_Subset
<1> QED BY <1>2, FS_CardinalityType DEF Upto

(* A request reads the version of the whole feed. *)
LEMMA VersionIs ==
  ASSUME StreamInv, NEW s \in Sessions
  PROVE  /\ Version(s) = Upto(log[s], Len(log[s])) /\ Version(s) \in Nat
         /\ Len(log[s]) \in Nat
<1>1. log[s] \in Seq(Event)
  BY DEF StreamInv, RowsInv, RowsTyped
<1>2. DOMAIN log[s] = 1..Len(log[s]) /\ Len(log[s]) \in Nat
  BY <1>1
<1>3. Version(s) = Upto(log[s], Len(log[s]))
  BY <1>2 DEF Version, Upto
<1> QED BY <1>2, <1>3, UptoIsNat

(* It was read from any n that the feed had reached. *)
LEMMA VersionIsRead ==
  ASSUME StreamInv, NEW s \in Sessions, NEW n \in Nat, n <= Len(log[s])
  PROVE  ReadFrom(log[s], n, Version(s))
<1>1. Version(s) = Upto(log[s], Len(log[s])) /\ Len(log[s]) \in Nat
  BY VersionIs
<1> QED BY <1>1 DEF ReadFrom

(* What was read of a feed was, when the feed has grown. *)
LEMMA ReadOfGrown ==
  ASSUME NEW g, NEW h, Len(g) \in Nat, Len(h) \in Nat, Len(g) <= Len(h),
         \A i \in 1..Len(g) : h[i] = g[i],
         NEW n \in Nat, NEW v, ReadFrom(g, n, v)
  PROVE  ReadFrom(h, n, v)
<1>1. PICK k \in n..Len(g) : v = Upto(g, k)
  BY DEF ReadFrom
<1>2. \A i \in 1..k : h[i] = g[i]
  BY <1>1
<1>3. {i \in 1..k : h[i].type = "lifecycle"} = {i \in 1..k : g[i].type = "lifecycle"}
  BY <1>2
<1>4. k \in n..Len(h)
  BY <1>1
<1> QED BY <1>1, <1>3, <1>4 DEF ReadFrom, Upto

-----------------------------------------------------------------------------
(***************************************************************************)
(* A tab whose route has named one session only: its session has feed g    *)
(* and number s, o is open, h handled, n requests were started, F are in   *)
(* flight, sh is shown.  What the newest request has read, in flight or    *)
(* shown, was read when all the events handled were there; and unless an   *)
(* answer was lost or overtaken, the newest is still in flight or is what  *)
(* the page shows, with none left to replace it.                           *)
(***************************************************************************)
NewestReads(g, h, n, F) ==
  \A f \in F : f.number = n =>
    \A v \in {f.session, f.messages} \ {Unread} : ReadFrom(g, h, v)

NewestKept(g, s, h, n, F, sh) ==
  \/ \E f \in F : f.number = n
  \/ /\ F = {} /\ sh.of = s
     /\ ReadFrom(g, h, sh.session) /\ ReadFrom(g, h, sh.messages)

Fresh(g, s, o, h, n, F, sh, ord) ==
  /\ o \in {None, s}
  /\ h \in Nat /\ h <= Len(g)
  /\ n \in Nat
  /\ \A f \in F : f.of = s /\ IsFetch(f, n)
  /\ \A f, e \in F : f.number = e.number => f = e
  /\ NewestReads(g, h, n, F)
  /\ ord => NewestKept(g, s, h, n, F, sh)

(* Fresh after the feed has grown. *)
LEMMA FreshGrows ==
  ASSUME NEW g, NEW e, Len(g) \in Nat, Len(e) \in Nat, Len(g) <= Len(e),
         \A i \in 1..Len(g) : e[i] = g[i],
         NEW s, NEW o, NEW h, NEW n, NEW F, NEW sh, NEW ord,
         Fresh(g, s, o, h, n, F, sh, ord)
  PROVE  Fresh(e, s, o, h, n, F, sh, ord)
<1>1. h \in Nat /\ h <= Len(g)
  BY DEF Fresh
<1>2. \A v : ReadFrom(g, h, v) => ReadFrom(e, h, v)
  BY <1>1, ReadOfGrown
<1>3. h <= Len(e)
  BY <1>1
<1>4. NewestReads(e, h, n, F)
  BY <1>2 DEF Fresh, NewestReads
<1>5. ord => NewestKept(e, s, h, n, F, sh)
  BY <1>2 DEF Fresh, NewestKept
<1> QED BY <1>3, <1>4, <1>5 DEF Fresh

(* A request with one more part read. *)
Reads(f, v) ==
  {[of |-> f.of, number |-> f.number, session |-> v, messages |-> f.messages],
   [of |-> f.of, number |-> f.number, session |-> f.session, messages |-> v]}

(* It is a request of the same session and number. *)
LEMMA FetchReads ==
  ASSUME NEW n, NEW f, IsFetch(f, n), NEW v \in Nat, NEW r \in Reads(f, v)
  PROVE  /\ IsFetch(r, n) /\ r.of = f.of /\ r.number = f.number
         /\ {r.session, r.messages} \subseteq {f.session, f.messages, v}
<1>1. /\ r.of = f.of /\ r.number = f.number
      /\ {r.session, r.messages} \subseteq {f.session, f.messages, v}
      /\ r = [of |-> r.of, number |-> r.number, session |-> r.session,
              messages |-> r.messages]
  BY DEF Reads
<1> QED BY <1>1 DEF IsFetch, IsRequest

(* Fresh after a request has read. *)
LEMMA FreshReads ==
  ASSUME NEW g, NEW s, NEW o, NEW h, NEW n, NEW F, NEW sh, NEW ord,
         Fresh(g, s, o, h, n, F, sh, ord), NEW f \in F,
         NEW v \in Nat, ReadFrom(g, h, v), NEW r \in Reads(f, v)
  PROVE  Fresh(g, s, o, h, n, (F \ {f}) \cup {r}, sh, ord)
<1>1. IsFetch(f, n) /\ f.of = s
  BY DEF Fresh
<1>2. /\ IsFetch(r, n) /\ r.of = s /\ r.number = f.number
      /\ {r.session, r.messages} \subseteq {f.session, f.messages, v}
  BY <1>1, FetchReads
<1> DEFINE G == (F \ {f}) \cup {r}
<1>3. \A e \in G : e.of = s /\ IsFetch(e, n)
  BY <1>2 DEF Fresh
<1>4. \A d, e \in G : d.number = e.number => d = e
  <2>1. \A e \in F : e.number = f.number => e = f
    BY DEF Fresh
  <2> QED BY <1>2, <2>1 DEF Fresh
<1>5. NewestReads(g, h, n, G)
  <2>1. NewestReads(g, h, n, F)
    BY DEF Fresh
  <2> QED BY <1>2, <2>1 DEF NewestReads
<1>6. ord => NewestKept(g, s, h, n, G, sh)
  <2>1. ASSUME ord PROVE NewestKept(g, s, h, n, G, sh)
    <3>1. PICK e \in F : e.number = n
      BY <2>1 DEF Fresh, NewestKept
    <3>2. \E d \in G : d.number = n
      BY <1>2, <3>1
    <3> QED BY <3>2 DEF NewestKept
  <2> QED BY <2>1
<1> HIDE DEF G
<1>7. Fresh(g, s, o, h, n, G, sh, ord)
  BY <1>3, <1>4, <1>5, <1>6 DEF Fresh
<1> QED BY <1>7 DEF G

(* Fresh after a request was answered. *)
LEMMA FreshAnswers ==
  ASSUME NEW g, NEW s, NEW o, NEW h, NEW n, NEW F, NEW sh, NEW ord,
         Fresh(g, s, o, h, n, F, sh, ord), NEW f \in F,
         f.session # Unread, f.messages # Unread,
         NEW r, r = [of |-> f.of, session |-> f.session, messages |-> f.messages]
  PROVE  Fresh(g, s, s, h, n, F \ {f}, r, ord /\ \A e \in F : e.number >= f.number)
<1> DEFINE G == F \ {f}
           still == ord /\ \A e \in F : e.number >= f.number
<1>1. NewestReads(g, h, n, G)
  BY DEF Fresh, NewestReads
<1>2. ASSUME still PROVE NewestKept(g, s, h, n, G, r)
  <2>1. NewestKept(g, s, h, n, F, sh)
    BY <1>2 DEF Fresh
  <2>2. CASE f.number = n
    <3>1. \A e \in F : e.number \in 1..n /\ n \in Nat
      BY DEF Fresh, IsFetch
    <3>2. \A e \in F : e.number = f.number
      BY <1>2, <2>2, <3>1
    <3>3. G = {}
      BY <3>2 DEF Fresh
    <3>4. ReadFrom(g, h, f.session) /\ ReadFrom(g, h, f.messages)
      BY <2>2 DEF Fresh, NewestReads
    <3>5. r.of = s /\ r.session = f.session /\ r.messages = f.messages
      BY DEF Fresh
    <3> QED BY <3>3, <3>4, <3>5 DEF NewestKept
  <2>3. CASE f.number # n
    <3>1. PICK e \in F : e.number = n
      BY <2>1 DEF NewestKept
    <3>2. e \in G
      BY <2>3, <3>1
    <3> QED BY <3>1, <3>2 DEF NewestKept
  <2> QED BY <2>2, <2>3
<1>3. /\ \A e \in G : e.of = s /\ IsFetch(e, n)
      /\ \A d, e \in G : d.number = e.number => d = e
  BY DEF Fresh
<1> HIDE DEF G, still
<1>4. Fresh(g, s, s, h, n, G, r, still)
  BY <1>1, <1>2, <1>3 DEF Fresh
<1> QED BY <1>4 DEF G, still

(* Fresh after a request was lost. *)
LEMMA FreshLoses ==
  ASSUME NEW g, NEW s, NEW o, NEW h, NEW n, NEW F, NEW sh, NEW ord,
         Fresh(g, s, o, h, n, F, sh, ord), NEW f
  PROVE  Fresh(g, s, o, h, n, F \ {f}, sh, FALSE)
<1>1. NewestReads(g, h, n, F \ {f})
  BY DEF Fresh, NewestReads
<1> QED BY <1>1 DEF Fresh

(* A request that is started. *)
LEMMA RefreshIs ==
  ASSUME NEW s \in Sessions, NEW n \in Nat, NEW k \in Nat, 1 <= n, n <= k
  PROVE  /\ IsFetch(Refresh(s, n), k)
         /\ Refresh(s, n).of = s /\ Refresh(s, n).number = n
         /\ Refresh(s, n).session = Unread /\ Refresh(s, n).messages = Unread
<1>1. n \in 1..k
  OBVIOUS
<1>2. /\ Refresh(s, n).of = s /\ Refresh(s, n).number = n
      /\ Refresh(s, n).session = Unread /\ Refresh(s, n).messages = Unread
  BY DEF Refresh
<1> QED BY <1>1, <1>2, RefreshIsRequest DEF IsFetch

(* A request stays one when more are started. *)
LEMMA FetchStays ==
  ASSUME NEW n \in Nat, NEW k \in Nat, n <= k, NEW f, IsFetch(f, n)
  PROVE  IsFetch(f, k) /\ f.number \in 1..n
BY DEF IsFetch

(* Fresh after the events were handled and a request was started. *)
LEMMA FreshHandles ==
  ASSUME NEW g, NEW s \in Sessions, NEW o, NEW h, NEW n, NEW F, NEW sh, NEW ord,
         Fresh(g, s, o, h, n, F, sh, ord), NEW k \in Nat, k <= Len(g)
  PROVE  Fresh(g, s, o, k, n + 1, F \cup {Refresh(s, n + 1)}, sh, ord)
<1> DEFINE r == Refresh(s, n + 1)
           G == F \cup {r}
<1>1. n \in Nat /\ n + 1 \in Nat
  BY DEF Fresh
<1>2. /\ IsFetch(r, n + 1) /\ r.of = s /\ r.number = n + 1
      /\ r.session = Unread /\ r.messages = Unread
  BY <1>1, RefreshIs
<1>3. \A f \in F : f.of = s /\ IsFetch(f, n + 1) /\ f.number # n + 1
  <2>1. ASSUME NEW f \in F PROVE f.of = s /\ IsFetch(f, n + 1) /\ f.number # n + 1
    <3>1. f.of = s /\ IsFetch(f, n)
      BY DEF Fresh
    <3>2. IsFetch(f, n + 1) /\ f.number \in 1..n
      BY <1>1, <3>1, FetchStays
    <3> QED BY <1>1, <3>1, <3>2
  <2> QED BY <2>1
<1> HIDE DEF r
<1>4. \A d, e \in G : d.number = e.number => d = e
  BY <1>2, <1>3 DEF Fresh
<1>5. NewestReads(g, k, n + 1, G)
  BY <1>2, <1>3 DEF NewestReads
<1>6. NewestKept(g, s, k, n + 1, G, sh)
  BY <1>2 DEF NewestKept
<1>7. \A f \in G : f.of = s /\ IsFetch(f, n + 1)
  BY <1>2, <1>3
<1> HIDE DEF G
<1>8. Fresh(g, s, o, k, n + 1, G, sh, ord)
  BY <1>1, <1>4, <1>5, <1>6, <1>7 DEF Fresh
<1> QED BY <1>8 DEF G, r

-----------------------------------------------------------------------------
(* The pages of all tabs. *)

PageFresh ==
  \A t \in Tabs : visits[t] = 1 =>
    Fresh(log[route[t]], route[t], open[t], handled[t], started[t], fetches[t],
          shown[t], orderly[t])

PagesInv == StreamTyped /\ PageTyped /\ PageFresh

Shows == [of : Sessions \cup {None}, session : Nat, messages : Nat]

(* They hold at first: a request has been started and has read nothing. *)
LEMMA InitPages ==
  ASSUME Init
  PROVE  PagesInv
<1>1. /\ conn = [t \in Tabs |-> Closed] /\ failed = [t \in Tabs |-> FALSE]
      /\ seen = [t \in Tabs |-> {}] /\ mishaps = 0
      /\ open = [t \in Tabs |-> None] /\ log = [s \in Sessions |-> <<>>]
  BY DEF Init, StreamInit
<1>2. /\ route \in [Tabs -> Sessions] /\ shown = [t \in Tabs |-> Nothing]
      /\ handled = [t \in Tabs |-> 0]
      /\ fetches = [t \in Tabs |-> {Refresh(route[t], 1)}]
      /\ started = [t \in Tabs |-> 1] /\ visits = [t \in Tabs |-> 1]
      /\ orderly = [t \in Tabs |-> TRUE]
  BY DEF Init
<1>3. StreamTyped
  <2>1. mishaps \in 0..MaxMishaps
    BY <1>1, BoundAssumption
  <2> QED BY <1>1, <2>1, ClosedHoldsNothing DEF StreamTyped
<1>4. ASSUME NEW t \in Tabs
      PROVE  /\ IsFetch(Refresh(route[t], 1), 1) /\ Refresh(route[t], 1).of = route[t]
             /\ Refresh(route[t], 1).number = 1
             /\ Refresh(route[t], 1).session = Unread
             /\ Refresh(route[t], 1).messages = Unread
  BY <1>2, RefreshIs
<1>5. PageTyped
  <2>1. Nothing \in [of : Sessions \cup {None}, session : Nat, messages : Nat]
    BY DEF Nothing
  <2>2. \A t \in Tabs : \A f \in fetches[t] : IsFetch(f, started[t])
    BY <1>2, <1>4
  <2>3. fetches = [t \in Tabs |-> fetches[t]]
    BY <1>2
  <2> QED BY <1>2, <2>1, <2>2, <2>3 DEF PageTyped
<1>6. ASSUME NEW t \in Tabs
      PROVE  Fresh(log[route[t]], route[t], open[t], handled[t], started[t], fetches[t],
                   shown[t], orderly[t])
  <2> DEFINE r == Refresh(route[t], 1)
  <2>1. /\ open[t] = None /\ handled[t] = 0 /\ started[t] = 1 /\ fetches[t] = {r}
        /\ Len(log[route[t]]) = 0
    BY <1>1, <1>2
  <2>2. IsFetch(r, 1) /\ r.of = route[t] /\ r.number = 1
        /\ r.session = Unread /\ r.messages = Unread
    BY <1>4
  <2> HIDE DEF r
  <2>3. NewestReads(log[route[t]], 0, 1, {r})
    BY <2>2 DEF NewestReads
  <2>4. NewestKept(log[route[t]], route[t], 0, 1, {r}, shown[t])
    BY <2>2 DEF NewestKept
  <2> QED BY <2>1, <2>2, <2>3, <2>4 DEF Fresh
<1> QED BY <1>3, <1>5, <1>6 DEF PagesInv, PageFresh

(* The feeds only grow, and no step of the stream opens or closes one. *)
LEMMA FeedsGrow ==
  ASSUME StreamInv, StreamNext
  PROVE  /\ open' = open
         /\ \A s \in Sessions :
              /\ Len(log[s]) \in Nat /\ Len(log'[s]) \in Nat /\ Len(log[s]) <= Len(log'[s])
              /\ \A i \in 1..Len(log[s]) : log'[s][i] = log[s][i]
<1>1. ASSUME NEW p \in Producers, Abort(p) \/ Publish(p) \/ \E s \in Sessions : LockRow(p, s)
      PROVE  open' = open /\ log' = log
  BY <1>1 DEF Abort, Publish, LockRow, rows, browser
<1>2. ASSUME NEW t \in Tabs, Connection(t) PROVE open' = open /\ log' = log
  <2>1. CASE Connect(t) \/ ReadReplay(t) \/ FinishReplay(t)
    BY <2>1 DEF Connect, ReadReplay, FinishReplay, rows, browser
  <2>2. CASE Receive(t)
    BY <2>2 DEF Receive, rows
  <2> QED BY <1>2, <2>1, <2>2 DEF Connection
<1>3. ASSUME Loss PROVE open' = open /\ log' = log
  BY <1>3 DEF Loss, Restart, FailReplay, Disconnect, rows, browser
<1>4. ASSUME NEW p \in Producers, NEW n \in 1..2, NEW types \in [1..n -> Types],
             Commit(p, types)
      PROVE  open' = open
  BY <1>4 DEF Commit, browser
<1>5. open' = open
  BY <1>1, <1>2, <1>3, <1>4 DEF StreamNext, Transaction
<1>6. log' = log \/ \E p \in Producers, n \in 1..2 : \E types \in [1..n -> Types] :
                      Commit(p, types)
  BY <1>1, <1>2, <1>3 DEF StreamNext, Transaction
<1>7. RowsInv
  BY DEF StreamInv
<1>8. \A s \in Sessions : Len(log[s]) \in Nat
  BY <1>7 DEF RowsInv, RowsTyped
<1>9. CASE log' = log
  BY <1>5, <1>8, <1>9
<1>10. ASSUME NEW p \in Producers, NEW n \in 1..2, NEW types \in [1..n -> Types],
             Commit(p, types), NEW s \in Sessions
      PROVE  /\ Len(log'[s]) \in Nat /\ Len(log[s]) <= Len(log'[s])
             /\ \A i \in 1..Len(log[s]) : log'[s][i] = log[s][i]
  <2> DEFINE z == tx[p].session
  <2>1. PICK events : Grown(p, z, events) /\ Len(events) = n
    BY <1>7, <1>10, CommitGrows
  <2> HIDE DEF z
  <2>2. /\ \A y \in Sessions \ {z} : log'[y] = log[y]
        /\ Len(log'[z]) = Len(log[z]) + Len(events)
        /\ \A k \in 1..Len(log[z]) : log'[z][k] = log[z][k]
    BY <1>7, <2>1, GrownFeed
  <2>3. CASE s = z
    BY <1>8, <2>1, <2>2, <2>3
  <2>4. CASE s # z
    BY <1>8, <2>2, <2>4
  <2> QED BY <2>3, <2>4
<1> QED BY <1>5, <1>6, <1>8, <1>9, <1>10

(* Steps of the stream leave the pages alone. *)
LEMMA StreamKeepsPages ==
  ASSUME StreamInv, PageInv, PagesInv, Stream
  PROVE  PagesInv'
<1>1. StreamNext /\ UNCHANGED pageVars
  BY DEF Stream
<1>2. /\ route' = route /\ shown' = shown /\ handled' = handled /\ fetches' = fetches
      /\ started' = started /\ visits' = visits /\ orderly' = orderly
  BY <1>1 DEF pageVars
<1>3. StreamTyped'
  BY <1>1, StreamStepTyped DEF PagesInv
<1>4. PageTyped'
  BY <1>2 DEF PagesInv, PageTyped
<1>5. ASSUME NEW t \in Tabs, visits'[t] = 1
      PROVE  Fresh(log'[route[t]], route[t], open'[t], handled[t], started[t], fetches[t],
                   shown[t], orderly[t])
  <2> DEFINE s == route[t]
  <2>1. Fresh(log[s], s, open[t], handled[t], started[t], fetches[t], shown[t], orderly[t])
    BY <1>2, <1>5 DEF PagesInv, PageFresh
  <2>2. s \in Sessions
    BY DEF PageInv
  <2> HIDE DEF s
  <2>3. /\ open' = open
        /\ Len(log[s]) \in Nat /\ Len(log'[s]) \in Nat /\ Len(log[s]) <= Len(log'[s])
        /\ \A i \in 1..Len(log[s]) : log'[s][i] = log[s][i]
    BY <1>1, <2>2, FeedsGrow
  <2>4. Fresh(log'[s], s, open[t], handled[t], started[t], fetches[t], shown[t], orderly[t])
    BY <2>1, <2>3, FreshGrows
  <2> QED BY <2>3, <2>4 DEF s
<1>6. PageFresh'
  BY <1>2, <1>5 DEF PageFresh
<1> QED BY <1>3, <1>4, <1>6 DEF PagesInv

(***************************************************************************)
(* A step of one tab's page: s is its route afterwards, o what it has      *)
(* open, h handled, n the requests started, F those in flight, sh shown, v *)
(* the visits.                                                             *)
(***************************************************************************)
Moves(t, s, o, h, n, F, sh, v, ord) ==
  /\ log' = log
  /\ route' = [route EXCEPT ![t] = s]
  /\ open' = [open EXCEPT ![t] = o]
  /\ handled' = [handled EXCEPT ![t] = h]
  /\ started' = [started EXCEPT ![t] = n]
  /\ fetches' = [fetches EXCEPT ![t] = F]
  /\ shown' = [shown EXCEPT ![t] = sh]
  /\ visits' = [visits EXCEPT ![t] = v]
  /\ orderly' = [orderly EXCEPT ![t] = ord]

(* Such a step keeps the pages if it keeps this one. *)
LEMMA MoveKeeps ==
  ASSUME TabsTyped, PageInv, PageTyped, PageFresh, NEW t \in Tabs,
         NEW s \in Sessions, NEW o, NEW h \in Nat, NEW n \in Nat, NEW F,
         NEW sh \in Shows, NEW v \in Nat \ {0}, NEW ord \in BOOLEAN,
         Moves(t, s, o, h, n, F, sh, v, ord),
         \A f \in F : IsFetch(f, n),
         v = 1 => Fresh(log[s], s, o, h, n, F, sh, ord)
  PROVE  PageTyped' /\ PageFresh'
<1>1. ASSUME NEW u \in Tabs, u # t
      PROVE  /\ route'[u] = route[u] /\ open'[u] = open[u] /\ handled'[u] = handled[u]
             /\ started'[u] = started[u] /\ fetches'[u] = fetches[u]
             /\ shown'[u] = shown[u] /\ visits'[u] = visits[u] /\ orderly'[u] = orderly[u]
  BY <1>1 DEF Moves, TabsTyped, PageInv, PageTyped
<1>2. /\ route'[t] = s /\ open'[t] = o /\ handled'[t] = h
      /\ started'[t] = n /\ fetches'[t] = F
      /\ shown'[t] = sh /\ visits'[t] = v /\ orderly'[t] = ord
  BY DEF Moves, TabsTyped, PageInv, PageTyped
<1>3. PageTyped'
  <2>1. /\ shown' \in [Tabs -> [of : Sessions \cup {None}, session : Nat, messages : Nat]]
        /\ handled' \in [Tabs -> Nat] /\ started' \in [Tabs -> Nat]
        /\ visits' \in [Tabs -> Nat \ {0}] /\ orderly' \in [Tabs -> BOOLEAN]
    BY DEF Moves, PageTyped, Shows
  <2>2. fetches' = [u \in Tabs |-> fetches'[u]]
    BY DEF Moves, PageTyped
  <2>3. ASSUME NEW u \in Tabs, NEW f \in fetches'[u] PROVE IsFetch(f, started'[u])
    BY <1>1, <1>2, <2>3 DEF PageTyped
  <2> QED BY <2>1, <2>2, <2>3 DEF PageTyped
<1>4. PageFresh'
  <2>1. log' = log
    BY DEF Moves
  <2>2. ASSUME NEW u \in Tabs, visits'[u] = 1
        PROVE  Fresh(log'[route'[u]], route'[u], open'[u], handled'[u], started'[u],
                     fetches'[u], shown'[u], orderly'[u])
    <3>1. CASE u = t
      BY <1>2, <2>1, <2>2, <3>1
    <3>2. CASE u # t
      BY <1>1, <2>1, <2>2, <3>2 DEF PageFresh
    <3> QED BY <3>1, <3>2
  <2> QED BY <2>2 DEF PageFresh
<1> QED BY <1>3, <1>4

(* What stays as it is. *)
LEMMA Stays ==
  ASSUME NEW t \in Tabs, NEW S, NEW x \in [Tabs -> S]
  PROVE  x = [x EXCEPT ![t] = x[t]]
OBVIOUS

(* All of a page stays as it is. *)
LEMMA PageStays ==
  ASSUME TabsTyped, PageInv, PageTyped, NEW t \in Tabs
  PROVE  /\ route = [route EXCEPT ![t] = route[t]]
         /\ open = [open EXCEPT ![t] = open[t]]
         /\ handled = [handled EXCEPT ![t] = handled[t]]
         /\ started = [started EXCEPT ![t] = started[t]]
         /\ shown = [shown EXCEPT ![t] = shown[t]]
         /\ visits = [visits EXCEPT ![t] = visits[t]]
         /\ orderly = [orderly EXCEPT ![t] = orderly[t]]
BY Stays DEF TabsTyped, PageInv, PageTyped

(* The types of one page. *)
LEMMA PageIs ==
  ASSUME PageInv, PageTyped, NEW t \in Tabs
  PROVE  /\ route[t] \in Sessions /\ handled[t] \in Nat /\ started[t] \in Nat
         /\ shown[t] \in Shows /\ visits[t] \in Nat \ {0} /\ orderly[t] \in BOOLEAN
         /\ \A f \in fetches[t] : IsFetch(f, started[t])
BY DEF PageInv, PageTyped, Shows

(* A request reads the session or its messages. *)
LEMMA ReadKeeps ==
  ASSUME StreamInv, PageInv, PagesInv, NEW t \in Tabs, NEW f \in fetches[t],
         ReadSession(t, f) \/ ReadMessages(t, f)
  PROVE  PagesInv'
<1> DEFINE v == Version(f.of)
<1>1. /\ UNCHANGED streamVars /\ route' = route /\ shown' = shown /\ handled' = handled
      /\ started' = started /\ visits' = visits /\ orderly' = orderly
  BY DEF ReadSession, ReadMessages
<1>2. /\ log' = log /\ open' = open /\ conn' = conn /\ seen' = seen /\ failed' = failed
      /\ mishaps' = mishaps
  BY <1>1 DEF streamVars, rows, browser
<1>3. IsRequest(f) /\ IsFetch(f, started[t]) /\ f.of \in Sessions
  BY DEF PageInv, PagesInv, PageTyped, IsRequest
<1>4. /\ [f EXCEPT !.session = v] =
           [of |-> f.of, number |-> f.number, session |-> v, messages |-> f.messages]
      /\ [f EXCEPT !.messages = v] =
           [of |-> f.of, number |-> f.number, session |-> f.session, messages |-> v]
  <2> HIDE DEF v
  <2> QED BY <1>3 DEF IsRequest
<1>5. PICK r \in Reads(f, v) :
        fetches' = [fetches EXCEPT ![t] = (fetches[t] \ {f}) \cup {r}]
  <2>1. CASE ReadSession(t, f)
    <3>1. fetches' = [fetches EXCEPT ![t] = (fetches[t] \ {f}) \cup {[f EXCEPT !.session = v]}]
      BY <2>1 DEF ReadSession, PagesInv, PageTyped
    <3> HIDE DEF v
    <3> QED BY <3>1, <1>4 DEF Reads
  <2>2. CASE ReadMessages(t, f)
    <3>1. fetches' = [fetches EXCEPT ![t] = (fetches[t] \ {f}) \cup {[f EXCEPT !.messages = v]}]
      BY <2>2 DEF ReadMessages, PagesInv, PageTyped
    <3> HIDE DEF v
    <3> QED BY <3>1, <1>4 DEF Reads
  <2> QED BY <2>1, <2>2
<1> DEFINE G == (fetches[t] \ {f}) \cup {r}
<1>6. v \in Nat
  BY <1>3, VersionIs
<1>7. TabsTyped /\ PageTyped /\ PageFresh
  BY DEF StreamInv, PagesInv
<1>8. Moves(t, route[t], open[t], handled[t], started[t], G, shown[t], visits[t], orderly[t])
  BY <1>1, <1>2, <1>5, <1>7, PageStays DEF Moves
<1>9. IsFetch(r, started[t])
  <2> HIDE DEF v
  <2> QED BY <1>3, <1>5, <1>6, FetchReads
<1>10. \A e \in G : IsFetch(e, started[t])
  BY <1>9, <1>7, PageIs
<1>11. ASSUME visits[t] = 1
       PROVE  Fresh(log[route[t]], route[t], open[t], handled[t], started[t], G,
                    shown[t], orderly[t])
  <2>1. Fresh(log[route[t]], route[t], open[t], handled[t], started[t], fetches[t],
              shown[t], orderly[t])
    BY <1>7, <1>11 DEF PageFresh
  <2>2. f.of = route[t] /\ handled[t] \in Nat /\ handled[t] <= Len(log[route[t]])
    BY <2>1 DEF Fresh
  <2>3. ReadFrom(log[route[t]], handled[t], v)
    BY <1>3, <2>2, VersionIsRead
  <2> HIDE DEF v
  <2> QED BY <1>5, <1>6, <2>1, <2>3, FreshReads
<1>12. StreamTyped'
  BY <1>2 DEF PagesInv, StreamTyped
<1> HIDE DEF G, v
<1>13. PageTyped' /\ PageFresh'
  BY <1>7, <1>8, <1>10, <1>11, PageIs, MoveKeeps
<1> QED BY <1>12, <1>13 DEF PagesInv

(* Both have answered: the page shows them. *)
LEMMA AnswerKeeps ==
  ASSUME StreamInv, PageInv, PagesInv, NEW t \in Tabs, NEW f \in fetches[t], Answer(t, f)
  PROVE  PagesInv'
<1> DEFINE r == [of |-> f.of, session |-> f.session, messages |-> f.messages]
           still == orderly[t] /\ \A e \in fetches[t] : e.number >= f.number
           G == fetches[t] \ {f}
<1>1. TabsTyped /\ PageTyped /\ PageFresh /\ StreamTyped
  BY DEF StreamInv, PagesInv
<1>2. /\ f.session # Unread /\ f.messages # Unread
      /\ fetches' = [fetches EXCEPT ![t] = G]
      /\ shown' = [shown EXCEPT ![t] = r]
      /\ log' = log /\ mishaps' = mishaps /\ route' = route /\ handled' = handled
      /\ started' = started /\ visits' = visits
  BY DEF Answer, rows
<1>3. orderly' = [orderly EXCEPT ![t] = still]
  BY <1>1 DEF Answer, PageTyped
<1>4. open' = [open EXCEPT ![t] = f.of] /\ StreamTyped'
  <2>1. CASE open[t] = f.of
    <3>1. UNCHANGED browser /\ conn' = conn
      BY <2>1 DEF Answer
    <3>2. open' = open /\ seen' = seen /\ failed' = failed
      BY <3>1 DEF browser
    <3>3. open' = [open EXCEPT ![t] = f.of]
      BY <1>1, <2>1, <3>2, PageStays
    <3> QED BY <1>1, <1>2, <3>1, <3>2, <3>3 DEF StreamTyped
  <2>2. CASE open[t] # f.of
    <3>1. OpenStream(t, f.of)
      BY <2>2 DEF Answer
    <3>2. mishaps' \in 0..MaxMishaps
      BY <1>1, <1>2 DEF StreamTyped
    <3>3. StreamTyped'
      BY <1>1, <3>1, <3>2, OpenStreamTyped
    <3> QED BY <3>1, <3>3 DEF OpenStream
  <2> QED BY <2>1, <2>2
<1>5. IsFetch(f, started[t]) /\ f.of \in Sessions
  BY <1>1, PageIs DEF IsFetch, IsRequest
<1>6. r \in Shows
  BY <1>2, <1>5 DEF IsFetch, Shows
<1>7. still \in BOOLEAN
  BY <1>1, PageIs
<1>8. Moves(t, route[t], f.of, handled[t], started[t], G, r, visits[t], still)
  <2> HIDE DEF G, r, still
  <2> QED BY <1>1, <1>2, <1>3, <1>4, PageStays DEF Moves
<1>9. \A e \in G : IsFetch(e, started[t])
  BY <1>1, PageIs
<1>10. ASSUME visits[t] = 1
       PROVE  Fresh(log[route[t]], route[t], f.of, handled[t], started[t], G, r, still)
  <2>1. Fresh(log[route[t]], route[t], open[t], handled[t], started[t], fetches[t],
              shown[t], orderly[t])
    BY <1>1, <1>10 DEF PageFresh
  <2>2. f.of = route[t]
    BY <2>1 DEF Fresh
  <2> QED BY <1>2, <2>1, <2>2, FreshAnswers
<1> HIDE DEF G, r, still
<1>11. PageTyped' /\ PageFresh'
  BY <1>1, <1>6, <1>7, <1>8, <1>9, <1>10, PageIs, MoveKeeps
<1> QED BY <1>4, <1>11 DEF PagesInv

(* A request throws. *)
LEMMA FailFetchKeeps ==
  ASSUME StreamInv, PageInv, PagesInv, NEW t \in Tabs, NEW f \in fetches[t], FailFetch(t, f)
  PROVE  PagesInv'
<1> DEFINE G == fetches[t] \ {f}
<1>1. TabsTyped /\ PageTyped /\ PageFresh /\ StreamTyped
  BY DEF StreamInv, PagesInv
<1>2. /\ mishaps < MaxMishaps /\ mishaps' = mishaps + 1
      /\ fetches' = [fetches EXCEPT ![t] = G]
      /\ orderly' = [orderly EXCEPT ![t] = FALSE]
      /\ log' = log /\ conn' = conn /\ open' = open /\ seen' = seen /\ failed' = failed
      /\ route' = route /\ handled' = handled /\ shown' = shown
      /\ started' = started /\ visits' = visits
  BY DEF FailFetch, rows, browser
<1>3. StreamTyped'
  BY <1>1, <1>2, MishapTyped DEF StreamTyped
<1>4. Moves(t, route[t], open[t], handled[t], started[t], G, shown[t], visits[t], FALSE)
  <2> HIDE DEF G
  <2> QED BY <1>1, <1>2, PageStays DEF Moves
<1>5. \A e \in G : IsFetch(e, started[t])
  BY <1>1, PageIs
<1>6. ASSUME visits[t] = 1
      PROVE  Fresh(log[route[t]], route[t], open[t], handled[t], started[t], G,
                   shown[t], FALSE)
  BY <1>1, <1>6, FreshLoses DEF PageFresh
<1> HIDE DEF G
<1>7. PageTyped' /\ PageFresh'
  BY <1>1, <1>4, <1>5, <1>6, PageIs, MoveKeeps
<1> QED BY <1>3, <1>7 DEF PagesInv

(* Events are handled: a request is started. *)
LEMMA HandleEventsKeeps ==
  ASSUME StreamInv, PageInv, PagesInv, NEW t \in Tabs, HandleEvents(t)
  PROVE  PagesInv'
<1> DEFINE s == route[t]
           n == started[t]
           G == fetches[t] \cup {Refresh(s, n + 1)}
           last == LastSeen(t)
<1>1. TabsTyped /\ PageTyped /\ PageFresh /\ StreamTyped
  BY DEF StreamInv, PagesInv
<1>2. /\ open[t] # None /\ Unhandled(t, handled[t], open[t]) # {}
      /\ handled' = [handled EXCEPT ![t] = last]
      /\ UNCHANGED streamVars /\ route' = route /\ shown' = shown /\ visits' = visits
      /\ orderly' = orderly
  BY DEF HandleEvents
<1>3. started' = [started EXCEPT ![t] = n + 1] /\ fetches' = [fetches EXCEPT ![t] = G]
  BY <1>1 DEF HandleEvents, PageTyped
<1>4. /\ log' = log /\ conn' = conn /\ open' = open /\ seen' = seen /\ failed' = failed
      /\ mishaps' = mishaps
  BY <1>2 DEF streamVars, rows, browser
<1>5. StreamTyped'
  BY <1>1, <1>4 DEF StreamTyped
<1>6. last \in 1..Len(log[open[t]]) /\ Len(log[open[t]]) \in Nat
  BY <1>2, LastSeenIs
<1>7. last \in Nat /\ last <= Len(log[open[t]])
  BY <1>6
<1> HIDE DEF last
<1>8. s \in Sessions /\ n \in Nat /\ n + 1 \in Nat /\ \A f \in fetches[t] : IsFetch(f, n)
  BY <1>1, PageIs
<1>9. Moves(t, s, open[t], last, n + 1, G, shown[t], visits[t], orderly[t])
  <2> HIDE DEF G
  <2> QED BY <1>1, <1>2, <1>3, <1>4, PageStays DEF Moves
<1>10. \A e \in G : IsFetch(e, n + 1)
  <2>1. IsFetch(Refresh(s, n + 1), n + 1)
    BY <1>8, RefreshIs
  <2>2. \A f \in fetches[t] : IsFetch(f, n + 1)
    BY <1>8, FetchStays
  <2> QED BY <2>1, <2>2
<1>11. ASSUME visits[t] = 1
       PROVE  Fresh(log[s], s, open[t], last, n + 1, G, shown[t], orderly[t])
  <2>1. Fresh(log[s], s, open[t], handled[t], n, fetches[t], shown[t], orderly[t])
    BY <1>1, <1>11 DEF PageFresh
  <2>2. open[t] = s
    BY <1>2, <2>1 DEF Fresh
  <2>3. last \in Nat /\ last <= Len(log[s])
    BY <1>7, <2>2
  <2> HIDE DEF s, n
  <2> QED BY <1>8, <2>1, <2>3, FreshHandles
<1> HIDE DEF G, s, n
<1>12. PageTyped' /\ PageFresh'
  <2>1. shown[t] \in Shows /\ visits[t] \in Nat \ {0} /\ orderly[t] \in BOOLEAN
    BY <1>1, PageIs
  <2> QED BY <1>1, <1>7, <1>8, <1>9, <1>10, <1>11, <2>1, MoveKeeps
<1> QED BY <1>5, <1>12 DEF PagesInv

(* The route names another session. *)
LEMMA NavigateKeeps ==
  ASSUME StreamInv, PageInv, PagesInv, NEW t \in Tabs, NEW s \in Sessions, Navigate(t, s)
  PROVE  PagesInv'
<1> DEFINE again == open[t] # None /\ Unhandled(t, 0, open[t]) # {}
           calls == IF again THEN 2 ELSE 1
           n == started[t]
           G == fetches[t] \cup {Refresh(s, n + i) : i \in 1..calls}
           h == IF again THEN LastSeen(t) ELSE 0
<1>1. TabsTyped /\ PageTyped /\ PageFresh /\ StreamTyped
  BY DEF StreamInv, PagesInv
<1>2. /\ mishaps < MaxMishaps /\ mishaps' = mishaps + 1
      /\ route' = [route EXCEPT ![t] = s]
      /\ shown' = [shown EXCEPT ![t] = Nothing]
      /\ handled' = [handled EXCEPT ![t] = h]
      /\ OpenStream(t, None) /\ log' = log /\ orderly' = orderly
  BY DEF Navigate, rows
<1>3. /\ visits' = [visits EXCEPT ![t] = visits[t] + 1]
      /\ started' = [started EXCEPT ![t] = n + calls]
      /\ fetches' = [fetches EXCEPT ![t] = G]
  BY <1>1 DEF Navigate, PageTyped
<1>4. StreamTyped'
  BY <1>1, <1>2, MishapTyped, OpenStreamTyped
<1>5. h \in Nat
  <2>1. CASE again
    <3>1. LastSeen(t) \in 1..Len(log[open[t]]) /\ Len(log[open[t]]) \in Nat
      BY <2>1, LastSeenIs
    <3> QED BY <2>1, <3>1
  <2>2. CASE ~again
    BY <2>2
  <2> QED BY <2>1, <2>2
<1>6. calls \in 1..2
  OBVIOUS
<1> HIDE DEF h, calls
<1>7. n \in Nat /\ n + calls \in Nat /\ \A f \in fetches[t] : IsFetch(f, n)
  BY <1>1, <1>6, PageIs
<1>8. \A e \in G : IsFetch(e, n + calls)
  <2>1. ASSUME NEW i \in 1..calls PROVE IsFetch(Refresh(s, n + i), n + calls)
    <3>1. n + i \in Nat /\ 1 <= n + i /\ n + i <= n + calls
      BY <1>6, <1>7
    <3> HIDE DEF n
    <3> QED BY <1>7, <3>1, RefreshIs
  <2>2. n <= n + calls
    BY <1>6, <1>7
  <2>3. \A f \in fetches[t] : IsFetch(f, n + calls)
    BY <1>7, <2>2, FetchStays
  <2> QED BY <2>1, <2>3
<1>9. Moves(t, s, None, h, n + calls, G, Nothing, visits[t] + 1, orderly[t])
  <2>1. open' = [open EXCEPT ![t] = None]
    BY <1>2 DEF OpenStream
  <2> HIDE DEF G, n
  <2> QED BY <1>1, <1>2, <1>3, <2>1, PageStays DEF Moves
<1>10. Nothing \in Shows
  BY DEF Nothing, Shows
<1>11. visits[t] + 1 \in Nat \ {0} /\ visits[t] + 1 # 1 /\ orderly[t] \in BOOLEAN
  BY <1>1, PageIs
<1> HIDE DEF G, n
<1>12. PageTyped' /\ PageFresh'
  BY <1>1, <1>5, <1>7, <1>8, <1>9, <1>10, <1>11, MoveKeeps
<1> QED BY <1>4, <1>12 DEF PagesInv

(* Every step of the system keeps the pages. *)
LEMMA NextKeepsPages ==
  ASSUME StreamInv, PageInv, PagesInv, [Next]_vars
  PROVE  PagesInv'
<1>1. CASE Stream
  BY <1>1, StreamKeepsPages
<1>2. CASE PageNext
  BY <1>2, ReadKeeps, AnswerKeeps, FailFetchKeeps, HandleEventsKeeps, NavigateKeeps
     DEF PageNext, Request
<1>3. CASE UNCHANGED vars
  <2>1. /\ log' = log /\ conn' = conn /\ open' = open /\ seen' = seen /\ failed' = failed
        /\ mishaps' = mishaps /\ route' = route /\ shown' = shown /\ handled' = handled
        /\ fetches' = fetches /\ started' = started /\ visits' = visits
        /\ orderly' = orderly
    BY <1>3 DEF vars, pageVars, streamVars, rows, browser
  <2>2. StreamTyped' /\ PageTyped'
    BY <2>1 DEF PagesInv, StreamTyped, PageTyped
  <2>3. PageFresh'
    BY <2>1 DEF PagesInv, PageFresh
  <2> QED BY <2>2, <2>3 DEF PagesInv
<1> QED BY <1>1, <1>2, <1>3 DEF Next

(* What the invariant says of the types. *)
LEMMA PagesTyped ==
  ASSUME StreamInv, PageInv, PagesInv, overtaking \in BOOLEAN
  PROVE  TypeOK
<1>1. RowsTyped /\ TabsTyped /\ StreamTyped /\ PageTyped
  BY DEF StreamInv, RowsInv, PagesInv
<1>2. ASSUME NEW t \in Tabs, NEW f \in fetches[t]
      PROVE  /\ f.of \in Sessions /\ f.number \in 1..started[t]
             /\ {f.session, f.messages} \subseteq Nat \cup {Unread}
  BY <1>1 DEF PageTyped, IsFetch, IsRequest
<1>3. visits \in [Tabs -> Nat]
  BY <1>1 DEF PageTyped
<1>4. route \in [Tabs -> Sessions]
  BY DEF PageInv
<1> QED BY <1>1, <1>2, <1>3, <1>4
        DEF TypeOK, RowsTyped, TxRecords, TabsTyped, ConnRecords, StreamTyped, PageTyped

(***************************************************************************)
(* A quiet page: its tab has every event, and has handled every lifecycle  *)
(* event.  The request it shows was read when all of these were there, so  *)
(* it read the version there is.                                           *)
(***************************************************************************)
LEMMA QuietIsCurrent ==
  ASSUME StreamInv, PageInv, PagesInv
  PROVE  QuietPageIsCurrent
<1>1. SUFFICES ASSUME NEW t \in Tabs, Quiet(t), orderly[t], ~overtaking, visits[t] = 1
               PROVE  Current(t)
  BY DEF QuietPageIsCurrent
<1> DEFINE s == route[t]
           g == log[s]
<1>2. /\ \A p \in Producers : tx[p].at = "idle"
      /\ conn[t].at = "live" /\ wire[t] = <<>> /\ fetches[t] = {}
      /\ open[t] # None /\ Unhandled(t, handled[t], open[t]) = {}
  BY <1>1 DEF Quiet
<1>3. Fresh(g, s, open[t], handled[t], started[t], fetches[t], shown[t], orderly[t])
  BY <1>1 DEF PagesInv, PageFresh
<1>4. s \in Sessions /\ shown[t] \in Shows
  BY PageIs DEF PagesInv
<1>5. open[t] = s /\ handled[t] \in Nat
  BY <1>2, <1>3 DEF Fresh
<1>6. /\ shown[t].of = s
      /\ ReadFrom(g, handled[t], shown[t].session)
      /\ ReadFrom(g, handled[t], shown[t].messages)
  BY <1>1, <1>2, <1>3 DEF Fresh, NewestKept
<1>7. seen[t] = 1..Len(g)
  <2>1. SettledStreamIsComplete
    BY ReadingSound
  <2>2. seen[t] = Sequences(s)
    BY <1>1, <1>2, <1>5, <2>1 DEF SettledStreamIsComplete
  <2> QED BY <1>4, <2>2, SequencesAre DEF StreamInv
<1>8. Dense(g) /\ g \in Seq(Event) /\ Len(g) \in Nat /\ DOMAIN g = 1..Len(g)
  BY <1>4, LogIsDense DEF StreamInv, Dense
<1>9. ASSUME NEW i \in 1..Len(g), g[i].type = "lifecycle" PROVE i <= handled[t]
  <2>1. g[i] \in Event /\ g[i].sequence = i
    BY <1>8 DEF Dense
  <2>2. g[i] = [sequence |-> i, type |-> "lifecycle"]
    BY <2>1, <1>9 DEF Event
  <2>3. i \notin Unhandled(t, handled[t], s)
    BY <1>2, <1>5
  <2>4. i \in seen[t]
    BY <1>7
  <2>5. \E j \in DOMAIN log[s] : log[s][j] = [sequence |-> i, type |-> "lifecycle"]
    BY <1>8, <2>2
  <2>6. ~(i > handled[t])
    BY <2>3, <2>4, <2>5 DEF Unhandled
  <2> QED BY <1>5, <2>6
<1>10. Version(s) = Upto(g, Len(g))
  BY <1>4, VersionIs
<1> HIDE DEF g, s
<1>11. ASSUME NEW v, ReadFrom(g, handled[t], v) PROVE v = Upto(g, Len(g))
  <2>1. PICK k \in handled[t]..Len(g) : v = Upto(g, k)
    BY <1>11 DEF ReadFrom
  <2>2. {i \in 1..k : g[i].type = "lifecycle"} = {i \in 1..Len(g) : g[i].type = "lifecycle"}
    <3>1. \A i \in 1..k : i \in 1..Len(g)
      BY <1>5, <1>8, <2>1
    <3>2. \A i \in 1..Len(g) : g[i].type = "lifecycle" => i \in 1..k
      BY <1>5, <1>8, <1>9, <2>1
    <3> QED BY <3>1, <3>2
  <2> QED BY <2>1, <2>2 DEF Upto
<1>12. shown[t].session = Version(s) /\ shown[t].messages = Version(s)
  BY <1>6, <1>10, <1>11
<1>13. shown[t] = [of |-> s, session |-> Version(s), messages |-> Version(s)]
  BY <1>4, <1>6, <1>12 DEF Shows
<1> QED BY <1>13 DEF Current, s

(* Whether publications may overtake each other does not change.            *)
LEMMA OvertakingKept ==
  ASSUME Advances
  PROVE  overtaking' = overtaking
BY DEF Advances, Feed!Next, Feed!Grow, Feed!Turn, Feed!Read, Feed!vars

(* The invariant of the pages, on top of that of the streams.               *)
LEMMA PagesInvariant ==
  Spec => [](StreamInv /\ PageInv /\ PagesInv /\ overtaking \in BOOLEAN)
<1> DEFINE Inv == StreamInv /\ PageInv /\ PagesInv /\ overtaking \in BOOLEAN
<1>1. Init => Inv
  BY InitHolds, InitPages DEF Init, StreamInit
<1>2. Inv /\ [Next]_vars => Inv'
  BY NextAdvances, NextKeepsPages, OvertakingKept DEF Advances
<1> QED BY <1>1, <1>2, PTL DEF Spec

(* Rows, connections, EventSource and page keep values of their types: what *)
(* a client buffers is gone when it is closed or live, requests are         *)
(* numbered up to those started, and versions are counts.                   *)
THEOREM TypeCorrect == Spec => []TypeOK
<1>1. StreamInv /\ PageInv /\ PagesInv /\ overtaking \in BOOLEAN => TypeOK
  BY PagesTyped
<1> QED BY <1>1, PagesInvariant, PTL

(* ChatWorkspacePage at rest shows the session of its URL as it is in the   *)
(* database, if publications and answers came in order and the tab has      *)
(* shown no other session before: refresh() is called for every change, and *)
(* what it reads is not older than the events it was called for.            *)
THEOREM QuietIsUpToDate == Spec => []QuietPageIsCurrent
<1>1. StreamInv /\ PageInv /\ PagesInv => QuietPageIsCurrent
  BY QuietIsCurrent
<1> QED BY <1>1, PagesInvariant, PTL
=============================================================================
