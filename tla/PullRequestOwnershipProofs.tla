-------------------- MODULE PullRequestOwnershipProofs --------------------
(***************************************************************************)
(* What a publication owns: NoPullRequestLost, CreatingIsUnderWay and      *)
(* WorkspaceRestored of PullRequestPublication, for any readers, turns,    *)
(* edits, calls and mishaps.                                               *)
(*                                                                         *)
(* NoPullRequestLost must hold even while publications overlap.  The       *)
(* argument is ownership: the row a first publication has inserted belongs *)
(* to it alone and has no number until it has ended, so none takes away    *)
(* the number another has written.  The other two are about a history in   *)
(* which no turn was aborted: one is under way, and each of its labels     *)
(* says what it owes to the row and to the workspace, which it pays even   *)
(* when its next command, call of GitHub or record fails, but for the few  *)
(* failures that each of them names.                                       *)
(***************************************************************************)
EXTENDS PullRequestPublicationProofs

Owned ==
  /\ \A t \in Turns : Sound(pub[t])
  /\ \A t \in Turns : OnFirst(pub[t]) =>
       pub[t].row \in DOMAIN rows /\ rows[pub[t].row].number = 0
  /\ \A s, t \in Turns :
       s # t /\ OnFirst(pub[s]) /\ OnFirst(pub[t]) => pub[s].row # pub[t].row
  /\ \A r \in Readers : reader[r].at # "idle" =>
       rows[reader[r].row].number = reader[r].seen.number

(* A step that takes no number from a row. *)
NumbersKept ==
  \A i \in DOMAIN rows : rows[i].number # 0 =>
    i \in DOMAIN rows' /\ rows'[i].number = rows[i].number

-----------------------------------------------------------------------------
(* Steps of a turn. *)

(* A step of a turn that takes no row: the rows keep their numbers, and it *)
(* is on the path of a first publication only if it was, with its row.     *)
LEMMA KeepsOwned ==
  ASSUME Typed, Owned, NEW t \in Turns, Moves(t), SameRows, UNCHANGED reader,
         Sound(pub'[t]),
         OnFirst(pub'[t]) => OnFirst(pub[t]) /\ pub'[t].row = pub[t].row
  PROVE  Owned' /\ NumbersKept
<1>1. \A s \in Turns :
        /\ Sound(pub'[s])
        /\ OnFirst(pub'[s]) => OnFirst(pub[s]) /\ pub'[s].row = pub[s].row
  BY DEF Owned, Moves
<1>2. NumbersKept
  BY DEF NumbersKept, SameRows
<1>3. \A s \in Turns : OnFirst(pub'[s]) =>
        pub'[s].row \in DOMAIN rows' /\ rows'[pub'[s].row].number = 0
  BY <1>1 DEF Owned, SameRows
<1>4. \A s, u \in Turns :
        s # u /\ OnFirst(pub'[s]) /\ OnFirst(pub'[u]) => pub'[s].row # pub'[u].row
  BY <1>1 DEF Owned
<1>5. ASSUME NEW r \in Readers, reader'[r].at # "idle"
      PROVE  rows'[reader'[r].row].number = reader'[r].seen.number
  BY <1>5 DEF Owned, SameRows, Typed, ReadersTyped
<1> QED BY <1>1, <1>2, <1>3, <1>4, <1>5 DEF Owned

(* The steps of a turn that neither choose nor write the row of a first    *)
(* publication.                                                            *)
LEMMA QuietOwned ==
  ASSUME Typed, Owned, NEW t \in Turns,
         \/ Tool(t) \/ Fail(t) \/ RecordThrows(t) \/ Agent(t) \/ Abort(t) \/ BeginTurn(t),
         ~FindCurrent(t), ~Demote(t), ~Insert(t), ~Persist(t), ~PersistFailure(t)
  PROVE  Owned' /\ NumbersKept
<1>1. KeepsPath(t) /\ UNCHANGED reader
      /\ (SameRows \/ UNCHANGED rows)
  BY CommandsKeepPath, AppendPushedKeepsPath, OpenKeepsPath, TargetKeepsPath,
     CallKeepsPath, SavesKeepPath, RecordThrowsKeepsPath, CallToolKeepsPath, RestsKeepPath
     DEF Tool, Command, Record, OnGitHub, Agent
<1>2. SameRows
  BY <1>1 DEF SameRows
<1>3. Moves(t)
  BY ToolEffect, AbortStep, BeginTurnStep DEF Effect
<1>4. /\ Sound(pub'[t])
      /\ OnFirst(pub'[t]) => OnFirst(pub[t]) /\ pub'[t].row = pub[t].row
  BY <1>1 DEF KeepsPath, Owned
<1> QED BY <1>1, <1>2, <1>3, <1>4, KeepsOwned

(* Choosing between a first publication and a later one takes no row yet. *)
LEMMA FindCurrentOwned ==
  ASSUME Typed, Owned, NEW t \in Turns, FindCurrent(t)
  PROVE  Owned' /\ NumbersKept
<1> DEFINE i == Latest(CurrentRows)
           found == CurrentRows # {} /\ rows[i].number # 0
           p == [pub[t] EXCEPT !.row = IF found THEN i ELSE 0, !.existing = found,
                               !.number = IF found THEN rows[i].number ELSE 0]
           next == IF found THEN "fetch" ELSE "demote"
           q == [p EXCEPT !.at = next]
<1>1. /\ pub[t] \in TurnRecords /\ pub[t].at = "find" /\ Goto(t, p, next)
      /\ UNCHANGED <<rows, reader>>
  BY RecordTyped DEF FindCurrent
<1>2. Moves(t) /\ SameRows
  BY <1>1, FindCurrentStep DEF Effect, SameRows
<1>3. /\ next \notin Resets /\ next \in {"fetch", "demote"}
      /\ next = "fetch" <=> found
  BY DEF Resets
<1>4. q.at = next /\ q.then = pub[t].then /\ q.existing = found
  BY <1>1 DEF TurnRecords
<1> HIDE DEF found, i, next, p
<1>5. pub'[t] \in {Resting("ended"), Resting("working")} \/ pub'[t] = q
  BY <1>1, <1>3, GotoThere
<1> HIDE DEF q
<1>6. Sound(q) /\ ~OnFirst(q)
  BY <1>3, <1>4 DEF Owned, Sound, OnFirst, Resets
<1>7. Sound(pub'[t]) /\ ~OnFirst(pub'[t])
  BY <1>5, <1>6, RestingSound
<1> QED BY <1>1, <1>2, <1>7, KeepsOwned

(* Nor does the update that demotes. *)
LEMMA DemoteOwned ==
  ASSUME Typed, Owned, NEW t \in Turns, Demote(t)
  PROVE  Owned' /\ NumbersKept
<1> DEFINE p == [pub[t] EXCEPT !.demotes = CurrentRows]
           q == [p EXCEPT !.at = "insert"]
<1>1. /\ pub[t] \in TurnRecords /\ pub[t].at = "demote" /\ Goto(t, p, "insert")
      /\ UNCHANGED <<rows, reader>>
  BY RecordTyped DEF Demote
<1>2. Moves(t) /\ SameRows
  BY <1>1, DemoteStep DEF Effect, SameRows
<1>3. q.at = "insert" /\ q.then = pub[t].then
  BY <1>1 DEF TurnRecords
<1> HIDE DEF p
<1>4. pub'[t] \in {Resting("ended"), Resting("working")} \/ pub'[t] = q
  BY <1>1, GotoThere DEF Resets
<1> HIDE DEF q
<1>5. Sound(q) /\ ~OnFirst(q)
  BY <1>1, <1>3 DEF Owned, Sound, OnFirst, Resets
<1>6. Sound(pub'[t]) /\ ~OnFirst(pub'[t])
  BY <1>4, <1>5, RestingSound
<1> QED BY <1>1, <1>2, <1>6, KeepsOwned

(* The row that is inserted is nobody else's. *)
LEMMA InsertOwned ==
  ASSUME Typed, Owned, NEW t \in Turns, Insert(t)
  PROVE  Owned' /\ NumbersKept
<1> DEFINE n == Len(rows)
           kept == [i \in DOMAIN rows |->
                      IF i \in pub[t].demotes THEN [rows[i] EXCEPT !.current = FALSE]
                      ELSE rows[i]]
           p == [pub[t] EXCEPT !.row = n + 1, !.demotes = {}]
           q == [p EXCEPT !.at = "add"]
<1>1. /\ pub[t] \in TurnRecords /\ pub[t].at = "insert" /\ Goto(t, p, "add")
      /\ rows' = Append(kept, NoRow) /\ UNCHANGED reader
  BY RecordTyped DEF Insert
<1>2. Moves(t)
  BY InsertStep
<1>3. n \in Nat /\ rows \in [1..n -> Row] /\ DOMAIN rows = 1..n
  BY DEF Typed, RowsTyped
<1>4. \A i \in 1..n : kept[i] \in Row /\ kept[i].number = rows[i].number
  BY <1>3 DEF Row
<1>5. kept \in Seq(Row) /\ Len(kept) = n
  <2>1. kept \in [1..n -> Row]
    BY <1>3, <1>4
  <2> HIDE DEF kept
  <2> QED BY <1>3, <2>1
<1> HIDE DEF kept, n
<1>6. /\ DOMAIN rows' = 1..(n + 1) /\ rows'[n + 1] = NoRow
      /\ \A i \in 1..n : rows'[i] = kept[i]
  <2>1. NoRow \in Row
    BY DEF NoRow, Row
  <2> QED BY <1>1, <1>3, <1>5, <2>1
<1>7. \A i \in DOMAIN rows : /\ i \in DOMAIN rows' /\ i # n + 1
                             /\ rows'[i].number = rows[i].number
  BY <1>3, <1>4, <1>6
<1>8. n + 1 \in DOMAIN rows' /\ rows'[n + 1].number = 0
  BY <1>3, <1>6 DEF NoRow
<1>9. q.at = "add" /\ q.then = pub[t].then /\ q.row = n + 1
  BY <1>1 DEF TurnRecords
<1> HIDE DEF p
<1>10. pub'[t] \in {Resting("ended"), Resting("working")} \/ pub'[t] = q
  BY <1>1, GotoThere DEF Resets
<1> HIDE DEF q
<1>11. Sound(q)
  BY <1>1, <1>9 DEF Owned, Sound, Resets
<1>12. Sound(pub'[t]) /\ (OnFirst(pub'[t]) => pub'[t].row = n + 1)
  BY <1>9, <1>10, <1>11, RestingSound
<1>13. \A s \in Turns : s # t => pub'[s] = pub[s]
  BY <1>2 DEF Moves
<1>14. ASSUME NEW s \in Turns
       PROVE  /\ Sound(pub'[s])
              /\ OnFirst(pub'[s]) =>
                   pub'[s].row \in DOMAIN rows' /\ rows'[pub'[s].row].number = 0
  BY <1>7, <1>8, <1>12, <1>13 DEF Owned
<1>15. ASSUME NEW s \in Turns, NEW u \in Turns, s # u, OnFirst(pub'[s]), OnFirst(pub'[u])
       PROVE  pub'[s].row # pub'[u].row
  BY <1>7, <1>12, <1>13, <1>15 DEF Owned
<1>16. ASSUME NEW r \in Readers, reader'[r].at # "idle"
       PROVE  rows'[reader'[r].row].number = reader'[r].seen.number
  BY <1>1, <1>7, <1>16 DEF Owned, Typed, ReadersTyped
<1>17. NumbersKept
  BY <1>7 DEF NumbersKept
<1> QED BY <1>14, <1>15, <1>16, <1>17 DEF Owned

(* A first publication that ends writes its own row, which had no number. *)
LEMMA PersistOwned ==
  ASSUME Typed, Owned, NEW t \in Turns, Persist(t) \/ PersistFailure(t)
  PROVE  /\ Owned' /\ NumbersKept
         /\ Persist(t) => /\ pub[t].row \in DOMAIN rows'
                          /\ rows'[pub[t].row].number = pub[t].number
<1> DEFINE k == pub[t].row
<1>1. /\ pub[t].at \in {"persist", "fail"} /\ Goto(t, pub[t], "working")
      /\ UNCHANGED reader /\ pub[t] \in TurnRecords
  BY RecordTyped DEF Persist, PersistFailure
<1>2. Moves(t)
  BY PersistStep, PersistFailureStep DEF Effect
<1>3. Sound(pub[t])
  BY DEF Owned
<1>4. rows \in Seq(Row) /\ \A i \in DOMAIN rows : rows[i] \in Row
  BY DEF Typed, RowsTyped
<1>5. /\ DOMAIN rows' = DOMAIN rows
      /\ \A i \in DOMAIN rows : i # k => rows'[i] = rows[i]
  BY DEF Persist, PersistFailure
<1>6. Persist(t) => OnFirst(pub[t])
  BY <1>3 DEF Persist, Sound, OnFirst
<1>7. OnFirst(pub[t]) => k \in DOMAIN rows /\ rows[k].number = 0
  BY DEF Owned
<1>8. \/ OnFirst(pub[t])
      \/ k \in DOMAIN rows => rows'[k].number = rows[k].number
  <2>1. CASE PersistFailure(t) /\ pub[t].existing
    <3>1. rows' = [rows EXCEPT ![k] = [rows[k] EXCEPT !.failure = TRUE]]
      BY <2>1 DEF PersistFailure
    <3> QED BY <1>4, <3>1 DEF Row
  <2>2. CASE PersistFailure(t) /\ ~pub[t].existing
    BY <2>2 DEF PersistFailure, OnFirst
  <2> QED BY <1>6, <2>1, <2>2
<1>9. Persist(t) => k \in DOMAIN rows' /\ rows'[k].number = pub[t].number
  <2>1. SUFFICES ASSUME Persist(t) PROVE k \in DOMAIN rows' /\ rows'[k].number = pub[t].number
    OBVIOUS
  <2>2. k \in DOMAIN rows
    BY <1>6, <1>7, <2>1
  <2> QED BY <1>4, <1>5, <2>1, <2>2 DEF Persist, Row
<1>10. NumbersKept
  BY <1>5, <1>7, <1>8 DEF NumbersKept
<1>11. pub'[t] \in {Resting("ended"), Resting("working")} \/ pub'[t] = [pub[t] EXCEPT !.at = "working"]
  BY <1>1, GotoThere DEF Resets
<1>12. Sound(pub'[t]) /\ ~OnFirst(pub'[t])
  <2> DEFINE q == [pub[t] EXCEPT !.at = "working"]
  <2>1. q.at = "working" /\ q.then = pub[t].then
    BY <1>1 DEF TurnRecords
  <2> HIDE DEF q
  <2>2. Sound(q) /\ ~OnFirst(q)
    BY <1>3, <2>1 DEF Sound, OnFirst, Resets
  <2> QED BY <1>11, <2>2, RestingSound DEF q
<1>13. \A s \in Turns : s # t => pub'[s] = pub[s]
  BY <1>2 DEF Moves
<1>14. ASSUME NEW s \in Turns, OnFirst(pub'[s])
       PROVE  pub'[s].row \in DOMAIN rows' /\ rows'[pub'[s].row].number = 0
  <2>1. s # t /\ pub'[s] = pub[s] /\ OnFirst(pub[s])
    BY <1>12, <1>13, <1>14
  <2>2. pub[s].row \in DOMAIN rows /\ rows[pub[s].row].number = 0
    BY <2>1 DEF Owned
  <2>3. CASE OnFirst(pub[t])
    <3>1. pub[s].row # k
      BY <2>1, <2>3 DEF Owned
    <3> QED BY <1>5, <2>1, <2>2, <3>1
  <2>4. CASE ~OnFirst(pub[t])
    BY <1>5, <1>8, <2>1, <2>2, <2>4
  <2> QED BY <2>3, <2>4
<1>15. ASSUME NEW s \in Turns, NEW u \in Turns, s # u, OnFirst(pub'[s]), OnFirst(pub'[u])
       PROVE  pub'[s].row # pub'[u].row
  <2>1. s # t /\ u # t
    BY <1>12, <1>15
  <2> QED BY <1>13, <1>15, <2>1 DEF Owned
<1>16. ASSUME NEW r \in Readers, reader'[r].at # "idle"
       PROVE  rows'[reader'[r].row].number = reader'[r].seen.number
  <2>1. /\ reader[r].row \in DOMAIN rows /\ reader[r].seen.number \in DOMAIN prs
        /\ rows[reader[r].row].number = reader[r].seen.number
    BY <1>1, <1>16 DEF Typed, ReadersTyped, Owned
  <2>2. reader[r].seen.number # 0
    BY <2>1 DEF Typed, RowsTyped
  <2> QED BY <1>1, <1>10, <2>1, <2>2 DEF NumbersKept
<1>17. \A s \in Turns : Sound(pub'[s])
  BY <1>12, <1>13 DEF Owned
<1> HIDE DEF k
<1> QED BY <1>9, <1>10, <1>14, <1>15, <1>16, <1>17 DEF Owned, k

-----------------------------------------------------------------------------
(* The other steps. *)

(* A reader writes the number that the row has already. *)
LEMMA ReaderOwned ==
  ASSUME Typed, Owned, NEW r \in Readers, Refresh(r) \/ GiveUp(r)
  PROVE  Owned' /\ NumbersKept
<1>1. UNCHANGED pub
  BY ReaderSteps
<1>2. reader \in [Readers -> ReaderRecords] /\ Reading.at = "idle"
  BY DEF Typed, ReadersTyped, Reading
<1>3. /\ DOMAIN rows' = DOMAIN rows
      /\ \A i \in DOMAIN rows : rows'[i].number = rows[i].number
  <2>1. CASE UNCHANGED rows
    BY <2>1
  <2>2. CASE Write(r)
    <3> DEFINE i == reader[r].row
               new == [rows[i] EXCEPT !.number = reader[r].seen.number,
                                      !.status = reader[r].state, !.failure = FALSE]
    <3>1. reader[r].at = "write" /\ rows' = [rows EXCEPT ![i] = new]
      BY <2>2 DEF Write
    <3>2. i \in DOMAIN rows /\ rows[i] \in Row
      BY <3>1 DEF Typed, ReadersTyped, RowsTyped
    <3>3. rows[i].number = reader[r].seen.number
      BY <3>1 DEF Owned
    <3>4. new.number = rows[i].number
      BY <3>2, <3>3 DEF Row
    <3> HIDE DEF new
    <3> QED BY <3>1, <3>4
  <2> QED BY <2>1, <2>2 DEF Refresh, ReadRow, Ask, GiveUp
<1>4. ASSUME NEW s \in Readers, reader'[s].at # "idle"
      PROVE  rows'[reader'[s].row].number = reader'[s].seen.number
  <2>1. CASE reader'[s].row = reader[s].row /\ reader'[s].seen = reader[s].seen
             /\ reader[s].at # "idle"
    BY <1>3, <2>1 DEF Owned, Typed, ReadersTyped
  <2>2. CASE s # r
    <3>1. reader'[s] = reader[s]
      BY <1>2, <2>2 DEF Refresh, ReadRow, Ask, Write, GiveUp
    <3> QED BY <1>4, <2>1, <3>1
  <2>3. CASE ReadRow(r) /\ s = r
    <3>1. PICK i : reader' = [reader EXCEPT ![r] =
                      [Reading EXCEPT !.at = "ask", !.row = i, !.seen = rows[i]]]
      BY <2>3 DEF ReadRow
    <3>2. reader'[s].row = i /\ reader'[s].seen = rows[i] /\ UNCHANGED rows
      BY <1>2, <2>3, <3>1 DEF Reading, ReadRow
    <3> QED BY <3>2
  <2>4. CASE Ask(r) /\ s = r
    <3>1. reader[s] \in ReaderRecords
      BY <1>2
    <3>2. PICK state : reader'[s] \in {Reading, [reader[s] EXCEPT !.at = "write", !.state = state]}
      BY <1>2, <2>4 DEF Ask
    <3>3. reader'[s] = [reader[s] EXCEPT !.at = "write", !.state = state]
      BY <1>2, <1>4, <3>2
    <3>4. reader'[s].row = reader[s].row /\ reader'[s].seen = reader[s].seen
      BY <3>1, <3>3 DEF ReaderRecords
    <3> QED BY <2>1, <2>4, <3>4 DEF Ask
  <2>5. CASE (Write(r) \/ GiveUp(r)) /\ s = r
    <3>1. reader'[s] = Reading
      BY <1>2, <2>5 DEF Write, GiveUp
    <3> QED BY <1>2, <1>4, <3>1
  <2> QED BY <2>2, <2>3, <2>4, <2>5 DEF Refresh
<1>5. NumbersKept
  BY <1>3 DEF NumbersKept
<1> QED BY <1>1, <1>3, <1>4, <1>5 DEF Owned

(* A crash ends the publications and leaves their rows to nobody. *)
LEMMA CrashOwned ==
  ASSUME Typed, Owned, Crash
  PROVE  Owned' /\ NumbersKept
<1>1. /\ UNCHANGED rows /\ reader' = [r \in Readers |-> Reading]
      /\ pub' = [t \in Turns |-> IF pub[t].at = "waiting" THEN pub[t] ELSE Resting("ended")]
  BY DEF Crash
<1>2. \A t \in Turns : Sound(pub'[t]) /\ (OnFirst(pub'[t]) => pub'[t] = pub[t])
  BY <1>1, RestingSound DEF Owned
<1>3. \A r \in Readers : reader'[r].at = "idle"
  BY <1>1 DEF Reading
<1> QED BY <1>1, <1>2, <1>3 DEF Owned, NumbersKept

(* Whoever takes a step, no row loses the number it has. *)
LEMMA NextOwned ==
  ASSUME Typed, Owned, [Next]_vars
  PROVE  Owned' /\ NumbersKept
<1>1. ASSUME NEW t \in Turns,
             BeginTurn(t) \/ Agent(t) \/ Tool(t) \/ Fail(t) \/ RecordThrows(t) \/ Abort(t)
      PROVE  Owned' /\ NumbersKept
  BY <1>1, QuietOwned, FindCurrentOwned, DemoteOwned, InsertOwned, PersistOwned
<1>2. CASE \E n \in DOMAIN prs : Merge(n)
  BY <1>2 DEF Merge, Owned, NumbersKept
<1>3. CASE UNCHANGED vars
  BY <1>3 DEF vars, Owned, NumbersKept
<1> QED BY <1>1, <1>2, <1>3, ReaderOwned, CrashOwned DEF Next

-----------------------------------------------------------------------------
(***************************************************************************)
(* What has been opened is on a row, or its publication is on the way to   *)
(* write it there, and nothing but a crash or the failure of that very     *)
(* record keeps it from that.                                              *)
(***************************************************************************)
Reporting(p, n) == p.number = n /\ p.then = "persist" /\ p.at \in {"undo", "persist"}

(* Going on to undo, or past it, with or without an abort. *)
LEMMA GotoReports ==
  ASSUME Typed, NEW t \in Turns, NEW p \in TurnRecords', NEW n, Goto(t, p, "undo") \/ Goto(t, p, "persist"),
         p.number = n, p.then = "persist"
  PROVE  Reporting(pub'[t], n)
<1> DEFINE q(to) == [p EXCEPT !.at = to]
<1>1. Resting("x").at = "x"
  BY DEF Resting
<1>2. pub \in [Turns -> TurnRecords]
  BY DEF Typed, TurnsTyped
<1>3. pub' = [pub EXCEPT ![t] = q("undo")] \/ pub' = [pub EXCEPT ![t] = q("persist")]
  BY DEF Goto, GitSteps, Resets
<1>4. \A to : q(to).at = to /\ q(to).number = n /\ q(to).then = "persist"
  BY DEF TurnRecords
<1> HIDE DEF q
<1>5. pub'[t] = q("undo") \/ pub'[t] = q("persist")
  BY <1>2, <1>3
<1> QED BY <1>4, <1>5 DEF Reporting

(* A turn that is to write the number of a pull request does so. *)
LEMMA ReportingLasts ==
  ASSUME Typed, NEW t \in Turns, NEW n, Reporting(pub[t], n), "persist" \notin history',
         BeginTurn(t) \/ Agent(t) \/ Tool(t) \/ Fail(t) \/ RecordThrows(t) \/ Abort(t),
         ~Persist(t)
  PROVE  Reporting(pub'[t], n)
<1>1. /\ pub[t] \in TurnRecords /\ pub \in [Turns -> TurnRecords]
      /\ pub[t].number = n /\ pub[t].then = "persist" /\ pub[t].at \in {"undo", "persist"}
  BY RecordTyped DEF Typed, TurnsTyped, Reporting
<1>2. CASE Abort(t)
  <2>1. pub'[t] = pub[t]
    BY <1>1, <1>2 DEF Abort
  <2> QED BY <2>1
<1>3. CASE ~Abort(t)
  <2>1. Succeed(t) \/ Refuse(t) \/ Throw(t) \/ Fail(t)
    BY <1>1, <1>3 DEF BeginTurn, Agent, Edit, Leave, EndTurn, CallTool, Tool, Command,
       Record, OnGitHub, FindCurrent, Demote, Insert, AppendPushed, PersistFailure,
       Save, SaveFailure, Open, Target, Call, RecordThrows, RecordSteps, Mishap
  <2>2. pub[t].at = "undo"
    BY <1>1, <2>1 DEF Succeed, Refuse, Throw, Fail, GitSteps, Resets
  <2>3. /\ OnSuccess(pub[t]) = "persist" /\ OnFailure(pub[t]) = "persist"
        /\ Failing(pub[t]) = pub[t]
    BY <1>1, <2>2 DEF OnSuccess, OnFailure, Failing, Resets
  <2>4. Goto(t, pub[t], "undo") \/ Goto(t, pub[t], "persist")
    BY <2>1, <2>2, <2>3 DEF Succeed, Refuse, Throw, Fail
  <2>5. TurnRecords' = TurnRecords
    BY <2>1 DEF Succeed, Refuse, Throw, Fail, TurnRecords
  <2> QED BY <1>1, <2>4, <2>5, GotoReports
<1> QED BY <1>2, <1>3

(* Which pull requests there are, and who has opened the new one. *)
LEMMA Opened ==
  ASSUME Typed, [Next]_vars, "unheard" \notin history', NEW n \in DOMAIN prs', n \notin DOMAIN prs
  PROVE  \E t \in Turns : Reporting(pub'[t], n)
<1>1. prs \in Seq(States)
  BY DEF Typed, RowsTyped
<1>2. PICK t \in Turns : Open(t)
  BY DEF Next, vars, BeginTurn, Agent, Edit, Leave, EndTurn, CallTool, Tool, Command,
     Record, OnGitHub, FindCurrent, Demote, Insert, AppendPushed, Persist, PersistFailure,
     Save, SaveFailure, Target, Call, Succeed, Refuse, Throw, Fail, RecordThrows, Abort,
     Refresh, ReadRow, Ask, Write, GiveUp, Crash, Merge
<1>3. prs' = Append(prs, "open") /\ n = Len(prs) + 1
  BY <1>1, <1>2 DEF Open
<1> DEFINE p == [pub[t] EXCEPT !.then = "persist", !.number = n]
<1>4. Goto(t, p, "undo") /\ UNCHANGED rows
  BY <1>2, <1>3 DEF Open, Mishap
<1>5. /\ pub[t] \in TurnRecords /\ rows \in Seq(Row) /\ rows' = rows
      /\ "persist" \in Labels
  BY <1>4, RecordTyped DEF Typed, RowsTyped, Labels, RecordSteps
<1>6. Len(prs') = Len(prs) + 1 /\ Len(prs) \in Nat
  BY <1>1, <1>3
<1>7. n \in 0..Len(prs') /\ 0..Len(prs) \subseteq 0..Len(prs')
  BY <1>3, <1>6
<1>8. p \in TurnRecords' /\ p.number = n /\ p.then = "persist"
  BY <1>5, <1>7 DEF TurnRecords
<1> HIDE DEF p
<1> QED BY <1>4, <1>8, GotoReports

(* What is on a row or on the way there stays so. *)
LEMMA LostStep ==
  ASSUME Typed, Owned, NoPullRequestLost, [Next]_vars, history \subseteq history'
  PROVE  NoPullRequestLost'
<1> SUFFICES ASSUME history' \cap {"crash", "unheard", "persist"} = {}, NEW n \in DOMAIN prs'
             PROVE  \/ \E i \in DOMAIN rows' : rows'[i].number = n
                    \/ \E t \in Turns : Reporting(pub'[t], n)
  BY DEF NoPullRequestLost, Without, Reporting
<1>1. CASE n \notin DOMAIN prs
  BY <1>1, Opened
<1>2. CASE n \in DOMAIN prs
  <2>1. \/ \E i \in DOMAIN rows : rows[i].number = n
        \/ \E t \in Turns : Reporting(pub[t], n)
    BY <1>2 DEF NoPullRequestLost, Without, Reporting
  <2>2. n # 0
    BY <1>2 DEF Typed, RowsTyped
  <2>3. ASSUME NEW i \in DOMAIN rows, rows[i].number = n
        PROVE  i \in DOMAIN rows' /\ rows'[i].number = n
    BY <2>2, <2>3, NextOwned DEF NumbersKept
  <2>4. ASSUME NEW t \in Turns, Reporting(pub[t], n)
        PROVE  \/ \E i \in DOMAIN rows' : rows'[i].number = n
               \/ Reporting(pub'[t], n)
    <3>1. ASSUME NEW s \in Turns, s # t,
                 BeginTurn(s) \/ Agent(s) \/ Tool(s) \/ Fail(s) \/ RecordThrows(s) \/ Abort(s)
          PROVE  Reporting(pub'[t], n)
      <4>1. Moves(s)
        BY <3>1, ToolEffect, InsertStep, AbortStep, BeginTurnStep DEF Effect
      <4> QED BY <2>4, <3>1, <4>1 DEF Moves
    <3>2. CASE Persist(t)
      <4>1. pub[t].number = n
        BY <2>4 DEF Reporting
      <4>2. pub[t].row \in DOMAIN rows' /\ rows'[pub[t].row].number = pub[t].number
        BY <3>2, PersistOwned
      <4> QED BY <4>1, <4>2
    <3>3. CASE BeginTurn(t) \/ Agent(t) \/ Tool(t) \/ Fail(t) \/ RecordThrows(t) \/ Abort(t)
      BY <2>4, <3>2, <3>3, ReportingLasts
    <3>4. CASE \E r \in Readers : Refresh(r) \/ GiveUp(r)
      <4>1. UNCHANGED pub
        BY <3>4, ReaderSteps
      <4> QED BY <2>4, <4>1
    <3>5. ~Crash
      BY DEF Crash, Mishap
    <3>6. CASE (\E m \in DOMAIN prs : Merge(m)) \/ UNCHANGED vars
      <4>1. UNCHANGED pub
        BY <3>6 DEF Merge, vars
      <4> QED BY <2>4, <4>1
    <3> QED BY <3>1, <3>3, <3>4, <3>5, <3>6 DEF Next
  <2> QED BY <2>1, <2>3, <2>4
<1> QED BY <1>1, <1>2

(***************************************************************************)
(* Every pull request there is on GitHub is on a row or about to be, even  *)
(* while publications overlap and whichever other record fails: only a     *)
(* crash, an answer of GitHub that is never heard, or a failure of the     *)
(* record that stores its number can lose one.  github.ts,                 *)
(* publishPullRequest and persistPullRequestUpdate.                        *)
(***************************************************************************)
THEOREM NoneIsLost == Spec => []NoPullRequestLost
<1>1. Init => Owned /\ NoPullRequestLost
  <2>1. SUFFICES ASSUME Init PROVE Owned /\ NoPullRequestLost
    OBVIOUS
  <2>2. /\ DOMAIN rows = {} /\ DOMAIN prs = {}
        /\ \A t \in Turns : pub[t] = Resting("waiting")
        /\ \A r \in Readers : reader[r].at = "idle"
    BY <2>1 DEF Init, Reading
  <2> QED BY <2>2, RestingSound DEF Owned, NoPullRequestLost
<1>2. Typed /\ Owned /\ NoPullRequestLost /\ [Next]_vars =>
        Owned' /\ NoPullRequestLost'
  <2>1. SUFFICES ASSUME Typed, Owned, NoPullRequestLost, [Next]_vars
                 PROVE  Owned' /\ NoPullRequestLost'
    OBVIOUS
  <2>2. history \subseteq history'
    BY <2>1, ToolEffect, InsertStep, BeginTurnStep, AbortStep, ReaderSteps, MergeStep,
       CrashStep DEF Next, Effect, vars
  <2> QED BY <2>1, <2>2, NextOwned, LostStep
<1> QED BY <1>1, <1>2, Invariant, PTL DEF Spec

-----------------------------------------------------------------------------
(***************************************************************************)
(* CreatingIsUnderWay.  Where no turn is aborted none overlaps another,    *)
(* and a publication that has inserted its row goes on until it has        *)
(* written a result there, if the records on its way are made.             *)
(***************************************************************************)
Undisturbed ==
  "abort" \notin history =>
    "overlap" \notin history /\ \A t \in Turns : ~aborted[t]

UnderWay(i) == \E t \in Turns : OnFirst(pub[t]) /\ pub[t].row = i

(* Nothing has kept a publication that inserted its row from its result.   *)
Unbroken == {"abort", "crash", "event", "persist", "fail"}
Recorded == Without(Unbroken)

CreatingKept == Recorded =>
  /\ \A t \in Turns : pub[t].at \in {"demote", "insert"} => ~pub[t].existing
  /\ \A i \in DOMAIN rows :
       rows[i].status = "creating" => rows[i].current /\ UnderWay(i)

(* What a step may do to the rows that are being created: make none, and   *)
(* demote none.                                                            *)
CreatesNone ==
  /\ DOMAIN rows' = DOMAIN rows
  /\ \A i \in DOMAIN rows :
       rows'[i].status = "creating" =>
         /\ rows[i].status = "creating"
         /\ rows[i].current => rows'[i].current

(* Only an abort sets a signal, and only an aborted turn is overlapped. *)
LEMMA UndisturbedStep ==
  ASSUME Typed, Undisturbed, [Next]_vars
  PROVE  Undisturbed' /\ history \subseteq history'
<1>1. history \subseteq history'
  BY ToolEffect, InsertStep, BeginTurnStep, AbortStep, ReaderSteps, MergeStep, CrashStep
     DEF Next, Effect, vars
<1>2. SUFFICES ASSUME "abort" \notin history'
               PROVE  "overlap" \notin history' /\ \A t \in Turns : ~aborted'[t]
  BY <1>1 DEF Undisturbed
<1>3. "overlap" \notin history /\ \A t \in Turns : ~aborted[t]
  BY <1>1, <1>2 DEF Undisturbed
<1>4. CASE \E t \in Turns : BeginTurn(t)
  <2>1. PICK t \in Turns : BeginTurn(t)
    BY <1>4
  <2>2. MaxTurns \in Nat
    BY BoundsAssumption
  <2>3. \A s \in 1..t-1 : s \in Turns /\ pub[s].at = "ended"
    BY <1>3, <2>1, <2>2 DEF BeginTurn, Over, Turns
  <2> QED BY <1>3, <2>1, <2>3 DEF BeginTurn
<1>5. ASSUME NEW t \in Turns, Agent(t) \/ Tool(t) \/ Fail(t) \/ RecordThrows(t)
      PROVE  UNCHANGED aborted /\ ("overlap" \in history' => "overlap" \in history)
  BY <1>5 DEF Agent, Edit, Leave, EndTurn, CallTool, Tool, Command,
     Record, OnGitHub, FindCurrent, Demote, Insert, AppendPushed, Persist, PersistFailure,
     Save, SaveFailure, Open, Target, Call, Succeed, Refuse, Throw, Fail, RecordThrows,
     RecordSteps, Mishap
<1>6. ASSUME NEW t \in Turns, Abort(t) PROVE FALSE
  BY <1>2, <1>6 DEF Abort, Mishap
<1>7. ASSUME \/ \E r \in Readers : Refresh(r) \/ GiveUp(r)
             \/ Crash
             \/ \E n \in DOMAIN prs : Merge(n)
             \/ UNCHANGED vars
      PROVE  UNCHANGED aborted /\ ("overlap" \in history' => "overlap" \in history)
  BY <1>7 DEF Refresh, ReadRow, Ask, Write, GiveUp, Crash, Merge, Mishap, vars
<1> QED BY <1>3, <1>4, <1>5, <1>6, <1>7 DEF Next

(* What has not happened after a step had not before it; without an abort, *)
(* the step starts from turns that nothing disturbs.                       *)
LEMMA WithoutStep ==
  ASSUME Undisturbed, history \subseteq history', NEW kinds, "abort" \in kinds,
         Without(kinds)'
  PROVE  /\ Without(kinds) /\ "overlap" \notin history
         /\ \A t \in Turns : ~aborted[t]
         /\ kinds \cap history' = {}
BY DEF Undisturbed, Without

(* Where a turn goes when its signal is not aborted. *)
LEMMA GotoUndisturbed ==
  ASSUME Typed, NEW t \in Turns, ~aborted[t], NEW p, NEW next, Goto(t, p, next)
  PROVE  pub'[t] = IF next = "working" THEN Resting("working") ELSE [p EXCEPT !.at = next]
BY DEF Goto, Typed, TurnsTyped

(* A first publication goes on with its row, unless it writes a result.    *)
LEMMA FirstGoesOn ==
  ASSUME Typed, NEW t \in Turns, ~aborted[t], OnFirst(pub[t]),
         Unbroken \cap history' = {},
         Tool(t) \/ Fail(t) \/ RecordThrows(t), ~Persist(t), ~PersistFailure(t)
  PROVE  OnFirst(pub'[t]) /\ pub'[t].row = pub[t].row
<1>1. pub[t] \in TurnRecords /\ ~pub[t].existing
  BY RecordTyped DEF OnFirst
<1>2. ASSUME NEW p, p \in {pub[t], [pub[t] EXCEPT !.then = "fail"]},
             NEW next, Goto(t, p, next),
             \/ next \in {"commit", "push", "event", "open", "fail", "persist"}
             \/ next \in Resets /\ p.then \in {"persist", "fail"}
      PROVE  OnFirst(pub'[t]) /\ pub'[t].row = pub[t].row
  <2> DEFINE q == [p EXCEPT !.at = next]
  <2>1. next # "working"
    BY <1>2 DEF Resets
  <2>2. pub'[t] = q
    BY <1>2, <2>1, GotoUndisturbed
  <2>3. q.at = next /\ q.then = p.then /\ q.existing = pub[t].existing /\ q.row = pub[t].row
    BY <1>1, <1>2 DEF TurnRecords
  <2> HIDE DEF q
  <2> QED BY <1>1, <1>2, <2>2, <2>3 DEF OnFirst
<1>3. CASE (Succeed(t) \/ Refuse(t) \/ Fail(t)) /\ pub[t].at \in Resets
  <2>1. pub[t].then \in {"persist", "fail"}
    BY <1>3 DEF OnFirst, Resets
  <2>2. Goto(t, pub[t], pub[t].then)
    BY <1>3 DEF Succeed, Refuse, Fail, OnSuccess, OnFailure, Failing
  <2> QED BY <1>2, <2>1, <2>2
<1>4. CASE Succeed(t) /\ pub[t].at \notin Resets
  <2>1. pub[t].at \in {"add", "commit", "push"}
    BY <1>4 DEF OnFirst, Succeed, GitSteps, Resets
  <2>2. OnSuccess(pub[t]) \in {"commit", "push", "event"}
    BY <2>1 DEF OnSuccess, After, Resets
  <2> QED BY <1>2, <1>4, <2>2 DEF Succeed
<1>5. CASE (Refuse(t) \/ Fail(t)) /\ pub[t].at \notin Resets
  <2>1. pub[t].at \in {"add", "commit", "push"}
    BY <1>5 DEF OnFirst, Refuse, Fail, GitSteps, Resets
  <2> DEFINE p == [pub[t] EXCEPT !.then = "fail"]
  <2>2. OnFailure(pub[t]) \in Resets /\ Failing(pub[t]) = p
    BY <2>1 DEF OnFailure, Recovery, Failing, Resets
  <2>3. p.then = "fail"
    BY <1>1 DEF TurnRecords
  <2>4. Goto(t, p, OnFailure(pub[t]))
    BY <1>5, <2>2 DEF Refuse, Fail
  <2> HIDE DEF p
  <2>5. p \in {pub[t], [pub[t] EXCEPT !.then = "fail"]}
    BY DEF p
  <2> QED BY <1>2, <2>2, <2>3, <2>4, <2>5
<1>6. CASE AppendPushed(t)
  <2>1. Goto(t, pub[t], "open")
    BY <1>1, <1>6 DEF AppendPushed
  <2> QED BY <1>2, <2>1
<1>7. CASE Open(t)
  <2>1. PICK then \in {"persist", "fail"}, n \in {Len(prs) + 1, 0} :
          Goto(t, [pub[t] EXCEPT !.then = then, !.number = n], "undo")
    BY <1>7 DEF Open
  <2> DEFINE p == [pub[t] EXCEPT !.then = then, !.number = n]
             q == [p EXCEPT !.at = "undo"]
  <2>2. pub'[t] = q
    BY <2>1, GotoUndisturbed
  <2>3. q.at = "undo" /\ q.then = then /\ q.existing = pub[t].existing /\ q.row = pub[t].row
    BY <1>1 DEF TurnRecords
  <2> HIDE DEF q
  <2> QED BY <1>1, <2>2, <2>3 DEF OnFirst, Resets
<1>8. ~RecordThrows(t)
  BY DEF OnFirst, RecordThrows, RecordSteps, Mishap, Unbroken, Resets
<1> QED BY <1>3, <1>4, <1>5, <1>6, <1>7, <1>8 DEF OnFirst, Tool, Command, Record, OnGitHub,
      Throw, FindCurrent, Demote, Insert, Save, SaveFailure, Target, Call, Resets

(* No step but an insertion makes a row that is being created: a result is *)
(* written as published, failed or what GitHub answered.                   *)
LEMMA OnlyInsertCreates ==
  ASSUME Typed, NEW r \in Readers \cup Turns,
         \/ r \in Readers /\ (Refresh(r) \/ GiveUp(r))
         \/ r \in Turns /\ (Save(r) \/ SaveFailure(r))
  PROVE  /\ DOMAIN rows' = DOMAIN rows
         /\ \A i \in DOMAIN rows :
              rows'[i].status = "creating" => rows[i].status = "creating"
<1>1. CASE UNCHANGED rows
  BY <1>1
<1>2. \A i \in DOMAIN rows : rows[i] \in Row
  BY DEF Typed, RowsTyped
<1>3. ASSUME NEW k, NEW new, rows' = [rows EXCEPT ![k] = new],
             k \in DOMAIN rows /\ new.status = "creating" => rows[k].status = "creating"
      PROVE  /\ DOMAIN rows' = DOMAIN rows
             /\ \A i \in DOMAIN rows :
                  rows'[i].status = "creating" => rows[i].status = "creating"
  BY <1>3
<1>4. CASE r \in Readers /\ Write(r)
  <2> DEFINE k == reader[r].row
             new == [rows[k] EXCEPT !.number = reader[r].seen.number,
                                    !.status = reader[r].state, !.failure = FALSE]
  <2>1. rows' = [rows EXCEPT ![k] = new]
    BY <1>4 DEF Write
  <2>2. reader[r].state \in States
    BY <1>4 DEF Typed, ReadersTyped, ReaderRecords
  <2>3. k \in DOMAIN rows => new.status # "creating"
    BY <1>2, <2>2 DEF Row, States
  <2> HIDE DEF k, new
  <2> QED BY <1>3, <2>1, <2>3
<1>5. CASE r \in Turns /\ Save(r)
  <2> DEFINE k == pub[r].row
             status == IF pub[r].action = "close" THEN "closed"
                       ELSE IF pub[r].action = "reopen" THEN "open"
                       ELSE IF pub[r].action = "comment" THEN rows[k].status
                       ELSE pub[r].state
             new == [rows[k] EXCEPT !.failure = FALSE, !.status = status]
  <2>1. rows' = [rows EXCEPT ![k] = new]
    BY <1>5 DEF Save
  <2>2. pub[r].state \in States
    BY <1>5, RecordTyped DEF TurnRecords
  <2>3. status = "creating" => rows[k].status = "creating"
    BY <2>2 DEF States
  <2> HIDE DEF status
  <2>4. k \in DOMAIN rows => new.status = status
    BY <1>2 DEF Row
  <2> HIDE DEF k, new
  <2> QED BY <1>3, <2>1, <2>3, <2>4 DEF k
<1>6. CASE r \in Turns /\ SaveFailure(r)
  <2> DEFINE k == pub[r].row
             new == [rows[k] EXCEPT !.failure = TRUE]
  <2>1. rows' = [rows EXCEPT ![k] = new]
    BY <1>6 DEF SaveFailure
  <2>2. k \in DOMAIN rows => new.status = rows[k].status
    BY <1>2 DEF Row
  <2> HIDE DEF k, new
  <2> QED BY <1>3, <2>1, <2>2
<1> QED BY <1>1, <1>4, <1>5, <1>6 DEF Refresh, ReadRow, Ask, GiveUp

(* Rows nobody creates anew, and publications that go on: CreatingKept.    *)
LEMMA CreatingGoesOn ==
  ASSUME CreatingKept, Recorded, CreatesNone,
         \A s \in Turns : pub'[s].at \in {"demote", "insert"} => ~pub'[s].existing,
         \A s \in Turns : OnFirst(pub[s]) => OnFirst(pub'[s]) /\ pub'[s].row = pub[s].row
  PROVE  CreatingKept'
<1>1. ASSUME NEW i \in DOMAIN rows', rows'[i].status = "creating"
      PROVE  rows'[i].current /\ \E s \in Turns : OnFirst(pub'[s]) /\ pub'[s].row = i
  <2>1. rows[i].current /\ UnderWay(i) /\ rows'[i].current
    BY <1>1 DEF CreatingKept, CreatesNone
  <2> QED BY <2>1 DEF UnderWay
<1> QED BY <1>1 DEF CreatingKept, UnderWay

(* The steps that neither choose nor write the row of a first publication. *)
LEMMA QuietCreates ==
  ASSUME Typed, Lasting, CreatingKept, Recorded, "overlap" \notin history, NEW t \in Turns,
         ~aborted[t], Unbroken \cap history' = {},
         \/ Tool(t) \/ Fail(t) \/ RecordThrows(t) \/ Agent(t) \/ Abort(t) \/ BeginTurn(t),
         ~FindCurrent(t), ~Demote(t), ~Insert(t), ~Persist(t), ~PersistFailure(t)
  PROVE  CreatingKept'
<1>1. SameRows
  BY QuietSteps
<1>2. KeepsPath(t) /\ (UNCHANGED rows \/ Save(t) \/ SaveFailure(t))
  BY CommandsKeepPath, AppendPushedKeepsPath, OpenKeepsPath, TargetKeepsPath,
     CallKeepsPath, SavesKeepPath, RecordThrowsKeepsPath, CallToolKeepsPath, RestsKeepPath
     DEF Tool, Command, Record, OnGitHub, Agent
<1>3. CreatesNone
  BY <1>1, <1>2, OnlyInsertCreates DEF CreatesNone, SameRows
<1>4. Moves(t)
  BY ToolEffect, AbortStep, BeginTurnStep DEF Effect
<1>5. ~Abort(t)
  BY DEF Abort, Mishap, Unbroken
<1>6. pub'[t].at \notin {"demote", "insert"}
  <2>1. SUFFICES ASSUME pub[t].at \in {"demote", "insert"}
                 PROVE  pub'[t].at \notin {"demote", "insert"}
    BY <1>2 DEF KeepsPath, Lasting
  <2>2. CASE RecordThrows(t)
    <3>1. Goto(t, pub[t], "working")
      BY <2>1, <2>2 DEF RecordThrows
    <3>2. pub'[t] = Resting("working")
      BY <3>1, GotoUndisturbed
    <3> QED BY <3>2 DEF Resting
  <2> QED BY <1>5, <2>1, <2>2 DEF Tool, Command, Record, OnGitHub, Agent, Edit, Leave, EndTurn,
        CallTool, BeginTurn, Succeed, Refuse, Fail, Throw, AppendPushed, Open, Target, Call,
        Save, SaveFailure, FindCurrent, Demote, Insert, Persist, PersistFailure,
        GitSteps, Resets
<1>7. OnFirst(pub[t]) => OnFirst(pub'[t]) /\ pub'[t].row = pub[t].row
  <2>1. SUFFICES ASSUME OnFirst(pub[t])
                 PROVE  OnFirst(pub'[t]) /\ pub'[t].row = pub[t].row
    OBVIOUS
  <2>2. ~Agent(t) /\ ~BeginTurn(t)
    BY <2>1 DEF Agent, Edit, Leave, EndTurn, CallTool, BeginTurn, OnFirst, Resets
  <2> QED BY <1>5, <2>1, <2>2, FirstGoesOn
<1> QED BY <1>3, <1>4, <1>6, <1>7, CreatingGoesOn DEF CreatingKept, Moves

(* A turn that is about to demote and insert has found no row to go on     *)
(* with.                                                                   *)
LEMMA ChoiceCreates ==
  ASSUME Typed, Lasting, CreatingKept, Recorded, NEW t \in Turns, ~aborted[t],
         FindCurrent(t) \/ Demote(t)
  PROVE  CreatingKept'
<1> DEFINE i == Latest(CurrentRows)
           found == CurrentRows # {} /\ rows[i].number # 0
           f == [pub[t] EXCEPT !.row = IF found THEN i ELSE 0, !.existing = found,
                               !.number = IF found THEN rows[i].number ELSE 0]
           d == [pub[t] EXCEPT !.demotes = CurrentRows]
<1>1. /\ pub[t] \in TurnRecords /\ pub[t].at \in {"find", "demote"} /\ UNCHANGED rows
      /\ Moves(t)
  BY RecordTyped, FindCurrentStep, DemoteStep DEF FindCurrent, Demote, Effect
<1>2. CASE FindCurrent(t)
  <2> DEFINE next == IF found THEN "fetch" ELSE "demote"
             q == [f EXCEPT !.at = next]
  <2>1. Goto(t, f, next) /\ next # "working" /\ (next # "fetch" => ~found)
    BY <1>2 DEF FindCurrent
  <2>2. q.at = next /\ q.existing = found
    BY <1>1 DEF TurnRecords
  <2>3. next \in {"fetch", "demote"}
    OBVIOUS
  <2> HIDE DEF f, found, next
  <2>4. pub'[t] = q
    BY <2>1, GotoUndisturbed
  <2> HIDE DEF q
  <2>5. pub'[t].at \in {"demote", "insert"} => ~pub'[t].existing
    BY <2>1, <2>2, <2>3, <2>4
  <2>6. ~OnFirst(pub[t])
    BY <1>2 DEF FindCurrent, OnFirst, Resets
  <2> QED BY <1>1, <2>5, <2>6, CreatingGoesOn DEF CreatingKept, Moves, CreatesNone
<1>3. CASE Demote(t)
  <2> DEFINE q == [d EXCEPT !.at = "insert"]
  <2>1. Goto(t, d, "insert")
    BY <1>3 DEF Demote
  <2>2. q.existing = pub[t].existing
    BY <1>1 DEF TurnRecords
  <2> HIDE DEF d
  <2>3. pub'[t] = q
    BY <2>1, GotoUndisturbed
  <2> HIDE DEF q
  <2>4. ~pub'[t].existing
    BY <1>3, <2>2, <2>3 DEF Demote, CreatingKept
  <2>5. ~OnFirst(pub[t])
    BY <1>3 DEF Demote, OnFirst, Resets
  <2> QED BY <1>1, <2>4, <2>5, CreatingGoesOn DEF CreatingKept, Moves, CreatesNone
<1> QED BY <1>2, <1>3

(* The insertion finds no row that is being created: no other turn is on   *)
(* its way to one, and this one has none yet.                              *)
LEMMA InsertCreates ==
  ASSUME Typed, Serial, Lasting, CreatingKept, Recorded, "overlap" \notin history,
         NEW t \in Turns, ~aborted[t], Insert(t)
  PROVE  CreatingKept'
<1> DEFINE n == Len(rows)
           kept == [i \in DOMAIN rows |->
                      IF i \in pub[t].demotes THEN [rows[i] EXCEPT !.current = FALSE]
                      ELSE rows[i]]
           p == [pub[t] EXCEPT !.row = n + 1, !.demotes = {}]
           q == [p EXCEPT !.at = "add"]
<1>1. /\ pub[t] \in TurnRecords /\ pub[t].at = "insert" /\ ~pub[t].existing
      /\ Goto(t, p, "add") /\ rows' = Append(kept, NoRow)
  BY RecordTyped DEF Insert, CreatingKept
<1>2. Moves(t)
  BY InsertStep
<1>3. n \in Nat /\ rows \in [1..n -> Row] /\ DOMAIN rows = 1..n
  BY DEF Typed, RowsTyped
<1>4. \A i \in 1..n : kept[i] \in Row /\ kept[i].status = rows[i].status
  BY <1>3 DEF Row
<1>5. kept \in Seq(Row) /\ Len(kept) = n
  <2>1. kept \in [1..n -> Row]
    BY <1>3, <1>4
  <2> HIDE DEF kept
  <2> QED BY <1>3, <2>1
<1> HIDE DEF kept, n
<1>6. /\ DOMAIN rows' = 1..(n + 1) /\ rows'[n + 1] = NoRow
      /\ \A i \in 1..n : rows'[i] = kept[i]
  <2>1. NoRow \in Row
    BY DEF NoRow, Row
  <2> QED BY <1>1, <1>3, <1>5, <2>1
<1>7. \A i \in 1..n : rows[i].status # "creating"
  <2>1. SUFFICES ASSUME NEW i \in 1..n, rows[i].status = "creating" PROVE FALSE
    OBVIOUS
  <2>2. PICK s \in Turns : OnFirst(pub[s])
    BY <1>3, <2>1 DEF CreatingKept, UnderWay
  <2>3. s # t
    BY <1>1, <2>2 DEF OnFirst, Resets
  <2> QED BY <1>1, <2>2, <2>3, Alone DEF Resters
<1>8. q.at = "add" /\ q.existing = pub[t].existing /\ q.row = n + 1
  BY <1>1 DEF TurnRecords
<1> HIDE DEF p
<1>9. pub'[t] = q
  BY <1>1, GotoUndisturbed
<1> HIDE DEF q
<1>10. OnFirst(pub'[t]) /\ pub'[t].row = n + 1
  BY <1>1, <1>8, <1>9 DEF OnFirst
<1>11. \A s \in Turns : pub'[s].at \in {"demote", "insert"} => ~pub'[s].existing
  BY <1>1, <1>2, <1>8, <1>9 DEF Moves, CreatingKept
<1>12. ASSUME NEW i \in DOMAIN rows', rows'[i].status = "creating"
       PROVE  rows'[i].current /\ \E s \in Turns : OnFirst(pub'[s]) /\ pub'[s].row = i
  <2>1. i = n + 1
    BY <1>3, <1>4, <1>6, <1>7, <1>12
  <2> QED BY <1>6, <1>10, <2>1 DEF NoRow
<1> QED BY <1>11, <1>12 DEF CreatingKept, UnderWay

(* A publication that ends writes a result on its row.                     *)
LEMMA ResultCreates ==
  ASSUME Typed, Lasting, CreatingKept, Recorded, "overlap" \notin history,
         NEW t \in Turns, ~aborted[t], Persist(t) \/ PersistFailure(t)
  PROVE  CreatingKept'
<1> DEFINE k == pub[t].row
<1>1. /\ pub[t] \in TurnRecords /\ pub[t].at \in {"persist", "fail"}
      /\ Goto(t, pub[t], "working")
  BY RecordTyped DEF Persist, PersistFailure
<1>2. Moves(t)
  BY PersistStep, PersistFailureStep DEF Effect
<1>3. \A i \in DOMAIN rows : rows[i] \in Row
  BY DEF Typed, RowsTyped
<1>4. /\ DOMAIN rows' = DOMAIN rows
      /\ \A i \in DOMAIN rows : i # k => rows'[i] = rows[i]
  BY DEF Persist, PersistFailure
<1>5. pub'[t] = Resting("working")
  BY <1>1, GotoUndisturbed
<1>6. \/ k \in DOMAIN rows => rows'[k].status # "creating"
      \/ /\ ~OnFirst(pub[t])
         /\ k \in DOMAIN rows => /\ rows'[k].status = rows[k].status
                                 /\ rows'[k].current = rows[k].current
  <2>1. CASE Persist(t)
    <3>1. k \in DOMAIN rows => rows'[k].status = "open"
      BY <1>3, <2>1 DEF Persist, Row
    <3> QED BY <3>1
  <2>2. CASE PersistFailure(t) /\ pub[t].existing
    <3>1. rows' = [rows EXCEPT ![k] = [rows[k] EXCEPT !.failure = TRUE]]
      BY <2>2 DEF PersistFailure
    <3> QED BY <1>3, <2>2, <3>1 DEF Row, OnFirst
  <2>3. CASE PersistFailure(t) /\ ~pub[t].existing
    <3>1. k \in DOMAIN rows => rows'[k] = Failed
      BY <2>3 DEF PersistFailure
    <3> QED BY <3>1 DEF Failed
  <2> QED BY <2>1, <2>2, <2>3
<1> HIDE DEF k
<1>7. ASSUME NEW i \in DOMAIN rows', rows'[i].status = "creating"
      PROVE  rows'[i].current /\ \E s \in Turns : OnFirst(pub'[s]) /\ pub'[s].row = i
  <2>1. /\ rows[i].status = "creating" /\ rows'[i].current = rows[i].current
        /\ i = k => ~OnFirst(pub[t])
    BY <1>4, <1>6, <1>7
  <2>2. rows[i].current /\ UnderWay(i)
    BY <1>4, <1>7, <2>1 DEF CreatingKept
  <2>3. PICK s \in Turns : OnFirst(pub[s]) /\ pub[s].row = i
    BY <2>2 DEF UnderWay
  <2>4. s # t
    BY <2>1, <2>3 DEF k
  <2> QED BY <1>2, <2>1, <2>2, <2>3, <2>4 DEF Moves
<1>8. \A s \in Turns : pub'[s].at \in {"demote", "insert"} => ~pub'[s].existing
  BY <1>2, <1>5 DEF Moves, CreatingKept, Resting
<1> QED BY <1>7, <1>8 DEF CreatingKept, UnderWay

(* Every step keeps CreatingKept. *)
LEMMA CreatingStep ==
  ASSUME Typed, Serial, Lasting, Undisturbed, CreatingKept, [Next]_vars
  PROVE  CreatingKept'
<1>1. SUFFICES ASSUME Recorded' PROVE CreatingKept'
  BY DEF CreatingKept
<1>2. /\ Recorded /\ "overlap" \notin history
      /\ \A t \in Turns : ~aborted[t]
      /\ Unbroken \cap history' = {}
  BY <1>1, UndisturbedStep, WithoutStep DEF Recorded, Unbroken
<1>3. "overlap" \notin history'
  BY <1>2, UndisturbedStep DEF Undisturbed, Unbroken
<1>4. ASSUME NEW t \in Turns,
             BeginTurn(t) \/ Agent(t) \/ Tool(t) \/ Fail(t) \/ RecordThrows(t) \/ Abort(t)
      PROVE  CreatingKept'
  BY <1>2, <1>4, QuietCreates, ChoiceCreates, InsertCreates, ResultCreates
<1>5. ASSUME NEW r \in Readers, Refresh(r) \/ GiveUp(r)
      PROVE  CreatingKept'
  <2>1. UNCHANGED pub /\ SameRows
    BY <1>3, <1>5, ReaderSteps, ReadersLast
  <2>2. CreatesNone
    BY <1>5, <2>1, OnlyInsertCreates DEF CreatesNone, SameRows
  <2> QED BY <1>2, <2>1, <2>2, CreatingGoesOn DEF CreatingKept
<1>6. ~Crash
  BY <1>2 DEF Crash, Mishap, Unbroken
<1>7. CASE (\E n \in DOMAIN prs : Merge(n)) \/ UNCHANGED vars
  <2>1. UNCHANGED <<rows, pub>>
    BY <1>7 DEF Merge, vars
  <2> QED BY <1>2, <2>1 DEF CreatingKept, UnderWay
<1> QED BY <1>4, <1>5, <1>6, <1>7 DEF Next

(***************************************************************************)
(* A row in creating is the current one and belongs to a publication that  *)
(* is under way, whichever commands and calls of GitHub fail, as long as   *)
(* nothing was aborted or has crashed and the records that follow the      *)
(* insertion are made: the event of the push, and the result.  github.ts,  *)
(* publishPullRequest.                                                     *)
(***************************************************************************)
THEOREM CreatingBelongs == Spec => []CreatingIsUnderWay
<1>1. Init => Typed /\ Serial /\ Lasting /\ Undisturbed /\ CreatingKept
  <2>1. Init => Undisturbed /\ CreatingKept
    BY RestingSound DEF Init, Undisturbed, CreatingKept, Resting
  <2> QED BY <2>1, InitTyped, InitSerial, InitLasts
<1>2. Typed /\ Serial /\ Lasting /\ Undisturbed /\ CreatingKept /\ [Next]_vars =>
        (Typed /\ Serial /\ Lasting /\ Undisturbed /\ CreatingKept)'
  BY NextKeeps, NextLasts, UndisturbedStep, CreatingStep
<1>3. CreatingKept => CreatingIsUnderWay
  BY DEF CreatingKept, CreatingIsUnderWay, UnderWay, Recorded, Unbroken
<1> QED BY <1>1, <1>2, <1>3, PTL DEF Spec

-----------------------------------------------------------------------------
(***************************************************************************)
(* WorkspaceRestored.  A publication has either not committed yet, then    *)
(* every commit there is was made before it, or it has made the last       *)
(* commit of the branch and is on its way to undo it.  The index differs   *)
(* from the branch only between git add and what follows it.               *)
(***************************************************************************)
Editing == {"target", "call", "save", "saveFailure"}
Staging == {"commit", "unstage"}
Ending == {"persist", "fail"}

Uncommitted(p) ==
  \/ p.at \in {"working", "branch", "checkout", "status", "find", "demote", "insert",
               "fetch", "align", "synced", "add", "commit", "unstage"}
  \/ p.at \in Editing /\ p.action # "publish"

Committed(p) ==
  \/ p.at \in {"push", "event", "open", "undo"}
  \/ p.at \in Editing /\ p.action = "publish"

OnItsBranch(p) ==
  \/ p.at \in {"status", "find", "demote", "insert", "fetch", "align", "synced", "add",
               "commit", "unstage"} \cup Ending
  \/ Committed(p)

UpTo(commits, n) == \A i \in DOMAIN commits : commits[i].id <= n

MadeBefore == UpTo(head, made) /\ UpTo(fetched, made) /\ UpTo(remote, made)

Placed(t) ==
  /\ OnItsBranch(pub[t]) => onBranch
  /\ Uncommitted(pub[t]) => pub[t].before = made
  /\ Committed(pub[t]) => head # <<>> /\ UpTo(Front(head), pub[t].before)
  /\ pub[t].at \in Ending => UpTo(head, pub[t].before)
  /\ pub[t].at \notin Editing => pub[t].action = "publish"

(* Nothing has kept a publication that threw or failed from its reset.     *)
Unstained == {"abort", "crash", "torn", "event"}
Cleaned == Without(Unstained)

WorkspaceKept == Cleaned =>
  /\ MadeBefore
  /\ (\A t \in Turns : pub[t].at \notin Staging) => index = Tip
  /\ \A t \in Turns : Placed(t)

(* What a step of turn t makes of the workspace, if the others rest.       *)
Settles(t) ==
  /\ MadeBefore'
  /\ pub'[t].at \notin Staging => index' = Tip'
  /\ Placed(t)'
  /\ pub'[t].at = "working" /\ pub[t].at # "waiting" => UpTo(head', pub[t].before)

(* A publication goes on from p to q without touching the repository.      *)
Goes(p, q) ==
  /\ q.before = p.before /\ q.at # "working"
  /\ p.at \in Staging => q.at \in Staging
  /\ OnItsBranch(q) => OnItsBranch(p) \/ onBranch
  /\ Uncommitted(q) => Uncommitted(p)
  /\ Committed(q) => Committed(p)
  /\ q.at \in Ending => Uncommitted(p) \/ p.at \in Ending
  /\ q.at \notin Editing => q.action = "publish"

(* A turn returns to the agent without touching the repository.            *)
ComesBack(p) == p.at \in Ending \/ (Uncommitted(p) /\ p.at \notin Staging)

(* A turn under way, while the others rest, in a workspace that is kept.   *)
Ready(t) ==
  /\ pub[t].at \notin Resters /\ ~aborted[t]
  /\ MadeBefore /\ Placed(t)
  /\ pub[t].at \notin Staging => index = Tip

(* Steps that touch neither the branch nor the index.                      *)
LEMMA StaysSettled ==
  ASSUME Typed, NEW t \in Turns, Ready(t),
         UNCHANGED <<index, head, fetched, onBranch, remote, made>>,
         \/ pub'[t] = Resting("working") /\ ComesBack(pub[t])
         \/ Goes(pub[t], pub'[t])
  PROVE  Settles(t)
<1>1. MadeBefore' /\ Tip' = Tip
  BY DEF Ready, MadeBefore, UpTo, Tip
<1>2. CASE pub'[t] = Resting("working") /\ ComesBack(pub[t])
  <2>1. index = Tip /\ UpTo(head, pub[t].before)
    BY <1>2 DEF Ready, ComesBack, Placed, MadeBefore, Ending, Staging
  <2>2. pub'[t].at = "working" /\ pub'[t].before = made
    BY <1>2 DEF Resting
  <2>3. Placed(t)'
    BY <1>2, <2>2 DEF Placed, OnItsBranch, Uncommitted, Committed, Ending, Editing, Resting
  <2> QED BY <1>1, <2>1, <2>3 DEF Settles
<1>3. CASE Goes(pub[t], pub'[t])
  <2>1. pub'[t].at \notin Staging => index' = Tip'
    BY <1>1, <1>3 DEF Ready, Goes
  <2>2. Placed(t)'
    BY <1>3 DEF Placed, Goes, Ready, MadeBefore
  <2> QED BY <1>1, <1>3, <2>1, <2>2 DEF Settles, Goes
<1> QED BY <1>2, <1>3

(* The refresh of a record by Goto, without a change of the repository.    *)
LEMMA GotoSettles ==
  ASSUME Typed, NEW t \in Turns, Ready(t),
         UNCHANGED <<index, head, fetched, onBranch, remote, made>>,
         NEW p, NEW next, Goto(t, p, next),
         next = "working" => ComesBack(pub[t]),
         next # "working" => Goes(pub[t], [p EXCEPT !.at = next])
  PROVE  Settles(t)
BY GotoUndisturbed, StaysSettled DEF Ready

(* A record that keeps its bounds and its action goes where its label may. *)
LEMMA SamePublication ==
  ASSUME NEW t \in Turns, Placed(t), NEW q,
         q.before = pub[t].before, q.action = pub[t].action, q.at # "working",
         pub[t].at \in Staging => q.at \in Staging,
         \/ Committed(pub[t]) /\ q.at \in {"event", "open", "undo"} \cup Editing
            /\ (q.at \in Editing => q.action = "publish")
         \/ pub[t].at \in Editing /\ q.at \in Editing
         \/ /\ Uncommitted(pub[t]) /\ pub[t].at \notin Editing
            /\ OnItsBranch(pub[t]) \/ onBranch
            /\ q.at \in Ending \cup {"status", "find", "demote", "insert", "fetch",
                                         "align", "synced", "add", "unstage"}
         \/ pub[t].at = "branch" /\ q.at = "checkout"
  PROVE  Goes(pub[t], q)
BY DEF Goes, Placed, Committed, Uncommitted, OnItsBranch, Editing, Staging, Ending

(* The steps of a publication between two commands, but for its result.    *)
LEMMA RecordsSettle ==
  ASSUME Typed, NEW t \in Turns, Ready(t),
         FindCurrent(t) \/ Demote(t) \/ Insert(t) \/ AppendPushed(t) \/ Open(t)
  PROVE  Settles(t)
<1>1. /\ pub[t] \in TurnRecords
      /\ UNCHANGED <<index, head, fetched, onBranch, remote, made>>
      /\ pub[t].at \in {"find", "demote", "insert", "event", "open"}
      /\ Placed(t) /\ ~aborted[t]
  BY RecordTyped DEF FindCurrent, Demote, Insert, AppendPushed, Open, repo, Ready
<1>2. pub[t].action = "publish" /\ pub[t].at \notin Staging \cup Editing
  BY <1>1 DEF Placed, Staging, Editing
<1>3. ASSUME NEW q, pub'[t] = q, q.before = pub[t].before, q.action = pub[t].action,
             \/ pub[t].at \in {"find", "demote", "insert"}
                /\ q.at \in {"fetch", "demote", "insert", "add"}
             \/ pub[t].at \in {"event", "open"} /\ q.at \in {"target", "open", "undo"}
      PROVE  Settles(t)
  <2>1. q.at # "working" /\ (pub[t].at \in Staging => q.at \in Staging)
    BY <1>2, <1>3
  <2>2. \/ /\ Uncommitted(pub[t]) /\ OnItsBranch(pub[t])
           /\ q.at \in Ending \cup {"status", "find", "demote", "insert", "fetch",
                                    "align", "synced", "add", "unstage"}
        \/ /\ Committed(pub[t]) /\ q.at \in {"event", "open", "undo"} \cup Editing
           /\ q.action = "publish"
    BY <1>2, <1>3 DEF Uncommitted, Committed, OnItsBranch, Editing
  <2>3. Goes(pub[t], q)
    BY <1>1, <1>2, <1>3, <2>1, <2>2, SamePublication
  <2> QED BY <1>1, <1>3, <2>3, StaysSettled
<1>4. CASE FindCurrent(t)
  <2> DEFINE i == Latest(CurrentRows)
             found == CurrentRows # {} /\ rows[i].number # 0
             p == [pub[t] EXCEPT !.row = IF found THEN i ELSE 0, !.existing = found,
                                 !.number = IF found THEN rows[i].number ELSE 0]
             next == IF found THEN "fetch" ELSE "demote"
             q == [p EXCEPT !.at = next]
  <2>1. Goto(t, p, next) /\ next # "working" /\ next \in {"fetch", "demote"}
    BY <1>4 DEF FindCurrent
  <2>2. q.at = next /\ q.before = pub[t].before /\ q.action = pub[t].action
    BY <1>1 DEF TurnRecords
  <2> HIDE DEF p, next
  <2>3. pub'[t] = q
    BY <1>1, <2>1, GotoUndisturbed
  <2> HIDE DEF q
  <2> QED BY <1>3, <1>4, <2>1, <2>2, <2>3 DEF FindCurrent
<1>5. CASE Demote(t)
  <2> DEFINE p == [pub[t] EXCEPT !.demotes = CurrentRows]
             q == [p EXCEPT !.at = "insert"]
  <2>1. q.at = "insert" /\ q.before = pub[t].before /\ q.action = pub[t].action
    BY <1>1 DEF TurnRecords
  <2>2. Goto(t, p, "insert")
    BY <1>5 DEF Demote
  <2> HIDE DEF p
  <2>3. pub'[t] = q
    BY <1>1, <2>2, GotoUndisturbed
  <2> HIDE DEF q
  <2> QED BY <1>3, <1>5, <2>1, <2>3 DEF Demote
<1>6. CASE Insert(t)
  <2> DEFINE p == [pub[t] EXCEPT !.row = Len(rows) + 1, !.demotes = {}]
             q == [p EXCEPT !.at = "add"]
  <2>1. q.at = "add" /\ q.before = pub[t].before /\ q.action = pub[t].action
    BY <1>1 DEF TurnRecords
  <2>2. Goto(t, p, "add")
    BY <1>6 DEF Insert
  <2> HIDE DEF p
  <2>3. pub'[t] = q
    BY <1>1, <2>2, GotoUndisturbed
  <2> HIDE DEF q
  <2> QED BY <1>3, <1>6, <2>1, <2>3 DEF Insert
<1>7. CASE AppendPushed(t)
  <2>1. PICK next \in {"target", "open"} : Goto(t, pub[t], next)
    BY <1>7 DEF AppendPushed
  <2> DEFINE q == [pub[t] EXCEPT !.at = next]
  <2>2. q.at = next /\ q.before = pub[t].before /\ q.action = pub[t].action
    BY <1>1 DEF TurnRecords
  <2>3. pub'[t] = q
    BY <1>1, <2>1, GotoUndisturbed
  <2> HIDE DEF q
  <2> QED BY <1>3, <1>7, <2>1, <2>2, <2>3 DEF AppendPushed
<1>8. CASE Open(t)
  <2>1. PICK then \in {"persist", "fail"}, n \in {Len(prs) + 1, 0} :
          Goto(t, [pub[t] EXCEPT !.then = then, !.number = n], "undo")
    BY <1>8 DEF Open
  <2> DEFINE p == [pub[t] EXCEPT !.then = then, !.number = n]
             q == [p EXCEPT !.at = "undo"]
  <2>2. q.at = "undo" /\ q.before = pub[t].before /\ q.action = pub[t].action
    BY <1>1 DEF TurnRecords
  <2>3. Goto(t, p, "undo")
    BY <2>1
  <2> HIDE DEF p
  <2>4. pub'[t] = q
    BY <1>1, <2>3, GotoUndisturbed
  <2> HIDE DEF q
  <2> QED BY <1>3, <1>8, <2>2, <2>4 DEF Open
<1> QED BY <1>4, <1>5, <1>6, <1>7, <1>8

(* The end of a call: back to the agent, or to undo the commit.            *)
LEMMA FinishSettles ==
  ASSUME Typed, NEW t \in Turns, Ready(t), pub[t].at \in Editing,
         UNCHANGED <<index, head, fetched, onBranch, remote, made>>,
         Finish(t, pub[t])
  PROVE  Settles(t)
<1> DEFINE p == [pub[t] EXCEPT !.then = "working"]
           q == [p EXCEPT !.at = "undo"]
<1>1. pub[t] \in TurnRecords /\ ~aborted[t]
  BY RecordTyped DEF Ready
<1>2. q.at = "undo" /\ q.before = pub[t].before /\ q.action = pub[t].action
  BY <1>1 DEF TurnRecords
<1> HIDE DEF p
<1>3. CASE pub[t].action = "publish"
  <2>1. pub'[t] = q
    BY <1>1, <1>3, GotoUndisturbed DEF Finish, p
  <2> HIDE DEF q
  <2>2. Goes(pub[t], q)
    BY <1>2, <1>3 DEF Goes, Committed, Uncommitted, OnItsBranch, Editing, Staging, Ending
  <2> QED BY <2>1, <2>2, StaysSettled
<1>4. CASE pub[t].action # "publish"
  <2>1. pub'[t] = Resting("working")
    BY <1>1, <1>4, GotoUndisturbed DEF Finish, p
  <2>2. ComesBack(pub[t])
    BY <1>4 DEF ComesBack, Uncommitted, Editing, Staging
  <2> QED BY <2>1, <2>2, StaysSettled
<1> QED BY <1>3, <1>4, <1>2 DEF p

(* The other calls of GitHub, their results and those of a publication.    *)
LEMMA ResultsSettle ==
  ASSUME Typed, NEW t \in Turns, Ready(t),
         \/ Target(t) \/ Call(t) \/ Save(t) \/ SaveFailure(t)
         \/ Persist(t) \/ PersistFailure(t)
  PROVE  Settles(t)
<1>1. /\ pub[t] \in TurnRecords /\ ~aborted[t]
      /\ UNCHANGED <<index, head, fetched, onBranch, remote, made>>
  BY RecordTyped DEF Target, Call, Save, SaveFailure, Persist, PersistFailure, repo, Ready
<1>2. CASE Persist(t) \/ PersistFailure(t)
  <2>1. Goto(t, pub[t], "working") /\ pub[t].at \in Ending
    BY <1>2 DEF Persist, PersistFailure, Ending
  <2> QED BY <1>1, <2>1, GotoUndisturbed, StaysSettled DEF ComesBack
<1>3. CASE Save(t) \/ SaveFailure(t) \/ (Target(t) /\ Finish(t, pub[t]))
  BY <1>1, <1>3, FinishSettles DEF Save, SaveFailure, Target, Editing
<1>4. ASSUME pub[t].at \in Editing, NEW p, NEW next \in Editing, Goto(t, p, next),
             \E i, n, s : p \in {pub[t], [pub[t] EXCEPT !.row = i, !.number = n],
                                 [pub[t] EXCEPT !.state = s]}
      PROVE  Settles(t)
  <2> DEFINE q == [p EXCEPT !.at = next]
  <2>1. q.at = next /\ q.before = pub[t].before /\ q.action = pub[t].action
    BY <1>1, <1>4 DEF TurnRecords
  <2>2. pub'[t] = q
    BY <1>1, <1>4, GotoUndisturbed DEF Editing
  <2> HIDE DEF q
  <2>3. Goes(pub[t], q)
    BY <1>4, <2>1 DEF Goes, Committed, Uncommitted, OnItsBranch, Editing, Staging, Ending
  <2> QED BY <1>1, <2>2, <2>3, StaysSettled
<1>5. CASE Target(t) /\ ~Finish(t, pub[t])
  <2>1. PICK i, n : Goto(t, [pub[t] EXCEPT !.row = i, !.number = n], "call")
    BY <1>5 DEF Target
  <2> QED BY <1>4, <1>5, <2>1 DEF Target, Editing
<1>6. CASE Call(t)
  <2>1. \/ \E s : Goto(t, [pub[t] EXCEPT !.state = s], "save")
        \/ Goto(t, pub[t], "saveFailure")
    BY <1>6 DEF Call
  <2> QED BY <1>4, <1>6, <2>1 DEF Call, Editing
<1> QED BY <1>2, <1>3, <1>5, <1>6

(* A record that throws: no commit has been made yet, or it is off the     *)
(* branch already, or undone now.  Only the event of the push is not so.   *)
LEMMA RecordThrowsSettles ==
  ASSUME Typed, NEW t \in Turns, Ready(t), "event" \notin history', RecordThrows(t)
  PROVE  Settles(t)
<1>1. /\ pub[t].at \in RecordSteps \ {"event"} /\ ~aborted[t]
      /\ UNCHANGED <<index, head, fetched, onBranch, remote, made>>
  BY DEF RecordThrows, Mishap, repo, Ready
<1>2. CASE pub[t].at \in {"target", "save", "saveFailure"}
  BY <1>1, <1>2, FinishSettles DEF RecordThrows, Editing
<1>3. CASE pub[t].at \notin {"target", "save", "saveFailure"}
  <2>1. Goto(t, pub[t], "working")
    BY <1>3 DEF RecordThrows
  <2>2. ComesBack(pub[t])
    BY <1>1, <1>3 DEF RecordSteps, ComesBack, Uncommitted, Ending, Staging
  <2> QED BY <1>1, <2>1, <2>2, GotoUndisturbed, StaysSettled
<1> QED BY <1>2, <1>3

(* The agent's own steps: it leaves the branch only with a clean index.    *)
LEMMA AgentSettles ==
  ASSUME Typed, NEW t \in Turns, Ready(t), Agent(t)
  PROVE  Settles(t)
<1>1. pub[t] \in TurnRecords /\ pub[t].at = "working" /\ Placed(t)
  BY RecordTyped DEF Agent, Edit, Leave, EndTurn, CallTool, Ready
<1>2. /\ index = Tip /\ MadeBefore /\ pub[t].before = made /\ pub[t].action = "publish"
      /\ ~aborted[t]
  BY <1>1 DEF Ready, Placed, Uncommitted, Staging, Editing
<1>3. CASE Edit(t) \/ Leave(t)
  <2>1. UNCHANGED <<head, fetched, remote, made, pub>> /\ index' = Tip'
    BY <1>2, <1>3 DEF Edit, Leave, Tip
  <2>2. Placed(t)'
    BY <1>1, <1>2, <2>1 DEF Placed, OnItsBranch, Uncommitted, Committed, Ending, Editing
  <2> QED BY <1>2, <2>1, <2>2 DEF Settles, MadeBefore, UpTo
<1>4. CASE EndTurn(t)
  <2>1. /\ UNCHANGED <<index, head, fetched, onBranch, remote, made>>
        /\ pub'[t] = Resting("ended")
    BY <1>4 DEF EndTurn, repo, Typed, TurnsTyped
  <2>2. Placed(t)'
    BY <2>1 DEF Placed, OnItsBranch, Uncommitted, Committed, Ending, Editing, Resting
  <2> QED BY <1>2, <2>1, <2>2 DEF Settles, MadeBefore, UpTo, Tip, Resting
<1>5. ASSUME NEW action \in Actions, CallTool(t, action)
      PROVE  Settles(t)
  <2> DEFINE p == [Resting("working") EXCEPT !.action = action]
             next == IF action = "publish" THEN "branch" ELSE "target"
             q == [p EXCEPT !.at = next]
  <2>1. /\ Goto(t, p, next)
        /\ UNCHANGED <<index, head, fetched, onBranch, remote, made>>
    BY <1>5 DEF CallTool, repo
  <2>2. q.at = next /\ q.before = made /\ q.action = action
    BY DEF Resting
  <2>3. /\ next # "working" /\ (next = "branch" => action = "publish")
        /\ next \in {"branch", "target"} /\ (next = "target" => action # "publish")
    OBVIOUS
  <2> HIDE DEF p, next
  <2>4. pub'[t] = q
    BY <1>2, <2>1, <2>3, GotoUndisturbed
  <2> HIDE DEF q
  <2>5. Goes(pub[t], q)
    BY <1>1, <1>2, <2>2, <2>3 DEF Goes, Committed, Uncommitted, OnItsBranch, Editing,
       Staging, Ending
  <2> QED BY <2>1, <2>4, <2>5, StaysSettled
<1> QED BY <1>3, <1>4, <1>5 DEF Agent

-----------------------------------------------------------------------------
(* The commands in the container.                                          *)

(* The record of a turn whose command is over, unless it goes back to the  *)
(* agent.                                                                  *)
LEMMA CommandOver ==
  ASSUME Typed, NEW t \in Turns, ~aborted[t],
         NEW p, p = pub[t] \/ p = [pub[t] EXCEPT !.then = "fail"],
         NEW next, Goto(t, p, next)
  PROVE  /\ next = "working" => pub'[t] = Resting("working")
         /\ next # "working" => /\ pub'[t].at = next
                                /\ pub'[t].before = pub[t].before
                                /\ pub'[t].action = pub[t].action
<1> DEFINE q == [p EXCEPT !.at = next]
<1>1. pub[t] \in TurnRecords
  BY RecordTyped
<1>2. q.at = next /\ q.before = pub[t].before /\ q.action = pub[t].action
  BY <1>1 DEF TurnRecords
<1>3. pub'[t] = IF next = "working" THEN Resting("working") ELSE q
  BY GotoUndisturbed
<1> HIDE DEF q
<1> QED BY <1>2, <1>3

(* Back at the agent the index is the branch's, and all was made before.   *)
LEMMA BackSettles ==
  ASSUME NEW t \in Turns, pub'[t] = Resting("working"), made' = made,
         MadeBefore', index' = Tip', UpTo(head', pub[t].before)
  PROVE  Settles(t)
<1>1. pub'[t].at = "working" /\ pub'[t].before = made /\ pub'[t].action = "publish"
  BY DEF Resting
<1>2. Placed(t)'
  BY <1>1 DEF Placed, OnItsBranch, Uncommitted, Committed, Ending, Editing
<1> QED BY <1>2 DEF Settles

(* A command that refuses, or fails without any effect.                    *)
LEMMA FailureSettles ==
  ASSUME Typed, NEW t \in Turns, Ready(t), "torn" \notin history', Refuse(t) \/ Fail(t)
  PROVE  Settles(t)
<1> DEFINE next == OnFailure(pub[t])
           p == Failing(pub[t])
<1>1. /\ UNCHANGED <<index, head, fetched, onBranch, remote, made>>
      /\ Goto(t, p, next) /\ pub[t].at \in GitSteps
      /\ pub[t].at \in Resets => Refuse(t)
  BY DEF Refuse, Fail, repo, Mishap
<1>2. /\ Placed(t) /\ ~aborted[t] /\ MadeBefore
      /\ pub[t].at \notin Staging => index = Tip
  BY DEF Ready
<1>3. pub[t].at \notin Resets
  <2>1. SUFFICES ASSUME pub[t].at \in Resets PROVE FALSE
    OBVIOUS
  <2>2. Refuses(pub[t].at)
    BY <1>1, <2>1 DEF Refuse
  <2>3. pub[t].at = "undo" /\ head = <<>>
    BY <2>1, <2>2 DEF Refuses, Resets
  <2> QED BY <1>2, <2>3 DEF Placed, Committed
<1>4. next = Recovery[pub[t].at] /\ p = [pub[t] EXCEPT !.then = "fail"]
  BY <1>3 DEF OnFailure, Failing
<1>5. \/ pub[t].at \in {"branch", "checkout", "status"} /\ next = "working"
      \/ pub[t].at \in {"fetch", "align", "synced"} /\ next = "fail"
      \/ pub[t].at \in {"add", "commit"} /\ next = "unstage"
      \/ pub[t].at = "push" /\ next = "undo"
  BY <1>1, <1>3, <1>4 DEF Recovery, GitSteps, Resets
<1> HIDE DEF p, next
<1>6. /\ next = "working" => pub'[t] = Resting("working")
      /\ next # "working" => /\ pub'[t].at = next
                             /\ pub'[t].before = pub[t].before
                             /\ pub'[t].action = pub[t].action
  BY <1>1, <1>2, <1>4, CommandOver
<1>7. CASE next = "working"
  <2>1. ComesBack(pub[t])
    BY <1>5, <1>7 DEF ComesBack, Uncommitted, Staging
  <2> QED BY <1>1, <1>6, <1>7, <2>1, StaysSettled
<1>8. CASE next # "working"
  <2>1. Goes(pub[t], pub'[t])
    BY <1>2, <1>5, <1>6, <1>8 DEF Placed, Goes, Uncommitted, Committed, OnItsBranch,
       Editing, Staging, Ending
  <2> QED BY <1>1, <2>1, StaysSettled
<1> QED BY <1>7, <1>8

(* Sequences of commits that are cut, extended or replaced.                *)
LEMMA UpToFront ==
  ASSUME NEW s \in Seq(Commit), s # <<>>, NEW n, UpTo(s, n)
  PROVE  UpTo(Front(s), n)
<1>1. Len(s) \in Nat \ {0} /\ s \in [1..Len(s) -> Commit]
  OBVIOUS
<1>2. DOMAIN Front(s) = 1..(Len(s) - 1) /\ \A i \in 1..(Len(s) - 1) : Front(s)[i] = s[i]
  BY <1>1 DEF Front
<1> QED BY <1>1, <1>2 DEF UpTo

(* A commit is appended: the branch without it is what it was.             *)
LEMMA CommitAppended ==
  ASSUME NEW s \in Seq(Commit), NEW c \in Commit
  PROVE  /\ Append(s, c) # <<>> /\ Content(Append(s, c)) = c.tree
         /\ Front(Append(s, c)) = s
         /\ \A n \in Nat : UpTo(s, n) /\ c.id = n + 1 => UpTo(Append(s, c), n + 1)
<1> DEFINE a == Append(s, c)
<1>1. /\ Len(s) \in Nat /\ a \in Seq(Commit) /\ Len(a) = Len(s) + 1 /\ a[Len(s) + 1] = c
      /\ \A i \in 1..Len(s) : a[i] = s[i]
      /\ DOMAIN a = 1..(Len(s) + 1) /\ DOMAIN s = 1..Len(s)
  OBVIOUS
<1> HIDE DEF a
<1>2. a # <<>>
  BY <1>1
<1>3. Content(a) = c.tree
  BY <1>1, <1>2 DEF Content, Last
<1>4. Front(a) = s
  <2>1. Front(a) = [i \in 1..Len(s) |-> a[i]]
    BY <1>1 DEF Front
  <2> QED BY <1>1, <2>1
<1>5. ASSUME NEW n \in Nat, UpTo(s, n), c.id = n + 1, NEW i \in DOMAIN a
      PROVE  a[i].id <= n + 1
  <2>1. CASE i = Len(s) + 1
    BY <1>1, <1>5, <2>1
  <2>2. CASE i \in 1..Len(s)
    <3>1. s[i] \in Commit /\ a[i] = s[i] /\ i \in DOMAIN s
      BY <1>1, <2>2
    <3>2. a[i].id <= n /\ a[i].id \in Nat
      BY <1>5, <3>1 DEF UpTo, Commit
    <3> QED BY <3>2
  <2> QED BY <1>1, <2>1, <2>2
<1> QED BY <1>2, <1>3, <1>4, <1>5 DEF UpTo, a

(* The commands before git add: they leave a clean index, and no commit    *)
(* that was not there before.                                              *)
LEMMA EarlyCommandSettles ==
  ASSUME Typed, NEW t \in Turns, Ready(t), Succeed(t),
         pub[t].at \in {"branch", "checkout", "status", "fetch", "align", "synced"}
  PROVE  Settles(t)
<1> DEFINE next == OnSuccess(pub[t])
<1>1. /\ Git(pub[t].at) /\ Goto(t, pub[t], next)
      /\ Placed(t) /\ ~aborted[t] /\ MadeBefore /\ index = Tip
      /\ pub[t].action = "publish" /\ pub[t].before = made
      /\ UpTo(head, pub[t].before)
  BY DEF Ready, Succeed, Placed, Uncommitted, Staging, Editing, MadeBefore
<1>2. /\ pub[t].at = "branch" => \/ onBranch /\ next = "status"
                                 \/ next \in {"checkout", "working"}
      /\ pub[t].at = "checkout" => next = "status"
      /\ pub[t].at = "status" => next \in {"working", "find"}
      /\ pub[t].at = "fetch" => next = "align"
      /\ pub[t].at = "align" => next = "synced"
      /\ pub[t].at = "synced" => next \in {"working", "add"}
  BY DEF OnSuccess, After, Resets
<1> HIDE DEF next
<1>3. /\ next = "working" => pub'[t] = Resting("working")
      /\ next # "working" => /\ pub'[t].at = next
                             /\ pub'[t].before = pub[t].before
                             /\ pub'[t].action = pub[t].action
  BY <1>1, CommandOver
<1>4. CASE pub[t].at \in {"branch", "status", "synced"}
  <2>1. UNCHANGED <<index, head, fetched, onBranch, remote, made>>
    BY <1>1, <1>4 DEF Git, repo
  <2>2. CASE next = "working"
    BY <1>3, <1>4, <2>1, <2>2, StaysSettled DEF ComesBack, Uncommitted, Staging
  <2>3. CASE next # "working"
    <3>1. Goes(pub[t], pub'[t])
      BY <1>1, <1>2, <1>3, <1>4, <2>3 DEF Placed, Goes, Uncommitted, Committed, OnItsBranch,
         Editing, Staging, Ending
    <3> QED BY <2>1, <3>1, StaysSettled
  <2> QED BY <2>2, <2>3
<1>5. CASE pub[t].at \in {"checkout", "fetch", "align"}
  <2>1. /\ made' = made /\ onBranch' /\ index' = Tip'
        /\ MadeBefore'
    <3>1. CASE pub[t].at = "checkout"
      <4>1. CheckOut
        BY <1>1, <3>1 DEF Git
      <4> QED BY <1>1, <4>1 DEF CheckOut, Tip, MadeBefore
    <3>2. CASE pub[t].at = "fetch"
      <4>1. Fetch
        BY <1>1, <3>2 DEF Git
      <4>2. onBranch
        BY <1>1, <3>2 DEF Placed, OnItsBranch
      <4> QED BY <1>1, <4>1, <4>2 DEF Fetch, Tip, MadeBefore
    <3>3. CASE pub[t].at = "align"
      <4>1. ResetMixed(fetched)
        BY <1>1, <3>3 DEF Git
      <4>2. onBranch
        BY <1>1, <3>3 DEF Placed, OnItsBranch
      <4> QED BY <1>1, <4>1, <4>2 DEF ResetMixed, Tip, MadeBefore
    <3> QED BY <1>5, <3>1, <3>2, <3>3
  <2>2. pub'[t].at \in {"status", "align", "synced"} /\ pub'[t].before = made
        /\ pub'[t].action = "publish"
    BY <1>1, <1>2, <1>3, <1>5
  <2>3. Placed(t)'
    BY <2>1, <2>2 DEF Placed, Uncommitted, Committed, OnItsBranch, Editing, Ending
  <2> QED BY <2>1, <2>2, <2>3 DEF Settles
<1> QED BY <1>4, <1>5

(* git add, git commit and git push.                                       *)
LEMMA LateCommandSettles ==
  ASSUME Typed, NEW t \in Turns, Ready(t), Succeed(t),
         pub[t].at \in {"add", "commit", "push"}
  PROVE  Settles(t)
<1> DEFINE next == OnSuccess(pub[t])
<1>1. /\ Git(pub[t].at) /\ Goto(t, pub[t], next)
      /\ Placed(t) /\ ~aborted[t] /\ MadeBefore
      /\ pub[t].action = "publish" /\ onBranch /\ pub[t] \in TurnRecords
  BY RecordTyped DEF Ready, Succeed, Placed, Uncommitted, Committed, OnItsBranch, Editing
<1>2. /\ pub[t].at = "add" => next = "commit"
      /\ pub[t].at = "commit" => next = "push"
      /\ pub[t].at = "push" => next = "event"
  BY DEF OnSuccess, After, Resets
<1> HIDE DEF next
<1>3. /\ pub'[t].at = next /\ next \in {"commit", "push", "event"}
      /\ pub'[t].before = pub[t].before /\ pub'[t].action = "publish"
  BY <1>1, <1>2, CommandOver
<1>4. CASE pub[t].at = "add"
  <2>1. StageAll
    BY <1>1, <1>4 DEF Git, Resets
  <2>2. pub[t].before = made
    BY <1>1, <1>4 DEF Placed, Uncommitted
  <2>3. MadeBefore' /\ made' = made /\ onBranch'
    BY <1>1, <2>1 DEF StageAll, MadeBefore
  <2>4. Placed(t)'
    BY <1>2, <1>3, <1>4, <2>2, <2>3 DEF Placed, Uncommitted, Committed, OnItsBranch,
       Editing, Ending
  <2> QED BY <1>2, <1>3, <1>4, <2>3, <2>4 DEF Settles, Staging
<1>5. CASE pub[t].at = "commit"
  <2> DEFINE c == [id |-> made + 1, tree |-> index]
  <2>1. CommitIndex /\ head' = Append(head, c)
    BY <1>1, <1>5 DEF Git, Resets, CommitIndex
  <2>2. /\ c \in Commit /\ c.id = made + 1 /\ c.tree = index
        /\ made \in Nat /\ head \in Seq(Commit) /\ fetched \in Seq(Commit)
        /\ remote \in Seq(Commit)
    BY DEF Typed, RepoTyped, Commit
  <2> HIDE DEF c
  <2>3. /\ head' # <<>> /\ Content(head') = index /\ Front(head') = head
        /\ UpTo(head', made + 1)
    BY <1>1, <2>1, <2>2, CommitAppended DEF MadeBefore
  <2>4. made' = made + 1 /\ UNCHANGED <<index, fetched, remote, onBranch>>
    BY <2>1 DEF CommitIndex
  <2>5. \A s \in Seq(Commit) : UpTo(s, made) => UpTo(s, made + 1)
    <3>1. ASSUME NEW s \in Seq(Commit), UpTo(s, made), NEW i \in DOMAIN s
          PROVE  s[i].id <= made + 1
      <4>1. s[i] \in Commit /\ s[i].id <= made
        BY <3>1 DEF UpTo
      <4> QED BY <2>2, <4>1 DEF Commit
    <3> QED BY <3>1 DEF UpTo
  <2>6. MadeBefore'
    BY <1>1, <2>2, <2>3, <2>4, <2>5 DEF MadeBefore
  <2>7. UpTo(Front(head'), pub[t].before)
    BY <1>1, <1>5, <2>3 DEF Placed, Uncommitted, MadeBefore
  <2>8. Placed(t)'
    BY <1>1, <1>2, <1>3, <1>5, <2>3, <2>4, <2>7 DEF Placed, Uncommitted, Committed,
       OnItsBranch, Editing, Ending
  <2>9. index' = Tip'
    BY <1>1, <2>3, <2>4 DEF Tip
  <2> QED BY <1>2, <1>3, <1>5, <2>6, <2>8, <2>9 DEF Settles
<1>6. CASE pub[t].at = "push"
  <2>1. Push
    BY <1>1, <1>6 DEF Git, Resets
  <2>2. index = Tip /\ head # <<>> /\ UpTo(Front(head), pub[t].before)
    BY <1>1, <1>6 DEF Ready, Placed, Committed, Staging
  <2>3. MadeBefore' /\ index' = Tip'
    BY <1>1, <2>1, <2>2 DEF Push, MadeBefore, Tip
  <2>4. Placed(t)'
    BY <1>1, <1>2, <1>3, <1>6, <2>1, <2>2 DEF Push, Placed, Uncommitted, Committed,
       OnItsBranch, Editing, Ending
  <2> QED BY <1>2, <1>3, <1>6, <2>3, <2>4 DEF Settles
<1> QED BY <1>4, <1>5, <1>6

(* The resets: the index is the branch's again, and what the publication   *)
(* has committed is off the branch.                                        *)
LEMMA ResetSettles ==
  ASSUME Typed, NEW t \in Turns, Ready(t), Sound(pub[t]), Succeed(t), pub[t].at \in Resets
  PROVE  Settles(t)
<1> DEFINE next == pub[t].then
<1>1. /\ Git(pub[t].at) /\ Goto(t, pub[t], next)
      /\ Placed(t) /\ ~aborted[t] /\ MadeBefore
      /\ pub[t].action = "publish" /\ onBranch
  BY DEF Ready, Succeed, OnSuccess, Placed, Uncommitted, Committed, OnItsBranch, Editing, Resets
<1>2. next \in {"working", "ended"} \cup Ending
  BY DEF Sound, Typed, TurnsTyped, Resets, Ending
<1> HIDE DEF next
<1>3. /\ next = "working" => pub'[t] = Resting("working")
      /\ next # "working" => /\ pub'[t].at = next
                             /\ pub'[t].before = pub[t].before
                             /\ pub'[t].action = pub[t].action
  BY <1>1, CommandOver
<1>4. PICK commits : ResetMixed(commits) /\ UpTo(commits, pub[t].before) /\ UpTo(commits, made)
  <2>1. CASE pub[t].at = "unstage"
    BY <1>1, <2>1 DEF Git, Placed, Uncommitted, MadeBefore
  <2>2. CASE pub[t].at = "undo"
    <3>1. head # <<>> /\ ResetMixed(Front(head)) /\ UpTo(Front(head), pub[t].before)
      BY <1>1, <2>2 DEF Git, Placed, Committed
    <3>2. UpTo(Front(head), made)
      BY <1>1, <3>1, UpToFront DEF MadeBefore, Typed, RepoTyped
    <3> QED BY <3>1, <3>2
  <2> QED BY <2>1, <2>2 DEF Resets
<1>5. /\ MadeBefore' /\ index' = Tip' /\ onBranch' /\ made' = made
      /\ UpTo(head', pub[t].before)
  BY <1>1, <1>4 DEF ResetMixed, MadeBefore, Tip
<1>6. CASE next = "working"
  BY <1>3, <1>5, <1>6, BackSettles
<1>7. CASE next # "working"
  <2>1. Placed(t)'
    BY <1>1, <1>2, <1>3, <1>5, <1>7 DEF Placed, Uncommitted, Committed, OnItsBranch,
       Editing, Ending
  <2> QED BY <1>2, <1>3, <1>5, <1>7, <2>1 DEF Settles, Ending
<1> QED BY <1>6, <1>7

-----------------------------------------------------------------------------
(* A turn that begins finds the branch, or checks it out, with its index.  *)
LEMMA BeginSettles ==
  ASSUME Typed, NEW t \in Turns, BeginTurn(t), MadeBefore, index = Tip
  PROVE  Settles(t)
<1>1. /\ pub' = [pub EXCEPT ![t] = Resting(IF CanCheckOut THEN "working" ELSE "ended")]
      /\ pub[t].at = "waiting"
      /\ IF CanCheckOut THEN CheckOut ELSE UNCHANGED repo
  BY DEF BeginTurn
<1>2. /\ pub'[t].at \in {"working", "ended"} /\ pub'[t].action = "publish"
      /\ pub'[t].at = "working" => pub'[t].before = made
  BY <1>1 DEF Typed, TurnsTyped, Resting
<1>3. made' = made /\ MadeBefore' /\ index' = Tip'
  <2>1. CASE CheckOut
    BY <2>1 DEF CheckOut, MadeBefore, Tip
  <2>2. CASE UNCHANGED repo
    BY <2>2 DEF repo, MadeBefore, UpTo, Tip
  <2> QED BY <1>1, <2>1, <2>2
<1>4. Placed(t)'
  BY <1>2, <1>3 DEF Placed, Uncommitted, Committed, OnItsBranch, Editing, Ending
<1> QED BY <1>1, <1>3, <1>4 DEF Settles

(* Every step of a turn settles, while nothing keeps one from its reset.   *)
LEMMA TurnSettles ==
  ASSUME Typed, Serial, Lasting, WorkspaceKept, Cleaned, "overlap" \notin history,
         "overlap" \notin history', Unstained \cap history' = {},
         NEW t \in Turns, ~aborted[t],
         BeginTurn(t) \/ Agent(t) \/ Tool(t) \/ Fail(t) \/ RecordThrows(t) \/ Abort(t)
  PROVE  Settles(t) /\ Moves(t) /\ \A s \in Turns : s # t => pub[s].at \in Resters
<1>1. MadeBefore /\ Placed(t) /\ Sound(pub[t])
      /\ ((\A s \in Turns : pub[s].at \notin Staging) => index = Tip)
  BY DEF WorkspaceKept, Lasting
<1>2. Moves(t)
  BY ToolEffect, InsertStep, AbortStep, BeginTurnStep DEF Effect
<1>3. ~Abort(t)
  BY DEF Abort, Mishap, Unstained
<1>4. \A at : at \in Resters => at \notin Staging
  BY DEF Resters, Staging
<1>5. CASE BeginTurn(t)
  <2>1. pub[t].at = "waiting" /\ \A s \in 1..t-1 : pub[s].at = "ended"
    BY <1>5, BeginTurnStep
  <2>2. ASSUME NEW s \in Turns, s # t PROVE pub[s].at \in Resters
    <3>1. MaxTurns \in Nat
      BY BoundsAssumption
    <3>2. s \in 1..t-1 \/ t < s
      BY <2>2, <3>1 DEF Turns
    <3> QED BY <2>1, <3>2 DEF Serial, Resters
  <2>3. index = Tip
    BY <1>1, <1>4, <2>1, <2>2 DEF Resters
  <2> QED BY <1>1, <1>2, <1>5, <2>2, <2>3, BeginSettles
<1>6. CASE Agent(t) \/ Tool(t) \/ Fail(t) \/ RecordThrows(t)
  <2>1. pub[t].at \notin Resters
    BY <1>6 DEF Resters, Agent, Edit, Leave, EndTurn, CallTool, Tool, Command, Record,
       OnGitHub, Succeed, Refuse, Throw, Fail, FindCurrent, Demote, Insert, AppendPushed,
       Persist, PersistFailure, Save, SaveFailure, Open, Target, Call, RecordThrows,
       RecordSteps, GitSteps, Resets
  <2>2. \A s \in Turns : s # t => pub[s].at \in Resters
    BY <2>1 DEF Serial
  <2>3. Ready(t)
    BY <1>1, <1>4, <2>1, <2>2 DEF Ready
  <2>4. CASE Agent(t)
    BY <1>2, <2>2, <2>3, <2>4, AgentSettles
  <2>5. CASE Refuse(t) \/ Fail(t)
    BY <1>2, <2>2, <2>3, <2>5, FailureSettles DEF Unstained
  <2>6. CASE Succeed(t)
    <3>1. pub[t].at \in {"branch", "checkout", "status", "fetch", "align", "synced"}
            \cup {"add", "commit", "push"} \cup Resets
      BY <2>6 DEF Succeed, GitSteps
    <3> QED BY <1>1, <1>2, <2>2, <2>3, <2>6, <3>1, EarlyCommandSettles, LateCommandSettles,
           ResetSettles
  <2>7. ~Throw(t)
    BY DEF Throw
  <2>8. CASE Record(t) \/ OnGitHub(t)
    BY <1>2, <2>2, <2>3, <2>8, RecordsSettle, ResultsSettle DEF Record, OnGitHub
  <2>9. CASE RecordThrows(t)
    BY <1>2, <2>2, <2>3, <2>9, RecordThrowsSettles DEF Unstained
  <2> QED BY <1>2, <1>6, <2>2, <2>4, <2>5, <2>6, <2>7, <2>8, <2>9 DEF Tool, Command
<1> QED BY <1>3, <1>5, <1>6

(* Every step keeps WorkspaceKept, and a publication that returns leaves   *)
(* the workspace clean and the branch without its commit.                  *)
LEMMA WorkspaceStep ==
  ASSUME Typed, Serial, Lasting, Undisturbed, WorkspaceKept, [Next]_vars
  PROVE  /\ WorkspaceKept'
         /\ \A t \in Turns : Returns(t) /\ Cleaned' => LeavesWorkspace(t)
<1>1. SUFFICES ASSUME Cleaned'
               PROVE  /\ WorkspaceKept'
                      /\ \A t \in Turns : Returns(t) => LeavesWorkspace(t)
  BY DEF WorkspaceKept
<1>2. /\ Cleaned /\ "overlap" \notin history
      /\ \A t \in Turns : ~aborted[t]
      /\ Unstained \cap history' = {}
  BY <1>1, UndisturbedStep, WithoutStep DEF Cleaned, Unstained
<1>3. "overlap" \notin history'
  BY <1>2, UndisturbedStep DEF Undisturbed, Unstained
<1>4. ASSUME NEW t \in Turns,
             BeginTurn(t) \/ Agent(t) \/ Tool(t) \/ Fail(t) \/ RecordThrows(t) \/ Abort(t)
      PROVE  /\ WorkspaceKept'
             /\ \A s \in Turns : Returns(s) => LeavesWorkspace(s)
  <2>1. Settles(t) /\ Moves(t) /\ \A s \in Turns : s # t => pub[s].at \in Resters
    BY <1>2, <1>3, <1>4, TurnSettles
  <2>2. ASSUME NEW s \in Turns, s # t
        PROVE  Placed(s)' /\ ~Returns(s)
    <3>1. pub'[s] = pub[s] /\ pub[s].at \in Resters
      BY <2>1, <2>2 DEF Moves
    <3>2. Placed(s)
      BY <1>2 DEF WorkspaceKept
    <3> QED BY <3>1, <3>2 DEF Placed, Uncommitted, Committed, OnItsBranch, Editing, Ending,
          Resters, Returns
  <2>3. MadeBefore' /\ Placed(t)' /\ (pub'[t].at \notin Staging => index' = Tip')
    BY <2>1 DEF Settles
  <2>4. ASSUME Returns(t)
        PROVE  LeavesWorkspace(t)
    BY <2>1, <2>4 DEF Settles, Returns, Staging, UpTo, LeavesWorkspace
  <2> QED BY <2>2, <2>3, <2>4 DEF WorkspaceKept
<1>5. CASE \/ \E r \in Readers : Refresh(r) \/ GiveUp(r)
           \/ \E n \in DOMAIN prs : Merge(n)
           \/ UNCHANGED vars
  <2>1. UNCHANGED <<pub, tree, index, head, fetched, onBranch, remote, made>>
    BY <1>5 DEF Refresh, ReadRow, Ask, Write, GiveUp, Merge, vars, repo
  <2>2. \A t \in Turns : ~Returns(t)
    BY <2>1 DEF Returns
  <2>3. WorkspaceKept'
    BY <1>2, <2>1 DEF WorkspaceKept, MadeBefore, UpTo, Tip, Placed
  <2> QED BY <2>2, <2>3
<1>6. ~Crash
  BY <1>2 DEF Crash, Mishap, Unstained
<1> QED BY <1>4, <1>5, <1>6 DEF Next

(***************************************************************************)
(* A publication that returns or throws has left nothing staged and its    *)
(* commit off the branch, as the diff of the message needs it: whichever   *)
(* command, call of GitHub or record has failed, but for a command that    *)
(* was cut off, a reset that failed, and the event that follows the push,  *)
(* for which publishPullRequest makes no reset.  github.ts,                *)
(* publishPullRequest and its recovery.                                    *)
(***************************************************************************)
THEOREM WorkspaceIsRestored == Spec => WorkspaceRestored
<1>1. Init => Typed /\ Serial /\ Lasting /\ Undisturbed /\ WorkspaceKept
  <2>1. SUFFICES ASSUME Init PROVE Undisturbed /\ WorkspaceKept
    BY InitTyped, InitSerial, InitLasts
  <2>2. /\ head = <<>> /\ fetched = <<>> /\ remote = <<>> /\ index = 0 /\ onBranch
        /\ \A t \in Turns : pub[t] = Resting("waiting")
    BY <2>1 DEF Init
  <2>3. Undisturbed
    BY <2>1 DEF Init, Undisturbed
  <2>4. MadeBefore /\ index = Tip
    BY <2>2 DEF MadeBefore, UpTo, Tip, Content
  <2>5. \A t \in Turns : Placed(t)
    BY <2>2 DEF Placed, Uncommitted, Committed, OnItsBranch, Editing, Ending, Resting
  <2> QED BY <2>3, <2>4, <2>5 DEF WorkspaceKept
<1>2. Typed /\ Serial /\ Lasting /\ Undisturbed /\ WorkspaceKept /\ [Next]_vars =>
        (Typed /\ Serial /\ Lasting /\ Undisturbed /\ WorkspaceKept)'
  BY NextKeeps, NextLasts, UndisturbedStep, WorkspaceStep
<1>3. Typed /\ Serial /\ Lasting /\ Undisturbed /\ WorkspaceKept /\ [Next]_vars =>
        [\A t \in Turns : Returns(t) /\ Without({"abort", "crash", "torn", "event"})' =>
           LeavesWorkspace(t)]_vars
  BY WorkspaceStep DEF Cleaned, Unstained
<1> QED BY <1>1, <1>2, <1>3, PTL DEF Spec, WorkspaceRestored
=============================================================================
