-------------------- MODULE PullRequestPublicationProofs --------------------
(***************************************************************************)
(* Theorems about PullRequestPublication, for any set of readers, any      *)
(* number of turns, edits, calls and mishaps.                              *)
(*                                                                         *)
(* The inductive invariant is Typed, which refines the type invariant so   *)
(* that it is inductive, and Serial: as long as no turn has overlapped     *)
(* what was left of an earlier one, at most one turn is under way, the     *)
(* turns begin in order, and between the two halves of the transaction of  *)
(* a first publication nothing becomes current behind its back.            *)
(***************************************************************************)
EXTENDS PullRequestPublication, BoundedSets, FiniteSetTheorems, TLAPS

TurnRecords ==
  [at : Labels, then : Labels, row : 0..Len(rows), existing : BOOLEAN,
   demotes : SUBSET DOMAIN rows, action : Actions, number : 0..Len(prs),
   state : States, before : Nat]

ReaderRecords ==
  [at : {"idle", "ask", "write"}, row : Nat,
   seen : Row \cup {[status |-> "creating"]}, state : States]

RepoTyped ==
  /\ tree \in Nat /\ index \in Nat /\ made \in Nat
  /\ head \in Seq(Commit) /\ fetched \in Seq(Commit) /\ remote \in Seq(Commit)
  /\ onBranch \in BOOLEAN

RowsTyped ==
  /\ prs \in Seq(States) /\ rows \in Seq(Row)
  /\ \A i \in DOMAIN rows : rows[i].number \in 0..Len(prs)

TurnsTyped ==
  /\ pub \in [Turns -> TurnRecords]
  /\ \A t \in Turns :
       /\ pub[t].then \notin {"call", "insert"}
       /\ pub[t].at = "call" => pub[t].number # 0
       /\ pub[t].then = "waiting" => pub[t].at = "waiting"

ReadersTyped ==
  /\ reader \in [Readers -> ReaderRecords]
  /\ \A r \in Readers : reader[r].at # "idle" =>
       /\ reader[r].row \in DOMAIN rows
       /\ reader[r].seen \in Row /\ reader[r].seen.number \in DOMAIN prs

BoundsTyped ==
  /\ calls \in Nat /\ mishaps \in Nat
  /\ aborted \in [Turns -> BOOLEAN]
  /\ history \subseteq Kinds

Typed == RepoTyped /\ RowsTyped /\ TurnsTyped /\ ReadersTyped /\ BoundsTyped

Resters == {"waiting", "ended"}
Serial ==
  /\ \A t \in Turns : aborted[t] => pub[t].at # "waiting"
  /\ \A s, t \in Turns : s < t /\ pub[s].at = "waiting" => pub[t].at = "waiting"
  /\ "overlap" \notin history =>
       /\ \A s, t \in Turns : s # t => pub[s].at \in Resters \/ pub[t].at \in Resters
       /\ \A t \in Turns : pub[t].at = "insert" => CurrentRows \subseteq pub[t].demotes
       /\ \A i, j \in CurrentRows : i = j

-----------------------------------------------------------------------------
(* Latest is a member: a nonempty set of row numbers has a greatest one. *)
LEMMA LatestIsMember ==
  ASSUME RowsTyped, NEW S, S \subseteq DOMAIN rows, S # {}
  PROVE  Latest(S) \in S
<1>1. Len(rows) \in Nat /\ DOMAIN rows = 1..Len(rows)
  BY DEF RowsTyped
<1>2. \E x \in S : \A y \in S : y <= x
  BY <1>1, Greatest
<1> QED BY <1>2 DEF Latest

-----------------------------------------------------------------------------
(* The Git commands keep the repository typed. *)

LEMMA ContentTyped ==
  ASSUME NEW s \in Seq(Commit)
  PROVE  Content(s) \in Nat
<1>1. CASE s = <<>>
  BY <1>1 DEF Content
<1>2. CASE s # <<>>
  <2>1. Len(s) \in 1..Len(s)
    BY <1>2
  <2>2. s[Len(s)] \in Commit
    BY <2>1
  <2> QED BY <1>2, <2>2 DEF Content, Last, Commit
<1> QED BY <1>1, <1>2

(* git reset --mixed keeps the repository typed. *)
LEMMA ResetTyped ==
  ASSUME RepoTyped, NEW s \in Seq(Commit), ResetMixed(s)
  PROVE  RepoTyped'
BY ContentTyped DEF RepoTyped, ResetMixed

(* So does git commit. *)
LEMMA CommitTyped ==
  ASSUME RepoTyped, CommitIndex
  PROVE  RepoTyped'
<1>1. [id |-> made + 1, tree |-> index] \in Commit
  BY DEF RepoTyped, Commit
<1>2. head' \in Seq(Commit)
  BY <1>1 DEF RepoTyped, CommitIndex
<1> QED BY <1>2 DEF RepoTyped, CommitIndex

(* So does every Git command. *)
LEMMA GitTyped ==
  ASSUME RepoTyped, NEW cmd, Git(cmd)
  PROVE  RepoTyped'
<1>1. CASE UNCHANGED repo
  BY <1>1 DEF RepoTyped, repo
<1>2. CASE CheckOut
  BY <1>2, ContentTyped DEF RepoTyped, CheckOut
<1>3. CASE Fetch
  BY <1>3 DEF RepoTyped, Fetch
<1>4. CASE ResetMixed(fetched)
  BY <1>4, ResetTyped DEF RepoTyped
<1>5. CASE StageAll
  BY <1>5 DEF RepoTyped, StageAll
<1>6. CASE ResetMixed(head)
  BY <1>6, ResetTyped DEF RepoTyped
<1>7. CASE CommitIndex
  BY <1>7, CommitTyped
<1>8. CASE Push
  BY <1>8 DEF RepoTyped, Push
<1>9. CASE head # <<>> /\ ResetMixed(Front(head))
  <2>1. Front(head) \in Seq(Commit)
    BY <1>9 DEF RepoTyped, Front
  <2> QED BY <1>9, <2>1, ResetTyped
<1> QED BY <1>1, <1>2, <1>3, <1>4, <1>5, <1>6, <1>7, <1>8, <1>9 DEF Git

-----------------------------------------------------------------------------
(* What a step of one turn's tool changes. *)

Moves(t) ==
  /\ \A s \in Turns : s # t => pub'[s] = pub[s]
  /\ pub'[t].at # "waiting"

(* Records stay typed when rows and pull requests are only added. *)
LEMMA RecordsGrow ==
  ASSUME RowsTyped, RowsTyped', Len(rows) <= Len(rows'), Len(prs) <= Len(prs')
  PROVE  TurnRecords \subseteq TurnRecords'
<1>1. /\ Len(rows) \in Nat /\ Len(rows') \in Nat
      /\ Len(prs) \in Nat /\ Len(prs') \in Nat
      /\ DOMAIN rows = 1..Len(rows) /\ DOMAIN rows' = 1..Len(rows')
  BY DEF RowsTyped
<1>2. /\ 0..Len(rows) \subseteq 0..Len(rows') /\ 0..Len(prs) \subseteq 0..Len(prs')
      /\ DOMAIN rows \subseteq DOMAIN rows'
  BY <1>1
<1>3. SUBSET DOMAIN rows \subseteq SUBSET DOMAIN rows'
  BY <1>2
<1> QED BY <1>2, <1>3 DEF TurnRecords

(* A turn that rests has a record of the type of turns. *)
LEMMA RestingTyped ==
  ASSUME RepoTyped, RowsTyped, NEW at \in {"waiting", "working", "ended"}
  PROVE  Resting(at) \in TurnRecords
<1>1. Len(rows) \in Nat /\ Len(prs) \in Nat
  BY DEF RowsTyped
<1>2. at \in Labels
  BY DEF Labels, RecordSteps
<1> QED BY <1>1, <1>2 DEF Resting, TurnRecords, RepoTyped, Actions, States

(* A turn goes on with a record that is typed, at a label, never waiting. *)
LEMMA GotoStep ==
  ASSUME Typed, RowsTyped', Len(rows) <= Len(rows'), Len(prs) <= Len(prs'),
         NEW t \in Turns, NEW p \in TurnRecords', NEW next \in Labels, next # "waiting",
         p.then \notin {"call", "insert", "waiting"},
         next = "call" => p.number # 0,
         Goto(t, p, next)
  PROVE  /\ TurnsTyped' /\ Moves(t)
         /\ pub'[t].at = "insert" => next = "insert" /\ pub'[t].demotes = p.demotes
<1> DEFINE to == IF aborted[t] /\ next \in Resets THEN p.then ELSE next
           q == IF aborted[t] /\ to \in GitSteps \cup {"working"} THEN Resting("ended")
                ELSE IF to = "working" THEN Resting("working")
                ELSE [p EXCEPT !.at = to]
<1>1. pub' = [pub EXCEPT ![t] = q]
  BY DEF Goto
<1>2. /\ to \in Labels /\ to # "waiting"
      /\ to = "insert" => next = "insert"
      /\ to = "call" => p.number # 0
  BY DEF TurnRecords
<1>3. TurnRecords \subseteq TurnRecords'
  BY RecordsGrow DEF Typed
<1>4. /\ Resting("ended") \in TurnRecords' /\ Resting("working") \in TurnRecords'
  BY <1>3, RestingTyped DEF Typed
<1>5. [p EXCEPT !.at = to] \in TurnRecords'
  BY <1>2 DEF TurnRecords
<1>6. q \in TurnRecords'
  BY <1>4, <1>5
<1>7. /\ q.then \notin {"call", "insert", "waiting"} /\ q.at # "waiting"
      /\ q.at = "call" => q.number # 0
      /\ q.at = "insert" => next = "insert" /\ q.demotes = p.demotes
  <2>1. CASE q \in {Resting("ended"), Resting("working")}
    BY <2>1 DEF Resting
  <2>2. CASE q = [p EXCEPT !.at = to]
    <3>1. q.at = to /\ q.then = p.then /\ q.number = p.number /\ q.demotes = p.demotes
      BY <2>2 DEF TurnRecords
    <3> QED BY <3>1, <1>2
  <2> QED BY <2>1, <2>2
<1> HIDE DEF q
<1>8. pub \in [Turns -> TurnRecords] /\ pub'[t] = q
  BY <1>1 DEF Typed, TurnsTyped
<1>9. TurnsTyped'
  <2>1. pub' \in [Turns -> TurnRecords']
    BY <1>1, <1>3, <1>6, <1>8
  <2>2. ASSUME NEW s \in Turns
        PROVE  /\ pub'[s].then \notin {"call", "insert"}
               /\ pub'[s].at = "call" => pub'[s].number # 0
               /\ pub'[s].then = "waiting" => pub'[s].at = "waiting"
    <3>1. CASE s = t
      BY <3>1, <1>7, <1>8
    <3>2. CASE s # t
      BY <3>2, <1>1, <1>8 DEF Typed, TurnsTyped
    <3> QED BY <3>1, <3>2
  <2> QED BY <2>1, <2>2 DEF TurnsTyped
<1>10. Moves(t)
  BY <1>1, <1>7, <1>8 DEF Moves
<1> QED BY <1>7, <1>8, <1>9, <1>10

(* What every step of a tool but the insertion of a row does. *)
Effect(t) ==
  /\ Typed' /\ Moves(t) /\ pub[t].at \notin Resters
  /\ aborted' = aborted /\ history \subseteq history'
  /\ CurrentRows' \subseteq CurrentRows
  /\ pub'[t].at = "insert" => CurrentRows \subseteq pub'[t].demotes

(* Readers stay typed when rows and pull requests are only added. *)
LEMMA ReadersKept ==
  ASSUME Typed, RowsTyped', Len(rows) <= Len(rows'), Len(prs) <= Len(prs'),
         UNCHANGED reader
  PROVE  ReadersTyped'
<1>1. /\ Len(rows) \in Nat /\ Len(rows') \in Nat /\ DOMAIN rows = 1..Len(rows)
      /\ Len(prs) \in Nat /\ Len(prs') \in Nat /\ DOMAIN prs = 1..Len(prs)
      /\ DOMAIN rows' = 1..Len(rows') /\ DOMAIN prs' = 1..Len(prs')
  BY DEF Typed, RowsTyped
<1>2. DOMAIN rows \subseteq DOMAIN rows' /\ DOMAIN prs \subseteq DOMAIN prs'
  BY <1>1
<1> QED BY <1>2 DEF Typed, ReadersTyped, ReaderRecords

(* The bounds and the history stay typed through a mishap. *)
LEMMA MishapTyped ==
  ASSUME BoundsTyped, NEW kinds, Mishap(kinds),
         kinds \subseteq Kinds
  PROVE  /\ mishaps' \in Nat /\ history \subseteq history'
         /\ history' \subseteq Kinds
BY DEF BoundsTyped, Mishap

(* The record of a turn, and that it stays typed when only rows are added. *)
LEMMA RecordTyped ==
  ASSUME Typed, NEW t \in Turns
  PROVE  /\ pub[t] \in TurnRecords
         /\ pub[t].then \notin {"call", "insert"}
         /\ pub[t].at = "call" => pub[t].number # 0
         /\ pub[t].then = "waiting" => pub[t].at = "waiting"
BY DEF Typed, TurnsTyped

(* The commands: the rows and GitHub stay as they are. *)
LEMMA CommandEffect ==
  ASSUME Typed, NEW t \in Turns, pub[t].at \in GitSteps,
         RepoTyped', UNCHANGED <<prs, rows, aborted, reader, calls>>,
         mishaps' \in Nat, history \subseteq history',
         history' \subseteq Kinds,
         NEW p \in {pub[t], [pub[t] EXCEPT !.then = "fail"]},
         NEW next \in Labels \ {"waiting", "insert", "call"},
         Goto(t, p, next)
  PROVE  Effect(t)
<1>1. pub[t] \in TurnRecords /\ pub[t].then \notin {"call", "insert", "waiting"}
  BY RecordTyped DEF GitSteps, Resets
<1>2. RowsTyped' /\ Len(rows') = Len(rows) /\ Len(prs') = Len(prs)
  BY DEF Typed, RowsTyped
<1>3. Len(rows) \in Nat /\ Len(prs) \in Nat
  BY DEF Typed, RowsTyped
<1>4. p \in TurnRecords' /\ p.then \notin {"call", "insert", "waiting"}
  <2>1. TurnRecords' = TurnRecords
    BY DEF TurnRecords
  <2>2. p \in TurnRecords /\ p.then \notin {"call", "insert", "waiting"}
    BY <1>1 DEF TurnRecords, Labels, RecordSteps
  <2> QED BY <2>1, <2>2
<1>5. /\ TurnsTyped' /\ Moves(t) /\ pub'[t].at # "insert"
  BY <1>2, <1>3, <1>4, GotoStep
<1>6. ReadersTyped'
  BY <1>2, <1>3, ReadersKept
<1>7. BoundsTyped'
  BY DEF Typed, BoundsTyped
<1>8. CurrentRows' = CurrentRows
  BY DEF CurrentRows
<1>9. pub[t].at \notin Resters
  BY DEF GitSteps, Resets, Resters
<1> QED BY <1>2, <1>5, <1>6, <1>7, <1>8, <1>9 DEF Effect, Typed

(* Where a command's success or failure leads. *)
LEMMA CommandLabels ==
  ASSUME NEW p, p.at \in GitSteps, p.then \in Labels \ {"waiting", "insert", "call"}
  PROVE  /\ OnSuccess(p) \in Labels \ {"waiting", "insert", "call"}
         /\ OnFailure(p) \in Labels \ {"waiting", "insert", "call"}
<1>1. p.at \in GitSteps \ Resets => After[p.at] \in Labels \ {"waiting", "insert", "call"}
  BY DEF GitSteps, Resets, After, Labels, RecordSteps
<1>2. p.at \in GitSteps \ Resets => Recovery[p.at] \in Labels \ {"waiting", "insert", "call"}
  BY DEF GitSteps, Resets, Recovery, Labels, RecordSteps
<1>3. {"checkout", "working"} \subseteq Labels \ {"waiting", "insert", "call"}
  BY DEF Labels, RecordSteps, GitSteps
<1> QED BY <1>1, <1>2, <1>3 DEF OnSuccess, OnFailure

(* A command that succeeds, refuses, fails or is thrown out is an Effect. *)
LEMMA CommandSteps ==
  ASSUME Typed, NEW t \in Turns, Succeed(t) \/ Refuse(t) \/ Throw(t) \/ Fail(t)
  PROVE  Effect(t)
<1>1. /\ pub[t] \in TurnRecords
      /\ pub[t].at \in GitSteps
      /\ pub[t].then \in Labels \ {"waiting", "insert", "call"}
  BY RecordTyped DEF Succeed, Refuse, Throw, Fail, GitSteps, Resets, TurnRecords
<1>2. /\ OnSuccess(pub[t]) \in Labels \ {"waiting", "insert", "call"}
      /\ OnFailure(pub[t]) \in Labels \ {"waiting", "insert", "call"}
      /\ pub[t].at \in Labels \ {"waiting", "insert", "call"}
  BY <1>1, CommandLabels DEF Labels, RecordSteps, GitSteps, Resets
<1>3. Failing(pub[t]) \in {pub[t], [pub[t] EXCEPT !.then = "fail"]}
  BY DEF Failing
<1>4. /\ RepoTyped /\ mishaps \in Nat
      /\ history \subseteq Kinds
  BY DEF Typed, BoundsTyped
<1>5. CASE Succeed(t)
  <2>1. RepoTyped'
    BY <1>4, <1>5, GitTyped DEF Succeed
  <2> QED BY <1>1, <1>2, <1>4, <1>5, <2>1, CommandEffect DEF Succeed, bounds
<1>6. CASE Refuse(t)
  <2>1. RepoTyped'
    BY <1>4, <1>6 DEF Refuse, repo, RepoTyped
  <2> QED BY <1>1, <1>2, <1>3, <1>4, <1>6, <2>1, CommandEffect DEF Refuse, bounds
<1>7. CASE Throw(t)
  <2>1. RepoTyped'
    BY <1>4, <1>7, GitTyped DEF Throw, repo, RepoTyped
  <2> QED BY <1>1, <1>2, <1>4, <1>7, <2>1, CommandEffect DEF Throw, bounds
<1>8. CASE Fail(t)
  <2>1. RepoTyped'
    BY <1>4, <1>8, GitTyped DEF Fail, repo, RepoTyped
  <2>2. /\ mishaps' \in Nat /\ history \subseteq history'
        /\ history' \subseteq Kinds
    BY <1>8, MishapTyped DEF Fail, Typed, Kinds
  <2> QED BY <1>1, <1>2, <1>3, <1>4, <1>8, <2>1, <2>2, CommandEffect DEF Fail
<1> QED BY <1>5, <1>6, <1>7, <1>8

-----------------------------------------------------------------------------
(* The steps at the database and on GitHub. *)

LEMMA RecordEffect ==
  ASSUME Typed, NEW t \in Turns, pub[t].at \notin Resters,
         UNCHANGED <<repo, aborted, reader>>,
         calls' \in Nat, mishaps' \in Nat, history \subseteq history',
         history' \subseteq Kinds,
         RowsTyped', Len(rows') = Len(rows), Len(prs) <= Len(prs'),
         CurrentRows' \subseteq CurrentRows,
         NEW p \in TurnRecords', p.then \notin {"call", "insert", "waiting"},
         NEW next \in Labels, next # "waiting", next = "call" => p.number # 0,
         next = "insert" => CurrentRows \subseteq p.demotes,
         Goto(t, p, next)
  PROVE  Effect(t)
<1>1. Len(rows) \in Nat /\ Len(rows') \in Nat
  BY DEF Typed, RowsTyped
<1>2. /\ TurnsTyped' /\ Moves(t)
      /\ pub'[t].at = "insert" => next = "insert" /\ pub'[t].demotes = p.demotes
  BY <1>1, GotoStep
<1>3. ReadersTyped'
  BY <1>1, ReadersKept
<1>4. BoundsTyped'
  BY DEF Typed, BoundsTyped
<1>5. RepoTyped'
  BY DEF Typed, RepoTyped, repo
<1> QED BY <1>2, <1>3, <1>4, <1>5 DEF Effect, Typed

(* Nothing but the turn has changed. *)
LEMMA OnlyTurn ==
  ASSUME Typed, UNCHANGED <<prs, rows>>
  PROVE  /\ RowsTyped' /\ Len(rows') = Len(rows) /\ Len(prs) <= Len(prs')
         /\ CurrentRows' \subseteq CurrentRows /\ TurnRecords' = TurnRecords
<1>1. Len(prs) \in Nat
  BY DEF Typed, RowsTyped
<1> QED BY <1>1 DEF Typed, RowsTyped, CurrentRows, TurnRecords

(* One row is rewritten, and does not become current. *)
LEMMA RowRewritten ==
  ASSUME Typed, UNCHANGED prs, NEW i, NEW r,
         i \in DOMAIN rows => /\ r \in Row /\ r.number \in 0..Len(prs)
                              /\ r.current => rows[i].current,
         rows' = [rows EXCEPT ![i] = r]
  PROVE  /\ RowsTyped' /\ Len(rows') = Len(rows) /\ Len(prs) <= Len(prs')
         /\ CurrentRows' \subseteq CurrentRows /\ TurnRecords' = TurnRecords
<1>1. rows \in Seq(Row) /\ Len(prs) \in Nat
  BY DEF Typed, RowsTyped
<1>2. rows' \in Seq(Row) /\ Len(rows') = Len(rows) /\ DOMAIN rows' = DOMAIN rows
  <2>1. Len(rows) \in Nat /\ rows \in [1..Len(rows) -> Row]
    BY <1>1
  <2>2. rows' \in [1..Len(rows) -> Row]
    BY <2>1
  <2> QED BY <2>1, <2>2
<1>3. \A j \in DOMAIN rows : rows'[j] = IF j = i THEN r ELSE rows[j]
  BY <1>1
<1>4. RowsTyped'
  BY <1>1, <1>2, <1>3 DEF Typed, RowsTyped
<1>5. CurrentRows' \subseteq CurrentRows
  BY <1>2, <1>3 DEF CurrentRows
<1>6. TurnRecords' = TurnRecords
  BY <1>2 DEF TurnRecords
<1> QED BY <1>1, <1>2, <1>4, <1>5, <1>6

(* Finding the current row is an Effect. *)
LEMMA FindCurrentStep ==
  ASSUME Typed, NEW t \in Turns, FindCurrent(t)
  PROVE  Effect(t)
<1> DEFINE i == Latest(CurrentRows)
           found == CurrentRows # {} /\ rows[i].number # 0
           p == [pub[t] EXCEPT !.row = IF found THEN i ELSE 0, !.existing = found,
                               !.number = IF found THEN rows[i].number ELSE 0]
           next == IF found THEN "fetch" ELSE "demote"
<1>1. pub[t] \in TurnRecords /\ pub[t].at = "find" /\ pub[t].then \notin {"call", "insert", "waiting"}
  BY RecordTyped DEF FindCurrent
<1>2. found => i \in DOMAIN rows
  BY LatestIsMember DEF CurrentRows, Typed
<1>3. DOMAIN rows = 1..Len(rows) /\ Len(rows) \in Nat /\ Len(prs) \in Nat
  BY DEF Typed, RowsTyped
<1>4. (IF found THEN i ELSE 0) \in 0..Len(rows)
  BY <1>2, <1>3
<1>5. (IF found THEN rows[i].number ELSE 0) \in 0..Len(prs)
  BY <1>2, <1>3 DEF Typed, RowsTyped
<1>6. found \in BOOLEAN
  OBVIOUS
<1>7. Goto(t, p, next) /\ next \in Labels /\ next \notin {"waiting", "call", "insert"}
  BY DEF FindCurrent, Labels, RecordSteps, GitSteps
<1> HIDE DEF found, i, next
<1>8. p \in TurnRecords /\ p.then = pub[t].then
  BY <1>1, <1>4, <1>5, <1>6 DEF TurnRecords
<1>9. UNCHANGED <<repo, prs, rows, aborted, reader, bounds, history>> /\ pub[t].at \notin Resters
  BY <1>1 DEF FindCurrent, Resters
<1>10. calls' \in Nat /\ mishaps' \in Nat /\ history' = history
       /\ history \subseteq Kinds
  BY <1>9 DEF Typed, BoundsTyped, bounds
<1> HIDE DEF p
<1> QED BY <1>1, <1>7, <1>8, <1>9, <1>10, OnlyTurn, RecordEffect

(* The update that demotes is an Effect: it will demote all current rows. *)
LEMMA DemoteStep ==
  ASSUME Typed, NEW t \in Turns, Demote(t)
  PROVE  Effect(t)
<1> DEFINE p == [pub[t] EXCEPT !.demotes = CurrentRows]
<1>1. pub[t] \in TurnRecords /\ pub[t].at = "demote" /\ pub[t].then \notin {"call", "insert", "waiting"}
  BY RecordTyped DEF Demote
<1>2. CurrentRows \in SUBSET DOMAIN rows
  BY DEF CurrentRows
<1>3. p \in TurnRecords /\ p.then = pub[t].then /\ p.demotes = CurrentRows
  BY <1>1, <1>2 DEF TurnRecords
<1>4. Goto(t, p, "insert") /\ "insert" \in Labels
  BY DEF Demote, Labels, RecordSteps
<1>5. UNCHANGED <<repo, prs, rows, aborted, reader, bounds, history>> /\ pub[t].at \notin Resters
  BY <1>1 DEF Demote, Resters
<1>6. calls' \in Nat /\ mishaps' \in Nat /\ history' = history
       /\ history \subseteq Kinds
  BY <1>5 DEF Typed, BoundsTyped, bounds
<1> HIDE DEF p
<1> QED BY <1>1, <1>3, <1>4, <1>5, <1>6, OnlyTurn, RecordEffect

(* Appending pull_request_branch_pushed is an Effect. *)
LEMMA AppendPushedStep ==
  ASSUME Typed, NEW t \in Turns, AppendPushed(t)
  PROVE  Effect(t)
<1>1. pub[t] \in TurnRecords /\ pub[t].at = "event" /\ pub[t].then \notin {"call", "insert", "waiting"}
  BY RecordTyped DEF AppendPushed
<1>2. UNCHANGED <<repo, prs, rows, aborted, reader, bounds, history>> /\ pub[t].at \notin Resters
  BY <1>1 DEF AppendPushed, Resters
<1>3. /\ calls' \in Nat /\ mishaps' \in Nat /\ history \subseteq history'
      /\ history' \subseteq Kinds
  BY <1>2 DEF Typed, BoundsTyped, bounds
<1>4. PICK next \in {"target", "open"} : Goto(t, pub[t], next)
  BY DEF AppendPushed
<1>5. next \in Labels
  BY DEF Labels, RecordSteps
<1> QED BY <1>1, <1>2, <1>3, <1>4, <1>5, OnlyTurn, RecordEffect

(* What the counters and the kinds of mishap are when only one is counted. *)
LEMMA Unbound ==
  ASSUME Typed, UNCHANGED <<bounds, history>>
  PROVE  /\ calls' \in Nat /\ mishaps' \in Nat /\ history \subseteq history'
         /\ history' \subseteq Kinds
BY DEF Typed, BoundsTyped, bounds

(* The turn itself while it is neither waiting, working nor over. *)
LEMMA Busy ==
  ASSUME Typed, NEW t \in Turns,
         pub[t].at \in {"persist", "fail", "save", "saveFailure", "open", "target", "call"}
  PROVE  /\ pub[t] \in TurnRecords /\ pub[t].at \notin Resters
         /\ pub[t].then \notin {"call", "insert", "waiting"}
         /\ pub[t].number \in 0..Len(prs) /\ Len(prs) \in Nat
         /\ pub[t].number \in Nat
         /\ {"undo", "working", "call", "save", "saveFailure"} \subseteq Labels
<1>1. pub[t] \in TurnRecords /\ pub[t].then \notin {"call", "insert", "waiting"}
  BY RecordTyped
<1>2. Len(prs) \in Nat
  BY DEF Typed, RowsTyped
<1>3. pub[t].number \in 0..Len(prs)
  BY <1>1 DEF TurnRecords
<1> QED BY <1>1, <1>2, <1>3 DEF Resters, Labels, RecordSteps, GitSteps, Resets

(* Persisting the created pull request is an Effect. *)
LEMMA PersistStep ==
  ASSUME Typed, NEW t \in Turns, Persist(t)
  PROVE  Effect(t)
<1> DEFINE i == pub[t].row
           r == [rows[i] EXCEPT !.number = pub[t].number, !.status = "open",
                                !.failure = FALSE]
<1>1. rows' = [rows EXCEPT ![i] = r]
  BY DEF Persist
<1>2. i \in DOMAIN rows => /\ r \in Row /\ r.number \in 0..Len(prs)
                           /\ r.current => rows[i].current
  <2>1. i \in DOMAIN rows => rows[i] \in Row
    BY DEF Typed, RowsTyped
  <2> QED BY <2>1, Busy DEF Persist, Row, States
<1> HIDE DEF i, r
<1>3. UNCHANGED <<repo, prs, aborted, reader, bounds, history>> /\ Goto(t, pub[t], "working")
  BY DEF Persist
<1>4. /\ RowsTyped' /\ Len(rows') = Len(rows) /\ Len(prs) <= Len(prs')
      /\ CurrentRows' \subseteq CurrentRows /\ TurnRecords' = TurnRecords
  BY <1>1, <1>2, <1>3, RowRewritten
<1>5. pub[t].at = "persist"
  BY DEF Persist
<1> QED BY <1>3, <1>4, <1>5, Busy, Unbound, RecordEffect

(* Persisting a failed publication is an Effect. *)
LEMMA PersistFailureStep ==
  ASSUME Typed, NEW t \in Turns, PersistFailure(t)
  PROVE  Effect(t)
<1> DEFINE i == pub[t].row
           r == IF pub[t].existing THEN [rows[i] EXCEPT !.failure = TRUE] ELSE Failed
<1>1. rows' = [rows EXCEPT ![i] = r]
  BY DEF PersistFailure
<1>2. i \in DOMAIN rows => /\ r \in Row /\ r.number \in 0..Len(prs)
                           /\ r.current => rows[i].current
  <2>1. i \in DOMAIN rows => rows[i] \in Row /\ rows[i].number \in 0..Len(prs)
    BY DEF Typed, RowsTyped
  <2>2. Len(prs) \in Nat
    BY DEF Typed, RowsTyped
  <2>3. Failed \in Row /\ Failed.number \in 0..Len(prs) /\ ~Failed.current
    BY <2>2 DEF Row, Failed
  <2>4. i \in DOMAIN rows => LET q == [rows[i] EXCEPT !.failure = TRUE]
                            IN q \in Row /\ q.number = rows[i].number /\ q.current = rows[i].current
    BY <2>1 DEF Row
  <2> QED BY <2>1, <2>3, <2>4
<1> HIDE DEF i, r
<1>3. /\ UNCHANGED <<repo, prs, aborted, reader, bounds, history>>
      /\ Goto(t, pub[t], "working") /\ pub[t].at = "fail"
  BY DEF PersistFailure
<1>4. /\ RowsTyped' /\ Len(rows') = Len(rows) /\ Len(prs) <= Len(prs')
      /\ CurrentRows' \subseteq CurrentRows /\ TurnRecords' = TurnRecords
  BY <1>1, <1>2, <1>3, RowRewritten
<1> QED BY <1>3, <1>4, Busy, Unbound, RecordEffect

(* Finish leaves the tool by its last reset, or at once. *)
LEMMA FinishEffect ==
  ASSUME Typed, NEW t \in Turns,
         pub[t].at \in {"save", "saveFailure", "target"},
         UNCHANGED <<repo, prs, aborted, reader>>,
         calls' \in Nat, mishaps' \in Nat, history \subseteq history',
         history' \subseteq Kinds,
         RowsTyped', Len(rows') = Len(rows), Len(prs) <= Len(prs'),
         CurrentRows' \subseteq CurrentRows, TurnRecords' = TurnRecords,
         Finish(t, pub[t])
  PROVE  Effect(t)
<1> DEFINE p == [pub[t] EXCEPT !.then = "working"]
           next == IF pub[t].action = "publish" THEN "undo" ELSE "working"
<1>1. Goto(t, p, next)
  BY DEF Finish
<1>2. pub[t] \in TurnRecords /\ {"undo", "working"} \subseteq Labels /\ pub[t].at \notin Resters
  BY Busy
<1>3. p \in TurnRecords /\ p.then = "working"
  BY <1>2 DEF TurnRecords
<1>4. next \in Labels /\ next \notin {"waiting", "call", "insert"}
  BY <1>2
<1> HIDE DEF p, next
<1> QED BY <1>1, <1>2, <1>3, <1>4, RecordEffect

(* Saving what a tool has done on GitHub is an Effect. *)
LEMMA SaveStep ==
  ASSUME Typed, NEW t \in Turns, Save(t)
  PROVE  Effect(t)
<1> DEFINE i == pub[t].row
           status == IF pub[t].action = "close" THEN "closed"
                     ELSE IF pub[t].action = "reopen" THEN "open"
                     ELSE IF pub[t].action = "comment" THEN rows[i].status ELSE pub[t].state
           r == [rows[i] EXCEPT !.failure = FALSE, !.status = status]
<1>1. rows' = [rows EXCEPT ![i] = r]
  BY DEF Save
<1>2. /\ UNCHANGED <<repo, prs, aborted, reader, bounds, history>>
      /\ Finish(t, pub[t]) /\ pub[t].at = "save"
  BY DEF Save
<1>3. i \in DOMAIN rows => /\ r \in Row /\ r.number \in 0..Len(prs)
                           /\ r.current => rows[i].current
  <2>1. i \in DOMAIN rows => rows[i] \in Row /\ rows[i].number \in 0..Len(prs)
    BY DEF Typed, RowsTyped
  <2>2. pub[t].state \in States
    BY <1>2, Busy DEF TurnRecords
  <2>3. i \in DOMAIN rows => status \in States \cup {"creating", "failed"}
    BY <2>1, <2>2 DEF States, Row
  <2> HIDE DEF status
  <2> QED BY <2>1, <2>3 DEF Row
<1> HIDE DEF i, r
<1>4. /\ RowsTyped' /\ Len(rows') = Len(rows) /\ Len(prs) <= Len(prs')
      /\ CurrentRows' \subseteq CurrentRows /\ TurnRecords' = TurnRecords
  BY <1>1, <1>2, <1>3, RowRewritten
<1> QED BY <1>2, <1>4, Unbound, FinishEffect

(* Saving that a tool has failed is an Effect. *)
LEMMA SaveFailureStep ==
  ASSUME Typed, NEW t \in Turns, SaveFailure(t)
  PROVE  Effect(t)
<1> DEFINE i == pub[t].row
           r == [rows[i] EXCEPT !.failure = TRUE]
<1>1. rows' = [rows EXCEPT ![i] = r]
  BY DEF SaveFailure
<1>2. /\ UNCHANGED <<repo, prs, aborted, reader, bounds, history>>
      /\ Finish(t, pub[t]) /\ pub[t].at = "saveFailure"
  BY DEF SaveFailure
<1>3. i \in DOMAIN rows => /\ r \in Row /\ r.number \in 0..Len(prs)
                           /\ r.current => rows[i].current
  <2>1. i \in DOMAIN rows => rows[i] \in Row /\ rows[i].number \in 0..Len(prs)
    BY DEF Typed, RowsTyped
  <2> QED BY <2>1 DEF Row
<1> HIDE DEF i, r
<1>4. /\ RowsTyped' /\ Len(rows') = Len(rows) /\ Len(prs) <= Len(prs')
      /\ CurrentRows' \subseteq CurrentRows /\ TurnRecords' = TurnRecords
  BY <1>1, <1>2, <1>3, RowRewritten
<1> QED BY <1>2, <1>4, Unbound, FinishEffect

(* Finding the row of a tool call is an Effect. *)
LEMMA TargetStep ==
  ASSUME Typed, NEW t \in Turns, Target(t)
  PROVE  Effect(t)
<1> DEFINE matches == IF pub[t].number # 0
                      THEN {i \in DOMAIN rows : rows[i].number = pub[t].number}
                      ELSE {i \in CurrentRows : i = Latest(CurrentRows) /\ rows[i].number # 0}
           j == Latest(matches)
           p == [pub[t] EXCEPT !.row = j, !.number = rows[j].number]
<1>1. pub[t].at = "target" /\ UNCHANGED <<repo, prs, rows, aborted, reader, bounds, history>>
  BY DEF Target
<1>2. CASE matches = {}
  <2>1. Finish(t, pub[t])
    BY <1>2 DEF Target
  <2> QED BY <1>1, <2>1, OnlyTurn, Unbound, FinishEffect
<1>3. CASE matches # {}
  <2>1. matches \subseteq {i \in DOMAIN rows : rows[i].number # 0}
    BY DEF CurrentRows
  <2>2. Goto(t, p, "call")
    BY <1>3 DEF Target
  <2> HIDE DEF matches
  <2>3. j \in matches
    BY <1>3, <2>1, LatestIsMember DEF Typed
  <2>4. j \in DOMAIN rows /\ rows[j].number # 0 /\ rows[j].number \in 0..Len(prs)
    BY <2>1, <2>3 DEF Typed, RowsTyped
  <2>5. j \in 0..Len(rows)
    BY <2>4 DEF Typed, RowsTyped
  <2> HIDE DEF j
  <2>6. pub[t] \in TurnRecords /\ pub[t].then \notin {"call", "insert", "waiting"}
        /\ "call" \in Labels /\ pub[t].at \notin Resters
    BY <1>1, Busy
  <2>7. p \in TurnRecords /\ p.then = pub[t].then /\ p.number # 0
    BY <2>4, <2>5, <2>6 DEF TurnRecords
  <2> HIDE DEF p
  <2> QED BY <1>1, <2>2, <2>6, <2>7, OnlyTurn, Unbound, RecordEffect
<1> QED BY <1>2, <1>3

(* A record that throws changes nothing but the turn, and is an Effect. *)
LEMMA RecordThrowsStep ==
  ASSUME Typed, NEW t \in Turns, RecordThrows(t)
  PROVE  Effect(t)
<1>1. /\ pub[t] \in TurnRecords /\ pub[t].at \in RecordSteps
      /\ pub[t].then \notin {"call", "insert", "waiting"}
  BY RecordTyped DEF RecordThrows, RecordSteps
<1>2. UNCHANGED <<repo, prs, rows, aborted, reader, calls>> /\ pub[t].at \notin Resters
  BY <1>1 DEF RecordThrows, RecordSteps, Resters
<1>3. /\ calls' \in Nat /\ mishaps' \in Nat /\ history \subseteq history'
      /\ history' \subseteq Kinds
  <2>1. Mishap({pub[t].at}) /\ {pub[t].at} \subseteq Kinds
    BY <1>1 DEF RecordThrows, Kinds
  <2> QED BY <1>2, <2>1, MishapTyped DEF Typed, BoundsTyped
<1>4. CASE pub[t].at \in {"target", "save", "saveFailure"}
  <2>1. Finish(t, pub[t])
    BY <1>4 DEF RecordThrows
  <2> QED BY <1>2, <1>3, <1>4, <2>1, OnlyTurn, FinishEffect
<1>5. CASE pub[t].at \notin {"target", "save", "saveFailure"}
  <2>1. Goto(t, pub[t], "working") /\ "working" \in Labels
    BY <1>5 DEF RecordThrows, Labels
  <2> QED BY <1>1, <1>2, <1>3, <2>1, OnlyTurn, RecordEffect
<1> QED BY <1>4, <1>5

(* GitHub's pull requests change; none disappears. *)
LEMMA PullRequestsGrow ==
  ASSUME Typed, UNCHANGED rows, prs' \in Seq(States), Len(prs) <= Len(prs')
  PROVE  /\ RowsTyped' /\ Len(rows') = Len(rows)
         /\ CurrentRows' \subseteq CurrentRows /\ TurnRecords \subseteq TurnRecords'
<1>1. Len(prs) \in Nat /\ Len(prs') \in Nat /\ Len(rows) \in Nat
  BY DEF Typed, RowsTyped
<1>2. 0..Len(prs) \subseteq 0..Len(prs')
  BY <1>1
<1>3. RowsTyped'
  BY <1>2 DEF Typed, RowsTyped
<1>4. TurnRecords \subseteq TurnRecords'
  BY <1>1, <1>3, RecordsGrow DEF Typed
<1> QED BY <1>3, <1>4 DEF CurrentRows

(* Opening the pull request on GitHub is an Effect. *)
LEMMA OpenStep ==
  ASSUME Typed, NEW t \in Turns, Open(t)
  PROVE  Effect(t)
<1> DEFINE good == [pub[t] EXCEPT !.then = "persist", !.number = Len(prs) + 1]
           bad == [pub[t] EXCEPT !.then = "fail", !.number = 0]
<1>1. /\ pub[t].at = "open"
      /\ UNCHANGED <<repo, rows, aborted, reader, calls>>
  BY DEF Open
<1>2. /\ pub[t] \in TurnRecords /\ pub[t].at \notin Resters /\ "undo" \in Labels
      /\ Len(prs) \in Nat /\ prs \in Seq(States)
  BY <1>1, Busy DEF Typed, RowsTyped
<1>3. \/ prs' = Append(prs, "open") /\ Goto(t, good, "undo")
      \/ prs' \in {prs, Append(prs, "open")} /\ Goto(t, bad, "undo")
  BY DEF Open
<1>4. /\ calls' \in Nat /\ mishaps' \in Nat /\ history \subseteq history'
      /\ history' \subseteq Kinds
  <2>1. CASE UNCHANGED <<mishaps, history>>
    BY <2>1, <1>1 DEF Typed, BoundsTyped
  <2>2. CASE Mishap({})
    BY <2>2, <1>1, MishapTyped DEF Typed, BoundsTyped
  <2>3. CASE Mishap({"unheard"})
    BY <2>3, <1>1, MishapTyped DEF Typed, BoundsTyped, Kinds
  <2> QED BY <2>1, <2>2, <2>3 DEF Open
<1>5. /\ prs' \in Seq(States) /\ Len(prs) <= Len(prs')
      /\ prs' = Append(prs, "open") => Len(prs') = Len(prs) + 1
  <2>1. CASE prs' = prs
    <3>1. Len(Append(prs, "open")) = Len(prs) + 1
      BY <1>2
    <3> QED BY <2>1, <1>2, <3>1
  <2>2. CASE prs' = Append(prs, "open")
    BY <2>2, <1>2 DEF States
  <2> QED BY <1>3, <2>1, <2>2
<1>6. /\ RowsTyped' /\ Len(rows') = Len(rows)
      /\ CurrentRows' \subseteq CurrentRows /\ TurnRecords \subseteq TurnRecords'
  BY <1>1, <1>5, PullRequestsGrow
<1>7. "persist" \in Labels /\ "fail" \in Labels
  BY DEF Labels, RecordSteps
<1>8. pub[t] \in TurnRecords' /\ Len(prs') \in Nat
  BY <1>2, <1>5, <1>6
<1>9. CASE prs' = Append(prs, "open") /\ Goto(t, good, "undo")
  <2>1. Len(prs) + 1 \in 0..Len(prs')
    BY <1>2, <1>5, <1>9
  <2>2. good \in TurnRecords' /\ good.then = "persist"
    BY <2>1, <1>7, <1>8 DEF TurnRecords
  <2> HIDE DEF good
  <2> QED BY <1>1, <1>2, <1>4, <1>5, <1>6, <1>9, <2>2, RecordEffect
<1>10. CASE Goto(t, bad, "undo")
  <2>0. 0 \in 0..Len(prs')
    BY <1>8
  <2>1. bad \in TurnRecords' /\ bad.then = "fail"
    BY <2>0, <1>7, <1>8 DEF TurnRecords
  <2> HIDE DEF bad
  <2> QED BY <1>1, <1>2, <1>4, <1>5, <1>6, <1>10, <2>1, RecordEffect
<1> QED BY <1>3, <1>9, <1>10

(* A call of GitHub for a row that has a pull request is an Effect. *)
LEMMA CallStep ==
  ASSUME Typed, NEW t \in Turns, Call(t)
  PROVE  Effect(t)
<1> DEFINE n == pub[t].number
           state == Becomes(pub[t].action, prs[n])
           q == [pub[t] EXCEPT !.state = state]
<1>1. /\ pub[t].at = "call"
      /\ UNCHANGED <<repo, rows, aborted, reader, calls>>
  BY DEF Call
<1>2. /\ pub[t] \in TurnRecords /\ pub[t].at \notin Resters
      /\ pub[t].then \notin {"call", "insert", "waiting"}
      /\ {"save", "saveFailure"} \subseteq Labels
      /\ Len(prs) \in Nat /\ prs \in Seq(States)
  BY <1>1, Busy DEF Typed, RowsTyped
<1>3. n \in DOMAIN prs
  BY <1>1, <1>2, Busy, RecordTyped
<1>4. state \in States
  BY <1>2, <1>3 DEF Becomes, States
<1>5. \/ Goto(t, q, "save") \/ Goto(t, pub[t], "saveFailure")
  BY DEF Call
<1>6. prs' \in {prs, [prs EXCEPT ![n] = state]}
  BY DEF Call
<1>7. /\ calls' \in Nat /\ mishaps' \in Nat /\ history \subseteq history'
      /\ history' \subseteq Kinds
  <2>1. CASE UNCHANGED <<mishaps, history>>
    BY <2>1, <1>1 DEF Typed, BoundsTyped
  <2>2. CASE Mishap({})
    BY <2>2, <1>1, MishapTyped DEF Typed, BoundsTyped
  <2> QED BY <2>1, <2>2 DEF Call
<1> HIDE DEF state, n
<1>8. prs' \in Seq(States) /\ Len(prs) <= Len(prs')
  BY <1>2, <1>3, <1>4, <1>6
<1>9. /\ RowsTyped' /\ Len(rows') = Len(rows)
      /\ CurrentRows' \subseteq CurrentRows /\ TurnRecords \subseteq TurnRecords'
  BY <1>1, <1>8, PullRequestsGrow
<1>10. q \in TurnRecords /\ q.then = pub[t].then
  BY <1>2, <1>4 DEF TurnRecords
<1> HIDE DEF q
<1> QED BY <1>1, <1>2, <1>5, <1>7, <1>8, <1>9, <1>10, RecordEffect

(* The call of a tool is an Effect. *)
LEMMA CallToolStep ==
  ASSUME Typed, NEW t \in Turns, NEW action \in Actions, CallTool(t, action)
  PROVE  Effect(t)
<1> DEFINE p == [Resting("working") EXCEPT !.action = action]
           next == IF action = "publish" THEN "branch" ELSE "target"
<1>1. /\ pub[t].at = "working" /\ calls' = calls + 1 /\ Goto(t, p, next)
      /\ UNCHANGED <<repo, prs, rows, aborted, reader, mishaps, history>>
  BY DEF CallTool
<1>2. p \in TurnRecords /\ p.then = "working"
  <2>1. Resting("working") \in TurnRecords
    BY RestingTyped DEF Typed
  <2>2. Resting("working").then = "working"
    BY DEF Resting
  <2> QED BY <2>1, <2>2 DEF TurnRecords
<1>3. next \in Labels /\ next \notin {"waiting", "call", "insert"}
  BY DEF Labels, RecordSteps, GitSteps
<1>4. pub[t].at \notin Resters
  BY <1>1 DEF Resters
<1>5. /\ calls' \in Nat /\ mishaps' \in Nat /\ history' = history
      /\ history \subseteq Kinds
  BY <1>1 DEF Typed, BoundsTyped
<1> HIDE DEF p, next
<1> QED BY <1>1, <1>2, <1>3, <1>4, <1>5, OnlyTurn, RecordEffect

(* Editing files and ending a turn. *)
LEMMA WorkSteps ==
  ASSUME Typed, NEW t \in Turns, Edit(t) \/ Leave(t) \/ EndTurn(t)
  PROVE  Effect(t)
<1>1. pub[t].at = "working" /\ UNCHANGED <<prs, rows, aborted, reader, bounds, history>>
  BY DEF Edit, Leave, EndTurn
<1>2. RepoTyped'
  <2>1. CASE Edit(t)
    BY <2>1 DEF Edit, Typed, RepoTyped
  <2>2. CASE Leave(t)
    BY <2>2 DEF Leave, Typed, RepoTyped
  <2>3. CASE EndTurn(t)
    BY <2>3 DEF EndTurn, Typed, RepoTyped, repo
  <2> QED BY <2>1, <2>2, <2>3
<1>3. RowsTyped' /\ CurrentRows' = CurrentRows /\ TurnRecords' = TurnRecords
  BY <1>1 DEF Typed, RowsTyped, CurrentRows, TurnRecords
<1>4. ReadersTyped' /\ BoundsTyped'
  BY <1>1 DEF Typed, ReadersTyped, ReaderRecords, BoundsTyped, bounds
<1>5. pub \in [Turns -> TurnRecords] /\ pub' \in {pub, [pub EXCEPT ![t] = Resting("ended")]}
  BY DEF Edit, Leave, EndTurn, Typed, TurnsTyped
<1>6. /\ Resting("ended") \in TurnRecords /\ Resting("ended").at = "ended"
      /\ Resting("ended").then = "ended"
  BY RestingTyped DEF Typed, Resting
<1>7. TurnsTyped'
  BY <1>3, <1>5, <1>6 DEF Typed, TurnsTyped
<1>8. Moves(t) /\ pub'[t].at # "insert"
  BY <1>1, <1>5, <1>6 DEF Moves
<1> QED BY <1>1, <1>2, <1>3, <1>4, <1>7, <1>8 DEF Effect, Typed, Resters

(* All steps of a turn with its tools are Effects, the insertion excepted. *)
LEMMA ToolEffect ==
  ASSUME Typed, NEW t \in Turns,
         Tool(t) \/ Fail(t) \/ RecordThrows(t) \/ Agent(t), ~Insert(t)
  PROVE  Effect(t)
BY CommandSteps, FindCurrentStep, DemoteStep, AppendPushedStep, PersistStep,
   PersistFailureStep, SaveStep, SaveFailureStep, OpenStep, TargetStep, CallStep,
   RecordThrowsStep, CallToolStep, WorkSteps
   DEF Tool, Command, Record, OnGitHub, Agent

-----------------------------------------------------------------------------
(* The steps that are left: each with what it does to the rows. *)

LEMMA InsertStep ==
  ASSUME Typed, NEW t \in Turns, Insert(t)
  PROVE  /\ Typed' /\ Moves(t) /\ pub[t].at = "insert" /\ pub'[t].at # "insert"
         /\ aborted' = aborted /\ history' = history
         /\ CurrentRows' = {Len(rows) + 1} \cup (CurrentRows \ pub[t].demotes)
<1> DEFINE n == Len(rows)
           kept == [i \in DOMAIN rows |->
                      IF i \in pub[t].demotes THEN [rows[i] EXCEPT !.current = FALSE]
                      ELSE rows[i]]
           p == [pub[t] EXCEPT !.row = n + 1, !.demotes = {}]
<1>1. /\ pub[t].at = "insert" /\ rows' = Append(kept, NoRow) /\ Goto(t, p, "add")
      /\ UNCHANGED <<repo, prs, aborted, reader, bounds, history>>
  BY DEF Insert
<1>2. /\ pub[t] \in TurnRecords /\ pub[t].then \notin {"call", "insert", "waiting"}
      /\ "add" \in Labels
  BY <1>1, RecordTyped DEF Labels, RecordSteps, GitSteps
<1>3. /\ n \in Nat /\ rows \in [1..n -> Row] /\ Len(prs) \in Nat /\ prs \in Seq(States)
      /\ \A i \in 1..n : rows[i].number \in 0..Len(prs)
  BY DEF Typed, RowsTyped
<1>4. NoRow \in Row /\ NoRow.number \in 0..Len(prs) /\ NoRow.current
  BY <1>3 DEF NoRow, Row
<1>5. \A i \in 1..n : /\ kept[i] \in Row /\ kept[i].number = rows[i].number
                      /\ kept[i].current <=> rows[i].current /\ i \notin pub[t].demotes
  BY <1>3 DEF Row
<1>6. kept \in Seq(Row) /\ Len(kept) = n
  <2>1. DOMAIN kept = 1..n
    BY <1>3
  <2>2. kept \in [1..n -> Row]
    BY <1>5, <2>1
  <2> HIDE DEF kept
  <2> QED BY <1>3, <2>2
<1> HIDE DEF kept, n
<1>7. /\ rows' \in Seq(Row) /\ Len(rows') = n + 1 /\ DOMAIN rows' = 1..(n + 1)
      /\ rows'[n + 1] = NoRow
      /\ \A i \in 1..n : rows'[i] = kept[i]
  BY <1>1, <1>3, <1>4, <1>6
<1>8. RowsTyped'
  <2>1. ASSUME NEW i \in 1..(n + 1) PROVE rows'[i].number \in 0..Len(prs)
    <3>1. i = n + 1 \/ i \in 1..n
      BY <1>3
    <3> QED BY <3>1, <1>3, <1>4, <1>5, <1>7
  <2> QED BY <1>1, <1>3, <1>7, <2>1 DEF RowsTyped
<1>9. Len(rows) <= Len(rows') /\ Len(prs) <= Len(prs')
  BY <1>1, <1>3, <1>7 DEF n
<1>10. TurnRecords \subseteq TurnRecords'
  BY <1>8, <1>9, RecordsGrow DEF Typed
<1>11. /\ p \in TurnRecords' /\ p.then = pub[t].then
  <2>1. pub[t] \in TurnRecords' /\ n + 1 \in 0..Len(rows') /\ {} \in SUBSET DOMAIN rows'
    BY <1>2, <1>3, <1>7, <1>10
  <2> QED BY <2>1 DEF TurnRecords
<1> HIDE DEF p
<1>12. TurnsTyped' /\ Moves(t) /\ pub'[t].at # "insert"
  BY <1>1, <1>2, <1>8, <1>9, <1>11, GotoStep
<1>13. ReadersTyped' /\ BoundsTyped' /\ RepoTyped'
  <2>1. ReadersTyped'
    BY <1>1, <1>8, <1>9, ReadersKept
  <2> QED BY <1>1, <2>1 DEF Typed, BoundsTyped, RepoTyped, repo, bounds
<1>14. CurrentRows' = {n + 1} \cup (CurrentRows \ pub[t].demotes)
  <2>1. \A i : i \in 1..(n + 1) <=> i = n + 1 \/ i \in 1..n
    BY <1>3
  <2>2. DOMAIN rows = 1..n
    BY <1>3
  <2>3. ASSUME NEW i
        PROVE  i \in CurrentRows' <=> i \in {n + 1} \cup (CurrentRows \ pub[t].demotes)
    <3>1. CASE i = n + 1
      BY <3>1, <1>4, <1>7, <2>1 DEF CurrentRows
    <3>2. CASE i \in 1..n
      <4>1. i # n + 1
        BY <3>2, <1>3
      <4>2. rows'[i].current <=> rows[i].current /\ i \notin pub[t].demotes
        BY <3>2, <1>5, <1>7
      <4> QED BY <3>2, <4>1, <4>2, <1>7, <2>1, <2>2 DEF CurrentRows
    <3>3. CASE i # n + 1 /\ i \notin 1..n
      BY <3>3, <1>7, <2>1, <2>2 DEF CurrentRows
    <3> QED BY <3>1, <3>2, <3>3
  <2> QED BY <2>3
<1> QED BY <1>1, <1>8, <1>12, <1>13, <1>14 DEF Typed, n

(* A turn begins when those before it are over, and no row changes. *)
LEMMA BeginTurnStep ==
  ASSUME Typed, NEW t \in Turns, BeginTurn(t)
  PROVE  /\ Typed' /\ Moves(t) /\ pub'[t].at # "insert"
         /\ pub[t].at = "waiting" /\ \A s \in 1..t-1 : Over(s)
         /\ aborted' = aborted /\ CurrentRows' = CurrentRows
         /\ history \subseteq history'
         /\ "overlap" \notin history' => \A s \in 1..t-1 : pub[s].at = "ended"
<1> DEFINE at == IF CanCheckOut THEN "working" ELSE "ended"
<1>1. /\ pub' = [pub EXCEPT ![t] = Resting(at)] /\ at \in {"working", "ended"}
      /\ UNCHANGED <<prs, rows, aborted, reader, bounds>>
      /\ CheckOut \/ UNCHANGED repo
  BY DEF BeginTurn
<1> HIDE DEF at
<1>2. Resting(at) \in TurnRecords /\ Resting(at).at = at /\ Resting(at).then = at
  BY <1>1, RestingTyped DEF Typed, Resting
<1>3. RowsTyped' /\ CurrentRows' = CurrentRows /\ TurnRecords' = TurnRecords
  BY <1>1 DEF Typed, RowsTyped, CurrentRows, TurnRecords
<1>4. TurnsTyped' /\ Moves(t) /\ pub'[t].at # "insert"
  BY <1>1, <1>2, <1>3 DEF Typed, TurnsTyped, Moves
<1>5. ReadersTyped'
  BY <1>1 DEF Typed, ReadersTyped, ReaderRecords
<1>6. RepoTyped'
  BY <1>1, ContentTyped DEF Typed, RepoTyped, repo, CheckOut
<1>7. BoundsTyped' /\ history \subseteq history'
  BY <1>1 DEF Typed, BoundsTyped, bounds, BeginTurn, Kinds
<1> QED BY <1>1, <1>3, <1>4, <1>5, <1>6, <1>7 DEF Typed, BeginTurn

(* An abort changes no row, and no turn that rests. *)
LEMMA AbortStep ==
  ASSUME Typed, NEW t \in Turns, Abort(t)
  PROVE  /\ Typed' /\ Moves(t) /\ pub[t].at \notin Resters
         /\ pub'[t].at = "insert" => pub'[t] = pub[t]
         /\ aborted' = [aborted EXCEPT ![t] = TRUE] /\ CurrentRows' = CurrentRows
         /\ history \subseteq history'
<1>1. /\ UNCHANGED <<repo, prs, rows, reader, calls>> /\ Mishap({"abort"})
      /\ aborted' = [aborted EXCEPT ![t] = TRUE] /\ pub[t].at \notin {"waiting", "ended"}
      /\ pub' = [pub EXCEPT ![t] = IF pub[t].at = "working" THEN Resting("ended") ELSE pub[t]]
  BY DEF Abort
<1>2. /\ Resting("ended") \in TurnRecords /\ Resting("ended").at = "ended"
      /\ Resting("ended").then = "ended"
  BY RestingTyped DEF Typed, Resting
<1>3. RowsTyped' /\ CurrentRows' = CurrentRows /\ TurnRecords' = TurnRecords
  BY <1>1 DEF Typed, RowsTyped, CurrentRows, TurnRecords
<1>4. /\ TurnsTyped' /\ Moves(t)
      /\ pub'[t].at = "insert" => pub'[t] = pub[t]
  BY <1>1, <1>2, <1>3 DEF Typed, TurnsTyped, Moves
<1>5. ReadersTyped' /\ RepoTyped'
  BY <1>1 DEF Typed, ReadersTyped, ReaderRecords, RepoTyped, repo
<1>6. BoundsTyped' /\ history \subseteq history'
  BY <1>1, MishapTyped DEF Typed, BoundsTyped, Kinds
<1> QED BY <1>1, <1>3, <1>4, <1>5, <1>6 DEF Typed, Resters

(* After a crash all turns rest, and no row has changed. *)
LEMMA CrashStep ==
  ASSUME Typed, Crash
  PROVE  /\ Typed' /\ CurrentRows' = CurrentRows
         /\ aborted' = aborted /\ history \subseteq history'
         /\ \A t \in Turns : /\ pub'[t].at \in Resters
                             /\ pub'[t].at = "waiting" <=> pub[t].at = "waiting"
<1> DEFINE q(t) == IF pub[t].at = "waiting" THEN pub[t] ELSE Resting("ended")
<1>1. /\ UNCHANGED <<prs, rows, aborted, calls>> /\ Mishap({"crash"})
      /\ reader' = [r \in Readers |-> Reading]
      /\ pub' = [t \in Turns |-> q(t)]
  BY DEF Crash
<1>2. /\ Resting("ended") \in TurnRecords /\ Resting("ended").at = "ended"
      /\ Resting("ended").then = "ended"
  BY RestingTyped DEF Typed, Resting
<1>3. RowsTyped' /\ CurrentRows' = CurrentRows /\ TurnRecords' = TurnRecords
  BY <1>1 DEF Typed, RowsTyped, CurrentRows, TurnRecords
<1>4. \A t \in Turns : /\ q(t) \in TurnRecords /\ q(t).at \in Resters
                       /\ q(t).at = "waiting" <=> pub[t].at = "waiting"
                       /\ q(t).then \notin {"call", "insert"}
                       /\ q(t).then = "waiting" => q(t).at = "waiting"
  BY <1>2, RecordTyped DEF Resters
<1> HIDE DEF q
<1>5. TurnsTyped'
  <2>1. \A t \in Turns : pub'[t] = q(t)
    BY <1>1
  <2>2. pub' \in [Turns -> TurnRecords']
    BY <1>1, <1>3, <1>4
  <2> QED BY <1>4, <2>1, <2>2 DEF TurnsTyped, Resters
<1>6. ReadersTyped'
  BY <1>1 DEF ReadersTyped, ReaderRecords, Reading, States
<1>7. RepoTyped'
  <2>1. CASE UNCHANGED repo
    BY <2>1 DEF Typed, RepoTyped, repo
  <2>2. CASE \E t \in Turns : Git(pub[t].at)
    BY <2>2, GitTyped DEF Typed
  <2> QED BY <2>1, <2>2 DEF Crash
<1>8. BoundsTyped' /\ history \subseteq history'
  BY <1>1, MishapTyped DEF Typed, BoundsTyped, Kinds
<1> QED BY <1>1, <1>3, <1>4, <1>5, <1>6, <1>7, <1>8 DEF Typed

(* A merge on GitHub changes no row and no turn. *)
LEMMA MergeStep ==
  ASSUME Typed, NEW n \in DOMAIN prs, Merge(n)
  PROVE  /\ Typed' /\ CurrentRows' \subseteq CurrentRows
         /\ UNCHANGED <<pub, aborted>> /\ history \subseteq history'
<1>1. /\ UNCHANGED <<repo, rows, pub, aborted, reader, calls>> /\ Mishap({})
      /\ prs' = [prs EXCEPT ![n] = "merged"]
  BY DEF Merge
<1>2. prs \in Seq(States) /\ Len(prs) \in Nat
  BY DEF Typed, RowsTyped
<1>3. prs' \in Seq(States) /\ Len(prs') = Len(prs)
  BY <1>1, <1>2 DEF States
<1>4. /\ RowsTyped' /\ Len(rows') = Len(rows)
      /\ CurrentRows' \subseteq CurrentRows
  BY <1>1, <1>2, <1>3, PullRequestsGrow
<1>5. TurnRecords' = TurnRecords
  BY <1>1, <1>3 DEF TurnRecords
<1>6. TurnsTyped'
  BY <1>1, <1>5 DEF Typed, TurnsTyped
<1>7. Len(rows) <= Len(rows')
  BY <1>1 DEF Typed, RowsTyped
<1>8. ReadersTyped'
  BY <1>1, <1>2, <1>3, <1>4, <1>7, ReadersKept
<1>9. RepoTyped' /\ BoundsTyped' /\ history \subseteq history'
  BY <1>1, MishapTyped DEF Typed, RepoTyped, repo, BoundsTyped
<1> QED BY <1>1, <1>4, <1>6, <1>8, <1>9 DEF Typed

(* A reader that moves on keeps a row it has read, or reads anew. *)
LEMMA ReaderMoves ==
  ASSUME Typed, NEW r \in Readers, NEW q \in ReaderRecords,
         q.at # "idle" => /\ q.row \in DOMAIN rows
                          /\ q.seen \in Row /\ q.seen.number \in DOMAIN prs,
         reader' = [reader EXCEPT ![r] = q],
         prs' = prs, DOMAIN rows' = DOMAIN rows
  PROVE  ReadersTyped'
<1>1. reader \in [Readers -> ReaderRecords]
  BY DEF Typed, ReadersTyped
<1>2. reader' \in [Readers -> ReaderRecords]
  BY <1>1
<1>3. ReaderRecords' = ReaderRecords
  BY DEF ReaderRecords
<1>4. ASSUME NEW s \in Readers, reader'[s].at # "idle"
      PROVE  /\ reader'[s].row \in DOMAIN rows'
             /\ reader'[s].seen \in Row /\ reader'[s].seen.number \in DOMAIN prs'
  <2>1. CASE s = r
    BY <1>1, <1>4, <2>1
  <2>2. CASE s # r
    BY <1>1, <1>4, <2>2 DEF Typed, ReadersTyped
  <2> QED BY <2>1, <2>2
<1> QED BY <1>2, <1>3, <1>4 DEF ReadersTyped

(* A reader makes no row current and changes no turn. *)
LEMMA ReaderSteps ==
  ASSUME Typed, NEW r \in Readers, Refresh(r) \/ GiveUp(r)
  PROVE  /\ Typed' /\ CurrentRows' \subseteq CurrentRows
         /\ UNCHANGED <<pub, aborted>> /\ history \subseteq history'
<1>1. UNCHANGED <<repo, prs, pub, aborted, calls>>
  BY DEF Refresh, ReadRow, Ask, Write, GiveUp, bounds
<1>2. RepoTyped'
  BY <1>1 DEF Typed, RepoTyped, repo
<1>3. BoundsTyped' /\ history \subseteq history'
  <2>1. CASE UNCHANGED <<bounds, history>>
    BY <1>1, <2>1 DEF Typed, BoundsTyped, bounds
  <2>2. CASE GiveUp(r)
    <3>1. Mishap({})
      BY <2>2 DEF GiveUp
    <3> QED BY <1>1, <3>1, MishapTyped DEF Typed, BoundsTyped
  <2> QED BY <2>1, <2>2 DEF Refresh, ReadRow, Ask, Write
<1>4. Reading \in ReaderRecords /\ Reading.at = "idle"
  BY DEF Reading, ReaderRecords, States
<1>5. DOMAIN rows = 1..Len(rows) /\ Len(rows) \in Nat /\ DOMAIN prs = 1..Len(prs)
      /\ Len(prs) \in Nat
  BY DEF Typed, RowsTyped
<1>6. reader[r] \in ReaderRecords
  BY DEF Typed, ReadersTyped
<1>7. CASE UNCHANGED rows
  <2>1. /\ RowsTyped' /\ CurrentRows' = CurrentRows /\ TurnRecords' = TurnRecords
    BY <1>1, <1>7 DEF Typed, RowsTyped, CurrentRows, TurnRecords
  <2>2. TurnsTyped'
    BY <1>1, <2>1 DEF Typed, TurnsTyped
  <2>3. \E q \in ReaderRecords :
          /\ q.at # "idle" => /\ q.row \in DOMAIN rows
                              /\ q.seen \in Row /\ q.seen.number \in DOMAIN prs
          /\ reader' = [reader EXCEPT ![r] = q]
    <3>1. CASE ReadRow(r)
      <4> DEFINE ids == IF CurrentRows # {} THEN CurrentRows ELSE DOMAIN rows
                 i == Latest(ids)
                 q == [Reading EXCEPT !.at = "ask", !.row = i, !.seen = rows[i]]
      <4>1. ids # {} /\ rows[i].number # 0 /\ reader' = [reader EXCEPT ![r] = q]
        BY <3>1 DEF ReadRow
      <4>2. ids \subseteq DOMAIN rows
        BY DEF CurrentRows
      <4> HIDE DEF ids
      <4>3. i \in DOMAIN rows
        BY <4>1, <4>2, LatestIsMember DEF Typed
      <4>4. rows[i] \in Row /\ rows[i].number \in DOMAIN prs /\ i \in Nat
        BY <1>5, <4>1, <4>3 DEF Typed, RowsTyped
      <4> HIDE DEF i
      <4>5. q \in ReaderRecords /\ q.row = i /\ q.seen = rows[i]
        BY <4>4 DEF Reading, ReaderRecords, States
      <4> QED BY <4>1, <4>3, <4>4, <4>5
    <3>2. CASE Ask(r)
      <4> DEFINE state == prs[reader[r].seen.number]
                 q == [reader[r] EXCEPT !.at = "write", !.state = state]
      <4>1. reader[r].at = "ask" /\ reader' \in {[reader EXCEPT ![r] = Reading],
                                                 [reader EXCEPT ![r] = q]}
        BY <3>2 DEF Ask
      <4>2. /\ reader[r].row \in DOMAIN rows /\ reader[r].seen \in Row
            /\ reader[r].seen.number \in DOMAIN prs
        BY <4>1 DEF Typed, ReadersTyped
      <4>3. state \in States
        BY <4>2 DEF Typed, RowsTyped
      <4> HIDE DEF state
      <4>4. q \in ReaderRecords /\ q.row = reader[r].row /\ q.seen = reader[r].seen
        BY <1>6, <4>3 DEF ReaderRecords
      <4> HIDE DEF q
      <4>5. CASE reader' = [reader EXCEPT ![r] = Reading]
        BY <1>4, <4>5
      <4>6. CASE reader' = [reader EXCEPT ![r] = q]
        BY <4>2, <4>4, <4>6
      <4> QED BY <4>1, <4>5, <4>6
    <3>3. CASE reader' = [reader EXCEPT ![r] = Reading]
      BY <1>4, <3>3
    <3> QED BY <3>1, <3>2, <3>3 DEF Refresh, Write, GiveUp
  <2>4. ReadersTyped'
    BY <1>1, <1>7, <2>3, ReaderMoves
  <2> QED BY <1>1, <1>2, <1>3, <2>1, <2>2, <2>4 DEF Typed
<1>8. CASE Write(r)
  <2> DEFINE i == reader[r].row
             new == [rows[i] EXCEPT !.number = reader[r].seen.number,
                                    !.status = reader[r].state, !.failure = FALSE]
  <2>1. /\ reader[r].at = "write" /\ rows' = [rows EXCEPT ![i] = new]
        /\ reader' = [reader EXCEPT ![r] = Reading]
    BY <1>8 DEF Write
  <2>2. /\ i \in DOMAIN rows /\ reader[r].seen \in Row
        /\ reader[r].seen.number \in DOMAIN prs /\ reader[r].state \in States
        /\ rows[i] \in Row
    BY <1>6, <2>1 DEF Typed, ReadersTyped, RowsTyped, ReaderRecords
  <2>3. reader[r].seen.number \in 0..Len(prs)
    BY <1>5, <2>2
  <2>4. new \in Row /\ new.number \in 0..Len(prs) /\ new.current = rows[i].current
    BY <2>2, <2>3 DEF Row
  <2> HIDE DEF new
  <2>5. /\ RowsTyped' /\ Len(rows') = Len(rows)
        /\ CurrentRows' \subseteq CurrentRows /\ TurnRecords' = TurnRecords
    BY <1>1, <2>1, <2>2, <2>4, RowRewritten
  <2>6. TurnsTyped'
    BY <1>1, <2>5 DEF Typed, TurnsTyped
  <2>7. DOMAIN rows' = DOMAIN rows
    BY <2>1
  <2>8. ReadersTyped'
    BY <1>1, <1>4, <2>1, <2>7, ReaderMoves
  <2> QED BY <1>1, <1>2, <1>3, <2>5, <2>6, <2>8 DEF Typed
<1> QED BY <1>7, <1>8 DEF Refresh, ReadRow, Ask, GiveUp

-----------------------------------------------------------------------------
(* Typed, and Serial, are kept by every step. *)

LEMMA StutterTyped ==
  ASSUME Typed, UNCHANGED vars
  PROVE  Typed' /\ CurrentRows' = CurrentRows
<1>1. UNCHANGED <<tree, index, head, fetched, onBranch, remote, made>>
      /\ UNCHANGED <<prs, rows, pub, aborted, reader, calls, mishaps, history>>
  BY DEF vars, repo, bounds
<1> QED BY <1>1 DEF Typed, RepoTyped, RowsTyped, TurnsTyped, TurnRecords, ReadersTyped,
                    ReaderRecords, BoundsTyped, CurrentRows

(* The initial state is typed. *)
LEMMA InitTyped == Init => Typed
<1> SUFFICES ASSUME Init PROVE Typed
  OBVIOUS
<1>1. RepoTyped /\ RowsTyped
  BY DEF Init, RepoTyped, RowsTyped
<1>2. Resting("waiting") \in TurnRecords /\ Resting("waiting").at = "waiting"
      /\ Resting("waiting").then = "waiting" /\ Resting("waiting").number = 0
  BY <1>1, RestingTyped DEF Resting
<1>3. TurnsTyped
  BY <1>2 DEF Init, TurnsTyped
<1>4. Reading \in ReaderRecords /\ Reading.at = "idle"
  BY DEF Reading, ReaderRecords, States
<1>5. ReadersTyped
  BY <1>4 DEF Init, ReadersTyped
<1> QED BY <1>1, <1>3, <1>5 DEF Typed, Init, BoundsTyped

(* A step of one busy turn, other than the insertion, keeps Serial. *)
LEMMA SerialMoves ==
  ASSUME Serial, NEW t \in Turns, Moves(t), pub[t].at \notin Resters,
         aborted \in [Turns -> BOOLEAN],
         aborted' \in {aborted, [aborted EXCEPT ![t] = TRUE]},
         history \subseteq history', CurrentRows' \subseteq CurrentRows,
         "overlap" \notin history /\ pub'[t].at = "insert" =>
           CurrentRows \subseteq pub'[t].demotes
  PROVE  Serial'
<1>1. \A s \in Turns : pub'[s].at = "waiting" <=> pub[s].at = "waiting"
  BY DEF Moves, Resters
<1>2. \A s \in Turns : aborted'[s] => pub'[s].at # "waiting"
  BY <1>1 DEF Serial, Resters
<1>3. \A r, s \in Turns : r < s /\ pub'[r].at = "waiting" => pub'[s].at = "waiting"
  BY <1>1 DEF Serial
<1>4. ASSUME "overlap" \notin history'
      PROVE  /\ \A r, s \in Turns : r # s => pub'[r].at \in Resters \/ pub'[s].at \in Resters
             /\ \A s \in Turns : pub'[s].at = "insert" => CurrentRows' \subseteq pub'[s].demotes
             /\ \A i, j \in CurrentRows' : i = j
  <2>1. "overlap" \notin history
    BY <1>4
  <2>2. \A s \in Turns : s # t => pub[s].at \in Resters /\ pub'[s] = pub[s]
    BY <2>1 DEF Serial, Moves
  <2> QED BY <2>1, <2>2 DEF Serial, Resters
<1> QED BY <1>2, <1>3, <1>4 DEF Serial

(* A step that changes no turn and makes no row current keeps Serial. *)
LEMMA SerialKept ==
  ASSUME Typed, Serial, UNCHANGED <<pub, aborted>>,
         history \subseteq history', CurrentRows' \subseteq CurrentRows
  PROVE  Serial'
BY DEF Serial

(* The insertion demotes the rows that were current: one is left. *)
LEMMA SerialInsert ==
  ASSUME Typed, Serial, NEW t \in Turns, Insert(t)
  PROVE  Serial'
<1>1. /\ Moves(t) /\ pub[t].at = "insert" /\ pub'[t].at # "insert"
      /\ aborted' = aborted /\ history' = history
      /\ CurrentRows' = {Len(rows) + 1} \cup (CurrentRows \ pub[t].demotes)
  BY InsertStep
<1>2. \A s \in Turns : pub'[s].at = "waiting" <=> pub[s].at = "waiting"
  BY <1>1 DEF Moves
<1>3. ASSUME "overlap" \notin history'
      PROVE  /\ \A r, s \in Turns : r # s => pub'[r].at \in Resters \/ pub'[s].at \in Resters
             /\ \A s \in Turns : pub'[s].at = "insert" => CurrentRows' \subseteq pub'[s].demotes
             /\ \A i, j \in CurrentRows' : i = j
  <2>1. \A s \in Turns : s # t => pub'[s].at \in Resters /\ pub'[s] = pub[s]
    BY <1>1, <1>3 DEF Serial, Moves, Resters
  <2>2. CurrentRows' = {Len(rows) + 1}
    BY <1>1, <1>3 DEF Serial
  <2> QED BY <1>1, <2>1, <2>2 DEF Resters
<1> QED BY <1>1, <1>2, <1>3 DEF Serial

(* A turn that begins overlaps no other, or history says so. *)
LEMMA SerialBegins ==
  ASSUME Typed, Serial, NEW t \in Turns, BeginTurn(t)
  PROVE  Serial'
<1>1. /\ Moves(t) /\ pub'[t].at # "insert" /\ pub[t].at = "waiting"
      /\ \A s \in 1..t-1 : Over(s)
      /\ aborted' = aborted /\ CurrentRows' = CurrentRows /\ history \subseteq history'
      /\ "overlap" \notin history' => \A s \in 1..t-1 : pub[s].at = "ended"
  BY BeginTurnStep
<1>2. MaxTurns \in Nat /\ Turns \subseteq Nat
  BY BoundsAssumption DEF Turns
<1>3. \A s \in Turns : s < t => s \in 1..t-1
  BY <1>2 DEF Turns
<1>4. \A s \in Turns : s < t => pub[s].at # "waiting"
  BY <1>1, <1>3 DEF Over, Serial
<1>5. \A s \in Turns : s # t => pub'[s] = pub[s]
  BY <1>1 DEF Moves
<1>6. pub'[t].at # "waiting"
  BY <1>1 DEF Moves
<1>7. \A s \in Turns : aborted'[s] => pub'[s].at # "waiting"
  BY <1>1, <1>5, <1>6 DEF Serial
<1>8. \A r, s \in Turns : r < s /\ pub'[r].at = "waiting" => pub'[s].at = "waiting"
  BY <1>4, <1>5, <1>6 DEF Serial
<1>9. ASSUME "overlap" \notin history'
      PROVE  /\ \A r, s \in Turns : r # s => pub'[r].at \in Resters \/ pub'[s].at \in Resters
             /\ \A s \in Turns : pub'[s].at = "insert" => CurrentRows' \subseteq pub'[s].demotes
             /\ \A i, j \in CurrentRows' : i = j
  <2>1. \A s \in Turns : s # t => pub[s].at \in Resters
    <3>1. SUFFICES ASSUME NEW s \in Turns, s # t PROVE pub[s].at \in Resters
      OBVIOUS
    <3>2. s < t \/ t < s
      BY <1>2, <3>1
    <3>3. CASE s < t
      BY <3>3, <1>1, <1>3, <1>9 DEF Resters
    <3>4. CASE t < s
      BY <3>4, <1>1 DEF Serial, Resters
    <3> QED BY <3>2, <3>3, <3>4
  <2>2. "overlap" \notin history
    BY <1>1, <1>9
  <2> QED BY <1>1, <1>5, <2>1, <2>2 DEF Serial, Resters
<1> QED BY <1>7, <1>8, <1>9 DEF Serial

(* A crash keeps Serial. *)
LEMMA SerialCrash ==
  ASSUME Typed, Serial, Crash
  PROVE  Serial'
<1>1. /\ CurrentRows' = CurrentRows /\ aborted' = aborted /\ history \subseteq history'
      /\ \A t \in Turns : /\ pub'[t].at \in Resters
                          /\ pub'[t].at = "waiting" <=> pub[t].at = "waiting"
  BY CrashStep
<1> QED BY <1>1 DEF Serial, Resters

(* Every step keeps Typed and Serial. *)
LEMMA NextKeeps ==
  ASSUME Typed, Serial, [Next]_vars
  PROVE  Typed' /\ Serial'
<1>1. aborted \in [Turns -> BOOLEAN]
  BY DEF Typed, BoundsTyped
<1>2. ASSUME NEW t \in Turns, BeginTurn(t) PROVE Typed' /\ Serial'
  BY <1>2, BeginTurnStep, SerialBegins
<1>3. ASSUME NEW t \in Turns, Insert(t) PROVE Typed' /\ Serial'
  BY <1>3, InsertStep, SerialInsert
<1>4. ASSUME NEW t \in Turns, Tool(t) \/ Fail(t) \/ RecordThrows(t) \/ Agent(t), ~Insert(t)
      PROVE  Typed' /\ Serial'
  <2>1. Effect(t)
    BY <1>4, ToolEffect
  <2> QED BY <1>1, <2>1, SerialMoves DEF Effect
<1>5. ASSUME NEW t \in Turns, Abort(t) PROVE Typed' /\ Serial'
  <2>1. /\ Typed' /\ Moves(t) /\ pub[t].at \notin Resters
        /\ pub'[t].at = "insert" => pub'[t] = pub[t]
        /\ aborted' = [aborted EXCEPT ![t] = TRUE] /\ CurrentRows' = CurrentRows
        /\ history \subseteq history'
    BY <1>5, AbortStep
  <2>2. "overlap" \notin history /\ pub'[t].at = "insert" =>
          CurrentRows \subseteq pub'[t].demotes
    BY <2>1 DEF Serial
  <2> QED BY <1>1, <2>1, <2>2, SerialMoves
<1>6. ASSUME NEW r \in Readers, Refresh(r) \/ GiveUp(r) PROVE Typed' /\ Serial'
  BY <1>6, ReaderSteps, SerialKept
<1>7. ASSUME NEW n \in DOMAIN prs, Merge(n) PROVE Typed' /\ Serial'
  BY <1>7, MergeStep, SerialKept
<1>8. CASE Crash
  BY <1>8, CrashStep, SerialCrash
<1>9. CASE UNCHANGED vars
  <2>1. UNCHANGED <<pub, aborted>> /\ history' = history
    BY <1>9 DEF vars
  <2> QED BY <1>9, <2>1, StutterTyped, SerialKept
<1> QED BY <1>2, <1>3, <1>4, <1>5, <1>6, <1>7, <1>8, <1>9 DEF Next

(* Serial holds at first. *)
LEMMA InitSerial == Init => Serial
BY DEF Init, Serial, Resting, CurrentRows, Resters

(* Typed and Serial hold in every reachable state. *)
LEMMA Invariant == Spec => [](Typed /\ Serial)
<1>1. Init => Typed /\ Serial
  BY InitTyped, InitSerial
<1>2. Typed /\ Serial /\ [Next]_vars => (Typed /\ Serial)'
  BY NextKeeps
<1> QED BY <1>1, <1>2, PTL DEF Spec

(* Every variable has its type, whatever fails, crashes or overlaps. *)
THEOREM TypeCorrect == Spec => []TypeOK
<1>1. Typed => TypeOK
  BY DEF Typed, RepoTyped, RowsTyped, TurnsTyped, TurnRecords, ReadersTyped,
         ReaderRecords, BoundsTyped, TypeOK
<1> QED BY <1>1, Invariant, PTL

(***************************************************************************)
(* A session never has two current rows, however many publications fail or *)
(* are cut off, unless two of them have overlapped.                        *)
(***************************************************************************)
THEOREM OneRowIsCurrent == Spec => []OneCurrentRow
<1>1. Serial => OneCurrentRow
  <2>1. SUFFICES ASSUME Serial, "overlap" \notin history
                 PROVE  Cardinality(CurrentRows) <= 1
    BY DEF OneCurrentRow
  <2>2. \A i, j \in CurrentRows : i = j
    BY <2>1 DEF Serial
  <2>3. CASE CurrentRows = {}
    BY <2>3, FS_EmptySet
  <2>4. CASE CurrentRows # {}
    <3>1. PICK i \in CurrentRows : TRUE
      BY <2>4
    <3>2. CurrentRows = {i}
      BY <2>2, <3>1
    <3> QED BY <3>2, FS_Singleton
  <2> QED BY <2>3, <2>4
<1> QED BY <1>1, Invariant, PTL

-----------------------------------------------------------------------------
(***************************************************************************)
(* For PublishedStaysCurrent: a published row is current, a first          *)
(* publication goes on with a current row of no number, starts only when   *)
(* there is no published row, and a reader writes back the number the row  *)
(* has.                                                                    *)
(***************************************************************************)
OnFirst(p) ==
  /\ ~p.existing
  /\ \/ p.at \in {"add", "commit", "push", "event", "open", "persist", "fail"}
     \/ p.at \in Resets /\ p.then \in {"persist", "fail"}

Sound(p) ==
  /\ p.then \in {"waiting", "working", "ended", "fail", "persist"}
  /\ p.at \in {"fetch", "align", "synced"} => p.existing
  /\ p.existing => /\ p.at \notin {"open", "persist"}
                   /\ ~(p.at \in Resets /\ p.then = "persist")

Lasting ==
  "overlap" \notin history =>
    /\ \A i \in DOMAIN rows : rows[i].number # 0 => rows[i].current
    /\ \A t \in Turns : pub[t].at \in {"demote", "insert"} =>
         \A i \in DOMAIN rows : rows[i].number = 0
    /\ \A t \in Turns : Sound(pub[t])
    /\ \A t \in Turns : OnFirst(pub[t]) =>
         /\ pub[t].row \in DOMAIN rows
         /\ rows[pub[t].row].number = 0 /\ rows[pub[t].row].current
    /\ \A r \in Readers : reader[r].at # "idle" =>
         rows[reader[r].row].number = reader[r].seen.number

(* Numbers and what is current stay. *)
SameRows ==
  /\ DOMAIN rows' = DOMAIN rows
  /\ \A i \in DOMAIN rows : /\ rows'[i].number = rows[i].number
                            /\ rows'[i].current = rows[i].current

(* A turn neither joins a first publication nor leaves its path wrongly. *)
KeepsPath(t) ==
  Sound(pub[t]) =>
    /\ Sound(pub'[t])
    /\ OnFirst(pub'[t]) => OnFirst(pub[t]) /\ pub'[t].row = pub[t].row
    /\ pub'[t].at \in {"demote", "insert"} => pub'[t].at = pub[t].at

Destinations(p, next) == IF next \in Resets THEN {next, p.then} ELSE {next}

(* Goto leads to rest, or to one of the destinations of the label. *)
LEMMA GotoWhere ==
  ASSUME Typed, NEW t \in Turns, NEW p, NEW next, Goto(t, p, next)
  PROVE  \/ pub'[t] \in {Resting("ended"), Resting("working")}
         \/ \E to \in Destinations(p, next) : pub'[t] = [p EXCEPT !.at = to]
<1> DEFINE to == IF aborted[t] /\ next \in Resets THEN p.then ELSE next
           q == IF aborted[t] /\ to \in GitSteps \cup {"working"} THEN Resting("ended")
                ELSE IF to = "working" THEN Resting("working")
                ELSE [p EXCEPT !.at = to]
<1>1. pub' = [pub EXCEPT ![t] = q] /\ pub \in [Turns -> TurnRecords]
  BY DEF Goto, Typed, TurnsTyped
<1>2. to \in Destinations(p, next)
  BY DEF Destinations
<1>3. q \in {Resting("ended"), Resting("working")} \/ q = [p EXCEPT !.at = to]
  OBVIOUS
<1> HIDE DEF q, to
<1>4. pub'[t] = q
  BY <1>1
<1> QED BY <1>2, <1>3, <1>4

(* Goto to a label that is no reset leads to rest or to that label. *)
LEMMA GotoThere ==
  ASSUME Typed, NEW t \in Turns, NEW p, NEW next, next \notin Resets, Goto(t, p, next)
  PROVE  \/ pub'[t] \in {Resting("ended"), Resting("working")}
         \/ pub'[t] = [p EXCEPT !.at = next]
<1>1. Destinations(p, next) = {next}
  BY DEF Destinations
<1>2. ASSUME NEW to \in Destinations(p, next), pub'[t] = [p EXCEPT !.at = to]
      PROVE  pub'[t] = [p EXCEPT !.at = next]
  BY <1>1, <1>2
<1> QED BY <1>2, GotoWhere

(* A turn that rests is sound and on no first publication. *)
LEMMA RestingSound ==
  ASSUME NEW at \in {"waiting", "working", "ended"}
  PROVE  Sound(Resting(at)) /\ ~OnFirst(Resting(at)) /\ Resting(at).at = at
BY DEF Sound, OnFirst, Resting, Resets

(* Goto with a record that is on the path as the turn was. *)
LEMMA GotoKeeps ==
  ASSUME Typed, NEW t \in Turns, NEW p \in TurnRecords, NEW next, Goto(t, p, next),
         Sound(pub[t]) =>
           \A to \in Destinations(p, next) :
             /\ Sound([p EXCEPT !.at = to])
             /\ OnFirst([p EXCEPT !.at = to]) => OnFirst(pub[t]) /\ p.row = pub[t].row
             /\ to \notin {"demote", "insert"}
  PROVE  KeepsPath(t)
<1>1. CASE pub'[t] \in {Resting("ended"), Resting("working")}
  BY <1>1, RestingSound DEF KeepsPath
<1>2. CASE \E to \in Destinations(p, next) : pub'[t] = [p EXCEPT !.at = to]
  <2>1. PICK to \in Destinations(p, next) : pub'[t] = [p EXCEPT !.at = to]
    BY <1>2
  <2>2. pub'[t].at = to /\ pub'[t].row = p.row
    BY <2>1 DEF TurnRecords
  <2> QED BY <2>1, <2>2 DEF KeepsPath
<1> QED BY <1>1, <1>2, GotoWhere

(* A command that succeeds, or fails, keeps to the path. *)
LEMMA SuccessKeepsPath ==
  ASSUME NEW p \in TurnRecords, p.at \in GitSteps, Sound(p),
         NEW to \in Destinations(p, OnSuccess(p))
  PROVE  /\ Sound([p EXCEPT !.at = to])
         /\ OnFirst([p EXCEPT !.at = to]) => OnFirst(p)
         /\ to \notin {"demote", "insert"}
<1> DEFINE q == [p EXCEPT !.at = to]
<1>1. q.at = to /\ q.then = p.then /\ q.existing = p.existing
  BY DEF TurnRecords
<1>2. CASE p.at \in Resets
  <2>1. to = p.then
    BY <1>2 DEF OnSuccess, Destinations, Sound, Resets
  <2> HIDE DEF q
  <2> QED BY <1>1, <1>2, <2>1 DEF Sound, OnFirst, Resets
<1>3. CASE p.at \in GitSteps \ Resets
  <2>1. /\ p.at = "branch" => to \in {"checkout", "working", "status"}
        /\ p.at = "checkout" => to = "status"
        /\ p.at = "status" => to \in {"find", "working"}
        /\ p.at = "fetch" => to = "align"
        /\ p.at = "align" => to = "synced"
        /\ p.at = "synced" => to \in {"add", "working"}
        /\ p.at = "add" => to = "commit"
        /\ p.at = "commit" => to = "push"
        /\ p.at = "push" => to = "event"
    BY <1>3 DEF OnSuccess, After, Destinations, Resets
  <2>2. p.at \in {"branch", "checkout", "status", "fetch", "align", "synced",
                  "add", "commit", "push"}
    BY <1>3 DEF GitSteps
  <2> HIDE DEF q
  <2> QED BY <1>1, <2>1, <2>2 DEF Sound, OnFirst, Resets
<1> QED BY <1>2, <1>3

(* Where a failed command leads keeps the turn on its path. *)
LEMMA FailureKeepsPath ==
  ASSUME NEW p \in TurnRecords, p.at \in GitSteps, Sound(p),
         NEW to \in Destinations(Failing(p), OnFailure(p))
  PROVE  /\ Failing(p) \in TurnRecords /\ Failing(p).row = p.row
         /\ Sound([Failing(p) EXCEPT !.at = to])
         /\ OnFirst([Failing(p) EXCEPT !.at = to]) => OnFirst(p)
         /\ to \notin {"demote", "insert"}
<1>1. CASE p.at \in Resets
  <2>1. Failing(p) = p /\ OnFailure(p) = OnSuccess(p)
    BY <1>1 DEF Failing, OnFailure, OnSuccess
  <2> QED BY <2>1, SuccessKeepsPath
<1>2. CASE p.at \in GitSteps \ Resets
  <2> DEFINE r == Failing(p)
             q == [r EXCEPT !.at = to]
  <2>1. r = [p EXCEPT !.then = "fail"] /\ "fail" \in Labels
    BY <1>2 DEF Failing, Labels, RecordSteps
  <2>2. r \in TurnRecords /\ r.at = p.at /\ r.then = "fail" /\ r.existing = p.existing
        /\ r.row = p.row
    BY <2>1 DEF TurnRecords
  <2> HIDE DEF r
  <2>3. q.at = to /\ q.then = "fail" /\ q.existing = p.existing
    BY <2>2 DEF TurnRecords
  <2>4. /\ p.at \in {"branch", "checkout", "status"} => to = "working"
        /\ p.at \in {"fetch", "align", "synced"} => to = "fail"
        /\ p.at \in {"add", "commit", "push"} => to \in Resets \cup {"fail"}
    BY <1>2, <2>2 DEF OnFailure, Recovery, Destinations, Resets, r
  <2>5. p.at \in {"branch", "checkout", "status", "fetch", "align", "synced",
                  "add", "commit", "push"}
    BY <1>2 DEF GitSteps
  <2>6. /\ Sound(q) /\ to \notin {"demote", "insert"}
        /\ OnFirst(q) => OnFirst(p)
    <3> HIDE DEF q
    <3> QED BY <2>3, <2>4, <2>5 DEF Sound, OnFirst, Resets
  <2> QED BY <2>2, <2>6 DEF r
<1> QED BY <1>1, <1>2

(* The commands keep the turn on its path, and touch no row. *)
LEMMA CommandsKeepPath ==
  ASSUME Typed, NEW t \in Turns, Succeed(t) \/ Refuse(t) \/ Throw(t) \/ Fail(t)
  PROVE  KeepsPath(t) /\ UNCHANGED <<rows, reader>>
<1>1. pub[t] \in TurnRecords /\ pub[t].at \in GitSteps /\ UNCHANGED <<rows, reader>>
  BY RecordTyped DEF Succeed, Refuse, Throw, Fail
<1>2. CASE Goto(t, pub[t], OnSuccess(pub[t]))
  BY <1>1, <1>2, SuccessKeepsPath, GotoKeeps
<1>3. CASE Goto(t, Failing(pub[t]), OnFailure(pub[t]))
  <2>1. Failing(pub[t]) \in TurnRecords
    BY <1>1 DEF Failing, TurnRecords, Labels, RecordSteps
  <2>2. Failing(pub[t]).row = pub[t].row
    BY <1>1 DEF Failing, TurnRecords
  <2> QED BY <1>1, <1>3, <2>1, <2>2, FailureKeepsPath, GotoKeeps
<1>4. CASE Goto(t, pub[t], pub[t].at)
  <2>1. ASSUME Sound(pub[t]), NEW to \in Destinations(pub[t], pub[t].at)
        PROVE  /\ Sound([pub[t] EXCEPT !.at = to])
               /\ OnFirst([pub[t] EXCEPT !.at = to]) => OnFirst(pub[t])
               /\ to \notin {"demote", "insert"}
    <3> DEFINE q == [pub[t] EXCEPT !.at = to]
    <3>1. q.at = to /\ q.then = pub[t].then /\ q.existing = pub[t].existing
      BY <1>1 DEF TurnRecords
    <3>2. to = pub[t].at \/ (pub[t].at \in Resets /\ to = pub[t].then)
      BY <2>1 DEF Destinations
    <3> HIDE DEF q
    <3>3. CASE to = pub[t].at
      BY <1>1, <2>1, <3>1, <3>3 DEF Sound, OnFirst, GitSteps, Resets
    <3>4. CASE pub[t].at \in Resets /\ to = pub[t].then
      BY <2>1, <3>1, <3>4 DEF Sound, OnFirst, Resets
    <3> QED BY <3>2, <3>3, <3>4 DEF q
  <2> QED BY <1>1, <1>4, <2>1, GotoKeeps
<1> QED BY <1>1, <1>2, <1>3, <1>4 DEF Succeed, Refuse, Throw, Fail

(* So do the steps at GitHub and the tool's answers. *)
LEMMA PlainKeepsPath ==
  ASSUME Typed, NEW t \in Turns, NEW p \in TurnRecords, NEW next, Goto(t, p, next),
         next \notin Resets \cup {"demote", "insert"}, p.row = pub[t].row,
         Sound(pub[t]) => Sound([p EXCEPT !.at = next]),
         OnFirst([p EXCEPT !.at = next]) => OnFirst(pub[t])
  PROVE  KeepsPath(t)
<1>1. Destinations(p, next) = {next}
  BY DEF Destinations
<1> QED BY <1>1, GotoKeeps

(* So does the event of the push. *)
LEMMA AppendPushedKeepsPath ==
  ASSUME Typed, NEW t \in Turns, AppendPushed(t)
  PROVE  KeepsPath(t) /\ UNCHANGED <<rows, reader>>
<1>1. pub[t] \in TurnRecords /\ pub[t].at = "event" /\ UNCHANGED <<rows, reader>>
  BY RecordTyped DEF AppendPushed
<1>2. PICK next \in {"target", "open"} :
        /\ Goto(t, pub[t], next)
        /\ next = "open" => ~pub[t].existing
  BY DEF AppendPushed
<1> DEFINE q == [pub[t] EXCEPT !.at = next]
<1>3. q.at = next /\ q.then = pub[t].then /\ q.existing = pub[t].existing
  BY <1>1 DEF TurnRecords
<1> HIDE DEF q
<1>4. Sound(pub[t]) => Sound(q)
  BY <1>2, <1>3 DEF Sound, Resets
<1>5. OnFirst(q) => OnFirst(pub[t])
  BY <1>1, <1>3 DEF OnFirst
<1>6. next \notin Resets \cup {"demote", "insert"}
  BY DEF Resets
<1> QED BY <1>1, <1>2, <1>4, <1>5, <1>6, PlainKeepsPath DEF q

(* So does opening the pull request. *)
LEMMA OpenKeepsPath ==
  ASSUME Typed, NEW t \in Turns, Open(t)
  PROVE  KeepsPath(t) /\ UNCHANGED <<rows, reader>>
<1> DEFINE p(then, number) == [pub[t] EXCEPT !.then = then, !.number = number]
<1>1. /\ pub[t] \in TurnRecords /\ pub[t].at = "open" /\ UNCHANGED <<rows, reader>>
  BY RecordTyped DEF Open
<1>2. \/ Goto(t, p("persist", Len(prs) + 1), "undo") \/ Goto(t, p("fail", 0), "undo")
  BY DEF Open
<1>3. ASSUME NEW then \in {"persist", "fail"}, NEW number, Goto(t, p(then, number), "undo"),
             Sound(pub[t])
      PROVE  KeepsPath(t)
  <2>1. p(then, number).then = then
    BY <1>1 DEF TurnRecords
  <2>2. Destinations(p(then, number), "undo") = {"undo", then}
    BY <2>1 DEF Destinations, Resets
  <2>3. CASE pub'[t] \in {Resting("ended"), Resting("working")}
    BY <2>3, RestingSound DEF KeepsPath
  <2>4. ASSUME NEW to \in {"undo", then}, pub'[t] = [p(then, number) EXCEPT !.at = to]
        PROVE  KeepsPath(t)
    <3> DEFINE q == [p(then, number) EXCEPT !.at = to]
    <3>1. q.at = to /\ q.then = then /\ q.existing = pub[t].existing /\ q.row = pub[t].row
      BY <1>1 DEF TurnRecords
    <3> HIDE DEF q
    <3>2. Sound(q) /\ OnFirst(pub[t]) /\ q.at \notin {"demote", "insert"}
      BY <1>1, <1>3, <3>1 DEF Sound, OnFirst, Resets
    <3>3. pub'[t] = q
      BY <2>4 DEF q
    <3> QED BY <3>1, <3>2, <3>3 DEF KeepsPath
  <2>5. ASSUME NEW to \in Destinations(p(then, number), "undo"),
               pub'[t] = [p(then, number) EXCEPT !.at = to]
        PROVE  KeepsPath(t)
    <3>1. to \in {"undo", then}
      BY <2>2, <2>5
    <3> QED BY <2>4, <2>5, <3>1
  <2> HIDE DEF p
  <2> QED BY <1>3, <2>3, <2>5, GotoWhere
<1>4. ~Sound(pub[t]) => KeepsPath(t)
  BY DEF KeepsPath
<1> QED BY <1>1, <1>2, <1>3, <1>4

(* So does the end of a tool call. *)
LEMMA FinishKeepsPath ==
  ASSUME Typed, NEW t \in Turns, Finish(t, pub[t])
  PROVE  KeepsPath(t)
<1> DEFINE p == [pub[t] EXCEPT !.then = "working"]
           next == IF pub[t].action = "publish" THEN "undo" ELSE "working"
<1>1. Goto(t, p, next) /\ pub[t] \in TurnRecords
  BY RecordTyped DEF Finish
<1>2. p \in TurnRecords /\ p.then = "working" /\ p.existing = pub[t].existing
      /\ p.row = pub[t].row
  BY <1>1 DEF TurnRecords, Labels, RecordSteps
<1>3. Destinations(p, next) \subseteq {"undo", "working"}
  BY <1>2 DEF Destinations
<1> HIDE DEF p, next
<1>4. ASSUME NEW to \in {"undo", "working"}
      PROVE  Sound([p EXCEPT !.at = to]) /\ ~OnFirst([p EXCEPT !.at = to])
  <2> DEFINE q == [p EXCEPT !.at = to]
  <2>1. q.at = to /\ q.then = "working"
    BY <1>2 DEF TurnRecords
  <2> HIDE DEF q
  <2>2. Sound(q) /\ ~OnFirst(q)
    BY <2>1 DEF Sound, OnFirst
  <2> QED BY <2>2 DEF q
<1> QED BY <1>1, <1>2, <1>3, <1>4, GotoKeeps

(* So does a record that throws. *)
LEMMA RecordThrowsKeepsPath ==
  ASSUME Typed, NEW t \in Turns, RecordThrows(t)
  PROVE  KeepsPath(t) /\ UNCHANGED <<rows, reader>>
<1>1. pub[t] \in TurnRecords /\ UNCHANGED <<rows, reader>>
  BY RecordTyped DEF RecordThrows
<1>2. CASE Finish(t, pub[t])
  BY <1>1, <1>2, FinishKeepsPath
<1>3. CASE Goto(t, pub[t], "working")
  <2> DEFINE q == [pub[t] EXCEPT !.at = "working"]
  <2>1. q.at = "working" /\ q.then = pub[t].then /\ q.existing = pub[t].existing
    BY <1>1 DEF TurnRecords
  <2> HIDE DEF q
  <2>2. ~OnFirst(q) /\ (Sound(pub[t]) => Sound(q))
    BY <2>1 DEF Sound, OnFirst, Resets
  <2>3. "working" \notin Resets \cup {"demote", "insert"}
    BY DEF Resets
  <2> QED BY <1>1, <1>3, <2>2, <2>3, PlainKeepsPath DEF q
<1> QED BY <1>2, <1>3 DEF RecordThrows

(* So does finding the row of a tool call. *)
LEMMA TargetKeepsPath ==
  ASSUME Typed, NEW t \in Turns, Target(t)
  PROVE  KeepsPath(t) /\ UNCHANGED <<rows, reader>>
<1>1. /\ pub[t] \in TurnRecords /\ pub[t].at = "target" /\ UNCHANGED <<rows, reader>>
  BY RecordTyped DEF Target
<1>2. CASE Finish(t, pub[t])
  BY <1>1, <1>2, FinishKeepsPath
<1>3. CASE \E i, n : Goto(t, [pub[t] EXCEPT !.row = i, !.number = n], "call")
  <2>1. PICK i, n : Goto(t, [pub[t] EXCEPT !.row = i, !.number = n], "call")
    BY <1>3
  <2> DEFINE p == [pub[t] EXCEPT !.row = i, !.number = n]
             q == [p EXCEPT !.at = "call"]
  <2>2. q.at = "call" /\ q.then = pub[t].then /\ q.existing = pub[t].existing
    BY <1>1 DEF TurnRecords
  <2>3. "call" \notin Resets
    BY DEF Resets
  <2>4. pub'[t] \in {Resting("ended"), Resting("working")} \/ pub'[t] = q
    BY <2>1, <2>3, GotoThere
  <2> HIDE DEF q
  <2>5. /\ Sound(pub[t]) => Sound(q)
        /\ ~OnFirst(q) /\ q.at \notin {"demote", "insert"}
    BY <2>2 DEF Sound, OnFirst, Resets
  <2> QED BY <1>1, <2>4, <2>5, RestingSound DEF KeepsPath
<1> QED BY <1>2, <1>3 DEF Target

(* So does the call of GitHub. *)
LEMMA CallKeepsPath ==
  ASSUME Typed, NEW t \in Turns, Call(t)
  PROVE  KeepsPath(t) /\ UNCHANGED <<rows, reader>>
<1>1. /\ pub[t] \in TurnRecords /\ pub[t].at = "call" /\ UNCHANGED <<rows, reader>>
  BY RecordTyped DEF Call
<1>2. ASSUME NEW s, NEW next \in {"save", "saveFailure"},
             NEW p \in {pub[t], [pub[t] EXCEPT !.state = s]}, Goto(t, p, next)
      PROVE  KeepsPath(t)
  <2> DEFINE q == [p EXCEPT !.at = next]
  <2>1. q.at = next /\ q.then = pub[t].then /\ q.existing = pub[t].existing
    BY <1>1 DEF TurnRecords
  <2>2. next \notin Resets
    BY DEF Resets
  <2>3. pub'[t] \in {Resting("ended"), Resting("working")} \/ pub'[t] = q
    BY <1>2, <2>2, GotoThere
  <2> HIDE DEF q
  <2>4. /\ Sound(pub[t]) => Sound(q)
        /\ ~OnFirst(q) /\ q.at \notin {"demote", "insert"}
    BY <2>1 DEF Sound, OnFirst, Resets
  <2> QED BY <2>3, <2>4, RestingSound DEF KeepsPath
<1>3. \/ \E s : Goto(t, [pub[t] EXCEPT !.state = s], "save")
      \/ Goto(t, pub[t], "saveFailure")
  BY DEF Call
<1> QED BY <1>1, <1>2, <1>3

(* Saving a result keeps the path, the numbers and what is current. *)
LEMMA SavesKeepPath ==
  ASSUME Typed, NEW t \in Turns, Save(t) \/ SaveFailure(t)
  PROVE  KeepsPath(t) /\ SameRows /\ UNCHANGED reader
<1>1. Finish(t, pub[t]) /\ UNCHANGED reader
  BY DEF Save, SaveFailure
<1>2. \A i \in DOMAIN rows : rows[i] \in Row
  BY DEF Typed, RowsTyped
<1>3. SameRows
  <2>1. CASE Save(t)
    <3>1. DOMAIN rows' = DOMAIN rows
      BY <2>1 DEF Save
    <3> QED BY <1>2, <2>1, <3>1 DEF Save, SameRows, Row
  <2>2. CASE SaveFailure(t)
    <3>1. DOMAIN rows' = DOMAIN rows
      BY <2>2 DEF SaveFailure
    <3> QED BY <1>2, <2>2, <3>1 DEF SaveFailure, SameRows, Row
  <2> QED BY <2>1, <2>2
<1> QED BY <1>1, <1>3, FinishKeepsPath

(* The call of a tool begins off the path of a first publication. *)
LEMMA CallToolKeepsPath ==
  ASSUME Typed, NEW t \in Turns, NEW action \in Actions, CallTool(t, action)
  PROVE  KeepsPath(t) /\ UNCHANGED <<rows, reader>>
<1> DEFINE p == [Resting("working") EXCEPT !.action = action]
           next == IF action = "publish" THEN "branch" ELSE "target"
           q == [p EXCEPT !.at = next]
<1>1. Goto(t, p, next) /\ UNCHANGED <<rows, reader>>
  BY DEF CallTool
<1>2. q.at = next /\ q.then = "working" /\ ~q.existing
  BY DEF Resting
<1>3. next \in {"branch", "target"} /\ next \notin Resets
  BY DEF Resets
<1>4. pub'[t] \in {Resting("ended"), Resting("working")} \/ pub'[t] = q
  BY <1>1, <1>3, GotoThere
<1> HIDE DEF q, next
<1>5. Sound(q) /\ ~OnFirst(q) /\ q.at \notin {"demote", "insert"}
  BY <1>2, <1>3 DEF Sound, OnFirst, Resets
<1> QED BY <1>1, <1>4, <1>5, RestingSound DEF KeepsPath

(* The other steps of the turn keep it on its path. *)
LEMMA RestsKeepPath ==
  ASSUME Typed, NEW t \in Turns,
         Edit(t) \/ Leave(t) \/ EndTurn(t) \/ Abort(t) \/ BeginTurn(t)
  PROVE  KeepsPath(t) /\ UNCHANGED <<rows, reader>>
<1>1. UNCHANGED <<rows, reader>>
  BY DEF Edit, Leave, EndTurn, Abort, BeginTurn
<1>2. pub'[t] \in {pub[t], Resting("ended"), Resting("working")}
  BY DEF Edit, Leave, EndTurn, Abort, BeginTurn, Typed, TurnsTyped
<1> QED BY <1>1, <1>2, RestingSound DEF KeepsPath

(* A step that moves one turn along its path and leaves rows and readers. *)
LEMMA QuietLasts ==
  ASSUME Typed, Lasting, NEW t \in Turns, Moves(t), KeepsPath(t), SameRows,
         UNCHANGED reader, history \subseteq history'
  PROVE  Lasting'
<1>1. SUFFICES ASSUME "overlap" \notin history' PROVE Lasting'
  BY DEF Lasting
<1>2. "overlap" \notin history
  BY <1>1
<1>3. \A i \in DOMAIN rows' : rows'[i].number # 0 => rows'[i].current
  BY <1>2 DEF Lasting, SameRows
<1>4. ASSUME NEW s \in Turns
      PROVE  /\ Sound(pub'[s])
             /\ pub'[s].at \in {"demote", "insert"} => \A i \in DOMAIN rows' : rows'[i].number = 0
             /\ OnFirst(pub'[s]) =>
                  /\ pub'[s].row \in DOMAIN rows'
                  /\ rows'[pub'[s].row].number = 0 /\ rows'[pub'[s].row].current
  <2>1. CASE s = t
    BY <1>2, <2>1 DEF Lasting, KeepsPath, SameRows
  <2>2. CASE s # t
    <3>1. pub'[s] = pub[s]
      BY <2>2 DEF Moves
    <3> QED BY <1>2, <3>1 DEF Lasting, SameRows
  <2> QED BY <2>1, <2>2
<1>5. ASSUME NEW r \in Readers, reader'[r].at # "idle"
      PROVE  rows'[reader'[r].row].number = reader'[r].seen.number
  BY <1>2, <1>5 DEF Lasting, SameRows, Typed, ReadersTyped
<1> QED BY <1>3, <1>4, <1>5 DEF Lasting

(* Lasting is kept by every step of a turn but those that choose, insert,  *)
(* demote or number a row.                                                 *)
LEMMA QuietSteps ==
  ASSUME Typed, Lasting, NEW t \in Turns,
         \/ Tool(t) \/ Fail(t) \/ RecordThrows(t) \/ Agent(t) \/ Abort(t) \/ BeginTurn(t),
         ~FindCurrent(t), ~Demote(t), ~Insert(t), ~Persist(t), ~PersistFailure(t)
  PROVE  Lasting' /\ SameRows
<1>1. KeepsPath(t) /\ UNCHANGED reader
      /\ (SameRows \/ UNCHANGED rows)
  BY CommandsKeepPath, AppendPushedKeepsPath, OpenKeepsPath, TargetKeepsPath,
     CallKeepsPath, SavesKeepPath, RecordThrowsKeepsPath, CallToolKeepsPath, RestsKeepPath
     DEF Tool, Command, Record, OnGitHub, Agent
<1>2. SameRows
  BY <1>1 DEF SameRows
<1>3. Moves(t) /\ history \subseteq history'
  BY ToolEffect, AbortStep, BeginTurnStep DEF Effect
<1> QED BY <1>1, <1>2, <1>3, QuietLasts

(* The steps that start, carry out and end a first publication. *)
LEMMA FindCurrentLasts ==
  ASSUME Typed, Serial, Lasting, NEW t \in Turns, FindCurrent(t)
  PROVE  Lasting' /\ SameRows
<1> DEFINE i == Latest(CurrentRows)
           found == CurrentRows # {} /\ rows[i].number # 0
           p == [pub[t] EXCEPT !.row = IF found THEN i ELSE 0, !.existing = found,
                               !.number = IF found THEN rows[i].number ELSE 0]
           next == IF found THEN "fetch" ELSE "demote"
           q == [p EXCEPT !.at = next]
<1>1. /\ pub[t] \in TurnRecords /\ pub[t].at = "find" /\ Goto(t, p, next)
      /\ UNCHANGED <<rows, reader>> /\ history' = history
  BY RecordTyped DEF FindCurrent
<1>2. Moves(t) /\ SameRows
  BY <1>1, FindCurrentStep DEF Effect, SameRows
<1>3. /\ next \notin Resets /\ next \in {"fetch", "demote"}
      /\ next = "fetch" <=> found
  BY DEF Resets
<1>4. q.at = next /\ q.then = pub[t].then /\ q.existing = found
  BY <1>1 DEF TurnRecords
<1>5. SUFFICES ASSUME "overlap" \notin history' PROVE Lasting'
  BY <1>2 DEF Lasting
<1>6. ~found => \A j \in DOMAIN rows : rows[j].number = 0
  <2>1. SUFFICES ASSUME ~found, NEW j \in DOMAIN rows, rows[j].number # 0 PROVE FALSE
    OBVIOUS
  <2>2. rows[j].current
    BY <1>1, <1>5, <2>1 DEF Lasting
  <2>3. j \in CurrentRows
    BY <2>2 DEF CurrentRows
  <2>4. i \in CurrentRows
    BY <2>3, LatestIsMember DEF CurrentRows, Typed
  <2>5. i = j
    BY <1>1, <1>5, <2>3, <2>4 DEF Serial
  <2> QED BY <2>1, <2>3, <2>5
<1> HIDE DEF found, i, next, p
<1>7. pub'[t] \in {Resting("ended"), Resting("working")} \/ pub'[t] = q
  BY <1>1, <1>3, GotoThere
<1> HIDE DEF q
<1>8. Sound(pub[t])
  BY <1>1, <1>5 DEF Lasting
<1>9. Sound(q) /\ ~OnFirst(q)
  BY <1>3, <1>4, <1>8 DEF Sound, OnFirst, Resets
<1>10. /\ Sound(pub'[t]) /\ ~OnFirst(pub'[t])
       /\ pub'[t].at \in {"demote", "insert"} => \A j \in DOMAIN rows : rows[j].number = 0
  BY <1>3, <1>4, <1>6, <1>7, <1>9, RestingSound
<1>11. \A s \in Turns : s # t => pub'[s] = pub[s]
  BY <1>2 DEF Moves
<1> QED BY <1>1, <1>5, <1>10, <1>11 DEF Lasting

(* The update that demotes finds no row with a pull request. *)
LEMMA DemoteLasts ==
  ASSUME Typed, Lasting, NEW t \in Turns, Demote(t)
  PROVE  Lasting' /\ SameRows
<1> DEFINE p == [pub[t] EXCEPT !.demotes = CurrentRows]
           q == [p EXCEPT !.at = "insert"]
<1>1. /\ pub[t] \in TurnRecords /\ pub[t].at = "demote" /\ Goto(t, p, "insert")
      /\ UNCHANGED <<rows, reader>> /\ history' = history
  BY RecordTyped DEF Demote
<1>2. Moves(t) /\ SameRows
  BY <1>1, DemoteStep DEF Effect, SameRows
<1>3. q.at = "insert" /\ q.then = pub[t].then
  BY <1>1 DEF TurnRecords
<1> HIDE DEF p
<1>4. pub'[t] \in {Resting("ended"), Resting("working")} \/ pub'[t] = q
  BY <1>1, GotoThere DEF Resets
<1> HIDE DEF q
<1>5. SUFFICES ASSUME "overlap" \notin history' PROVE Lasting'
  BY <1>2 DEF Lasting
<1>6. Sound(pub[t]) /\ \A j \in DOMAIN rows : rows[j].number = 0
  BY <1>1, <1>5 DEF Lasting
<1>7. Sound(q) /\ ~OnFirst(q)
  BY <1>3, <1>6 DEF Sound, OnFirst, Resets
<1>8. Sound(pub'[t]) /\ ~OnFirst(pub'[t])
  BY <1>4, <1>7, RestingSound
<1>9. \A s \in Turns : s # t => pub'[s] = pub[s]
  BY <1>2 DEF Moves
<1> QED BY <1>1, <1>5, <1>6, <1>8, <1>9 DEF Lasting

(* Alone: the others rest, and resting turns are on no path. *)
LEMMA Alone ==
  ASSUME Typed, Serial, Lasting, "overlap" \notin history, NEW t \in Turns,
         pub[t].at \notin Resters, NEW s \in Turns, s # t
  PROVE  ~OnFirst(pub[s]) /\ pub[s].at \notin {"demote", "insert"} /\ Sound(pub[s])
BY DEF Serial, Resters, OnFirst, Lasting, Resets

(* The insertion demotes only rows without a pull request. *)
LEMMA InsertLasts ==
  ASSUME Typed, Serial, Lasting, NEW t \in Turns, Insert(t), "overlap" \notin history'
  PROVE  Lasting' /\ \A i \in DOMAIN rows : rows[i].number = 0
<1> DEFINE n == Len(rows)
           kept == [i \in DOMAIN rows |->
                      IF i \in pub[t].demotes THEN [rows[i] EXCEPT !.current = FALSE]
                      ELSE rows[i]]
           p == [pub[t] EXCEPT !.row = n + 1, !.demotes = {}]
           q == [p EXCEPT !.at = "add"]
<1>1. /\ pub[t] \in TurnRecords /\ pub[t].at = "insert" /\ Goto(t, p, "add")
      /\ rows' = Append(kept, NoRow) /\ UNCHANGED <<reader, prs, history>>
  BY RecordTyped DEF Insert
<1>2. Moves(t)
  BY InsertStep
<1>3. n \in Nat /\ rows \in [1..n -> Row] /\ DOMAIN prs = 1..Len(prs) /\ Len(prs) \in Nat
  BY DEF Typed, RowsTyped
<1>4. \A i \in DOMAIN rows : rows[i].number = 0
  BY <1>1 DEF Lasting
<1>5. \A i \in 1..n : kept[i] \in Row /\ kept[i].number = 0
  BY <1>3, <1>4 DEF Row
<1>6. kept \in Seq(Row) /\ Len(kept) = n
  <2>1. kept \in [1..n -> Row]
    BY <1>3, <1>5
  <2> HIDE DEF kept
  <2> QED BY <1>3, <2>1
<1> HIDE DEF kept, n
<1>7. /\ DOMAIN rows' = 1..(n + 1) /\ rows'[n + 1] = NoRow
      /\ \A i \in 1..n : rows'[i] = kept[i]
  <2>1. NoRow \in Row
    BY DEF NoRow, Row
  <2> QED BY <1>1, <1>3, <1>6, <2>1
<1>8. \A i \in DOMAIN rows' : rows'[i].number = 0
  <2>1. \A i \in 1..(n + 1) : i = n + 1 \/ i \in 1..n
    BY <1>3
  <2> QED BY <1>5, <1>7, <2>1 DEF NoRow
<1>9. n + 1 \in DOMAIN rows' /\ rows'[n + 1].current /\ rows'[n + 1].number = 0
  BY <1>3, <1>7 DEF NoRow
<1>10. q.at = "add" /\ q.then = pub[t].then /\ q.existing = pub[t].existing /\ q.row = n + 1
  BY <1>1 DEF TurnRecords
<1> HIDE DEF p
<1>11. pub'[t] \in {Resting("ended"), Resting("working")} \/ pub'[t] = q
  BY <1>1, GotoThere DEF Resets
<1> HIDE DEF q
<1>12. Sound(q)
  BY <1>1, <1>10 DEF Lasting, Sound, Resets
<1>13. /\ Sound(pub'[t])
       /\ OnFirst(pub'[t]) => pub'[t].row = n + 1
  BY <1>10, <1>11, <1>12, RestingSound
<1>14. \A s \in Turns : s # t =>
         pub'[s] = pub[s] /\ ~OnFirst(pub[s]) /\ Sound(pub[s])
  BY <1>1, <1>2, Alone DEF Moves, Resters
<1>15. ASSUME NEW r \in Readers, reader'[r].at # "idle" PROVE FALSE
  <2>1. /\ reader[r].row \in DOMAIN rows /\ reader[r].seen.number \in DOMAIN prs
        /\ rows[reader[r].row].number = reader[r].seen.number
    BY <1>1, <1>15 DEF Typed, ReadersTyped, Lasting
  <2>2. reader[r].seen.number = 0
    BY <1>4, <2>1
  <2> QED BY <1>3, <2>1, <2>2
<1> QED BY <1>4, <1>8, <1>9, <1>13, <1>14, <1>15 DEF Lasting

(* The row of a turn on the path of a first publication is rewritten. *)
LEMMA FirstRowLasts ==
  ASSUME Typed, Serial, Lasting, NEW t \in Turns, Persist(t) \/ PersistFailure(t),
         "overlap" \notin history'
  PROVE  /\ Lasting'
         /\ \A i \in DOMAIN rows : rows[i].number # 0 =>
              rows'[i].current /\ rows'[i].number = rows[i].number
<1> DEFINE k == pub[t].row
<1>1. /\ pub[t].at \in {"persist", "fail"} /\ Goto(t, pub[t], "working")
      /\ UNCHANGED <<reader, prs, history>> /\ pub[t].at \notin Resters
  BY DEF Persist, PersistFailure, Resters
<1>2. Moves(t)
  BY PersistStep, PersistFailureStep DEF Effect
<1>3. Sound(pub[t])
  BY <1>1 DEF Lasting
<1>4. rows \in Seq(Row) /\ \A i \in DOMAIN rows : rows[i] \in Row
  BY DEF Typed, RowsTyped
<1>5. /\ DOMAIN rows' = DOMAIN rows
      /\ \A i \in DOMAIN rows : i # k => rows'[i] = rows[i]
  BY DEF Persist, PersistFailure
<1>6. k \in DOMAIN rows => /\ rows'[k].number # 0 => rows'[k].current
                           /\ rows[k].number # 0 =>
                                rows'[k].current /\ rows'[k].number = rows[k].number
  <2>1. CASE Persist(t)
    <3>1. ~pub[t].existing /\ OnFirst(pub[t])
      BY <1>3, <2>1 DEF Persist, Sound, OnFirst
    <3>2. k \in DOMAIN rows /\ rows[k].number = 0 /\ rows[k].current
      BY <1>1, <3>1 DEF Lasting
    <3>3. rows'[k].current = rows[k].current
      BY <1>4, <2>1, <3>2 DEF Persist, Row
    <3> QED BY <3>2, <3>3
  <2>2. CASE PersistFailure(t) /\ pub[t].existing
    <3>1. SUFFICES ASSUME k \in DOMAIN rows PROVE rows'[k].number = rows[k].number
                                                  /\ rows'[k].current = rows[k].current
      BY <1>1 DEF Lasting
    <3>2. rows' = [rows EXCEPT ![k] = [rows[k] EXCEPT !.failure = TRUE]]
      BY <2>2 DEF PersistFailure
    <3> QED BY <1>4, <3>1, <3>2 DEF Row
  <2>3. CASE PersistFailure(t) /\ ~pub[t].existing
    <3>1. OnFirst(pub[t])
      BY <2>3 DEF PersistFailure, OnFirst
    <3>2. k \in DOMAIN rows /\ rows[k].number = 0
      BY <1>1, <3>1 DEF Lasting
    <3>3. rows'[k] = Failed
      BY <2>3, <3>2 DEF PersistFailure
    <3> QED BY <3>2, <3>3 DEF Failed
  <2> QED BY <2>1, <2>2, <2>3
<1>7. ASSUME NEW i \in DOMAIN rows
      PROVE  /\ rows'[i].number # 0 => rows'[i].current
             /\ rows[i].number # 0 => rows'[i].current /\ rows'[i].number = rows[i].number
  <2>1. CASE i = k
    BY <1>6, <2>1
  <2>2. CASE i # k
    BY <1>1, <1>5, <2>2 DEF Lasting
  <2> QED BY <2>1, <2>2
<1>8. pub'[t] \in {Resting("ended"), Resting("working")} \/ pub'[t] = [pub[t] EXCEPT !.at = "working"]
  BY <1>1, GotoThere DEF Resets
<1>9. Sound(pub'[t]) /\ ~OnFirst(pub'[t]) /\ pub'[t].at \notin {"demote", "insert"}
  <2> DEFINE q == [pub[t] EXCEPT !.at = "working"]
  <2>1. q.at = "working" /\ q.then = pub[t].then
    BY RecordTyped DEF TurnRecords
  <2> HIDE DEF q
  <2>2. Sound(q) /\ ~OnFirst(q)
    BY <1>3, <2>1 DEF Sound, OnFirst, Resets
  <2> QED BY <1>8, <2>1, <2>2, RestingSound DEF q
<1>10. \A s \in Turns : s # t =>
         /\ pub'[s] = pub[s] /\ ~OnFirst(pub[s]) /\ Sound(pub[s])
         /\ pub[s].at \notin {"demote", "insert"}
  BY <1>1, <1>2, Alone DEF Moves
<1>11. ASSUME NEW r \in Readers, reader'[r].at # "idle"
       PROVE  rows'[reader'[r].row].number = reader'[r].seen.number
  <2>1. /\ reader[r].row \in DOMAIN rows /\ reader[r].seen.number \in DOMAIN prs
        /\ rows[reader[r].row].number = reader[r].seen.number
    BY <1>1, <1>11 DEF Typed, ReadersTyped, Lasting
  <2>2. reader[r].seen.number # 0
    BY <2>1 DEF Typed, RowsTyped
  <2> QED BY <1>1, <1>7, <2>1, <2>2
<1> HIDE DEF k
<1> QED BY <1>5, <1>7, <1>9, <1>10, <1>11 DEF Lasting

(* A crash leaves the rows as they were. *)
LEMMA CrashLasts ==
  ASSUME Typed, Lasting, Crash
  PROVE  Lasting' /\ SameRows
<1>1. /\ UNCHANGED rows /\ reader' = [r \in Readers |-> Reading]
      /\ pub' = [t \in Turns |-> IF pub[t].at = "waiting" THEN pub[t] ELSE Resting("ended")]
  BY DEF Crash
<1>2. history \subseteq history'
  BY CrashStep
<1>3. SUFFICES ASSUME "overlap" \notin history' PROVE Lasting'
  BY <1>1 DEF Lasting, SameRows
<1>4. "overlap" \notin history
  BY <1>2, <1>3
<1>5. \A t \in Turns : /\ Sound(pub'[t]) /\ pub'[t].at \notin {"demote", "insert"}
                       /\ OnFirst(pub'[t]) => pub'[t] = pub[t]
  BY <1>1, <1>4, RestingSound DEF Lasting
<1>6. \A r \in Readers : reader'[r].at = "idle"
  BY <1>1 DEF Reading
<1> QED BY <1>1, <1>4, <1>5, <1>6 DEF Lasting

(* A merge on GitHub leaves the rows as they were. *)
LEMMA MergeLasts ==
  ASSUME Lasting, NEW n, Merge(n)
  PROVE  Lasting' /\ SameRows
<1>1. UNCHANGED <<rows, pub, reader>> /\ history \subseteq history'
  BY DEF Merge, Mishap
<1> QED BY <1>1 DEF Lasting, SameRows

(* A reader writes the number that the row has already. *)
LEMMA ReadersLast ==
  ASSUME Typed, Lasting, NEW r \in Readers, Refresh(r) \/ GiveUp(r)
  PROVE  /\ Lasting'
         /\ "overlap" \notin history' => SameRows
<1>1. UNCHANGED pub /\ history \subseteq history'
  BY ReaderSteps
<1>2. SUFFICES ASSUME "overlap" \notin history' PROVE Lasting' /\ SameRows
  BY DEF Lasting
<1>3. "overlap" \notin history
  BY <1>1, <1>2
<1>4. reader \in [Readers -> ReaderRecords] /\ Reading.at = "idle"
  BY DEF Typed, ReadersTyped, Reading
<1>5. SameRows
  <2>1. CASE UNCHANGED rows
    BY <2>1 DEF SameRows
  <2>2. CASE Write(r)
    <3> DEFINE i == reader[r].row
               new == [rows[i] EXCEPT !.number = reader[r].seen.number,
                                      !.status = reader[r].state, !.failure = FALSE]
    <3>1. reader[r].at = "write" /\ rows' = [rows EXCEPT ![i] = new]
      BY <2>2 DEF Write
    <3>2. i \in DOMAIN rows /\ rows[i] \in Row
      BY <3>1 DEF Typed, ReadersTyped, RowsTyped
    <3>3. rows[i].number = reader[r].seen.number
      BY <1>3, <3>1 DEF Lasting
    <3>4. new.number = rows[i].number /\ new.current = rows[i].current
      BY <3>2, <3>3 DEF Row
    <3> HIDE DEF new
    <3> QED BY <3>1, <3>4 DEF SameRows
  <2> QED BY <2>1, <2>2 DEF Refresh, ReadRow, Ask, GiveUp
<1>6. ASSUME NEW s \in Readers, reader'[s].at # "idle"
      PROVE  rows'[reader'[s].row].number = reader'[s].seen.number
  <2>1. CASE reader'[s].row = reader[s].row /\ reader'[s].seen = reader[s].seen
             /\ reader[s].at # "idle"
    BY <1>3, <1>5, <2>1 DEF Lasting, SameRows, Typed, ReadersTyped
  <2>2. CASE ReadRow(r) /\ s = r
    <3>1. PICK i : reader' = [reader EXCEPT ![r] =
                      [Reading EXCEPT !.at = "ask", !.row = i, !.seen = rows[i]]]
      BY <2>2 DEF ReadRow
    <3>2. reader'[s].row = i /\ reader'[s].seen = rows[i] /\ UNCHANGED rows
      BY <1>4, <2>2, <3>1 DEF Reading, ReadRow
    <3> QED BY <3>2
  <2>3. CASE ~ReadRow(r) \/ s # r
    <3>1. CASE s # r
      <4>1. reader'[s] = reader[s]
        BY <1>4, <3>1 DEF Refresh, ReadRow, Ask, Write, GiveUp
      <4> QED BY <1>6, <2>1, <4>1
    <3>2. CASE Ask(r) /\ s = r
      <4>1. reader[s] \in ReaderRecords
        BY <1>4
      <4>2. PICK state : reader'[s] \in {Reading, [reader[s] EXCEPT !.at = "write", !.state = state]}
        BY <1>4, <3>2 DEF Ask
      <4>3. reader'[s] = [reader[s] EXCEPT !.at = "write", !.state = state]
        BY <1>4, <1>6, <4>2
      <4>4. reader'[s].row = reader[s].row /\ reader'[s].seen = reader[s].seen
        BY <4>1, <4>3 DEF ReaderRecords
      <4> QED BY <2>1, <3>2, <4>4 DEF Ask
    <3>3. CASE (Write(r) \/ GiveUp(r)) /\ s = r
      <4>1. reader'[s] = Reading
        BY <1>4, <3>3 DEF Write, GiveUp
      <4> QED BY <1>4, <1>6, <4>1
    <3> QED BY <2>3, <3>1, <3>2, <3>3 DEF Refresh
  <2> QED BY <2>2, <2>3
<1> QED BY <1>1, <1>3, <1>5, <1>6 DEF Lasting, SameRows

(* Every step keeps Lasting and the rows that have a pull request. *)
LEMMA NextLasts ==
  ASSUME Typed, Serial, Lasting, [Next]_vars
  PROVE  /\ Lasting'
         /\ \A i \in DOMAIN rows : rows[i].number # 0 /\ "overlap" \notin history' =>
              rows'[i].current /\ rows'[i].number = rows[i].number
<1>1. SUFFICES ASSUME "overlap" \notin history'
               PROVE  /\ Lasting'
                      /\ \A i \in DOMAIN rows : rows[i].number # 0 =>
                           rows'[i].current /\ rows'[i].number = rows[i].number
  BY DEF Lasting
<1>2. Lasting /\ SameRows /\ history \subseteq history' =>
        \A i \in DOMAIN rows : rows[i].number # 0 =>
          rows'[i].current /\ rows'[i].number = rows[i].number
  BY <1>1 DEF Lasting, SameRows
<1>3. history \subseteq history'
  BY ToolEffect, InsertStep, BeginTurnStep, AbortStep, ReaderSteps, MergeStep, CrashStep
     DEF Next, Effect, vars
<1>4. ASSUME NEW t \in Turns,
             \/ BeginTurn(t) \/ Agent(t) \/ Tool(t) \/ Fail(t) \/ RecordThrows(t)
             \/ Abort(t),
             ~FindCurrent(t), ~Demote(t), ~Insert(t), ~Persist(t), ~PersistFailure(t)
      PROVE  Lasting' /\ SameRows
  BY <1>4, QuietSteps
<1>5. ASSUME NEW t \in Turns, FindCurrent(t) \/ Demote(t)
      PROVE  Lasting' /\ SameRows
  BY <1>5, FindCurrentLasts, DemoteLasts
<1>6. ASSUME NEW t \in Turns, Insert(t) \/ Persist(t) \/ PersistFailure(t)
      PROVE  /\ Lasting'
             /\ \A i \in DOMAIN rows : rows[i].number # 0 =>
                  rows'[i].current /\ rows'[i].number = rows[i].number
  BY <1>1, <1>6, InsertLasts, FirstRowLasts
<1>7. ASSUME NEW r \in Readers, Refresh(r) \/ GiveUp(r)
      PROVE  Lasting' /\ SameRows
  BY <1>1, <1>7, ReadersLast
<1>8. ASSUME NEW n \in DOMAIN prs, Merge(n)
      PROVE  Lasting' /\ SameRows
  BY <1>8, MergeLasts
<1>9. CASE Crash
  BY <1>2, <1>3, <1>9, CrashLasts
<1>10. CASE UNCHANGED vars
  <2>1. UNCHANGED <<rows, pub, reader, history>>
    BY <1>10 DEF vars
  <2>2. Lasting' /\ SameRows
    BY <2>1 DEF Lasting, SameRows
  <2> QED BY <1>2, <1>3, <2>2
<1> QED BY <1>2, <1>3, <1>4, <1>5, <1>6, <1>7, <1>8, <1>9, <1>10 DEF Next

(* At the start there are no rows, and no turn is on any path. *)
LEMMA InitLasts == Init => Lasting
<1>1. SUFFICES ASSUME Init PROVE Lasting
  OBVIOUS
<1>2. /\ DOMAIN rows = {}
      /\ \A t \in Turns : pub[t] = Resting("waiting")
      /\ \A r \in Readers : reader[r].at = "idle"
  BY <1>1 DEF Init, Reading
<1> QED BY <1>2, RestingSound DEF Lasting

(***************************************************************************)
(* A published pull request stays current and keeps its number whatever    *)
(* fails, is aborted or crashes, unless two publications overlap.          *)
(***************************************************************************)
THEOREM PublishedIsKept == Spec => PublishedStaysCurrent
<1>1. Init => Typed /\ Serial /\ Lasting
  BY InitTyped, InitSerial, InitLasts
<1>2. Typed /\ Serial /\ Lasting /\ [Next]_vars => (Typed /\ Serial /\ Lasting)'
  BY NextKeeps, NextLasts
<1>3. Typed /\ Serial /\ Lasting /\ [Next]_vars =>
        [\A i \in DOMAIN rows :
           rows[i].number # 0 /\ "overlap" \notin history' =>
             rows'[i].current /\ rows'[i].number = rows[i].number]_vars
  BY NextLasts
<1> QED BY <1>1, <1>2, <1>3, PTL DEF Spec, PublishedStaysCurrent
=============================================================================
