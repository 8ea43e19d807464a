---------------------- MODULE PullRequestPublication ----------------------
(***************************************************************************)
(* The pull request of one GitHub session: publishPullRequest, which moves *)
(* the agent's changes through the Git repository of the container, the    *)
(* branch on the remote, a pull request on GitHub and a row in Postgres;   *)
(* the other pull request tools; and currentPullRequest, which any client  *)
(* may call at any time to refresh the row from GitHub.                    *)
(*                                                                         *)
(* The turns of the session's messages follow each other.  A cancelled one *)
(* frees the session at once, and its publication notices only when it     *)
(* next runs a Git command: calls of GitHub and of Postgres do not look at *)
(* the signal.  The next turn may overlap what is left of it.              *)
(***************************************************************************)
EXTENDS Naturals, Sequences, FiniteSets, SequencesExt

CONSTANTS
  Readers,       \* concurrent calls of currentPullRequest
  MaxTurns,      \* bound: messages of the session
  MaxEdits,      \* bound: changes the agent makes to its files
  MaxCalls,      \* bound: calls of the pull request tools
  MaxMishaps     \* bound: aborts, crashes, failures and users on GitHub, together

ASSUME BoundsAssumption == {MaxTurns, MaxEdits, MaxCalls, MaxMishaps} \subseteq Nat

Turns == 1..MaxTurns

VARIABLES
  tree, index,    \* content of the files, and of the index
  head, fetched,  \* commits of the session branch, and of FETCH_HEAD
  onBranch,       \* the session branch is checked out, else the base branch
  remote,         \* commits of the session branch on GitHub
  made,           \* commits made, to tell them apart
  prs,            \* state of each pull request on GitHub, by number
  rows,           \* pull request rows, oldest first
  pub,            \* what the agent's turn of each message is doing
  aborted,        \* its signal
  reader,         \* the call of each reader
  calls, mishaps,
  history         \* which kinds of mishap there have been, and which records failed

repo == <<tree, index, head, fetched, onBranch, remote, made>>
bounds == <<calls, mishaps>>
vars == <<repo, prs, rows, pub, aborted, reader, bounds, history>>

Actions == {"publish", "update", "comment", "close", "reopen"}
States == {"open", "closed", "merged"}
Resets == {"unstage", "undo"}
GitSteps ==
  {"branch", "checkout", "status", "fetch", "align", "synced",
   "add", "commit", "push"} \cup Resets
RecordSteps ==
  {"find", "demote", "insert", "event", "persist", "fail", "target", "save", "saveFailure"}

Resting(at) == [at |-> at, then |-> at, row |-> 0, existing |-> FALSE,
                demotes |-> {}, action |-> "publish", number |-> 0, state |-> "open",
                before |-> IF at = "working" THEN made ELSE 0]
Reading == [at |-> "idle", row |-> 0, seen |-> [status |-> "creating"], state |-> "open"]
NoRow == [number |-> 0, status |-> "creating", current |-> TRUE, failure |-> FALSE]

Init ==
  /\ tree = 0 /\ index = 0 /\ made = 0
  /\ head = <<>> /\ fetched = <<>> /\ remote = <<>>
  /\ onBranch = TRUE
  /\ prs = <<>> /\ rows = <<>>
  /\ pub = [t \in Turns |-> Resting("waiting")]
  /\ aborted = [t \in Turns |-> FALSE]
  /\ reader = [r \in Readers |-> Reading]
  /\ calls = 0 /\ mishaps = 0 /\ history = {}

Mishap(kinds) ==
  /\ mishaps < MaxMishaps
  /\ mishaps' = mishaps + 1
  /\ history' = history \cup kinds

(***************************************************************************)
(* Where a turn goes on, with record p.  publishExec throws once the       *)
(* signal is aborted; the exception is dropped by the two resets and ends  *)
(* the turn anywhere else.                                                 *)
(***************************************************************************)
Goto(t, p, next) ==
  pub' = [pub EXCEPT ![t] =
    LET to == IF aborted[t] /\ next \in Resets THEN p.then ELSE next
    IN IF aborted[t] /\ to \in GitSteps \cup {"working"} THEN Resting("ended")
       ELSE IF to = "working" THEN Resting("working")
       ELSE [p EXCEPT !.at = to]]

-----------------------------------------------------------------------------
(* The commands that run in the container. *)

Content(commits) == IF commits = <<>> THEN 0 ELSE Last(commits).tree
Tip == IF onBranch THEN Content(head) ELSE 0
Clean == tree = Tip /\ index = Tip

CanCheckOut == onBranch \/ Clean

CheckOut ==
  /\ CanCheckOut
  /\ onBranch' = TRUE
  /\ IF onBranch THEN UNCHANGED <<tree, index>>
     ELSE tree' = Content(head) /\ index' = Content(head)
  /\ UNCHANGED <<head, fetched, remote, made>>

Fetch ==
  /\ remote # <<>>
  /\ fetched' = remote
  /\ UNCHANGED <<tree, index, head, onBranch, remote, made>>

(* git reset --mixed: the branch and the index move, the files stay. *)
ResetMixed(commits) ==
  /\ head' = commits
  /\ index' = Content(commits)
  /\ UNCHANGED <<tree, fetched, onBranch, remote, made>>

StageAll ==
  /\ index' = tree
  /\ UNCHANGED <<tree, head, fetched, onBranch, remote, made>>

CommitIndex ==
  /\ index # Content(head)
  /\ head' = Append(head, [id |-> made + 1, tree |-> index])
  /\ made' = made + 1
  /\ UNCHANGED <<tree, index, fetched, onBranch, remote>>

FastForward == IsPrefix(remote, head)

Push ==
  /\ FastForward
  /\ remote' = head
  /\ UNCHANGED <<tree, index, head, fetched, onBranch, made>>

Git(cmd) ==
  \/ cmd \in {"branch", "status", "synced"} /\ UNCHANGED repo
  \/ cmd = "checkout" /\ CheckOut
  \/ cmd = "fetch" /\ Fetch
  \/ cmd = "align" /\ ResetMixed(fetched)
  \/ cmd = "add" /\ StageAll
  \/ cmd = "unstage" /\ ResetMixed(head)
  \/ cmd = "commit" /\ CommitIndex
  \/ cmd = "push" /\ Push
  \/ cmd = "undo" /\ head # <<>> /\ ResetMixed(Front(head))

(* The command as it is refuses, without anything going wrong. *)
Refuses(cmd) ==
  \/ cmd = "checkout" /\ ~CanCheckOut
  \/ cmd = "fetch" /\ remote = <<>>
  \/ cmd = "commit" /\ index = Content(head)
  \/ cmd = "push" /\ ~FastForward
  \/ cmd = "undo" /\ head = <<>>

-----------------------------------------------------------------------------
(* publishPullRequest between two commands. *)

After ==
  [branch |-> "status", checkout |-> "status", status |-> "find",
   fetch |-> "align", align |-> "synced", synced |-> "add",
   add |-> "commit", commit |-> "push", push |-> "event"]

OnSuccess(p) ==
  IF p.at \in Resets THEN p.then
  ELSE IF p.at = "branch" /\ ~onBranch THEN (IF Clean THEN "checkout" ELSE "working")
  ELSE IF p.at \in {"status", "synced"} /\ Clean THEN "working"
  ELSE After[p.at]

RecoveryKeepsCommit ==
  [branch |-> "working", checkout |-> "working", status |-> "working",
   fetch |-> "fail", align |-> "fail", synced |-> "fail",
   add |-> "unstage", commit |-> "unstage", push |-> "unstage"]

Recovery ==
  [branch |-> "working", checkout |-> "working", status |-> "working",
   fetch |-> "fail", align |-> "fail", synced |-> "fail",
   add |-> "unstage", commit |-> "unstage", push |-> "undo"]

OnFailure(p) == IF p.at \in Resets THEN p.then ELSE Recovery[p.at]

Failing(p) == IF p.at \in Resets THEN p ELSE [p EXCEPT !.then = "fail"]

Succeed(t) ==
  /\ pub[t].at \in GitSteps /\ ~aborted[t]
  /\ Git(pub[t].at)
  /\ Goto(t, pub[t], OnSuccess(pub[t]))
  /\ UNCHANGED <<prs, rows, aborted, reader, bounds, history>>

Refuse(t) ==
  /\ pub[t].at \in GitSteps /\ ~aborted[t]
  /\ Refuses(pub[t].at)
  /\ Goto(t, Failing(pub[t]), OnFailure(pub[t]))
  /\ UNCHANGED <<repo, prs, rows, aborted, reader, bounds, history>>

(* It fails or times out.  What has timed out may have been done all the same. *)
Fail(t) ==
  /\ pub[t].at \in GitSteps /\ ~aborted[t]
  /\ \/ UNCHANGED repo /\ Mishap(IF pub[t].at \in Resets THEN {"torn"} ELSE {})
     \/ Git(pub[t].at) /\ Mishap({"torn"})
  /\ Goto(t, Failing(pub[t]), OnFailure(pub[t]))
  /\ UNCHANGED <<prs, rows, aborted, reader, calls>>

(* The signal was aborted while the command ran. *)
Throw(t) ==
  /\ pub[t].at \in GitSteps /\ aborted[t]
  /\ Git(pub[t].at) \/ UNCHANGED repo
  /\ Goto(t, pub[t], pub[t].at)
  /\ UNCHANGED <<prs, rows, aborted, reader, bounds, history>>

-----------------------------------------------------------------------------
(* The rows. *)

CurrentRows == {i \in DOMAIN rows : rows[i].current}
Latest(ids) == CHOOSE i \in ids : \A j \in ids : j <= i

(* Which row, and so whether this is a first publication or a later one. *)
FindCurrent(t) ==
  LET i == Latest(CurrentRows)
      found == CurrentRows # {} /\ rows[i].number # 0
  IN /\ pub[t].at = "find"
     /\ Goto(t, [pub[t] EXCEPT !.row = IF found THEN i ELSE 0, !.existing = found,
                               !.number = IF found THEN rows[i].number ELSE 0],
             IF found THEN "fetch" ELSE "demote")
     /\ UNCHANGED <<repo, prs, rows, aborted, reader, bounds, history>>

(* The transaction of a first publication: what its updateMany matches, ... *)
Demote(t) ==
  /\ pub[t].at = "demote"
  /\ Goto(t, [pub[t] EXCEPT !.demotes = CurrentRows], "insert")
  /\ UNCHANGED <<repo, prs, rows, aborted, reader, bounds, history>>

(* ... and its commit, with the new row. *)
InsertBeside(t) ==
  /\ pub[t].at = "insert"
  /\ rows' = Append(rows, NoRow)
  /\ Goto(t, [pub[t] EXCEPT !.row = Len(rows) + 1, !.demotes = {}], "add")
  /\ UNCHANGED <<repo, prs, aborted, reader, bounds, history>>

Insert(t) ==
  /\ pub[t].at = "insert"
  /\ rows' = Append([i \in DOMAIN rows |->
                       IF i \in pub[t].demotes THEN [rows[i] EXCEPT !.current = FALSE]
                       ELSE rows[i]], NoRow)
  /\ Goto(t, [pub[t] EXCEPT !.row = Len(rows) + 1, !.demotes = {}], "add")
  /\ UNCHANGED <<repo, prs, aborted, reader, bounds, history>>

(* pull_request_branch_pushed. *)
AppendPushed(t) ==
  /\ pub[t].at = "event"
  /\ Goto(t, pub[t], IF pub[t].existing THEN "target" ELSE "open")
  /\ UNCHANGED <<repo, prs, rows, aborted, reader, bounds, history>>

OpenUnlessAborted(t) ==
  /\ pub[t].at = "open"
  /\ "open" \notin ToSet(prs)
  /\ prs' = Append(prs, "open")
  /\ IF aborted[t] THEN Goto(t, pub[t], "working")
     ELSE Goto(t, [pub[t] EXCEPT !.then = "persist", !.number = Len(prs) + 1], "undo")
  /\ UNCHANGED <<repo, rows, aborted, reader, bounds, history>>

(* GitHub has at most one open pull request for a branch. *)
Open(t) ==
  LET answer(ok) == Goto(t, [pub[t] EXCEPT !.then = IF ok THEN "persist" ELSE "fail",
                                           !.number = IF ok THEN Len(prs) + 1 ELSE 0],
                         "undo")
      creates == prs' = Append(prs, "open")
      refused == "open" \in ToSet(prs)
  IN /\ pub[t].at = "open"
     /\ \/ ~refused /\ creates /\ answer(TRUE) /\ UNCHANGED <<mishaps, history>>
        \/ refused /\ answer(FALSE) /\ UNCHANGED <<prs, mishaps, history>>
        \/ answer(FALSE) /\ UNCHANGED prs /\ Mishap({})
        \/ ~refused /\ creates /\ answer(FALSE) /\ Mishap({"unheard"})
     /\ UNCHANGED <<repo, rows, aborted, reader, calls>>

(* pull_request_created: the row keeps isCurrent as it is. *)
Persist(t) ==
  /\ pub[t].at = "persist"
  /\ rows' = [rows EXCEPT ![pub[t].row] =
                [@ EXCEPT !.number = pub[t].number, !.status = "open", !.failure = FALSE]]
  /\ Goto(t, pub[t], "working")
  /\ UNCHANGED <<repo, prs, aborted, reader, bounds, history>>

(* failPublishingPullRequest, or failUpdatingPullRequest of a later one. *)
Failed == [number |-> 0, status |-> "failed", current |-> FALSE, failure |-> TRUE]

PersistFailureAlike(t) ==
  /\ pub[t].at = "fail"
  /\ rows' = [rows EXCEPT ![pub[t].row] = Failed]
  /\ Goto(t, pub[t], "working")
  /\ UNCHANGED <<repo, prs, aborted, reader, bounds, history>>

PersistFailureOnly(t) ==
  /\ pub[t].at = "fail"
  /\ rows' = [rows EXCEPT ![pub[t].row].failure = TRUE]
  /\ Goto(t, pub[t], "working")
  /\ UNCHANGED <<repo, prs, aborted, reader, bounds, history>>

PersistFailure(t) ==
  /\ pub[t].at = "fail"
  /\ rows' = [rows EXCEPT ![pub[t].row] =
                IF pub[t].existing THEN [@ EXCEPT !.failure = TRUE] ELSE Failed]
  /\ Goto(t, pub[t], "working")
  /\ UNCHANGED <<repo, prs, aborted, reader, bounds, history>>

-----------------------------------------------------------------------------
(* pullRequest(): update, also of a later publication, comment, close, reopen. *)

Finish(t, p) ==
  Goto(t, [p EXCEPT !.then = "working"], IF p.action = "publish" THEN "undo" ELSE "working")

Target(t) ==
  LET matches == IF pub[t].number # 0
                 THEN {i \in DOMAIN rows : rows[i].number = pub[t].number}
                 ELSE {i \in CurrentRows : i = Latest(CurrentRows) /\ rows[i].number # 0}
  IN /\ pub[t].at = "target"
     /\ IF matches = {} THEN Finish(t, pub[t])
        ELSE Goto(t, [pub[t] EXCEPT !.row = Latest(matches),
                                    !.number = rows[Latest(matches)].number], "call")
     /\ UNCHANGED <<repo, prs, rows, aborted, reader, bounds, history>>

(* What GitHub makes of the action; it does not reopen what was merged. *)
Becomes(action, state) ==
  IF state = "merged" THEN "merged"
  ELSE IF action = "close" THEN "closed"
  ELSE IF action = "reopen" THEN "open" ELSE state

Call(t) ==
  LET p == pub[t]
      state == Becomes(p.action, prs[p.number])
      refused == p.action = "reopen" /\ prs[p.number] = "merged"
  IN /\ p.at = "call"
     /\ \/ /\ ~refused
           /\ prs' = [prs EXCEPT ![p.number] = state]
           /\ Goto(t, [p EXCEPT !.state = state], "save")
           /\ UNCHANGED <<mishaps, history>>
        \/ /\ refused
           /\ Goto(t, p, "saveFailure")
           /\ UNCHANGED <<prs, mishaps, history>>
        \/ /\ Mishap({})
           /\ prs' \in {prs, [prs EXCEPT ![p.number] = state]}
           /\ Goto(t, p, "saveFailure")
     /\ UNCHANGED <<repo, rows, aborted, reader, calls>>

(* persistPullRequestUpdate, persistPullRequestComment. *)
Save(t) ==
  LET p == pub[t]
      row == rows[p.row]
  IN /\ p.at = "save"
     /\ rows' = [rows EXCEPT ![p.row] = [row EXCEPT
          !.failure = FALSE,
          !.status = IF p.action = "close" THEN "closed"
                     ELSE IF p.action = "reopen" THEN "open"
                     ELSE IF p.action = "comment" THEN row.status ELSE p.state]]
     /\ Finish(t, p)
     /\ UNCHANGED <<repo, prs, aborted, reader, bounds, history>>

SaveFailure(t) ==
  /\ pub[t].at = "saveFailure"
  /\ rows' = [rows EXCEPT ![pub[t].row].failure = TRUE]
  /\ Finish(t, pub[t])
  /\ UNCHANGED <<repo, prs, aborted, reader, bounds, history>>

(***************************************************************************)
(* Postgres fails: nothing is committed and the exception leaves the tool. *)
(* publishPullRequest catches it only around pullRequest(), where it makes *)
(* the reset before it throws it on.                                       *)
(***************************************************************************)
RecordThrows(t) ==
  /\ pub[t].at \in RecordSteps
  /\ Mishap({pub[t].at})
  /\ IF pub[t].at \in {"target", "save", "saveFailure"} THEN Finish(t, pub[t])
     ELSE Goto(t, pub[t], "working")
  /\ UNCHANGED <<repo, prs, rows, aborted, reader, calls>>

-----------------------------------------------------------------------------
(* currentPullRequest: read the row, ask GitHub, write what it answered. *)

ReadAnyRow(r) ==
  LET ids == IF CurrentRows # {} THEN CurrentRows ELSE DOMAIN rows
      i == Latest(ids)
  IN /\ reader[r].at = "idle"
     /\ ids # {}
     /\ reader' = [reader EXCEPT ![r] =
          [Reading EXCEPT !.at = "ask", !.row = i, !.seen = rows[i]]]
     /\ UNCHANGED <<repo, prs, rows, pub, aborted, bounds, history>>

ReadRow(r) ==
  LET ids == IF CurrentRows # {} THEN CurrentRows ELSE DOMAIN rows
      i == Latest(ids)
  IN /\ reader[r].at = "idle"
     /\ ids # {} /\ rows[i].number # 0
     /\ reader' = [reader EXCEPT ![r] =
          [Reading EXCEPT !.at = "ask", !.row = i, !.seen = rows[i]]]
     /\ UNCHANGED <<repo, prs, rows, pub, aborted, bounds, history>>

AskAndAnswer(r) ==
  /\ reader[r].at = "ask"
  /\ reader' = [reader EXCEPT ![r] = Reading]
  /\ UNCHANGED <<repo, prs, rows, pub, aborted, bounds, history>>

Ask(r) ==
  LET state == prs[reader[r].seen.number]
      same == reader[r].seen.status = state /\ ~reader[r].seen.failure
  IN /\ reader[r].at = "ask"
     /\ reader' = [reader EXCEPT ![r] =
          IF same THEN Reading ELSE [@ EXCEPT !.at = "write", !.state = state]]
     /\ UNCHANGED <<repo, prs, rows, pub, aborted, bounds, history>>

(* GitHub, or the update, fails: the row that was read is the answer. *)
GiveUp(r) ==
  /\ reader[r].at # "idle"
  /\ Mishap({})
  /\ reader' = [reader EXCEPT ![r] = Reading]
  /\ UNCHANGED <<repo, prs, rows, pub, aborted, calls>>

Write(r) ==
  /\ reader[r].at = "write"
  /\ rows' = [rows EXCEPT ![reader[r].row] =
                [@ EXCEPT !.number = reader[r].seen.number,
                          !.status = reader[r].state, !.failure = FALSE]]
  /\ reader' = [reader EXCEPT ![r] = Reading]
  /\ UNCHANGED <<repo, prs, pub, aborted, bounds, history>>

-----------------------------------------------------------------------------
(* The turns. *)

Over(t) == pub[t].at = "ended" \/ aborted[t]

(* ensureSessionBranch, before the agent starts. *)
BeginTurn(t) ==
  /\ pub[t].at = "waiting"
  /\ \A s \in 1..t-1 : Over(s)
  /\ pub' = [pub EXCEPT ![t] = Resting(IF CanCheckOut THEN "working" ELSE "ended")]
  /\ IF CanCheckOut THEN CheckOut ELSE UNCHANGED repo
  /\ history' = IF \E s \in 1..t-1 : pub[s].at # "ended"
                THEN history \cup {"overlap"} ELSE history
  /\ UNCHANGED <<prs, rows, aborted, reader, bounds>>

Edit(t) ==
  /\ pub[t].at = "working" /\ tree < MaxEdits
  /\ tree' = tree + 1
  /\ UNCHANGED <<index, head, fetched, onBranch, remote, made>>
  /\ UNCHANGED <<prs, rows, pub, aborted, reader, bounds, history>>

(* The agent checks out the base branch, if Git lets it and nothing overlaps. *)
Leave(t) ==
  /\ pub[t].at = "working" /\ onBranch /\ Clean
  /\ \A s \in Turns \ {t} : pub[s].at \in {"waiting", "ended"}
  /\ onBranch' = FALSE /\ tree' = 0 /\ index' = 0
  /\ UNCHANGED <<head, fetched, remote, made>>
  /\ UNCHANGED <<prs, rows, pub, aborted, reader, bounds, history>>

CallTool(t, action) ==
  /\ pub[t].at = "working" /\ calls < MaxCalls
  /\ calls' = calls + 1
  /\ Goto(t, [Resting("working") EXCEPT !.action = action],
          IF action = "publish" THEN "branch" ELSE "target")
  /\ UNCHANGED <<repo, prs, rows, aborted, reader, mishaps, history>>

EndTurn(t) ==
  /\ pub[t].at = "working"
  /\ pub' = [pub EXCEPT ![t] = Resting("ended")]
  /\ UNCHANGED <<repo, prs, rows, aborted, reader, bounds, history>>

Abort(t) ==
  /\ pub[t].at \notin {"waiting", "ended"} /\ ~aborted[t]
  /\ Mishap({"abort"})
  /\ aborted' = [aborted EXCEPT ![t] = TRUE]
  /\ pub' = [pub EXCEPT ![t] = IF @.at = "working" THEN Resting("ended") ELSE @]
  /\ UNCHANGED <<repo, prs, rows, reader, calls>>

(* The server dies.  A command it was running in the container may go on. *)
Crash ==
  /\ \E t \in Turns : pub[t].at \notin {"waiting", "ended"}
  /\ Mishap({"crash"})
  /\ \/ UNCHANGED repo
     \/ \E t \in Turns : pub[t].at \in GitSteps /\ Git(pub[t].at)
  /\ pub' = [t \in Turns |-> IF pub[t].at = "waiting" THEN pub[t] ELSE Resting("ended")]
  /\ reader' = [r \in Readers |-> Reading]
  /\ UNCHANGED <<prs, rows, aborted, calls>>

(* A user merges the pull request on GitHub. *)
Merge(n) ==
  /\ prs[n] = "open"
  /\ Mishap({})
  /\ prs' = [prs EXCEPT ![n] = "merged"]
  /\ UNCHANGED <<repo, rows, pub, aborted, reader, calls>>

-----------------------------------------------------------------------------
Command(t) == Succeed(t) \/ Refuse(t) \/ Throw(t)
Record(t) == FindCurrent(t) \/ Demote(t) \/ Insert(t) \/ AppendPushed(t)
             \/ Persist(t) \/ PersistFailure(t) \/ Save(t) \/ SaveFailure(t)
OnGitHub(t) == Open(t) \/ Target(t) \/ Call(t)
Tool(t) == Command(t) \/ Record(t) \/ OnGitHub(t)
Refresh(r) == ReadRow(r) \/ Ask(r) \/ Write(r)
Agent(t) == Edit(t) \/ Leave(t) \/ EndTurn(t) \/ \E action \in Actions : CallTool(t, action)

Next ==
  \/ \E t \in Turns : BeginTurn(t) \/ Agent(t) \/ Tool(t) \/ Abort(t)
  \/ \E t \in Turns : Fail(t) \/ RecordThrows(t)
  \/ \E r \in Readers : Refresh(r) \/ GiveUp(r)
  \/ Crash
  \/ \E n \in DOMAIN prs : Merge(n)

Spec == Init /\ [][Next]_vars

(* Every call returns or throws, and the readers keep reading. *)
FairSpec ==
  /\ Spec
  /\ \A t \in Turns : WF_vars(Tool(t))
  /\ \A r \in Readers : WF_vars(Refresh(r))

-----------------------------------------------------------------------------
Commit == [id : Nat \ {0}, tree : Nat]
Row == [number : Nat, status : States \cup {"creating", "failed"},
        current : BOOLEAN, failure : BOOLEAN]
Kinds == {"overlap", "abort", "crash", "torn", "unheard"} \cup RecordSteps
Labels == GitSteps \cup RecordSteps \cup {"waiting", "working", "ended", "open", "call"}

TypeOK ==
  /\ {tree, index, made, calls, mishaps} \subseteq Nat
  /\ {head, fetched, remote} \subseteq Seq(Commit)
  /\ onBranch \in BOOLEAN
  /\ prs \in Seq(States)
  /\ rows \in Seq(Row)
  /\ pub \in [Turns -> [at : Labels, then : Labels, row : 0..Len(rows),
                        existing : BOOLEAN, demotes : SUBSET DOMAIN rows,
                        action : Actions, number : 0..Len(prs), state : States,
                        before : Nat]]
  /\ aborted \in [Turns -> BOOLEAN]
  /\ \A r \in Readers : reader[r].at # "idle" =>
       /\ reader[r].at \in {"ask", "write"}
       /\ reader[r].row \in DOMAIN rows
       /\ reader[r].seen \in Row /\ reader[r].seen.number \in DOMAIN prs
  /\ history \subseteq Kinds

(* What a property does not speak of: it has not happened. *)
Without(kinds) == history \cap kinds = {}

(***************************************************************************)
(* A session has at most one current pull request row, which nothing in    *)
(* the schema enforces: publications that follow each other, whichever of  *)
(* their calls fail and wherever they are cut off, never leave two.        *)
(***************************************************************************)
OneCurrentRow ==
  "overlap" \notin history => Cardinality(CurrentRows) <= 1

(***************************************************************************)
(* Once published, a pull request stays the session's current one, under   *)
(* its number: no later publication that fails, is aborted or crashes, and *)
(* no refresh with what it read long ago, loses it.                        *)
(***************************************************************************)
PublishedStaysCurrent ==
  [][\A i \in DOMAIN rows :
       rows[i].number # 0 /\ "overlap" \notin history' =>
         rows'[i].current /\ rows'[i].number = rows[i].number]_vars

(***************************************************************************)
(* Every pull request on GitHub is on a row, or about to be.  An abort may *)
(* skip the resets of a publication but not what it opened, and of the     *)
(* records only the one that stores its number may lose it: a pull request *)
(* is lost by nothing but a crash, an answer of GitHub that is not heard,  *)
(* and a failure of pull_request_created.                                  *)
(***************************************************************************)
NoPullRequestLost ==
  Without({"crash", "unheard", "persist"}) =>
    \A n \in DOMAIN prs :
      \/ \E i \in DOMAIN rows : rows[i].number = n
      \/ \E t \in Turns : /\ pub[t].number = n /\ pub[t].then = "persist"
                          /\ pub[t].at \in {"undo", "persist"}

Returns(t) == pub[t].at \notin {"waiting", "working", "ended"} /\ pub'[t].at = "working"
LeavesWorkspace(t) ==
  /\ index' = Tip'
  /\ \A i \in DOMAIN head' : head'[i].id <= pub[t].before

(***************************************************************************)
(* A publication leaves the workspace as the diff of the message needs it: *)
(* when it returns or throws, nothing is staged and the commit it made is  *)
(* not on the branch, whichever command, call of GitHub or record of it    *)
(* has failed, and whether it was to create or to update the pull request. *)
(* It does not after an abort, a crash or a command cut off, a reset that  *)
(* fails, and the one record whose failure no reset follows: the event     *)
(* pull_request_branch_pushed.                                             *)
(***************************************************************************)
WorkspaceRestored ==
  [][\A t \in Turns : Returns(t) /\ Without({"abort", "crash", "torn", "event"})' =>
       LeavesWorkspace(t)]_vars

(***************************************************************************)
(* A row in creating belongs to a publication that is under way.  What may *)
(* leave one behind is a cancellation or a crash, and a record that fails  *)
(* after the row was inserted and before its outcome is stored.            *)
(***************************************************************************)
CreatingIsUnderWay ==
  Without({"abort", "crash", "event", "persist", "fail"}) =>
    \A i \in DOMAIN rows :
      rows[i].status = "creating" => rows[i].current /\ \E t \in Turns : pub[t].row = i

(* What the readers show. *)
ShownIsGitHub ==
  LET i == Latest(CurrentRows)
  IN CurrentRows # {} /\ rows[i].number # 0 =>
       rows[i].status = prs[rows[i].number]

(***************************************************************************)
(* Clients that keep reading see the pull request as it is on GitHub in    *)
(* the end, although a refresh may write an old answer over a newer row.   *)
(***************************************************************************)
RowCatchesUp == <>[]ShownIsGitHub

(***************************************************************************)
(* "Later publications synchronize the session branch from its remote pull *)
(* request branch before committing new changes": what is pushed contains  *)
(* what is on the remote branch, also after a publication of which a       *)
(* command or a call of GitHub failed, if none was cut off or unheard and  *)
(* everything was recorded.                                                *)
(***************************************************************************)
PushesFastForward ==
  history = {} => \A t \in Turns : pub[t].at = "push" => FastForward
=============================================================================
