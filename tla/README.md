# Verification of agent-sandboxing

TLA+ models of the agent-sandboxing server and of the parts of its web client
that depend on the order of what the server tells it, the TLC runs that check
them on small instances, and proofs of their main safety properties checked by
TLAPS. Paths are relative to the repository root.

## The system

The server is one Node.js process over a Postgres database. A user opens a
*chat session* for a repository and appends messages to it. Each message is
processed by an agent that works in the session's docker container, and ends
completed, failed or cancelled. The agent may publish its work as a pull
request. Everything a client sees is a row or an event of the session's stream.

| Part | State it keeps | Operations | Talks to | What is hard | Model |
| --- | --- | --- | --- | --- | --- |
| `services/chat/chat-session.ts` | session rows: lock `active_message_id` | create, append a message, cancel, read | message processing, event store | several reads before a decision; competing appends | `MessageProcessing` |
| `services/chat/message-processing.ts` | message rows, the in-memory `executions` map | the phases of an execution, three terminal transactions, two ways to cancel | sandbox, processor, events, artifacts | cancellation at any await, racing transactions, lost executions | `MessageProcessing` |
| `services/sandbox/sandbox.ts`, `runtime.ts` | sandbox row, docker container | create, provision, branch, diff | docker, event store | two executions on one row, half-made containers | `MessageProcessing`, in part |
| `services/events/`, `routes/sse.ts` | event rows and their sequence, live subscribers | append, publish, replay | every service | order of publication, replay against live events | `EventStream` |
| `services/github/github.ts`: publishing | pull-request rows, GitHub and Git state | publish, update, comment, close, reopen, refresh | sandbox runtime, GitHub | several systems changed in turn, aborts between them | `PullRequestPublication` |
| `services/github/github.ts`: lists | three promise caches, installation rows | list, refresh, branches, install | GitHub, the client | loads that overlap forgetting and each other | `RepoSelection` |
| `services/agent/` | serial executor, tool correlations | run the tools of a turn, relay their events | event store, trace recorder | parallel callbacks, failures in the queue | `AgentTurn` |
| `services/tracing/trace-recorder.ts` | a trace per message, in memory | record, finish, export | sinks | recording after the end, restarts | `AgentTurn` |
| `session-context-builder.ts`, compactor | summary and compaction counter | build context, compact | model | counters read long before they are written | their place in a turn only |
| `services/artifacts/artifact-store.ts` | artifact rows | create, read | message processing, relay | rows written before the outcome is known | its rows' creation |
| `frontend/src`: workspace page, `useEventStream` | session, messages, events, cursors | load, follow events, navigate | API, event stream | answers and events in any order | `WorkspacePage` |
| `frontend/src`: repository page, header | lists, picks | list, pick, create a session | API | answers of earlier picks, old lists | `RepoSelection` |
| auth, routes, config, logger, prompts, `swe-bench-lite/`, `command-execution.ts` | credentials and scripts | input and output | | | not modelled |

What makes each correct, in a line:

* session and messages: one unsettled message at a time, one outcome and one
  result for each, and the lock free exactly when nothing is unsettled;
* executions: cancellable while they run, forgotten when they end;
* sandbox: `ready` means that the container holds the repository, and for a
  GitHub session the commit that was picked;
* events: every subscriber receives every event after its cursor, in order;
* the page: at rest it shows what is in the database;
* pull requests: one current row, which stays once it has a number, and a
  workspace without the publication's commit once a publication has ended;
* tools: one at a time, every end paired with its start, and a feed and a trace
  that tell the whole turn;
* lists: a refresh shows what was accessible when it was asked for, and what is
  picked after it is no older than it.

## Modules

| Module | Models |
| --- | --- |
| `SessionMailbox` | what a session promises about its messages: accept one when free, resolve it once, announce one result |
| `MessageProcessing` | one session: rows, executions, cancel calls, the container, crashes |
| `EventFeed` | what the event stream promises: a feed per session that only grows, read entry by entry from the start |
| `EventStream` | producers and their transactions, the hub, connections with replay and buffer, the browser's cursor |
| `WorkspacePage` | the page on top of `EventStream`: requests, answers, handled events, navigation |
| `PullRequestPublication` | the agent's turns and pull request tools, Git, the remote, GitHub, the rows, and clients that refresh |
| `AgentTurn` | agent runs and subagents, tool calls, executor, relay, trace recorder, and the message around them |
| `RepoSelection` | one user's repository page, header switcher and second tab, the server's caches, the installation flow, the session's clone |
| `MCMessageProcessing`, `MCWorkspacePage` | constant values and symmetry for TLC |
| `MessageProcessingProofs`, `MessageExecutionProofs` | theorems about `MessageProcessing`: its rows, then its executions |
| `PullRequestPublicationProofs`, `PullRequestOwnershipProofs` | theorems about `PullRequestPublication` |
| `WorkspacePageProofs`, `AgentTurnProofs` | theorems about `WorkspacePage` with `EventStream`, and about `AgentTurn` |
| `RepoSelectionProofs` | theorems about `RepoSelection` |
| `BoundedSets` | two lemmas the proofs share: bounded sets of numbers have a least and a greatest member |

`WorkspacePage` extends `EventStream`, as the page's only source of changes is
the stream. The other modules meet where the code's services call each other
and are modelled apart: for `MessageProcessing` the agent's turn is one step
that returns, throws or is aborted, `AgentTurn` opens that step and has the
message's settlement as one step each way; to `EventStream` the transactions of
both are producers. Some operators have a variant beside them that drops a
guard or a step (`LockRowUnlocked`, `Demote` and `InsertBeside`, ...): these
are not used by the specifications; each is a plausible slip in the
code that the properties must notice.

JavaScript runs without preemption between two awaits. In every module a step
is either the effect of one awaited call (a transaction, a command, a request)
or the synchronous code after one.

### MessageProcessing and the code

Nothing in these services reads or writes two sessions, so one session is
modelled.

| Variable | Stands for |
| --- | --- |
| `repoSource` | `chat_sessions.repo_source` |
| `status`, `active` | `processing_status` of each message, `active_message_id` |
| `posted` | how many events of each lifecycle type a message has; `assistant_message_created` is the `message_created` event of the answer |
| `artifacts` | messages with a stored diff artifact |
| `sandbox`, `container` | the row's status, and the container with the row's fixed name |
| `pc` | where `processMessageInBackground` of a message stands |
| `bound`, `sourced` | `execution.sandboxId` is set; `ensureSandbox` returned a source |
| `tracked` | the keys of `executions` |
| `cancelRequested` | `cancellationRequested`, that is, the aborted signal |
| `cancellation` | the memoised promise: `none`, capturing the `diff`, in the transaction (`commit`), about to settle (`settle`), `done` (`cancellationCompleted`) |
| `request` | the cancel call of a client: which read it has done, what it answered |
| `crashes` | the bound's counter |

The labels of `pc` are of three kinds. A *checkpoint* (`scheduled`, `ensured`,
`ready`, ...) is the place after an await where `waitForCancellation` is asked:
`CheckpointPassed` goes on to the call that `After` names and
`CheckpointCancelled` joins the cancellation. A *call* (`ensure`, `provision`,
`agent`, `complete`, ...) has an action of its own, and `Throw` sends it where
`Catches` says its exceptions arrive, if `MayFail` allows it to fail.
`finished` and `lost` are ends; `appended` is the moment between the commit of
`appendMessage` and `processMessage`, in which a message holds the lock but
has no execution.

The three terminal transactions share `Settle`: guarded status update, release
of the lock if it names the message, and events. The guard is in each action,
as it is in each `updateMany`. `Finish` is the `finally` block. A call that
fails is taken to have had no effect; a failure half-way through provisioning
is `CreateContainer` followed by a failing `populate`. `Crash` keeps the rows
and the container and drops the rest: neither shutdown nor startup looks at
executions.

Left out: contents of messages, diffs and artifacts; sandbox and tool events
(an aborted agent may still append some for a cancelled message); trace
recording; ownership checks, which are reads that reject a call.

### EventStream, WorkspacePage and the code

| Variable | Stands for |
| --- | --- |
| `log`, `counter`, `lock` | event rows in commit order, `next_event_sequence`, and who holds the session row FOR UPDATE |
| `tx` | an operation that appends: in its transaction (`locked`), or committed and not yet published |
| `overtaking` | whether continuations of two commits may run in either order; chosen once |
| `conn` | the `SseClient`: `replaying`, `read` (the snapshot is taken), `live`; `lastSent`, buffer and replay |
| `wire` | events written to the response and not received |
| `open`, `failed`, `cursor`, `seen` | the `EventSource` of the tab, whether it gave up, its last event id, the sequences in the `events` state |
| `route`, `shown`, `handled` | `:sessionId`, the states `session` and `messages`, `lastHandledSequence` |
| `fetches`, `started` | `refresh()` calls in flight, numbered |
| `visits`, `orderly` | history: how many sessions the route has named; whether no answer was lost or overtaken |

`LockRow` is the `SELECT ... FOR UPDATE`, `Commit` the end of a transaction with
one event or two that follow each other, `Publish` the code after it. `Connect`
subscribes before `ReadReplay` takes its snapshot, and `FinishReplay` writes the
replay and what the buffer adds. What a request of the page reads is a version,
the number of lifecycle events the session's rows have seen; the two reads of a
refresh are two steps. `Navigate` has both effects of the page in their order:
the reset, then the handling of the old session's events by the new `refresh`.

Whether publications overtake each other is a matter of the scheduling of
promises behind two database connections, which nothing in the code orders. The
model takes both cases. What is lost in the other one is the accepted loss of
the hub: a client that was sent a higher sequence is not sent a lower one, and
does not ask for it again. The properties on completeness are stated for the
orderly case, those on order and soundness for both, and `EventFeed` lets a
reader skip in the other case only.

### PullRequestPublication and the code

| Variable | Stands for |
| --- | --- |
| `tree`, `index` | content of the files and of the index, a number each |
| `head`, `fetched`, `remote`, `onBranch` | commits of the session branch, of `FETCH_HEAD`, of the branch on GitHub; whether the branch is checked out |
| `prs`, `rows` | pull requests on GitHub by number, rows of `pull_requests`, oldest first |
| `pub` | what the agent's turn of each message is doing: its label `at` and the locals of `publishPullRequest` and `pullRequest` |
| `aborted` | the turn's signal |
| `reader` | a call of `currentPullRequest`: the row it read, what GitHub answered |
| `history` | which mishaps there were: `overlap`, `abort`, `crash`, `torn` (a command cut off, or a reset that failed), `unheard` (GitHub's answer did not arrive), and the labels of the records that threw |

The commands of `publishPullRequest` are labels of `pub[t].at`; a command
succeeds, refuses (Git's own answer), fails, possibly after it took effect, or
is cut off. `After` and `Recovery` say where the code goes then, and `Goto` is
`publishExec`: an aborted signal makes every command throw before it runs, which
the two resets swallow and which ends the turn elsewhere. Calls of GitHub and
Postgres do not look at the signal. Each query and transaction of a publication
or of `pullRequest` (`RecordSteps`) may throw: `RecordThrows` commits nothing and
leaves the tool with the exception, after the reset where `publishPullRequest`
has a `catch` around `pullRequest`, and without it elsewhere. `Demote` and
`Insert` are the two statements of the transaction that makes a row, apart
because another turn may insert in between under READ COMMITTED. Several consecutive commands that change nothing
are one (`status`, `branch`); titles, bodies, reviewers and the commit message
are left out. The `create` action of `pullRequest` is too: the tool's schema
does not offer it.

### AgentTurn and the code

| Variable | Stands for |
| --- | --- |
| `status`, `exec`, `aborted` | the message, its execution and its signal, as far as a turn sees them |
| `phase` | each `AgentRunner.process`: run 0 is the session agent, run i the subagent that is call i |
| `calls` | tool calls: run, kind, stage, the correlation ids of start and end, and which events were refused |
| `queue` | the tail of each run's `SerialExecutor` |
| `pend` | `pendingCorrelations` of each run's relay |
| `feed`, `events` | the relay's append queue; the message's committed events |
| `entry`, `final` | the `TraceRecorder`'s entry, and `finalizeTrace` |

The AI SDK is external and modelled by what the code relies on: it starts all
calls of an answer together, awaits the callbacks around each and drops what
they throw, and asks the model again once all calls of the answer are done. A
call of the session agent is `calling` while its start event is appended,
`queued` behind the executor, `running`, `storing` or `stored` when its output
is too long for an event, `reporting` while its result is appended, and `done`.
Subagents emit no events. A recording for a message the recorder does not hold
makes an entry that knows neither session nor run (`State`, `IsSubagent`), as
the code does after a restart.

### RepoSelection and the code

| Variable | Stands for |
| --- | --- |
| `head`, `shared`, `installed` | GitHub's branches, what the installation may read, the `gitHubInstallation` row |
| `repositoryCache`, `installationRepositoryCache`, `branchCache` | the three promise caches: absent, loading by a request, loaded |
| `ask`, `wait` | a request: what was asked and who reads the answer; how far the server is, or whose promise it shares |
| `tab` | the application, or the way back from GitHub's installation page |
| `page`, `switcher` | `RepoSelectPage`; `RepoBranchSwitcher`, which lives as long as the application |
| `session` | the session made from a pick: asked, created, cloned, ready or failed |
| `due` (in `page`, `ask`, `tab`) | history: what was accessible when a refresh was asked for |
| `cleared`, `since` (in `ask`) | history: each branch's head when the caches were last cleared, and what that was when branches were asked for |

A request reaches the server in the step that sends it; its answers take any
time. `Cached` and `Kept` are `cachedGitHubRequest`; `Fulfil` and `Reject`
settle a promise for every cache that still holds it and every request that
shares it. That a list has outlived its 30 seconds is decided when it is looked
up; for branch lists it is a step, since a property is about it. Each repository
has one branch that matters, and a list of branches is its head commit. The
order of the list of repositories is fixed, though GitHub sorts it by the last
update: pages that shift between two loads are left out. A user does not leave
for GitHub while a session is being created. That a session becomes ready only
at the commit that was picked is the single comparison of `VerifyCommit`; the
step is in the model and no property repeats it.

## Runs

| Run | Question | Result |
| --- | --- | --- |
| `core_safety` | Do the rows, the map, the sandbox and the answers stay consistent under every interleaving of two messages, a client that cancels, a crash and a failing call of each different effect? Do they implement `SessionMailbox`? | holds |
| `core_liveness` | Is every message settled and every execution released, when nothing crashes? | holds |
| `core_recovery` | With crashes, and even the recording of failures failing: do clients that keep cancelling get the session back? | holds |
| `workspace_page` | Are the streams complete and in order, does a page at rest show the database, and do rows and cursors implement `EventFeed`? | holds |
| `publication` | Do rows, GitHub and the workspace stay consistent through publications that are aborted, fail or crash (apart from what each property leaves out by name), and do refreshing clients catch up? | holds |
| `agent_turn` | Do tools take turns, do feed and trace tell the whole turn, and does it end? | holds |
| `repo_selection` | Does a refresh show what was accessible and reach the branches, do old branch lists go away? | holds |
| `sandbox_transitions` | Does the sandbox row follow the transition table? | refuted |
| `github_source` | Is a GitHub sandbox always provisioned from GitHub? | refuted |
| `page_after_link` | Does a page at rest show the database after the user has followed a link to another session? | refuted |
| `publication_retry` | Does a publication after a failed one contain what is on the remote branch? | refuted |
| `racing_picks` | Does the branch point of a new session belong to its repository? | refuted |

The properties, by the mistake they would expose:

* `core_*`:
  * `LockMatchesStatus`, `OneOutcome`, `TerminalIsFinal`, `ImplementsMailbox`: a
    transaction that settles, or frees, what another has already settled;
  * `ArtifactsAnnounced`: artifact rows are committed before the outcome is known;
  * `ReadyIsPopulated`: two provisions of one row, or a container left behind;
  * `RunningIsTracked`: an execution that no cancel call can reach any more;
  * `CancelAnswersHold`: an answer computed from reads that are stale by then;
  * `WorkspaceIsHeld`: an execution in the container beside that of the message
    which has the session, other than a cancelled one's;
  * `CancelledBeginsNothing`: an await without a checkpoint after it;
  * `EveryMessageSettles`, `ExecutionsReleased`: a session locked for ever, an
    entry that is never deleted.
* `workspace_page`:
  * `SequencesDense`: two appends that read one counter;
  * `WireIncreases`: an event both replayed and buffered;
  * `ResumeLosesNothing`, `SettledStreamIsComplete`: a gap between snapshot and
    buffer, or between a lost connection and its cursor;
  * `QuietPageIsCurrent`: an event that comes while a refresh is under way;
  * `ImplementsFeed`: all of these, as one specification, and an event published
    for a transaction that has not committed.
* `publication`:
  * `OneCurrentRow`, `CreatingIsUnderWay`: a publication that died and its retry;
  * `NoPullRequestLost`: an abort, or a failed call, after GitHub has opened the
    pull request;
  * `PublishedStaysCurrent`: a failed update, or a late refresh, that gives the
    pull request up;
  * `WorkspaceRestored`: a way out of a publication without its reset;
  * `RowCatchesUp`: an unguarded write of an old answer that nothing corrects.
* `agent_turn`:
  * `ToolsTakeTurns`, `TurnEnds`: a tool that throws at the head of the
    executor, or a subagent whose tools wait behind itself;
  * `EndsMatchStarts`: ends paired with the wrong starts;
  * `FeedTellsTheTurn`: an append that overtakes another, is dropped with an
    earlier failure, or comes after the terminal event;
  * `TraceIsWhole`, `TraceCoversEvents`: a call recorded under the wrong run,
    or known to the events only;
  * `EntryReleased`: an entry kept when a sink fails.
* `repo_selection`:
  * `RefreshShowsAccess`: a refresh answered by a load that began before it;
  * `RefreshReachesBranches`: branches that come, after a refresh, from a cache
    it should have cleared or from a load it should have left behind;
  * `StaleBranchesExpire`: an entry that outlives its time for ever.

### Bounds

`core_*`. Two messages suffice for every interplay of executions, since at most
one message is unsettled: a second execution that runs beside the first is
always that of a cancelled message, and a third would meet the same sandbox
states (the row and the container have no state that counts executions). One
client makes any number of cancel calls one after the other, which gives a call
that is stale when a second message holds the lock; `core_recovery` has two
clients at once. One crash in `core_safety` lets the second message meet the
first one's leftovers; `core_recovery` has two crashes and one message, and so
also the crash of a session that is being cancelled after a crash. `MayFail`
names the calls that may throw: one for each different thing a failure leaves
behind in `core_safety` (`DistinctFailures`; a failed read or status write has
the same effect as a failed call beside it), every one of an execution in
`core_recovery`, one for each place an exception is caught in `core_liveness`,
which considers GitHub sessions only: they take every step a fixture session
takes and one more.

`workspace_page`. Two producers give two commits whose publications may cross
(`overtaking`), and one that comes between snapshot and buffer of the other. Two
events in the log let one be replayed and the other be live, and a transaction
append both. One mishap (a lost connection, an error status, a failed request,
a navigation, a restart) puts a tab through one reconnection; a second session
is there to be navigated to. For the properties that are proved the bounds do
not matter.

`publication`. Two turns are an aborted one and the one that overlaps it. Two
edits give two commits with different contents, three calls a publication, its
retry or update and one more tool. Two mishaps allow an abort and a crash, or a
failure followed by another in what cleans up after it; a failure may be a
command's, GitHub's or Postgres's. One reader may hold an old answer as long as
it likes. `publication_retry` needs one turn, one edit, two calls and one
failure.

`agent_turn`. Three calls, at most two to an answer: two side by side and one
after them, or a subagent with two calls of its own, or beside another call. One
mishap is a failed call of the database, the artifact store, the model, the
sandbox or a sink, or a restart; a cancellation may come at any moment besides.

`repo_selection`. Two requests under way are the older load and the forced one
behind it, and three are sent in all, up to the pick; two repositories are what
two picks in a row need, both on the first page and so with an empty second
one. One of the two repositories gets one push, and one request is refused.
`racing_picks` needs neither.

Messages, producers and sessions are symmetric in `core_safety` and
`workspace_page`, which check no liveness. Deadlock is not checked: a session
whose messages are settled, a user who does nothing and a turn that has ended
rightly stop, and every model stops at its bounds.

### Fairness

`core_*`: `WF(Execute(m))`, `WF(Cancel(m))` and `WF(Handle(c))`: the event loop
runs ready continuations, and the awaited calls return or throw. Docker commands
have timeouts, transactions have Prisma's, the agent has a step limit; that a
model request returns is assumed. Clients send nothing unless they want to; only
`PersistentSpec` (`core_recovery`) has a client that repeats its cancel call.
`core_liveness` needs the transaction that records a failure, and the cancel
transaction, to succeed: the error of the first is dropped
(`message-processing.ts:211`), and after an error of the second nothing retries
it before the next cancel call. `core_recovery` allows the first to fail and
shows that cancelling repairs it.

`publication`: `WF(Tool(t))`, the calls of a tool return or throw, and
`WF(Refresh(r))`, clients keep asking; `RowCatchesUp` is about such clients. The
agent, users on GitHub and mishaps are under no obligation.

`agent_turn`: `WF(Progress)`: the model and the tools answer and callbacks
return; failures, cancellations and the model's wish to call more tools are not
assumed to come, and the bound on calls stands for the step limit.

`repo_selection`: `WF(ExpireBranches(r))`, which is the passing of time.
`workspace_page` states no liveness: that a tab catches up needs the network to
come back and the continuations to keep their order; `SettledStreamIsComplete`
and `QuietPageIsCurrent` say that wherever it comes to rest it has caught up.

### Disagreements found

1. `sandbox_transitions`. The updates of `provisionForSession` go by id alone.
   Of two executions that provision one row, one loses at `docker create`,
   whose name is taken, and marks the row failed although the other has marked
   it ready, or is about to. The two run beside each other because a
   cancellation frees the session while the execution it cancels may be inside
   an awaited call: on the tracked path with its signal set
   (`message-processing.ts:279`), and by `cancelDirectly`, for a cancel call that
   came before `processMessage`, without (`message-processing.ts:120`).
2. `github_source`. An existing row comes back from `ensureSandbox` without a
   source, and the fallback in `ensureReadyForSession` is a fixture path. A
   GitHub session whose row was left in `creating` can never be provisioned.
3. `page_after_link`. The workspace page is not keyed by its session. When the
   route changes, one effect resets `lastHandledSequence` and the next sets it
   again from the events of the session that was left. Lifecycle events of the
   new session up to that number start no refresh.
4. `publication_retry`. A first publication whose push works and whose pull
   request cannot be created leaves its commit on the remote branch and no
   current row. The retry is again a first publication: it does not fetch, and
   its push is not a fast-forward, at every attempt.
5. `racing_picks`. The repository page does not ask whether the branches it has
   awaited are those of the repository that is still selected, and the earlier
   answer ends the later one's loading indicator. With two picks in a row the
   first repository's branches are offered under the second, and a session is
   created for the second with a branch and a commit of the first.

Stated in the code and in need of no run: `cancelDirectly` passes an empty diff
(`message-processing.ts:120`), while `docs/modules/chat-session/README.md:84`
says that both paths of a cancellation attempt to capture one; the event after
the push (`github.ts:1135`) is stored outside every `catch` that makes the reset,
so that the commit stays on the session branch when its transaction throws, and
the message's diff, which compares files with the index, misses what was
committed, while `docs/modules/chat-session/README.md:92` says that "The local
commit is reset after publication so the message result can retain its workspace
diff".

Limits of what holds, as the guards of the properties name them: "Only one
message can be processed per session at a time" (`chat-session/README.md:40`)
holds of messages that are not cancelled, while a cancelled one's execution may
still be in the container beside its successor's (`WorkspaceIsHeld`); two current
rows are reachable when the publication of a cancelled turn overlaps the next
turn's (`OneCurrentRow`); the commit stays on the branch when a publication is
aborted or the server crashes, when a command is cut off or the reset itself
fails, and when the record of the push fails (`WorkspaceRestored`); a pull
request is on no row after a crash, an answer of GitHub that does not arrive, or
a failure of the transaction that writes its number, `persist`
(`NoPullRequestLost`); a row stays in creating after an abort, a crash, or a
failure of the record of the push, of the pull request or of the publication's
own failure (`CreatingIsUnderWay`); an event is missed for good when publications
overtake each other (`ResumeLosesNothing`); a page shows an older answer that
arrives last, and keeps what it has when a refresh fails (`QuietPageIsCurrent`);
the recorder keeps an entry for a cancelled message whose agent still records
(`EntryReleased`).

## Proofs

The theorems hold for any values of the constants, under the assumptions named.

### MessageProcessingProofs

| Theorem | Statement |
| --- | --- |
| `TypeCorrect` | `Spec => []TypeOK` |
| `LockCorrect` | `Spec => []LockMatchesStatus` |
| `OutcomeCorrect` | `Spec => []OneOutcome` |
| `TerminalIsFinalCorrect` | `Spec => TerminalIsFinal` |
| `MailboxImplemented` | `Spec => ImplementsMailbox` |

They use `MessagesAssumption` (null is not a message) and `CrashAssumption`
(the bound is a natural number). `TypeOK` is inductive; it needs its conjunct
about the target of a cancel call, because a direct cancellation settles that
target. The inductive invariant `Inv` adds `LockMatchesStatus` and
`OneOutcome`. Neither depends on executions: lemma `StepRows` shows that a step
leaves the rows alone or is one of three transactions (`Queued`, `Started`,
`Settled`) with its guard, and the invariants, the finality of an outcome and
the refinement are proved of those. `Settled` carries the fact on which they
all turn, that a transaction only settles an unfinished message;
`LockMatchesStatus` then gives that this message holds the lock, which is the
guard of `Resolve` in `SessionMailbox`.

### MessageExecutionProofs

| Theorem | Statement |
| --- | --- |
| `RunningIsAlwaysTracked` | `Spec => []RunningIsTracked` |
| `CancelAnswersStayTrue` | `Spec => []CancelAnswersHold` |
| `ArtifactsAlwaysAnnounced` | `Spec => []ArtifactsAnnounced` |
| `ReadyIsAlwaysPopulated` | `Spec => []ReadyIsPopulated` |
| `WorkspaceIsAlwaysHeld` | `Spec => []WorkspaceIsHeld` |
| `CancelledNeverBegins` | `Spec => CancelledBeginsNothing` |

With these every safety property of `core_safety` is proved, under the same two
assumptions. The invariants depend on what the rows must already say when an
execution, a cancellation or a cancel call has got to a certain point, so the
inductive invariant `ExecutionInv` adds it: executions and cancel calls belong
to messages that were appended (`Known`), a cancellation past its transaction
has a terminal row (`SettledIsTerminal`), the execution of a completed message
can only finalize, as can that of a failed one (`CompletedIsOver`,
`FailedIsOver`), and one about to mark the sandbox ready has filled the container
(`MarkedIsPopulated`). It is inductive relative to `Inv`. `WorkspaceIsHeld`
follows: what is at work is neither completed nor failed, so it is unfinished,
and by `LockMatchesStatus` has the lock, or it is cancelled. The lemmas `ExecuteLocal`, `CancelLocal` and `ClientLocal` say which
message a step is about and leave the others alone; `StatusLasts` carries the
facts about rows across it.

### WorkspacePageProofs

| Theorem | Statement |
| --- | --- |
| `StreamInvariant` | `Spec => [](StreamInv /\ PageInv)` |
| `SequencesAreDense` | `Spec => []SequencesDense` |
| `WireIsIncreasing` | `Spec => []WireIncreases` |
| `OnlyCommittedIsSent` | `Spec => []SentIsCommitted` |
| `NothingIsLost` | `Spec => []ResumeLosesNothing` |
| `SettledIsComplete` | `Spec => []SettledStreamIsComplete` |
| `FeedImplemented` | `Spec => ImplementsFeed` |
| `TypeCorrect` | `Spec => []TypeOK` |
| `QuietIsUpToDate` | `Spec => []QuietPageIsCurrent` |

They use `NoneAssumption` and `BoundAssumption`. None of the first five
invariants is inductive: whether a tab misses something depends on what its connection has
been sent, on what the replay and the buffer hold, and on what other producers
have yet to publish. `StreamInv` therefore relates all of these. `RowsInv` says
of the database side that sequences are dense, that the holder of a lock is the
one producer in a transaction of that session, and that what each committed and
unpublished transaction holds is a gap-free stretch of the log, no two of which
meet. `Tab` says of each tab that what is on its wire, in its replay and in its
buffer are entries of the log above its cursor (`Reader`), and, unless
publications overtake, that every entry above the cursor is on the wire, in
replay or buffer, or still to be published and above all that was sent
(`Complete`). The step that needs most is `Publish`: because it overtakes no
other and the stretches are disjoint, what is left pending is above what it
sends (`NotOvertaken`), so dropping events below `lastSent` drops nothing that
is missing. The refinement follows: a tab that receives moves its cursor to the
next entry, and every other step grows a feed, turns a tab or stutters.

The page is proved current on top of that (`PagesInv`). A version is the number
of lifecycle events among the first `k` of a feed, so growth of the feed leaves
versions that were read alone (`ReadOfGrown`), and `ReadFrom(g, h, v)` says that
`v` was read when at least `h` events were there. `Fresh` is about a tab whose
route has named one session: each part its newest request has read was read
from at least the events the page had handled when it started that request, and
the newest is in flight or, with no other left to replace it, is what the page
shows. Every handled event starts a newer request (`FreshHandles`), and an
answer that is not the newest leaves the newest in flight, unless one overtook
it, which `orderly` rules out (`FreshAnswers`). At rest nothing is in flight,
the tab has every event (`SettledStreamIsComplete`) and has handled every
lifecycle event, so none follows those the page's versions were read from
(`QuietIsCurrent`). `visits = 1` is needed where it is used: after a link the
requests of the old session may be answered later (`page_after_link`).

### PullRequestPublicationProofs

| Theorem | Statement |
| --- | --- |
| `TypeCorrect` | `Spec => []TypeOK` |
| `OneRowIsCurrent` | `Spec => []OneCurrentRow` |
| `PublishedIsKept` | `Spec => PublishedStaysCurrent` |

They use `BoundsAssumption`. `Typed` strengthens `TypeOK` with what the labels
need (a turn in `call` has a number, a row's number is one of GitHub's).
`Serial` is the argument for one current row: without overlap at most one turn
is busy, turns begin in order, and a turn about to insert will demote all rows
that are current, because between its two statements nobody else makes one
current. `Lasting` is the argument for `PublishedStaysCurrent`: every row with a
number is current, a turn on its way to demote has found no row with one, a turn
on the path of a first publication has a current row without a number, and a
reader holds the number its row has. `Sound` says which labels a first and a
later publication can be at, and `KeepsPath` that no step leads from one to the
other.

### PullRequestOwnershipProofs

| Theorem | Statement |
| --- | --- |
| `NoneIsLost` | `Spec => []NoPullRequestLost` |
| `CreatingBelongs` | `Spec => []CreatingIsUnderWay` |
| `WorkspaceIsRestored` | `Spec => WorkspaceRestored` |

They use `BoundsAssumption` and the invariants of `PullRequestPublicationProofs`.
`Serial` and `Lasting` hold only while no publications overlap, but a pull
request must not get lost when they do. The inductive invariant `Owned` is what
remains: the row a first publication has inserted is its alone and has no
number until that publication ends, and a reader holds the number its row has.
So no step takes a number off a row (`NumbersKept`), and what GitHub has opened
is on a row or with the turn about to write it.

The other two exclude different mishaps, `Unbroken` and `Unstained`, and share
the abort: without one no signal is set and no turn has overlapped another
(`Undisturbed`), so by `Serial` one turn is under way and the others rest.
`CreatingKept` adds to `CreatingIsUnderWay` that the publication the row belongs
to is on the path of a first one (`OnFirst`), which `FirstGoesOn` shows it leaves
only by writing a result there, and that a turn about to demote and insert is no
later publication. `WorkspaceKept` says what each label owes to the repository:
while a turn is `Uncommitted` every commit on the branch, in `FETCH_HEAD` and on
the remote was made before its call; while it is `Committed` the branch is that
plus the publication's one commit; and except between `git add` and the commit
or reset that follows, the index is the branch's. That every recovery leads from
`Committed` through `undo` is `FailureSettles`; that the later calls of a
publication finish there too is `FinishSettles`; that a record which throws does
so before the commit is made or after it has been undone, unless it is the event
after the push, is `RecordThrowsSettles`.

### AgentTurnProofs

| Theorem | Statement |
| --- | --- |
| `ToolsAlwaysTakeTurns` | `Spec => []ToolsTakeTurns` |
| `EndsAlwaysMatchStarts` | `Spec => []EndsMatchStarts` |
| `TypeCorrect` | `Spec => []TypeOK` |
| `FeedTellsTheWholeTurn` | `Spec => []FeedTellsTheTurn` |
| `TraceHoldsTheTurn` | `Spec => []TraceIsWhole` |
| `TraceHoldsTheEvents` | `Spec => []TraceCoversEvents` |
| `EntryIsReleased` | `Spec => []EntryReleased` |

They use `BoundsAssumption`. The executor, the append queue and the correlations
are separate structures in the code, and what relates them is the inductive
invariant `TurnInv`. A run with unfinished calls is under way, and a subagent's
run lies inside its own running call (`RunsNest`). A run's queue holds, in order,
its queued and running calls (`QueuesInOrder`). The feed holds, in order, the
calls of the session's agent that are still to be announced, all of them behind
those that are queued (`FeedInOrder`). The pending correlations of a run are, in
order, those of its calls that are not over (`CorrelationsInOrder`). A running
tool is then the head of its run's queue, and since a subagent's run exists only
while its parent's call runs, two runs cannot both have a running tool. The call
that ends is the first of its run that is not over, hence the one whose
correlation is at the head.

What a turn leaves behind is told three times, by its events, by the recorder's
entry and by the exported trace, and the remaining theorems compare these with
the calls. The invariant `TurnWhole` adds to `TurnInv`:

* `TurnTold`: the correlations of a run's calls are all numbers from one
  (`CorrelationsCover`), each call is in the feed at most once (`FeedOnce`), and
  while the server has not lost the turn the events of calls and results are
  those of the session agent's calls, in order, none twice, none missing but
  those that were refused (`EventsTell`).
* `MessageTyped` and `OutcomeKept`: an outcome is finalized once, and a message
  completes or fails only when its execution has ended.
* `EntryKept`: a call that is over is not recorded as open (`EndsTold`), and as
  long as the message is neither cancelled nor exported the entry the execution
  started tells of the whole turn (`TellsTurn`): each run's calls, open or ended
  as they are, the subagents that were started, and that those no longer running
  are done. A cancelled message is outside `TellsTurn`, since its export clears
  the entry while its agent may still record.
* `TraceKept`: the two properties of the trace, which last while it is exported
  because events are only appended and the turn of a message that was not
  cancelled is over by then.

Between these stands lemma `AgentQuiet`: when the execution does not await the
agent, no run is under way, every call is done and the feed is empty. That is
why the terminal event is the last, no open call is in the trace, and nothing
makes a new entry after the export. After a restart the entry that is made anew
knows of no calls, so the trace takes them all from the events (`TraceIs`), which
gives `TraceHoldsTheEvents` there too.

### RepoSelectionProofs

| Theorem | Statement |
| --- | --- |
| `TypeCorrect` | `FairSpec => []TypeOK` |
| `RefreshShowsWhatIsAccessible` | `FairSpec => []RefreshShowsAccess` |
| `RefreshReachesAllBranches` | `FairSpec => []RefreshReachesBranches` |

They use `RepoSelectionAssumption` (`None` is not a repository, the bounds are
natural numbers). The type invariant is not inductive: the answer a settled
promise hands to those who share it has the kind they asked for only if they
share a promise of that kind. `Typed` therefore says who shares what: a cache
that is loading, and a request that has joined another, point to a request that
is under way for the same list (`ListsLinked`, `BranchesLinked`,
`InstallationLinked`, `RequestsLinked`).

`RefreshShowsAccess` looks at the page only, and the page reads the answer of a
request that may have joined another, whose load of the page of repositories may
share a third one's load of the installation's. The argument is about a set `D`
of repositories that was accessible: `Grants(D)` says that the installation's
cached list does not hide `D`, `Brings(x, D)` that the answer of request `x`
will hold it, at each stage the request can be at, and `WillBring` says so of
the one it joined. `AsksKept` says that every request that owes the page `D` will
bring it. It is inductive because a step is `Faithful`: it keeps what is
promised of `D`, and each request either goes on with the promise it had or
begins with what it owes. Two orders in the code carry the proof: a forced
request forgets the caches before it looks, and `saveInstallation` has stored
the installation before it clears the cache the next load reads (`TabKept`).
The model lets access only grow; what a list shows of a repository that was
taken away is not claimed.

`RefreshReachesBranches` compares an answer with the heads when the caches were
last cleared before it was asked for. `Recent(x, n)` says of a load under way
that it will bring the head as of `n` or a later one: it has it, or has yet to
ask GitHub. The inductive invariant `BranchesRecent` says this of every cached
entry with respect to `cleared` (`EntriesRecent`), and of every request, and of
the one whose promise it shares, with respect to `since` (`AsksRecent`). A load
from before a refresh may still be under way, but no cache points to it any more
and nothing that is asked later can join it; clearing is the only step that
raises `cleared`, and it empties the branch cache in the same step (`Clears`).

### Only model-checked

Every safety property of the passing runs is proved. What stays with TLC is
liveness: it is beyond the prover, as is `ENABLED`.

## Not modelled

* `services/sandbox/command-execution.ts`: nothing in the server calls
  `CommandExecutionService.runCommand`; only its tests do.
* Authentication, token encryption, OAuth: each request on its own, and calls of
  libraries.
* Prompts, the bash policy, redaction, truncation, titles, diffs' and messages'
  contents, the sinks' formats: data on which no modelled decision depends.
* The `create` action of `pullRequest`, which no tool offers.
* Lock modes of Postgres: a transaction that inserts a row referencing the
  session before it locks the session row can be the victim of a deadlock
  (`event-store.ts:104`); the models let any transaction fail.
* The summary's counter, which an overlapping turn may set back: its value only
  changes what a later context quotes.
* `swe-bench-lite/`: scripts outside the running system.

What could be added next: a model of the summary and its counter under
overlapping turns.
