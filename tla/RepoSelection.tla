--------------------------- MODULE RepoSelection ---------------------------
(***************************************************************************)
(* From "which repositories may the agent use" to a workspace: the user    *)
(* installs the GitHub App, picks a repository and a branch on the         *)
(* repository page or in the header's switcher, and the session that is    *)
(* created is provisioned from GitHub.                                     *)
(*                                                                         *)
(* Between the user and GitHub stand three caches of the server, each a    *)
(* map from a key to a promise that is shared while it loads and for 30    *)
(* seconds after it started to: repositoryCache (one page of the list),    *)
(* installationRepositoryCache (nested in the former) and branchCache.     *)
(* The frontend shares the promises of plain requests for the list as      *)
(* well, and the switcher keeps the branches it got as long as it lives.   *)
(*                                                                         *)
(* One user, one installation; each repository has one branch that         *)
(* matters, and the branch list is its head commit.  A request reaches the *)
(* server in the step that sends it; its answer may take any time.         *)
(***************************************************************************)
EXTENDS Naturals, FiniteSets, TLC

CONSTANTS
  MaxUnderWay,   \* bound: requests to the server that are under way
  Repos,         \* the user's repositories
  FirstPage,     \* those on the first page of the list; the others are on page 2
  None,          \* no repository, no branches
  MaxAsks,       \* bound: requests the clients send
  Busy,          \* bound: the repositories others push to
  MaxPushes,     \* bound: commits they push to each
  MaxMishaps     \* bound: requests GitHub or the database refuses

ASSUME RepoSelectionAssumption ==
  /\ FirstPage \subseteq Repos /\ Busy \subseteq Repos
  /\ None \notin Repos
  /\ {MaxUnderWay, MaxAsks, MaxPushes, MaxMishaps} \subseteq Nat

VARIABLES
  head,          \* GitHub: commits on the branch of each repository
  shared,        \* GitHub: repositories the installation may read
  installed,     \* the gitHubInstallation row of the user
  repositoryCache, installationRepositoryCache, branchCache,
  ask,           \* what the client of each request asked for
  wait,          \* how far the server is with it
  asks,          \* requests sent so far
  tab,           \* the application in the user's tab, or the way back from GitHub
  page,          \* RepoSelectPage
  switcher,      \* RepoBranchSwitcher
  session,       \* the session created from a pick
  mishaps,
  cleared        \* history: each head when the caches were last cleared

caches == <<repositoryCache, installationRepositoryCache, branchCache, cleared>>
github == <<head, shared>>
client == <<tab, page, switcher>>
vars == <<github, installed, caches, ask, wait, asks, client, session, mishaps>>

Requests == 1..MaxUnderWay
Pages == 1..2
OnPage(p) == IF p = 1 THEN FirstPage ELSE Repos \ FirstPage
Commits == Repos \X (0..MaxPushes)

(***************************************************************************)
(* The caches.                                                             *)
(***************************************************************************)
Absent == [at |-> "absent"]
Loading(q) == [at |-> "loading", by |-> q]
Loaded(v) == [at |-> "loaded", value |-> v]

Idle == [at |-> "idle"]
Answered(v) == [at |-> "answered", value |-> v]
Refused(reconnect) == [at |-> "refused", reconnect |-> reconnect]
NoAsk == [kind |-> "none"]
NoConnection == [known |-> FALSE, installed |-> FALSE, repos |-> {}, next |-> FALSE]
InApp == [at |-> "app", due |-> {}]
ClosedPage == [open |-> FALSE, connection |-> NoConnection, loading |-> FALSE,
               more |-> FALSE, broken |-> FALSE, selected |-> None, branches |-> None,
               picking |-> FALSE, creating |-> FALSE, due |-> {}]
NewSwitcher == [connection |-> NoConnection, loading |-> FALSE, more |-> FALSE,
                byRepo |-> [r \in Repos |-> None], creating |-> FALSE]

Init ==
  /\ head = [r \in Repos |-> 0]
  /\ shared = {} /\ installed \in BOOLEAN
  /\ repositoryCache = [p \in Pages |-> Absent]
  /\ installationRepositoryCache = Absent
  /\ branchCache = [r \in Repos |-> Absent]
  /\ ask = [q \in Requests |-> NoAsk]
  /\ wait = [q \in Requests |-> Idle]
  /\ asks = 0
  /\ tab = InApp /\ page = ClosedPage /\ switcher = NewSwitcher
  /\ session = [at |-> "none"]
  /\ mishaps = 0
  /\ cleared = head

Mishap == mishaps < MaxMishaps /\ mishaps' = mishaps + 1

(* cachedGitHubRequest, for request q that finds entry e: it shares the    *)
(* promise, or starts the load itself.                                     *)
Cached(q, e, load) ==
  IF e.at = "absent" THEN load
  ELSE IF e.at = "loading" THEN [at |-> "joined", by |-> e.by]
  ELSE Answered(e.value)
Kept(q, e) == IF e.at = "absent" THEN Loading(q) ELSE e

(* The promises the requests of S started are settled: in the caches that  *)
(* still hold them, and for every request that shares one.                 *)
Entry(e, S, left) ==
  IF e.at = "loading" /\ e.by \in S THEN left[e.by] ELSE e
Settle(S, left, answer) ==
  /\ repositoryCache' = [p \in Pages |-> Entry(repositoryCache[p], S, left)]
  /\ branchCache' = [r \in Repos |-> Entry(branchCache[r], S, left)]
  /\ wait' = [x \in Requests |->
       IF x \in S THEN answer[x]
       ELSE IF wait[x].at = "joined" /\ wait[x].by \in S THEN answer[wait[x].by]
       ELSE wait[x]]

Fulfil(S, value) ==
  Settle(S, [q \in S |-> Loaded(value[q])], [q \in S |-> Answered(value[q])])
Reject(S) ==
  Settle(S, [q \in S |-> Absent], [q \in S |-> Refused(TRUE)])

ClearRepositoryCache ==
  /\ repositoryCache' = [p \in Pages |-> Absent]
  /\ branchCache' = [r \in Repos |-> Absent]
  /\ installationRepositoryCache' = Absent
  /\ cleared' = head

(* An entry of the lists may have outlived its time to live when it is     *)
(* looked up, even while it is loading; for the branch lists the end of    *)
(* the time to live is a step, as a property is about it.                  *)
Fresh(e, expired) == IF expired THEN Absent ELSE e
BranchesNeverExpire(r) == FALSE /\ UNCHANGED vars
ExpireBranches(r) ==
  /\ branchCache[r].at # "absent"
  /\ branchCache' = [branchCache EXCEPT ![r] = Absent]
  /\ UNCHANGED <<github, installed, repositoryCache, installationRepositoryCache,
                 cleared, ask, wait, client, session, mishaps, asks>>

(***************************************************************************)
(* Requests, and what the server does for them up to the first await.      *)
(***************************************************************************)
(* A request takes the first free number.  MaxAsks are sent, up to the     *)
(* pick that creates a session.                                            *)
Free(q) == wait[q].at = "idle"
Sends(q) ==
  /\ Free(q) /\ \A x \in Requests : Free(x) => q <= x
  /\ session.at = "none" /\ asks < MaxAsks /\ asks' = asks + 1

RefreshForgetsNested(q, p, forced, a) ==
  LET kept == [x \in Pages |-> IF forced THEN Absent ELSE repositoryCache[x]]
  IN /\ Sends(q)
     /\ branchCache' = [r \in Repos |-> IF forced THEN Absent ELSE branchCache[r]]
     /\ UNCHANGED installationRepositoryCache
     /\ repositoryCache' = [kept EXCEPT ![p] = Kept(q, @)]
     /\ cleared' = IF forced THEN head ELSE cleared
     /\ wait' = [wait EXCEPT ![q] = Cached(q, kept[p], [at |-> "reading"])]
     /\ ask' = [ask EXCEPT ![q] = a]
RefreshForgetsBranches(q, p, forced, a) ==
  LET kept == [x \in Pages |-> IF forced THEN Absent ELSE repositoryCache[x]]
  IN /\ Sends(q)
     /\ installationRepositoryCache' =
          IF forced THEN Absent ELSE installationRepositoryCache
     /\ UNCHANGED branchCache
     /\ repositoryCache' = [kept EXCEPT ![p] = Kept(q, @)]
     /\ cleared' = IF forced THEN head ELSE cleared
     /\ wait' = [wait EXCEPT ![q] = Cached(q, kept[p], [at |-> "reading"])]
     /\ ask' = [ask EXCEPT ![q] = a]
Repositories(q, p, forced, a) ==
  \E expired \in BOOLEAN :
     LET kept == [x \in Pages |->
           Fresh(repositoryCache[x], forced \/ (expired /\ x = p))]
     IN
     /\ Sends(q)
     /\ IF forced
          THEN /\ branchCache' = [r \in Repos |-> Absent]
               /\ installationRepositoryCache' = Absent
               /\ cleared' = head
          ELSE UNCHANGED <<branchCache, installationRepositoryCache, cleared>>
     /\ repositoryCache' = [kept EXCEPT ![p] = Kept(q, @)]
     /\ wait' = [wait EXCEPT ![q] = Cached(q, kept[p], [at |-> "reading"])]
     /\ ask' = [ask EXCEPT ![q] = a]

List(p, forced, mine, readers, due) ==
  [kind |-> "list", of |-> p, forced |-> forced, mine |-> mine,
   readers |-> readers, due |-> due]

(* getGitHubRepositories: a plain request shares the one that is under way. *)
InFlight(q, p) ==
  /\ ~Free(q) /\ ask[q].kind = "list" /\ ask[q].of = p
  /\ ask[q].mine /\ ~ask[q].forced
GetRepositories(q, p, reader) ==
  IF \E x \in Requests : InFlight(x, p)
    THEN /\ InFlight(q, p)
         /\ ask' = [ask EXCEPT ![q].readers = @ \cup {reader}]
         /\ UNCHANGED <<caches, wait, asks>>
    ELSE Repositories(q, p, FALSE, List(p, FALSE, TRUE, {reader}, {}))

GetBranches(q, r, readers) ==
  /\ Sends(q)
  /\ wait' = [wait EXCEPT ![q] = [at |-> "checking"]]
  /\ ask' = [ask EXCEPT ![q] =
       [kind |-> "branches", of |-> r, forced |-> FALSE, mine |-> readers # {},
        readers |-> readers, due |-> {}, since |-> cleared[r]]]
  /\ UNCHANGED caches

(***************************************************************************)
(* loadRepositories and branches.                                          *)
(***************************************************************************)
ListValue(q, found) ==
  [installed |-> found.installed, repos |-> found.repos \cap OnPage(ask[q].of)]

ReadInstallations(q) ==
  /\ wait[q].at = "reading"
  /\ wait' = [wait EXCEPT ![q] = [at |-> "listing", installed |-> installed]]
  /\ UNCHANGED <<github, installed, caches, ask, client, session, mishaps, asks>>

(* The user's own repositories are listed, then those of the installation. *)
ListInstallationRepositories(q) ==
  \E expired \in BOOLEAN :
  LET e == Fresh(installationRepositoryCache, expired)
      nothing == [installed |-> FALSE, repos |-> {}]
  IN /\ wait[q].at = "listing"
     /\ \/ /\ ~wait[q].installed
           /\ Fulfil({q}, [x \in {q} |-> nothing])
           /\ UNCHANGED installationRepositoryCache
        \/ /\ wait[q].installed /\ e.at = "loaded"
           /\ Fulfil({q}, [x \in {q} |->
                ListValue(x, [installed |-> TRUE, repos |-> e.value])])
           /\ UNCHANGED installationRepositoryCache
        \/ /\ wait[q].installed /\ e.at # "loaded"
           /\ installationRepositoryCache' = Kept(q, e)
           /\ wait' = [wait EXCEPT ![q] =
                IF e.at = "loading" THEN [at |-> "sharing", by |-> e.by]
                ELSE [at |-> "asking"]]
           /\ UNCHANGED <<repositoryCache, branchCache>>
     /\ UNCHANGED <<github, installed, ask, client, session, mishaps, asks, cleared>>

CheckInstallation(q) ==
  /\ wait[q].at = "checking"
  /\ IF installed
       THEN /\ wait' = [wait EXCEPT ![q] =
                 Cached(q, branchCache[ask[q].of], [at |-> "asking"])]
            /\ branchCache' = [branchCache EXCEPT ![ask[q].of] = Kept(q, @)]
       ELSE /\ wait' = [wait EXCEPT ![q] = Refused(FALSE)]
            /\ UNCHANGED branchCache
  /\ UNCHANGED <<github, installed, repositoryCache, installationRepositoryCache,
                 cleared, ask, client, session, mishaps, asks>>

(* GitHub reads what is asked for now; the answer arrives later. *)
GitHubAnswers(q) ==
  /\ wait[q].at = "asking"
  /\ wait' = [wait EXCEPT ![q] =
       [at |-> "arriving",
        value |-> IF ask[q].kind = "list" THEN shared
                  ELSE <<ask[q].of, head[ask[q].of]>>]]
  /\ UNCHANGED <<github, installed, caches, ask, client, session, mishaps, asks>>

(* The requests that wait for the same answer of GitHub. *)
Sharing(q) == {q} \cup {x \in Requests : wait[x].at = "sharing" /\ wait[x].by = q}

Arrives(q) ==
  LET v == wait[q].value
      value == [x \in Sharing(q) |->
                  IF ask[q].kind = "list"
                    THEN ListValue(x, [installed |-> TRUE, repos |-> v])
                    ELSE v]
  IN /\ wait[q].at = "arriving"
     /\ installationRepositoryCache' =
          Entry(installationRepositoryCache, {q}, [x \in {q} |-> Loaded(v)])
     /\ Fulfil(Sharing(q), value)
     /\ UNCHANGED <<github, installed, ask, client, session, mishaps, asks, cleared>>

LoadFails(q) ==
  /\ wait[q].at \in {"reading", "listing", "asking", "checking"}
  /\ Mishap
  /\ installationRepositoryCache' =
       Entry(installationRepositoryCache, {q}, [x \in {q} |-> Absent])
  /\ Reject(Sharing(q))
  /\ UNCHANGED <<github, installed, ask, client, session, asks, cleared>>

(***************************************************************************)
(* Answers reach the clients.                                              *)
(***************************************************************************)
Connection(q, v) ==
  [known |-> TRUE, installed |-> v.installed, repos |-> v.repos,
   next |-> ask[q].of = 1]
Extended(c, q, v) ==
  [c EXCEPT !.repos = @ \cup v.repos, !.next = ask[q].of = 1]

PageHears(q) ==
  LET v == wait[q].value
      to == ask[q].readers
  IN page' = IF "page" \in to
               THEN [page EXCEPT !.connection = Connection(q, v),
                                 !.loading = FALSE, !.due = ask[q].due]
             ELSE IF "more" \in to
               THEN [page EXCEPT !.connection = Extended(@, q, v), !.more = FALSE]
             ELSE IF "pick" \in to
               THEN [page EXCEPT !.branches = v, !.picking = FALSE]
             ELSE page

SwitcherHears(q) ==
  LET v == wait[q].value
      to == ask[q].readers
  IN switcher' = IF "switcher" \in to
                   THEN [switcher EXCEPT !.connection = Connection(q, v),
                                         !.loading = FALSE]
                 ELSE IF "switcher more" \in to
                   THEN [switcher EXCEPT !.connection = Extended(@, q, v), !.more = FALSE]
                 ELSE IF "switcher branches" \in to
                   THEN [switcher EXCEPT !.byRepo[ask[q].of] = v]
                 ELSE switcher

DoneStaysKnown(q) ==
  /\ wait' = [wait EXCEPT ![q] = Idle]
  /\ UNCHANGED <<github, installed, caches, ask, tab, session, mishaps, asks>>
Done(q) ==
  /\ ask' = [ask EXCEPT ![q] = NoAsk]
  /\ wait' = [wait EXCEPT ![q] = Idle]
  /\ UNCHANGED <<github, installed, caches, tab, session, mishaps, asks>>

Hears(q) ==
  /\ wait[q].at = "answered"
  /\ PageHears(q)
  /\ SwitcherHears(q)
  /\ Done(q)

(* A failure GitHub is blamed for hides the picker behind "Reconnect". *)
HearsRefusal(q) ==
  LET to == ask[q].readers
      shown == to \cap {"page", "more", "pick"} # {}
  IN /\ wait[q].at = "refused"
     /\ page' = [page EXCEPT !.loading = @ /\ "page" \notin to,
                             !.more = @ /\ "more" \notin to,
                             !.picking = @ /\ "pick" \notin to,
                             !.broken = IF shown THEN wait[q].reconnect ELSE @]
     /\ switcher' = IF "switcher" \in to
                      THEN [switcher EXCEPT !.connection = NoConnection,
                                            !.loading = FALSE]
                    ELSE IF "switcher more" \in to
                      THEN [switcher EXCEPT !.connection.next = FALSE, !.more = FALSE]
                    ELSE switcher
     /\ Done(q)

(***************************************************************************)
(* The repository page.                                                    *)
(***************************************************************************)
Usable == tab.at = "app" /\ page.open /\ ~page.broken /\ ~page.creating
Accessible == IF installed THEN shared ELSE {}

Open(q) ==
  /\ tab.at = "app" /\ ~page.open
  /\ page' = [ClosedPage EXCEPT !.open = TRUE, !.loading = TRUE]
  /\ GetRepositories(q, 1, "page")
  /\ UNCHANGED <<github, installed, tab, switcher, session, mishaps>>

(* What the page still waits for is dropped when it is left. *)
Unread ==
  [q \in Requests |->
     IF Free(q) THEN ask[q]
     ELSE [ask[q] EXCEPT !.readers = @ \ {"page", "more", "pick"}]]
Leave ==
  /\ tab.at = "app" /\ page.open
  /\ page' = ClosedPage
  /\ ask' = Unread
  /\ UNCHANGED <<github, installed, caches, wait, tab, switcher, session, mishaps, asks>>

RefreshAccess(q) ==
  /\ Usable /\ page.connection.installed /\ ~page.loading
  /\ page' = [page EXCEPT !.loading = TRUE, !.selected = None, !.branches = None]
  /\ Repositories(q, 1, TRUE,
       List(1, TRUE, TRUE, {"page"}, Accessible \cap OnPage(1)))
  /\ UNCHANGED <<github, installed, tab, switcher, session, mishaps>>

LoadMoreRepositories(q) ==
  /\ Usable /\ page.connection.next /\ page.connection.repos # {} /\ ~page.more
  /\ page' = [page EXCEPT !.more = TRUE]
  /\ GetRepositories(q, 2, "more")
  /\ UNCHANGED <<github, installed, tab, switcher, session, mishaps>>

(* An earlier pick's answer is not told from a later one's. *)
SelectRepository(q, r) ==
  /\ Usable /\ r \in page.connection.repos
  /\ page' = [page EXCEPT !.selected = r, !.branches = None, !.picking = TRUE]
  /\ GetBranches(q, r, {"pick"})
  /\ UNCHANGED <<github, installed, tab, switcher, session, mishaps>>

CreateChatSession(r, commit, from) ==
  /\ session.at = "none"
  /\ session' = [at |-> "asked", repo |-> r, chosen |-> commit, work |-> None,
                 from |-> from]

BranchesShown ==
  page.selected \in page.connection.repos /\ ~page.picking /\ page.branches # None

SelectBranch ==
  /\ Usable /\ BranchesShown
  /\ page' = [page EXCEPT !.creating = TRUE]
  /\ CreateChatSession(page.selected, page.branches, "page")
  /\ UNCHANGED <<github, installed, caches, ask, wait, tab, switcher, mishaps, asks>>

(***************************************************************************)
(* The switcher in the header, which lives as long as the application.     *)
(***************************************************************************)
Switchable(r) == tab.at = "app" /\ r \in switcher.connection.repos

OpenSwitcher(q) ==
  /\ tab.at = "app" /\ ~switcher.connection.known /\ ~switcher.loading
  /\ switcher' = [switcher EXCEPT !.loading = TRUE]
  /\ GetRepositories(q, 1, "switcher")
  /\ UNCHANGED <<github, installed, tab, page, session, mishaps>>

ScrollSwitcher(q) ==
  /\ tab.at = "app" /\ switcher.connection.next /\ ~switcher.more
  /\ switcher' = [switcher EXCEPT !.more = TRUE]
  /\ GetRepositories(q, 2, "switcher more")
  /\ UNCHANGED <<github, installed, tab, page, session, mishaps>>

ToggleRepo(q, r) ==
  /\ Switchable(r) /\ switcher.byRepo[r] = None
  /\ GetBranches(q, r, {"switcher branches"})
  /\ UNCHANGED <<github, installed, client, session, mishaps>>

SwitchTo(r) ==
  /\ Switchable(r) /\ switcher.byRepo[r] # None /\ ~switcher.creating
  /\ switcher' = [switcher EXCEPT !.creating = TRUE]
  /\ CreateChatSession(r, switcher.byRepo[r], "switcher")
  /\ UNCHANGED <<github, installed, caches, ask, wait, tab, page, mishaps, asks>>

(***************************************************************************)
(* To GitHub and back: the install page, and the callback it redirects to. *)
(* Bound: the user does not leave while a session is being created.        *)
(***************************************************************************)
GoToGitHub ==
  /\ tab.at = "app" /\ page.open /\ session.at = "none"
  /\ tab' = [tab EXCEPT !.at = "saving"]
  /\ page' = ClosedPage /\ switcher' = NewSwitcher
  /\ ask' = [q \in Requests |->
       IF Free(q) THEN ask[q] ELSE [ask[q] EXCEPT !.mine = FALSE, !.readers = {}]]
  /\ UNCHANGED <<github, installed, caches, wait, asks, session, mishaps>>

SaveInstallation ==
  /\ tab.at = "saving" /\ tab' = [at |-> "saved", due |-> shared \cap OnPage(1)]
  /\ installed' = TRUE
  /\ UNCHANGED <<github, caches, ask, wait, page, switcher, session, mishaps, asks>>

ClearAfterSave ==
  /\ tab.at = "saved" /\ tab' = [tab EXCEPT !.at = "redirected"]
  /\ ClearRepositoryCache
  /\ UNCHANGED <<github, installed, ask, wait, page, switcher, session, mishaps, asks>>

SaveFails ==
  /\ tab.at = "saving" /\ tab' = [tab EXCEPT !.at = "redirected"]
  /\ Mishap
  /\ UNCHANGED <<github, installed, caches, ask, wait, page, switcher, session, asks>>

(* The browser loads the application anew, on the repository page. *)
Land(q) ==
  /\ tab.at = "redirected" /\ tab' = InApp
  /\ page' = [ClosedPage EXCEPT !.open = TRUE, !.loading = TRUE]
  /\ Repositories(q, 1, FALSE,
       List(1, FALSE, TRUE, {"page"}, tab.due))
  /\ UNCHANGED <<github, installed, switcher, session, mishaps>>

(* The same user in another tab: the list's first page, plain or forced,   *)
(* or the branches of a repository that changes.                           *)
OtherTab(q) ==
  /\ \/ \E forced \in BOOLEAN :
          Repositories(q, 1, forced, List(1, forced, FALSE, {}, {}))
     \/ \E r \in Busy : GetBranches(q, r, {})
  /\ UNCHANGED <<github, installed, client, session, mishaps>>

(* The user lets the App read the repositories, others push. *)
Share ==
  /\ shared # Repos /\ shared' = Repos
  /\ UNCHANGED <<head, installed, caches, ask, wait, client, session, mishaps, asks>>

Push(r) ==
  /\ r \in Busy
  /\ head[r] < MaxPushes /\ head' = [head EXCEPT ![r] = @ + 1]
  /\ UNCHANGED <<shared, installed, caches, ask, wait, client, session, mishaps, asks>>

(***************************************************************************)
(* The session: created, then provisioned for its first message.           *)
(***************************************************************************)
CreateSession ==
  /\ session.at = "asked" /\ installed
  /\ session' = [session EXCEPT !.at = "created", !.from = "nobody"]
  /\ page' = ClosedPage /\ ask' = Unread
  /\ switcher' = [switcher EXCEPT !.creating = @ /\ session.from # "switcher"]
  /\ UNCHANGED <<github, installed, caches, wait, tab, mishaps, asks>>

CreateSessionFails ==
  /\ session.at = "asked"
  /\ Mishap
  /\ session' = [at |-> "none"]
  /\ page' = [page EXCEPT !.creating = @ /\ session.from # "page",
                          !.broken = @ /\ session.from # "page"]
  /\ switcher' = [switcher EXCEPT !.creating = @ /\ session.from # "switcher"]
  /\ UNCHANGED <<github, installed, caches, ask, wait, tab, asks>>

Clone ==
  /\ session.at = "created"
  /\ session' = [session EXCEPT !.at = "cloned",
                                !.work = <<session.repo, head[session.repo]>>]
  /\ UNCHANGED <<github, installed, caches, ask, wait, client, mishaps, asks>>

CloneFails ==
  /\ session.at = "created"
  /\ Mishap
  /\ session' = [session EXCEPT !.at = "failed"]
  /\ UNCHANGED <<github, installed, caches, ask, wait, client, asks>>

VerifyCommit ==
  /\ session.at = "cloned"
  /\ session' = [session EXCEPT !.at = IF session.work = session.chosen
                                         THEN "ready" ELSE "failed"]
  /\ UNCHANGED <<github, installed, caches, ask, wait, client, mishaps, asks>>

Next ==
  \/ \E q \in Requests :
       \/ ReadInstallations(q) \/ ListInstallationRepositories(q)
       \/ CheckInstallation(q) \/ GitHubAnswers(q) \/ Arrives(q) \/ LoadFails(q)
       \/ Hears(q) \/ HearsRefusal(q)
       \/ Open(q) \/ RefreshAccess(q) \/ LoadMoreRepositories(q)
       \/ OpenSwitcher(q) \/ ScrollSwitcher(q) \/ Land(q)
       \/ \E r \in Repos : SelectRepository(q, r) \/ ToggleRepo(q, r)
       \/ OtherTab(q)
  \/ \E r \in Repos : ExpireBranches(r) \/ SwitchTo(r) \/ Push(r)
  \/ Share \/ Leave \/ SelectBranch \/ GoToGitHub
  \/ SaveInstallation \/ ClearAfterSave \/ SaveFails
  \/ CreateSession \/ CreateSessionFails \/ Clone \/ CloneFails \/ VerifyCommit

(* The time to live passes. *)
Fairness == \A r \in Repos : WF_vars(ExpireBranches(r))
FairSpec == Init /\ [][Next]_vars /\ Fairness

(***************************************************************************)
(* Properties.                                                             *)
(***************************************************************************)
Entries(V) == {Absent} \cup {Loading(q) : q \in Requests} \cup {Loaded(v) : v \in V}
Listed == [installed : BOOLEAN, repos : SUBSET Repos]
Connections ==
  [known : BOOLEAN, installed : BOOLEAN, repos : SUBSET Repos, next : BOOLEAN]

(* The type invariant. *)
TypeOK ==
  /\ head \in [Repos -> 0..MaxPushes] /\ shared \subseteq Repos /\ installed \in BOOLEAN
  /\ repositoryCache \in [Pages -> Entries(Listed)]
  /\ installationRepositoryCache \in Entries(SUBSET Repos)
  /\ branchCache \in [Repos -> Entries(Commits)]
  /\ \A q \in Requests : (wait[q].at = "idle") = (ask[q] = NoAsk)
  /\ tab \in [at : {"app", "saving", "saved", "redirected"}, due : SUBSET Repos]
  /\ asks \in 0..MaxAsks
  /\ page.connection \in Connections /\ switcher.connection \in Connections
  /\ page.selected \in Repos \cup {None} /\ page.branches \in Commits \cup {None}
  /\ switcher.byRepo \in [Repos -> Commits \cup {None}]
  /\ mishaps \in 0..MaxMishaps
  /\ cleared \in [Repos -> 0..MaxPushes]

(* "Refresh access", and the load after the App was connected, show every  *)
(* repository of the first page that was accessible when the user asked,   *)
(* whatever older requests still load or the caches held.                  *)
RefreshShowsAccess == page.due \subseteq page.connection.repos

(* Branches asked for after an explicit refresh, in whichever tab, or      *)
(* after the App was connected, are answered with what GitHub had no       *)
(* earlier than that, whatever older requests still load, share or settle. *)
RefreshReachesBranches ==
  \A q \in Requests :
    ask[q].kind = "branches" /\ wait[q].at = "answered" =>
      wait[q].value[2] >= ask[q].since

(* The branch point a session is created with is one of the repository it  *)
(* is created for, though the branches of several picks may be on their    *)
(* way to the page at once.                                                *)
PickIsOfItsRepository == session.at # "none" => session.chosen[1] = session.repo

(* When the pushes stop, the cached branch lists become those of GitHub    *)
(* and stay so, though nothing ever refreshes them.                        *)
StaleBranchesExpire ==
  \A r \in Repos :
    <>[](branchCache[r].at = "loaded" => branchCache[r].value = <<r, head[r]>>)
============================================================================
