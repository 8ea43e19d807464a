------------------------ MODULE RepoSelectionProofs ------------------------
(***************************************************************************)
(* Theorems about RepoSelection, for any repositories, pages, requests,    *)
(* pushes and mishaps.                                                     *)
(***************************************************************************)
EXTENDS RepoSelection, TLAPS

-----------------------------------------------------------------------------
(* The kinds of request, answer, entry and client state. *)

Lists == {"reading", "listing", "sharing"}
AtGitHub == {"asking", "arriving"}
InLoad == Lists \cup AtGitHub

PageReaders == {"page", "more", "switcher", "switcher more"}
BranchReaders == {"pick", "switcher branches"}

(* What a request may have asked for. *)
ListAsks ==
  [kind : {"list"}, of : Pages, forced : BOOLEAN, mine : BOOLEAN,
   readers : SUBSET PageReaders, due : SUBSET Repos]
BranchAsks ==
  [kind : {"branches"}, of : Repos, forced : BOOLEAN, mine : BOOLEAN,
   readers : SUBSET BranchReaders, due : SUBSET Repos, since : 0..MaxPushes]
Asks == {NoAsk} \cup ListAsks \cup BranchAsks

(* How far the server may be with a request of that kind. *)
WaitTyped(w, kind) ==
  /\ w.at \in InLoad \cup {"idle", "checking", "joined", "answered", "refused"}
  /\ w.at \in Lists => kind = "list"
  /\ w.at = "checking" => kind = "branches"
  /\ w.at = "listing" => w.installed \in BOOLEAN
  /\ w.at = "arriving" => w.value \in IF kind = "list" THEN SUBSET Repos ELSE Commits
  /\ w.at = "answered" => w.value \in IF kind = "list" THEN Listed ELSE Commits
  /\ w.at = "refused" => w.reconnect \in BOOLEAN
  /\ w.at \in {"joined", "sharing"} => w.by \in Requests

(* Request x is loading the list or the branches kind and of stand for; it *)
(* is loading the repositories of the installation.                        *)
Loads(x, kind, of) ==
  x \in Requests /\ ask[x].kind = kind /\ ask[x].of = of /\ wait[x].at \in InLoad
LoadsInstallation(x) ==
  x \in Requests /\ ask[x].kind = "list" /\ wait[x].at \in AtGitHub

(* The server's side: requests and caches are of their kind, and whoever   *)
(* shares a promise shares one that is under way, for what it wants.       *)
RequestsTyped ==
  /\ DOMAIN wait = Requests
  /\ ask \in [Requests -> Asks]
  /\ \A q \in Requests : WaitTyped(wait[q], ask[q].kind)
  /\ \A q \in Requests : wait[q].at = "idle" <=> ask[q] = NoAsk

CachesTyped ==
  /\ repositoryCache \in [Pages -> Entries(Listed)]
  /\ installationRepositoryCache \in Entries(SUBSET Repos)
  /\ branchCache \in [Repos -> Entries(Commits)]

ListsLinked ==
  \A p \in Pages : repositoryCache[p].at = "loading" =>
    Loads(repositoryCache[p].by, "list", p)
BranchesLinked ==
  \A r \in Repos : branchCache[r].at = "loading" =>
    Loads(branchCache[r].by, "branches", r)
InstallationLinked ==
  installationRepositoryCache.at = "loading" =>
    LoadsInstallation(installationRepositoryCache.by)
RequestsLinked ==
  \A q \in Requests :
    /\ wait[q].at = "joined" => Loads(wait[q].by, ask[q].kind, ask[q].of)
    /\ wait[q].at = "sharing" => LoadsInstallation(wait[q].by)

ServerInv ==
  /\ RequestsTyped /\ CachesTyped
  /\ ListsLinked /\ BranchesLinked /\ InstallationLinked /\ RequestsLinked

-----------------------------------------------------------------------------
(* The data. *)

(* What an entry of a cache can be. *)
LEMMA EntryKinds ==
  ASSUME NEW V, NEW e \in Entries(V)
  PROVE  \/ e.at = "absent" /\ e = Absent
         \/ e.at = "loading" /\ e.by \in Requests /\ e = Loading(e.by)
         \/ e.at = "loaded" /\ e.value \in V /\ e = Loaded(e.value)
BY DEF Entries, Absent, Loading, Loaded

(* The three kinds of entry.                                               *)
LEMMA EntryMade ==
  ASSUME NEW V
  PROVE  /\ Absent \in Entries(V) /\ Absent.at = "absent"
         /\ \A q \in Requests : /\ Loading(q) \in Entries(V)
                                /\ Loading(q).at = "loading" /\ Loading(q).by = q
         /\ \A v \in V : /\ Loaded(v) \in Entries(V)
                         /\ Loaded(v).at = "loaded" /\ Loaded(v).value = v
BY DEF Entries, Absent, Loading, Loaded

(* What a request asked for is told by its kind.                           *)
LEMMA AskKinds ==
  ASSUME NEW a \in Asks
  PROVE  /\ a.kind \in {"none", "list", "branches"}
         /\ a.kind = "none" <=> a = NoAsk
         /\ a.kind = "list" => a \in ListAsks /\ a.of \in Pages
         /\ a.kind = "branches" => a \in BranchAsks /\ a.of \in Repos
         /\ a # NoAsk => /\ a.readers \subseteq PageReaders \cup BranchReaders
                         /\ a.due \subseteq Repos
BY DEF Asks, NoAsk, ListAsks, BranchAsks

(* Requests that ask for the same.                                         *)
SameAsk(a, b) ==
  /\ b.kind = a.kind /\ b.of = a.of /\ b.due = a.due
  /\ a.kind = "branches" => b.since = a.since

(* A request that loses readers asks for what it asked for.                *)
LEMMA AskUnread ==
  ASSUME NEW a \in Asks, a # NoAsk, NEW R, R \subseteq a.readers
  PROVE  LET b == [a EXCEPT !.readers = R]
         IN b \in Asks /\ SameAsk(a, b) /\ b # NoAsk
BY DEF Asks, NoAsk, ListAsks, BranchAsks, SameAsk

(* So does one whose client is gone.                                       *)
LEMMA AskDisowned ==
  ASSUME NEW a \in Asks, a # NoAsk
  PROVE  LET b == [a EXCEPT !.mine = FALSE, !.readers = {}]
         IN b \in Asks /\ SameAsk(a, b) /\ b # NoAsk
BY DEF Asks, NoAsk, ListAsks, BranchAsks, SameAsk

(* So does a list that gains a reader.                                     *)
LEMMA AskShared ==
  ASSUME NEW a \in Asks, a.kind = "list", NEW x \in PageReaders
  PROVE  LET b == [a EXCEPT !.readers = @ \cup {x}]
         IN b \in Asks /\ SameAsk(a, b) /\ b # NoAsk
BY DEF Asks, NoAsk, ListAsks, BranchAsks, SameAsk

-----------------------------------------------------------------------------
(* The steps of the server. *)

(* The promises of S are settled: everyone who shares one has its answer,  *)
(* and nobody is left waiting for S.                                       *)
Settled(S) ==
  /\ DOMAIN wait' = Requests
  /\ \A x \in S : /\ wait[x].at \in InLoad \cup {"checking"}
                  /\ wait'[x].at \in {"answered", "refused"}
                  /\ WaitTyped(wait'[x], ask[x].kind)
  /\ \A x \in Requests \ S :
       wait'[x] = IF wait[x].at = "joined" /\ wait[x].by \in S
                    THEN wait'[wait[x].by] ELSE wait[x]
  /\ \A x \in Requests : wait[x].at = "sharing" /\ wait[x].by \in S => x \in S
  /\ \A p \in Pages :
       /\ repositoryCache'[p] = repositoryCache[p] \/ repositoryCache'[p].at # "loading"
       /\ repositoryCache'[p].at = "loading" => repositoryCache'[p].by \notin S
  /\ \A r \in Repos :
       /\ branchCache'[r] = branchCache[r] \/ branchCache'[r].at # "loading"
       /\ branchCache'[r].at = "loading" => branchCache'[r].by \notin S
  /\ installationRepositoryCache'.at = "loading" =>
       /\ installationRepositoryCache' = installationRepositoryCache
       /\ installationRepositoryCache.by \notin S

(* Promises that are settled leave the server's side as it should be.      *)
LEMMA SettleStep ==
  ASSUME ServerInv, NEW S \in SUBSET Requests, Settled(S), CachesTyped', UNCHANGED ask
  PROVE  ServerInv'
<1> USE DEF ServerInv
<1>1. RequestsTyped'
  <2> SUFFICES ASSUME NEW x \in Requests
               PROVE  /\ WaitTyped(wait'[x], ask[x].kind)
                      /\ wait'[x].at = "idle" <=> ask[x] = NoAsk
    BY DEF RequestsTyped, Settled
  <2>1. CASE x \in S
    BY <2>1 DEF RequestsTyped, Settled, InLoad, Lists, AtGitHub
  <2>2. CASE x \notin S /\ wait[x].at = "joined" /\ wait[x].by \in S
    <3>1. ask[wait[x].by].kind = ask[x].kind
      BY <2>2 DEF RequestsLinked, Loads
    <3> QED BY <2>2, <3>1 DEF RequestsTyped, Settled
  <2>3. CASE x \notin S /\ ~(wait[x].at = "joined" /\ wait[x].by \in S)
    BY <2>3 DEF RequestsTyped, Settled
  <2> QED BY <2>1, <2>2, <2>3
<1>2. \A x \in Requests \ S : wait[x].at \in InLoad => wait'[x] = wait[x]
  BY DEF Settled, InLoad, Lists, AtGitHub
<1>3. ListsLinked' /\ BranchesLinked'
  BY <1>2 DEF Settled, ListsLinked, BranchesLinked, Loads
<1>4. InstallationLinked'
  BY <1>2 DEF Settled, InstallationLinked, LoadsInstallation, InLoad
<1>5. RequestsLinked'
  <2> SUFFICES ASSUME NEW q \in Requests
               PROVE  (/\ wait[q].at = "joined" =>
                            Loads(wait[q].by, ask[q].kind, ask[q].of)
                       /\ wait[q].at = "sharing" => LoadsInstallation(wait[q].by))'
    BY DEF RequestsLinked
  <2>1. wait'[q].at \in {"joined", "sharing"} =>
          wait'[q] = wait[q] /\ wait[q].by \notin S
    BY DEF Settled
  <2> QED BY <1>2, <2>1 DEF RequestsLinked, Loads, LoadsInstallation, InLoad
<1> QED BY <1>1, <1>3, <1>4, <1>5

(* A step at which no request moves: entries may go, readers may change.   *)
LEMMA QuietStep ==
  ASSUME ServerInv, UNCHANGED wait, ask' \in [Requests -> Asks],
         \A q \in Requests :
           /\ ask'[q] = NoAsk <=> ask[q] = NoAsk
           /\ ask[q] # NoAsk => ask'[q].kind = ask[q].kind /\ ask'[q].of = ask[q].of,
         CachesTyped',
         \A p \in Pages : repositoryCache'[p] \in {Absent, repositoryCache[p]},
         \A r \in Repos : branchCache'[r] \in {Absent, branchCache[r]},
         installationRepositoryCache' \in {Absent, installationRepositoryCache}
  PROVE  ServerInv'
<1> USE DEF ServerInv
<1>1. \A x \in Requests : ask'[x].kind = ask[x].kind
  BY DEF NoAsk
<1>2. RequestsTyped'
  BY <1>1 DEF RequestsTyped
<1>3. ASSUME NEW x, NEW kind, NEW of, kind \in {"list", "branches"}, Loads(x, kind, of)
      PROVE  Loads(x, kind, of)'
  BY <1>1, <1>3 DEF Loads, NoAsk
<1>4. ASSUME NEW x, LoadsInstallation(x)
      PROVE  LoadsInstallation(x)'
  BY <1>1, <1>4 DEF LoadsInstallation
<1>5. ListsLinked'
  BY <1>3 DEF ListsLinked, Absent
<1>6. BranchesLinked'
  BY <1>3 DEF BranchesLinked, Absent
<1>7. InstallationLinked'
  BY <1>4 DEF InstallationLinked, Absent
<1>8. RequestsLinked'
  <2> SUFFICES ASSUME NEW q \in Requests
               PROVE  (/\ wait[q].at = "joined" =>
                            Loads(wait[q].by, ask[q].kind, ask[q].of)
                       /\ wait[q].at = "sharing" => LoadsInstallation(wait[q].by))'
    BY DEF RequestsLinked
  <2>1. wait[q].at = "joined" => ask[q] # NoAsk /\ ask[q].kind \in {"list", "branches"}
    BY AskKinds DEF RequestsTyped
  <2> QED BY <1>3, <1>4, <2>1 DEF RequestsLinked
<1> QED BY <1>2, <1>5, <1>6, <1>7, <1>8

(* An entry after a step of request q: as it was, absent, or q's.          *)
Kin(e, q) == {e, Absent, Loading(q)}

(* Request q, which may be a new one, gets on without settling a promise.  *)
Moved(q) ==
  LET w == wait'[q]
      a == ask'[q]
  IN /\ DOMAIN wait' = Requests /\ ask' \in [Requests -> Asks]
     /\ \A x \in Requests \ {q} : wait'[x] = wait[x] /\ ask'[x] = ask[x]
     /\ a \in Asks \ {NoAsk} /\ (a = ask[q] \/ wait[q].at = "idle")
     /\ WaitTyped(w, a.kind) /\ w.at # "idle"
     /\ wait[q].at \in InLoad => w.at \in InLoad
     /\ wait[q].at \in AtGitHub => w.at \in AtGitHub
     /\ w.at = "joined" => w.by # q /\ Loads(w.by, a.kind, a.of)
     /\ w.at = "sharing" => w.by # q /\ LoadsInstallation(w.by)
     /\ \A p \in Pages : /\ repositoryCache'[p] \in Kin(repositoryCache[p], q)
                         /\ repositoryCache'[p] = Loading(q) =>
                             a.kind = "list" /\ a.of = p /\ w.at \in InLoad
     /\ \A r \in Repos : /\ branchCache'[r] \in Kin(branchCache[r], q)
                         /\ branchCache'[r] = Loading(q) =>
                             a.kind = "branches" /\ a.of = r /\ w.at \in InLoad
     /\ installationRepositoryCache' \in Kin(installationRepositoryCache, q)
     /\ installationRepositoryCache' = Loading(q) =>
          a.kind = "list" /\ w.at \in AtGitHub

(* So does a request that gets on.                                         *)
LEMMA MoveStep ==
  ASSUME ServerInv, NEW q \in Requests, Moved(q), CachesTyped'
  PROVE  ServerInv'
<1> USE DEF ServerInv
<1>1. /\ \A x \in Requests \ {q} : wait'[x] = wait[x] /\ ask'[x] = ask[x]
      /\ ask[q] # NoAsk => ask'[q] = ask[q]
      /\ wait[q].at \in InLoad => wait'[q].at \in InLoad
      /\ wait[q].at \in AtGitHub => wait'[q].at \in AtGitHub
  BY DEF Moved, RequestsTyped
<1>2. RequestsTyped'
  BY <1>1 DEF Moved, RequestsTyped
<1>3. ASSUME NEW x, NEW kind, NEW of, Loads(x, kind, of)
      PROVE  Loads(x, kind, of)'
  <2>1. ask[x] # NoAsk
    BY <1>3 DEF Loads, RequestsTyped, InLoad, Lists, AtGitHub
  <2> QED BY <1>1, <1>3, <2>1 DEF Loads
<1>4. ASSUME NEW x, LoadsInstallation(x)
      PROVE  LoadsInstallation(x)'
  <2>1. ask[x] # NoAsk
    BY <1>4 DEF LoadsInstallation, RequestsTyped, AtGitHub
  <2> QED BY <1>1, <1>4, <2>1 DEF LoadsInstallation
<1>5. ASSUME NEW e
      PROVE  /\ Loading(e).at = "loading" /\ Loading(e).by = e
             /\ Absent.at = "absent"
  BY DEF Loading, Absent
<1>6. ListsLinked'
  <2> SUFFICES ASSUME NEW p \in Pages, repositoryCache'[p].at = "loading"
               PROVE  Loads(repositoryCache[p].by, "list", p)'
    BY DEF ListsLinked
  <2>1. repositoryCache'[p] \in {repositoryCache[p], Absent, Loading(q)}
    BY DEF Moved, Kin
  <2>2. repositoryCache'[p] = Loading(q) =>
          /\ ask'[q].kind = "list" /\ ask'[q].of = p /\ wait'[q].at \in InLoad
    BY DEF Moved
  <2>3. CASE repositoryCache'[p] = repositoryCache[p]
    BY <1>3, <2>3 DEF ListsLinked
  <2>4. CASE repositoryCache'[p] = Loading(q)
    BY <1>5, <2>2, <2>4 DEF Loads
  <2> QED BY <1>5, <2>1, <2>3, <2>4
<1>7. BranchesLinked'
  <2> SUFFICES ASSUME NEW r \in Repos, branchCache'[r].at = "loading"
               PROVE  Loads(branchCache[r].by, "branches", r)'
    BY DEF BranchesLinked
  <2>1. branchCache'[r] \in {branchCache[r], Absent, Loading(q)}
    BY DEF Moved, Kin
  <2>2. branchCache'[r] = Loading(q) =>
          /\ ask'[q].kind = "branches" /\ ask'[q].of = r /\ wait'[q].at \in InLoad
    BY DEF Moved
  <2>3. CASE branchCache'[r] = branchCache[r]
    BY <1>3, <2>3 DEF BranchesLinked
  <2>4. CASE branchCache'[r] = Loading(q)
    BY <1>5, <2>2, <2>4 DEF Loads
  <2> QED BY <1>5, <2>1, <2>3, <2>4
<1>8. InstallationLinked'
  <2> SUFFICES ASSUME installationRepositoryCache'.at = "loading"
               PROVE  LoadsInstallation(installationRepositoryCache.by)'
    BY DEF InstallationLinked
  <2>1. installationRepositoryCache' \in
          {installationRepositoryCache, Absent, Loading(q)}
    BY DEF Moved, Kin
  <2>2. installationRepositoryCache' = Loading(q) =>
          ask'[q].kind = "list" /\ wait'[q].at \in AtGitHub
    BY DEF Moved
  <2>3. CASE installationRepositoryCache' = installationRepositoryCache
    BY <1>4, <2>3 DEF InstallationLinked
  <2>4. CASE installationRepositoryCache' = Loading(q)
    BY <1>5, <2>2, <2>4 DEF LoadsInstallation
  <2> QED BY <1>5, <2>1, <2>3, <2>4
<1>9. RequestsLinked'
  <2> SUFFICES ASSUME NEW x \in Requests
               PROVE  (/\ wait[x].at = "joined" =>
                            Loads(wait[x].by, ask[x].kind, ask[x].of)
                       /\ wait[x].at = "sharing" => LoadsInstallation(wait[x].by))'
    BY DEF RequestsLinked
  <2>1. CASE x = q
    BY <1>3, <1>4, <2>1 DEF Moved
  <2>2. CASE x # q
    BY <1>1, <1>3, <1>4, <2>2 DEF RequestsLinked
  <2> QED BY <2>1, <2>2
<1> QED BY <1>2, <1>6, <1>7, <1>8, <1>9

WorldTyped ==
  /\ head \in [Repos -> 0..MaxPushes] /\ shared \subseteq Repos
  /\ installed \in BOOLEAN
  /\ cleared \in [Repos -> 0..MaxPushes]
  /\ \A r \in Repos : cleared[r] <= head[r]

(* What a look-up leaves of an entry.                                      *)
LEMMA EntryKept ==
  ASSUME NEW V, NEW e \in Entries(V), NEW q \in Requests, NEW expired
  PROVE  /\ Fresh(e, expired) \in Entries(V) \cap Kin(e, q)
         /\ Kept(q, e) \in Entries(V) \cap Kin(e, q)
         /\ Kept(q, Fresh(e, expired)) \in Entries(V) \cap Kin(e, q)
         /\ Kept(q, e) = Loading(q) => e.at = "absent" \/ e = Loading(q)
BY EntryMade DEF Fresh, Kept, Kin

(* The installation row is read.                                           *)
LEMMA ReadServer ==
  ASSUME ServerInv, WorldTyped, NEW q \in Requests, ReadInstallations(q)
  PROVE  ServerInv' /\ Moved(q)
<1> DEFINE w == [at |-> "listing", installed |-> installed]
<1>1. /\ wait[q].at = "reading" /\ wait' = [wait EXCEPT ![q] = w]
      /\ UNCHANGED <<ask, caches>>
  BY DEF ReadInstallations
<1>2. ask[q] \in Asks \ {NoAsk} /\ ask' = [ask EXCEPT ![q] = ask[q]]
  BY <1>1 DEF ServerInv, RequestsTyped
<1>3. WaitTyped(w, ask[q].kind)
  BY <1>1 DEF ServerInv, RequestsTyped, WaitTyped, InLoad, Lists, AtGitHub, WorldTyped
<1>4. CachesTyped'
  BY <1>1 DEF ServerInv, CachesTyped, caches
<1>5. /\ w.at = "listing" /\ w.at \in InLoad /\ wait[q].at \notin AtGitHub
  BY <1>1 DEF InLoad, Lists, AtGitHub
<1>6. /\ \A p \in Pages : repositoryCache'[p] = Loading(q) =>
           ask[q].kind = "list" /\ ask[q].of = p
      /\ \A r \in Repos : branchCache'[r] # Loading(q)
      /\ installationRepositoryCache' # Loading(q)
  BY <1>1 DEF ServerInv, ListsLinked, BranchesLinked, InstallationLinked, Loads,
     LoadsInstallation, RequestsTyped, WaitTyped, Lists, AtGitHub, Loading, caches
<1> HIDE DEF w
<1>7. wait'[q] = w /\ \A x \in Requests \ {q} : wait'[x] = wait[x]
  BY <1>1 DEF ServerInv, RequestsTyped
<1>8. Moved(q)
  BY <1>1, <1>2, <1>3, <1>5, <1>6, <1>7 DEF Moved, Kin, caches, ServerInv, RequestsTyped
<1> QED BY <1>4, <1>8, MoveStep

(* The entries a request is loading. *)
LEMMA OwnEntries ==
  ASSUME ServerInv, NEW q
  PROVE  /\ \A p \in Pages : repositoryCache[p] = Loading(q) => Loads(q, "list", p)
         /\ \A r \in Repos : branchCache[r] = Loading(q) => Loads(q, "branches", r)
         /\ installationRepositoryCache = Loading(q) => LoadsInstallation(q)
BY DEF ServerInv, ListsLinked, BranchesLinked, InstallationLinked, Loading

(* One promise that nobody shares but through the caches of the lists.     *)
LEMMA FulfilOne ==
  ASSUME ServerInv, NEW q \in Requests, wait[q].at = "listing", NEW v \in Listed,
         Fulfil({q}, [x \in {q} |-> v]),
         UNCHANGED <<ask, installationRepositoryCache>>
  PROVE  /\ Settled({q}) /\ CachesTyped' /\ wait'[q] = Answered(v)
         /\ \A p \in Pages :
              \/ repositoryCache'[p] = repositoryCache[p]
              \/ /\ repositoryCache[p].at = "loading" /\ repositoryCache[p].by = q
                 /\ repositoryCache'[p] = Loaded(v)
         /\ ServerInv' /\ UNCHANGED branchCache
<1>1. /\ repositoryCache' =
           [p \in Pages |-> Entry(repositoryCache[p], {q}, [x \in {q} |-> Loaded(v)])]
      /\ branchCache' =
           [r \in Repos |-> Entry(branchCache[r], {q}, [x \in {q} |-> Loaded(v)])]
      /\ wait' = [x \in Requests |->
           IF x = q \/ (wait[x].at = "joined" /\ wait[x].by = q)
             THEN Answered(v) ELSE wait[x]]
  BY DEF Fulfil, Settle
<1>2. ask[q].kind = "list"
  BY DEF ServerInv, RequestsTyped, WaitTyped, Lists
<1>3. /\ Answered(v).at = "answered"
      /\ WaitTyped(Answered(v), ask[q].kind)
  BY <1>2 DEF Answered, WaitTyped, InLoad, Lists, AtGitHub
<1>4. \A p \in Pages : \/ /\ repositoryCache[p].at = "loading" /\ repositoryCache[p].by = q
                          /\ repositoryCache'[p] = Loaded(v)
                       \/ /\ repositoryCache'[p] = repositoryCache[p]
                          /\ ~(repositoryCache[p].at = "loading" /\ repositoryCache[p].by = q)
  BY <1>1 DEF Entry
<1>5. branchCache' = branchCache
  <2>1. \A r \in Repos :
          Entry(branchCache[r], {q}, [x \in {q} |-> Loaded(v)]) = branchCache[r]
    BY <1>2 DEF ServerInv, BranchesLinked, Loads, Entry
  <2> QED BY <1>1, <2>1 DEF ServerInv, CachesTyped
<1>6. CachesTyped'
  <2>1. Loaded(v) \in Entries(Listed)
    BY EntryMade
  <2>2. \A p \in Pages : repositoryCache'[p] \in Entries(Listed)
    BY <1>4, <2>1 DEF ServerInv, CachesTyped
  <2>3. repositoryCache' \in [Pages -> Entries(Listed)]
    BY <1>1, <2>2
  <2> QED BY <1>5, <2>3 DEF ServerInv, CachesTyped
<1>7. Settled({q})
  <2>1. DOMAIN wait' = Requests /\ wait[q].at \in InLoad /\ wait'[q] = Answered(v)
    BY <1>1 DEF InLoad, Lists
  <2>2. \A x \in Requests \ {q} :
          wait'[x] = IF wait[x].at = "joined" /\ wait[x].by \in {q}
                       THEN wait'[wait[x].by] ELSE wait[x]
    BY <1>1
  <2>3. \A x \in Requests : wait[x].at = "sharing" => wait[x].by # q
    BY DEF ServerInv, RequestsLinked, LoadsInstallation, AtGitHub
  <2>4. Loaded(v).at # "loading"
    BY DEF Loaded
  <2>5. \A r \in Repos : branchCache[r].at = "loading" => branchCache[r].by # q
    BY <1>2 DEF ServerInv, BranchesLinked, Loads
  <2>6. installationRepositoryCache.at = "loading" => installationRepositoryCache.by # q
    BY DEF ServerInv, InstallationLinked, LoadsInstallation, AtGitHub
  <2> QED BY <1>3, <1>4, <1>5, <2>1, <2>2, <2>3, <2>4, <2>5, <2>6 DEF Settled
<1>8. ServerInv'
  BY <1>6, <1>7, SettleStep
<1> QED BY <1>1, <1>4, <1>5, <1>6, <1>7, <1>8

(* The repositories are listed: from the row, from the cache, with the     *)
(* load under way, or from GitHub.                                         *)
LEMMA ListServer ==
  ASSUME ServerInv, NEW q \in Requests, ListInstallationRepositories(q)
  PROVE  /\ ServerInv' /\ UNCHANGED branchCache
         /\ IF wait'[q].at = "answered" THEN Settled({q}) ELSE Moved(q)
<1> PICK expired \in BOOLEAN :
      LET e == Fresh(installationRepositoryCache, expired)
          nothing == [installed |-> FALSE, repos |-> {}]
      IN /\ wait[q].at = "listing"
         /\ \/ /\ ~wait[q].installed
               /\ Fulfil({q}, [x \in {q} |-> nothing])
               /\ UNCHANGED installationRepositoryCache
            \/ /\ wait[q].installed /\ e.at = "loaded"
               /\ Fulfil({q}, [x \in {q} |->
                    ListValue(x, [installed |-> TRUE, repos |-> e.value])])
               /\ UNCHANGED installationRepositoryCache
            \/ /\ wait[q].installed /\ e.at # "loaded"
               /\ installationRepositoryCache' = Kept(q, e)
               /\ wait' = [wait EXCEPT ![q] =
                    IF e.at = "loading" THEN [at |-> "sharing", by |-> e.by]
                    ELSE [at |-> "asking"]]
               /\ UNCHANGED <<repositoryCache, branchCache>>
         /\ UNCHANGED <<github, installed, ask, client, session, mishaps, asks>>
  BY DEF ListInstallationRepositories
<1> DEFINE e == Fresh(installationRepositoryCache, expired)
<1>1. e \in Entries(SUBSET Repos) \cap Kin(installationRepositoryCache, q)
  BY EntryKept DEF ServerInv, CachesTyped
<1>2. ask[q] \in ListAsks /\ wait[q].at = "listing"
  BY AskKinds DEF ServerInv, RequestsTyped, WaitTyped, Lists
<1>6. \A v : Answered(v).at = "answered"
  BY DEF Answered
<1>3. CASE /\ ~wait[q].installed
           /\ Fulfil({q}, [x \in {q} |-> [installed |-> FALSE, repos |-> {}]])
           /\ UNCHANGED installationRepositoryCache
  <2>1. [installed |-> FALSE, repos |-> {}] \in Listed
    BY DEF Listed
  <2>2. /\ ServerInv' /\ wait'[q] = Answered([installed |-> FALSE, repos |-> {}])
        /\ Settled({q}) /\ UNCHANGED branchCache
    BY <1>2, <1>3, <2>1, FulfilOne
  <2> QED BY <1>6, <2>2
<1>4. CASE /\ wait[q].installed /\ e.at = "loaded"
           /\ Fulfil({q}, [x \in {q} |->
                ListValue(x, [installed |-> TRUE, repos |-> e.value])])
           /\ UNCHANGED installationRepositoryCache
  <2> DEFINE v == ListValue(q, [installed |-> TRUE, repos |-> e.value])
  <2>1. v \in Listed
    BY <1>1, <1>4, EntryKinds DEF Listed, ListValue
  <2>2. [x \in {q} |-> ListValue(x, [installed |-> TRUE, repos |-> e.value])]
          = [x \in {q} |-> v]
    OBVIOUS
  <2> HIDE DEF v
  <2>3. /\ ServerInv' /\ wait'[q] = Answered(v)
        /\ Settled({q}) /\ UNCHANGED branchCache
    BY <1>2, <1>4, <2>1, <2>2, FulfilOne
  <2> QED BY <1>6, <2>3
<1>5. CASE /\ wait[q].installed /\ e.at # "loaded"
           /\ installationRepositoryCache' = Kept(q, e)
           /\ wait' = [wait EXCEPT ![q] =
                IF e.at = "loading" THEN [at |-> "sharing", by |-> e.by]
                ELSE [at |-> "asking"]]
           /\ UNCHANGED <<repositoryCache, branchCache>>
  <2> DEFINE w == IF e.at = "loading" THEN [at |-> "sharing", by |-> e.by]
                  ELSE [at |-> "asking"]
  <2>1. ask[q] \in Asks \ {NoAsk} /\ ask' = [ask EXCEPT ![q] = ask[q]]
        /\ ask[q].kind = "list"
    BY <1>2 DEF ServerInv, RequestsTyped, ListAsks, NoAsk, Asks
  <2>2. e.at = "loading" => e = installationRepositoryCache /\ LoadsInstallation(e.by)
                            /\ e.by \in Requests /\ e.by # q
    BY <1>2 DEF Fresh, Absent, ServerInv, InstallationLinked, LoadsInstallation, AtGitHub
  <2>3. /\ WaitTyped(w, "list") /\ w.at \in {"sharing", "asking"}
        /\ w.at = "sharing" => w.by # q /\ LoadsInstallation(w.by)
    BY <2>2 DEF WaitTyped, InLoad, Lists, AtGitHub
  <2>4. installationRepositoryCache' \in
          Entries(SUBSET Repos) \cap Kin(installationRepositoryCache, q)
    BY <1>5, EntryKept DEF ServerInv, CachesTyped
  <2>5. CachesTyped'
    BY <1>5, <2>4 DEF ServerInv, CachesTyped
  <2>6. installationRepositoryCache' = Loading(q) => w.at = "asking"
    BY <1>1, <1>5, <2>2, EntryKinds DEF Kept, Loading
  <2>7. /\ DOMAIN wait' = Requests /\ wait'[q] = w
        /\ \A x \in Requests \ {q} : wait'[x] = wait[x]
    BY <1>5 DEF ServerInv, RequestsTyped
  <2>8. /\ w.at \in InLoad /\ wait[q].at \notin AtGitHub
        /\ w.at = "asking" => w.at \in AtGitHub
        /\ w.at # "joined" /\ w.at # "idle"
    BY <1>2, <2>3 DEF InLoad, Lists, AtGitHub
  <2>9. /\ \A p \in Pages : repositoryCache'[p] = Loading(q) => ask[q].of = p
        /\ \A r \in Repos : branchCache'[r] # Loading(q)
    BY <1>5, <2>1, OwnEntries DEF Loads
  <2>10. /\ WaitTyped(w, ask[q].kind)
         /\ \A p \in Pages : repositoryCache'[p] \in Kin(repositoryCache[p], q)
         /\ \A r \in Repos : branchCache'[r] \in Kin(branchCache[r], q)
    BY <1>5, <2>1, <2>3 DEF Kin
  <2> HIDE DEF w, e
  <2>11. Moved(q)
    BY <2>1, <2>3, <2>4, <2>6, <2>7, <2>8, <2>9, <2>10 DEF Moved, ServerInv, RequestsTyped
  <2> QED BY <1>5, <2>3, <2>5, <2>7, <2>11, MoveStep
<1> QED BY <1>3, <1>4, <1>5

(* A request for branches finds the cached list, joins its load or starts  *)
(* one.                                                                    *)
LEMMA CheckServer ==
  ASSUME ServerInv, NEW q \in Requests, CheckInstallation(q)
  PROVE  LET r == ask[q].of
         IN /\ ServerInv' /\ Moved(q) /\ UNCHANGED ask
            /\ ask[q].kind = "branches" /\ r \in Repos
            /\ \/ wait'[q].at \in {"asking", "refused"}
               \/ /\ branchCache[r].at = "loading"
                  /\ wait'[q] = [at |-> "joined", by |-> branchCache[r].by]
               \/ /\ branchCache[r].at = "loaded"
                  /\ wait'[q] = Answered(branchCache[r].value)
<1> DEFINE r == ask[q].of
           w == IF installed THEN Cached(q, branchCache[r], [at |-> "asking"])
                ELSE Refused(FALSE)
<1>1. /\ wait[q].at = "checking" /\ wait' = [wait EXCEPT ![q] = w]
      /\ UNCHANGED <<ask, repositoryCache, installationRepositoryCache>>
      /\ branchCache' = IF installed THEN [branchCache EXCEPT ![r] = Kept(q, @)]
                        ELSE branchCache
  BY DEF CheckInstallation
<1>2. /\ ask[q] \in Asks \ {NoAsk} /\ ask[q].kind = "branches" /\ r \in Repos
      /\ wait[q].at \notin InLoad
  <2>1. ask[q].kind = "branches"
    BY <1>1 DEF ServerInv, RequestsTyped, WaitTyped
  <2> QED BY <1>1, <2>1, AskKinds DEF ServerInv, RequestsTyped, NoAsk, InLoad, Lists, AtGitHub
<1>3. /\ branchCache[r] \in Entries(Commits)
      /\ branchCache[r].at = "loading" =>
           branchCache[r].by # q /\ Loads(branchCache[r].by, "branches", r)
  BY <1>2 DEF ServerInv, CachesTyped, BranchesLinked, Loads
<1>4. /\ WaitTyped(w, "branches") /\ w.at \notin {"idle", "sharing"}
      /\ w.at = "joined" => w.by # q /\ Loads(w.by, "branches", r)
      /\ branchCache[r].at = "absent" /\ installed => w.at = "asking"
      /\ \/ w.at \in {"asking", "refused"}
         \/ /\ branchCache[r].at = "loading"
            /\ w = [at |-> "joined", by |-> branchCache[r].by]
         \/ branchCache[r].at = "loaded" /\ w = Answered(branchCache[r].value)
  <2>1. CASE ~installed
    BY <2>1 DEF Refused, WaitTyped, InLoad, Lists, AtGitHub
  <2>2. CASE installed /\ branchCache[r].at = "absent"
    BY <2>2 DEF Cached, WaitTyped, InLoad, Lists, AtGitHub
  <2>3. CASE installed /\ branchCache[r].at = "loading"
    BY <1>3, <2>3 DEF Cached, WaitTyped, InLoad, Lists, AtGitHub, Loads
  <2>4. CASE installed /\ branchCache[r].at = "loaded"
    BY <1>3, <2>4, EntryKinds DEF Cached, Answered, WaitTyped, InLoad, Lists, AtGitHub
  <2> QED BY <1>3, <2>1, <2>2, <2>3, <2>4, EntryKinds
<1> HIDE DEF w, r
<1>5. /\ \A x \in Repos : \/ branchCache'[x] = branchCache[x]
                          \/ /\ x = r /\ installed /\ branchCache[r].at = "absent"
                             /\ branchCache'[x] = Loading(q)
      /\ DOMAIN branchCache' = Repos
  BY <1>1 DEF Kept, ServerInv, CachesTyped
<1>6. CachesTyped'
  <2>1. Loading(q) \in Entries(Commits)
    BY EntryMade
  <2>2. branchCache' \in [Repos -> Entries(Commits)]
    <3>1. \A x \in Repos : branchCache'[x] \in Entries(Commits)
      BY <1>5, <2>1 DEF ServerInv, CachesTyped
    <3> QED BY <1>1, <3>1 DEF ServerInv, CachesTyped
  <2> QED BY <1>1, <2>2 DEF ServerInv, CachesTyped
<1>7. /\ DOMAIN wait' = Requests /\ wait'[q] = w
      /\ \A x \in Requests \ {q} : wait'[x] = wait[x]
  BY <1>1 DEF ServerInv, RequestsTyped
<1>8. /\ \A p \in Pages : repositoryCache[p] # Loading(q)
      /\ \A x \in Repos : branchCache[x] # Loading(q)
      /\ installationRepositoryCache # Loading(q)
  BY <1>1, OwnEntries DEF Loads, LoadsInstallation, InLoad, Lists, AtGitHub
<1>9. w.at = "asking" => w.at \in InLoad
  BY DEF InLoad, AtGitHub
<1>10. \A x \in Repos : /\ branchCache'[x] \in Kin(branchCache[x], q)
                        /\ branchCache'[x] = Loading(q) => x = r /\ w.at \in InLoad
  BY <1>4, <1>5, <1>8, <1>9 DEF Kin
<1>11. Moved(q)
  BY <1>1, <1>2, <1>4, <1>7, <1>8, <1>10
     DEF Moved, Kin, InLoad, ServerInv, RequestsTyped, r
<1>12. ServerInv'
  BY <1>6, <1>11, MoveStep
<1> QED BY <1>1, <1>2, <1>4, <1>7, <1>11, <1>12 DEF r

(* GitHub reads what is asked for.                                         *)
LEMMA AnswerServer ==
  ASSUME ServerInv, WorldTyped, NEW q \in Requests, GitHubAnswers(q)
  PROVE  ServerInv' /\ Moved(q)
<1> DEFINE w == [at |-> "arriving",
                 value |-> IF ask[q].kind = "list" THEN shared
                           ELSE <<ask[q].of, head[ask[q].of]>>]
<1>1. /\ wait[q].at = "asking" /\ wait' = [wait EXCEPT ![q] = w]
      /\ UNCHANGED <<ask, repositoryCache, installationRepositoryCache, branchCache>>
  BY DEF GitHubAnswers, caches
<1>2. ask[q] \in Asks \ {NoAsk}
  BY <1>1 DEF ServerInv, RequestsTyped
<1>3. WaitTyped(w, ask[q].kind)
  <2>1. CASE ask[q].kind = "list"
    BY <2>1 DEF WaitTyped, InLoad, Lists, AtGitHub, WorldTyped
  <2>2. CASE ask[q].kind # "list"
    <3>1. ask[q].of \in Repos
      BY <1>2, <2>2, AskKinds
    <3>2. head[ask[q].of] \in 0..MaxPushes
      BY <3>1 DEF WorldTyped
    <3>3. w.value \in Commits
      BY <2>2, <3>1, <3>2 DEF Commits
    <3> QED BY <2>2, <3>3 DEF WaitTyped, InLoad, Lists, AtGitHub
  <2> QED BY <2>1, <2>2
<1>4. w.at = "arriving" /\ w.at \in InLoad /\ w.at \in AtGitHub
  BY DEF InLoad, AtGitHub
<1> HIDE DEF w
<1>5. /\ DOMAIN wait' = Requests /\ wait'[q] = w
      /\ \A x \in Requests \ {q} : wait'[x] = wait[x]
  BY <1>1 DEF ServerInv, RequestsTyped
<1>6. /\ \A p \in Pages : repositoryCache'[p] = Loading(q) => Loads(q, "list", p)
      /\ \A r \in Repos : branchCache'[r] = Loading(q) => Loads(q, "branches", r)
      /\ installationRepositoryCache' = Loading(q) => LoadsInstallation(q)
  BY <1>1, OwnEntries
<1>7. Moved(q)
  BY <1>1, <1>2, <1>3, <1>4, <1>5, <1>6
     DEF Moved, Kin, Loads, LoadsInstallation, ServerInv, RequestsTyped
<1>8. CachesTyped'
  BY <1>1 DEF ServerInv, CachesTyped
<1> QED BY <1>7, <1>8, MoveStep

(* The requests that share one answer of GitHub, which has yet to arrive.  *)
LEMMA SharersAlike ==
  ASSUME ServerInv, NEW q \in Requests, NEW x \in Sharing(q)
  PROVE  /\ x \in Requests
         /\ x # q => /\ wait[x].at = "sharing" /\ wait[x].by = q
                     /\ ask[x].kind = "list" /\ ask[q].kind = "list"
                     /\ wait[q].at \in AtGitHub
BY DEF Sharing, ServerInv, RequestsLinked, RequestsTyped, WaitTyped, LoadsInstallation, Lists

(* What the requests that share GitHub's answer v to request q get of it.  *)
Shares(q, x, v) ==
  IF ask[q].kind = "list" THEN ListValue(x, [installed |-> TRUE, repos |-> v]) ELSE v

(* GitHub's answer arrives, for all who share it.                          *)
LEMMA ArriveServer ==
  ASSUME ServerInv, NEW q \in Requests, Arrives(q)
  PROVE  /\ ServerInv' /\ Settled(Sharing(q))
         /\ \A x \in Sharing(q) : wait'[x] = Answered(Shares(q, x, wait[q].value))
         /\ \A p \in Pages :
              \/ repositoryCache'[p] = repositoryCache[p]
              \/ /\ repositoryCache[p].at = "loading"
                 /\ repositoryCache[p].by \in Sharing(q)
                 /\ repositoryCache'[p] =
                      Loaded(Shares(q, repositoryCache[p].by, wait[q].value))
         /\ \A r \in Repos :
              \/ branchCache'[r] = branchCache[r]
              \/ /\ branchCache[r].at = "loading" /\ branchCache[r].by \in Sharing(q)
                 /\ branchCache'[r] =
                      Loaded(Shares(q, branchCache[r].by, wait[q].value))
<1> DEFINE S == Sharing(q)
           v == wait[q].value
           value == [x \in S |->
                       IF ask[q].kind = "list"
                         THEN ListValue(x, [installed |-> TRUE, repos |-> v])
                         ELSE v]
           left == [x \in S |-> Loaded(value[x])]
           answer == [x \in S |-> Answered(value[x])]
<1>1. /\ wait[q].at = "arriving"
      /\ installationRepositoryCache' =
           Entry(installationRepositoryCache, {q}, [x \in {q} |-> Loaded(v)])
      /\ UNCHANGED ask
      /\ Settle(S, left, answer)
  BY DEF Arrives, Fulfil
<1>2. /\ repositoryCache' = [p \in Pages |-> Entry(repositoryCache[p], S, left)]
      /\ branchCache' = [r \in Repos |-> Entry(branchCache[r], S, left)]
      /\ wait' = [x \in Requests |->
           IF x \in S THEN answer[x]
           ELSE IF wait[x].at = "joined" /\ wait[x].by \in S THEN answer[wait[x].by]
           ELSE wait[x]]
  BY <1>1 DEF Settle
<1>3. \A x \in S : /\ left[x] = Loaded(Shares(q, x, v))
                   /\ answer[x] = Answered(Shares(q, x, v))
  BY DEF Shares
<1>4. q \in S /\ S \subseteq Requests
  BY DEF Sharing
<1> HIDE DEF S, value, left, answer
<1>5. ASSUME NEW x \in S
      PROVE  /\ ask[x].kind = ask[q].kind /\ ask[x].kind \in {"list", "branches"}
             /\ Shares(q, x, v) \in IF ask[x].kind = "list" THEN Listed ELSE Commits
             /\ wait[x].at \in InLoad
  <2>1. /\ ask[x].kind = ask[q].kind /\ wait[x].at \in InLoad
    BY <1>1, SharersAlike DEF S, InLoad, Lists, AtGitHub
  <2>2. ask[q] # NoAsk /\ ask[q] \in Asks
    BY <1>1 DEF ServerInv, RequestsTyped
  <2>3. v \in IF ask[q].kind = "list" THEN SUBSET Repos ELSE Commits
    BY <1>1 DEF ServerInv, RequestsTyped, WaitTyped
  <2>4. Shares(q, x, v) \in IF ask[x].kind = "list" THEN Listed ELSE Commits
    BY <2>1, <2>3 DEF Shares, ListValue, Listed
  <2> QED BY <2>1, <2>2, <2>4, AskKinds
<1>6. \A x \in S : /\ wait'[x] = Answered(Shares(q, x, v))
                   /\ wait'[x].at = "answered" /\ WaitTyped(wait'[x], ask[x].kind)
  <2> SUFFICES ASSUME NEW x \in S
               PROVE  /\ wait'[x] = Answered(Shares(q, x, v))
                      /\ wait'[x].at = "answered" /\ WaitTyped(wait'[x], ask[x].kind)
    OBVIOUS
  <2>1. wait'[x] = Answered(Shares(q, x, v))
    BY <1>2, <1>3, <1>4
  <2> QED BY <1>5, <2>1 DEF Answered, WaitTyped, InLoad, Lists, AtGitHub
<1>7. \A p \in Pages :
        \/ /\ repositoryCache'[p] = repositoryCache[p]
           /\ repositoryCache[p].at = "loading" => repositoryCache[p].by \notin S
        \/ /\ repositoryCache[p].at = "loading" /\ repositoryCache[p].by \in S
           /\ repositoryCache'[p] = Loaded(Shares(q, repositoryCache[p].by, v))
  BY <1>2, <1>3 DEF Entry
<1>8. \A r \in Repos :
        \/ /\ branchCache'[r] = branchCache[r]
           /\ branchCache[r].at = "loading" => branchCache[r].by \notin S
        \/ /\ branchCache[r].at = "loading" /\ branchCache[r].by \in S
           /\ branchCache'[r] = Loaded(Shares(q, branchCache[r].by, v))
  BY <1>2, <1>3 DEF Entry
<1>9. \/ /\ installationRepositoryCache' = installationRepositoryCache
         /\ installationRepositoryCache.at = "loading" =>
              installationRepositoryCache.by \notin S
      \/ /\ installationRepositoryCache' = Loaded(v) /\ ask[q].kind = "list"
  <2>1. CASE /\ installationRepositoryCache.at = "loading"
             /\ installationRepositoryCache.by = q
    BY <1>1, <2>1 DEF Entry, ServerInv, InstallationLinked, LoadsInstallation
  <2>2. CASE ~(/\ installationRepositoryCache.at = "loading"
               /\ installationRepositoryCache.by = q)
    <3>1. \A x \in S : x # q => wait[x].at = "sharing"
      BY SharersAlike DEF S
    <3>2. installationRepositoryCache.at = "loading" =>
            wait[installationRepositoryCache.by].at # "sharing"
      BY DEF ServerInv, InstallationLinked, LoadsInstallation, AtGitHub
    <3> QED BY <1>1, <2>2, <3>1, <3>2 DEF Entry
  <2> QED BY <2>1, <2>2
<1>10. CachesTyped'
  <2>1. \A p \in Pages : repositoryCache'[p] \in Entries(Listed)
    <3> SUFFICES ASSUME NEW p \in Pages PROVE repositoryCache'[p] \in Entries(Listed)
      OBVIOUS
    <3>1. CASE repositoryCache'[p] = repositoryCache[p]
      BY <3>1 DEF ServerInv, CachesTyped
    <3>2. CASE /\ repositoryCache[p].at = "loading" /\ repositoryCache[p].by \in S
               /\ repositoryCache'[p] = Loaded(Shares(q, repositoryCache[p].by, v))
      <4>1. ask[repositoryCache[p].by].kind = "list"
        BY <3>2 DEF ServerInv, ListsLinked, Loads
      <4>2. Shares(q, repositoryCache[p].by, v) \in Listed
        BY <1>5, <3>2, <4>1
      <4> QED BY <3>2, <4>2, EntryMade
    <3> QED BY <1>7, <3>1, <3>2
  <2>2. \A r \in Repos : branchCache'[r] \in Entries(Commits)
    <3> SUFFICES ASSUME NEW r \in Repos PROVE branchCache'[r] \in Entries(Commits)
      OBVIOUS
    <3>1. CASE branchCache'[r] = branchCache[r]
      BY <3>1 DEF ServerInv, CachesTyped
    <3>2. CASE /\ branchCache[r].at = "loading" /\ branchCache[r].by \in S
               /\ branchCache'[r] = Loaded(Shares(q, branchCache[r].by, v))
      <4>1. ask[branchCache[r].by].kind = "branches"
        BY <3>2 DEF ServerInv, BranchesLinked, Loads
      <4>2. Shares(q, branchCache[r].by, v) \in Commits
        BY <1>5, <3>2, <4>1
      <4> QED BY <3>2, <4>2, EntryMade
    <3> QED BY <1>8, <3>1, <3>2
  <2>3. installationRepositoryCache' \in Entries(SUBSET Repos)
    <3>1. ask[q].kind = "list" => v \in SUBSET Repos
      BY <1>1 DEF ServerInv, RequestsTyped, WaitTyped
    <3>2. ask[q].kind = "list" => Loaded(v) \in Entries(SUBSET Repos)
      BY <3>1, EntryMade
    <3> QED BY <1>9, <3>2 DEF ServerInv, CachesTyped
  <2> QED BY <1>2, <2>1, <2>2, <2>3 DEF CachesTyped
<1>11. \A x \in Requests : wait[x].at = "sharing" /\ wait[x].by \in S => x \in S
  <2> SUFFICES ASSUME NEW x \in Requests, wait[x].at = "sharing", wait[x].by \in S
               PROVE  x \in S
    OBVIOUS
  <2>1. wait[wait[x].by].at \in AtGitHub
    BY DEF ServerInv, RequestsLinked, LoadsInstallation
  <2>2. wait[x].by = q
    BY <2>1, SharersAlike DEF S, AtGitHub
  <2> QED BY <2>2 DEF S, Sharing
<1>12. \A y : Loaded(y).at = "loaded"
  BY DEF Loaded
<1>13. \A x \in Requests \ S :
          wait'[x] = IF wait[x].at = "joined" /\ wait[x].by \in S
                       THEN wait'[wait[x].by] ELSE wait[x]
  BY <1>2, <1>4
<1>14. Settled(S)
  <2>1. \A p \in Pages :
          /\ repositoryCache'[p] = repositoryCache[p] \/ repositoryCache'[p].at # "loading"
          /\ repositoryCache'[p].at = "loading" => repositoryCache'[p].by \notin S
    BY <1>7, <1>12
  <2>2. \A r \in Repos :
          /\ branchCache'[r] = branchCache[r] \/ branchCache'[r].at # "loading"
          /\ branchCache'[r].at = "loading" => branchCache'[r].by \notin S
    BY <1>8, <1>12
  <2>3. installationRepositoryCache'.at = "loading" =>
          /\ installationRepositoryCache' = installationRepositoryCache
          /\ installationRepositoryCache.by \notin S
    BY <1>9, <1>12
  <2>4. DOMAIN wait' = Requests
    BY <1>2
  <2>5. \A x \in S : /\ wait[x].at \in InLoad
                     /\ wait'[x].at \in {"answered", "refused"}
                     /\ WaitTyped(wait'[x], ask[x].kind)
    BY <1>5, <1>6
  <2> QED BY <1>11, <1>13, <2>1, <2>2, <2>3, <2>4, <2>5 DEF Settled
<1>15. ServerInv'
  BY <1>1, <1>4, <1>10, <1>14, SettleStep
<1> QED BY <1>6, <1>7, <1>8, <1>14, <1>15 DEF S

(* A load fails, for all who share it.                                     *)
LEMMA FailServer ==
  ASSUME ServerInv, NEW q \in Requests, LoadFails(q)
  PROVE  /\ ServerInv' /\ Settled(Sharing(q))
         /\ \A x \in Sharing(q) : wait'[x] = Refused(TRUE)
         /\ \A p \in Pages : repositoryCache'[p] \in {Absent, repositoryCache[p]}
         /\ \A r \in Repos : branchCache'[r] \in {Absent, branchCache[r]}
         /\ installationRepositoryCache' \in {Absent, installationRepositoryCache}
<1> DEFINE S == Sharing(q)
           left == [x \in S |-> Absent]
           answer == [x \in S |-> Refused(TRUE)]
<1>1. /\ wait[q].at \in {"reading", "listing", "asking", "checking"}
      /\ installationRepositoryCache' =
           Entry(installationRepositoryCache, {q}, [x \in {q} |-> Absent])
      /\ UNCHANGED ask
      /\ Settle(S, left, answer)
  BY DEF LoadFails, Reject
<1>2. /\ repositoryCache' = [p \in Pages |-> Entry(repositoryCache[p], S, left)]
      /\ branchCache' = [r \in Repos |-> Entry(branchCache[r], S, left)]
      /\ wait' = [x \in Requests |->
           IF x \in S THEN answer[x]
           ELSE IF wait[x].at = "joined" /\ wait[x].by \in S THEN answer[wait[x].by]
           ELSE wait[x]]
  BY <1>1 DEF Settle
<1>3. \A x \in S : left[x] = Absent /\ answer[x] = Refused(TRUE)
  OBVIOUS
<1>4. q \in S /\ S \subseteq Requests
  BY DEF Sharing
<1> HIDE DEF S, left, answer
<1>5. ASSUME NEW x \in S
      PROVE  wait[x].at \in InLoad \cup {"checking"}
  BY <1>1, SharersAlike DEF S, InLoad, Lists, AtGitHub
<1>6. \A x \in S : /\ wait'[x] = Refused(TRUE) /\ wait'[x].at = "refused"
                   /\ WaitTyped(wait'[x], ask[x].kind)
  <2> SUFFICES ASSUME NEW x \in S
               PROVE  /\ wait'[x] = Refused(TRUE) /\ wait'[x].at = "refused"
                      /\ WaitTyped(wait'[x], ask[x].kind)
    OBVIOUS
  <2>1. wait'[x] = Refused(TRUE)
    BY <1>2, <1>3, <1>4
  <2> QED BY <2>1 DEF Refused, WaitTyped, InLoad, Lists, AtGitHub
<1>7. \A p \in Pages :
        \/ /\ repositoryCache'[p] = repositoryCache[p]
           /\ repositoryCache[p].at = "loading" => repositoryCache[p].by \notin S
        \/ repositoryCache'[p] = Absent
  BY <1>2, <1>3 DEF Entry
<1>8. \A r \in Repos :
        \/ /\ branchCache'[r] = branchCache[r]
           /\ branchCache[r].at = "loading" => branchCache[r].by \notin S
        \/ branchCache'[r] = Absent
  BY <1>2, <1>3 DEF Entry
<1>9. \/ /\ installationRepositoryCache' = installationRepositoryCache
         /\ installationRepositoryCache.at = "loading" =>
              installationRepositoryCache.by \notin S
      \/ installationRepositoryCache' = Absent
  <2>1. CASE /\ installationRepositoryCache.at = "loading"
             /\ installationRepositoryCache.by = q
    BY <1>1, <2>1 DEF Entry
  <2>2. CASE ~(/\ installationRepositoryCache.at = "loading"
               /\ installationRepositoryCache.by = q)
    <3>1. \A x \in S : x # q => wait[x].at = "sharing"
      BY SharersAlike DEF S
    <3>2. installationRepositoryCache.at = "loading" =>
            wait[installationRepositoryCache.by].at # "sharing"
      BY DEF ServerInv, InstallationLinked, LoadsInstallation, AtGitHub
    <3> QED BY <1>1, <2>2, <3>1, <3>2 DEF Entry
  <2> QED BY <2>1, <2>2
<1>10. CachesTyped'
  <2>1. \A V : Absent \in Entries(V)
    BY EntryMade
  <2>2. /\ \A p \in Pages : repositoryCache'[p] \in Entries(Listed)
        /\ \A r \in Repos : branchCache'[r] \in Entries(Commits)
        /\ installationRepositoryCache' \in Entries(SUBSET Repos)
    BY <1>7, <1>8, <1>9, <2>1 DEF ServerInv, CachesTyped
  <2> QED BY <1>2, <2>2 DEF CachesTyped
<1>11. \A x \in Requests : wait[x].at = "sharing" /\ wait[x].by \in S => x \in S
  <2> SUFFICES ASSUME NEW x \in Requests, wait[x].at = "sharing", wait[x].by \in S
               PROVE  x \in S
    OBVIOUS
  <2>1. wait[wait[x].by].at \in AtGitHub
    BY DEF ServerInv, RequestsLinked, LoadsInstallation
  <2>2. wait[x].by = q
    BY <2>1, SharersAlike DEF S, AtGitHub
  <2> QED BY <2>2 DEF S, Sharing
<1>12. Absent.at = "absent"
  BY DEF Absent
<1>13. \A x \in Requests \ S :
          wait'[x] = IF wait[x].at = "joined" /\ wait[x].by \in S
                       THEN wait'[wait[x].by] ELSE wait[x]
  BY <1>2, <1>4
<1>14. Settled(S)
  <2>1. \A p \in Pages :
          /\ repositoryCache'[p] = repositoryCache[p] \/ repositoryCache'[p].at # "loading"
          /\ repositoryCache'[p].at = "loading" => repositoryCache'[p].by \notin S
    BY <1>7, <1>12
  <2>2. \A r \in Repos :
          /\ branchCache'[r] = branchCache[r] \/ branchCache'[r].at # "loading"
          /\ branchCache'[r].at = "loading" => branchCache'[r].by \notin S
    BY <1>8, <1>12
  <2>3. installationRepositoryCache'.at = "loading" =>
          /\ installationRepositoryCache' = installationRepositoryCache
          /\ installationRepositoryCache.by \notin S
    BY <1>9, <1>12
  <2>4. DOMAIN wait' = Requests
    BY <1>2
  <2>5. \A x \in S : /\ wait[x].at \in InLoad \cup {"checking"}
                     /\ wait'[x].at \in {"answered", "refused"}
                     /\ WaitTyped(wait'[x], ask[x].kind)
    BY <1>5, <1>6
  <2> QED BY <1>11, <1>13, <2>1, <2>2, <2>3, <2>4, <2>5 DEF Settled
<1>15. ServerInv'
  BY <1>1, <1>4, <1>10, <1>14, SettleStep
<1> QED BY <1>6, <1>7, <1>8, <1>9, <1>14, <1>15 DEF S

(* A client hears its answer, and the request is over.                     *)
LEMMA DoneServer ==
  ASSUME ServerInv, NEW q \in Requests, wait[q].at \in {"answered", "refused"}, Done(q)
  PROVE  /\ ServerInv' /\ ask'[q] = NoAsk /\ wait'[q].at = "idle"
         /\ \A x \in Requests \ {q} : ask'[x] = ask[x] /\ wait'[x] = wait[x]
<1> USE DEF ServerInv
<1>1. /\ ask' = [ask EXCEPT ![q] = NoAsk] /\ wait' = [wait EXCEPT ![q] = Idle]
      /\ UNCHANGED <<repositoryCache, branchCache, installationRepositoryCache>>
  BY DEF Done, caches
<1>2. /\ ask'[q] = NoAsk /\ wait'[q] = Idle /\ Idle.at = "idle"
      /\ \A x \in Requests \ {q} : ask'[x] = ask[x] /\ wait'[x] = wait[x]
  BY <1>1 DEF RequestsTyped, Idle
<1>3. RequestsTyped'
  <2>1. WaitTyped(Idle, NoAsk.kind)
    BY DEF Idle, WaitTyped, InLoad, Lists, AtGitHub
  <2>2. ask' \in [Requests -> Asks] /\ DOMAIN wait' = Requests
    BY <1>1 DEF RequestsTyped, Asks
  <2> QED BY <1>2, <2>1, <2>2 DEF RequestsTyped
<1>4. CachesTyped'
  BY <1>1 DEF CachesTyped
<1>5. ASSUME NEW x, NEW kind, NEW of, Loads(x, kind, of)
      PROVE  Loads(x, kind, of)'
  BY <1>2, <1>5 DEF Loads, InLoad, Lists, AtGitHub
<1>6. ASSUME NEW x, LoadsInstallation(x)
      PROVE  LoadsInstallation(x)'
  BY <1>2, <1>6 DEF LoadsInstallation, AtGitHub
<1>7. ListsLinked' /\ BranchesLinked' /\ InstallationLinked'
  BY <1>1, <1>5, <1>6 DEF ListsLinked, BranchesLinked, InstallationLinked
<1>8. RequestsLinked'
  <2> SUFFICES ASSUME NEW x \in Requests
               PROVE  (/\ wait[x].at = "joined" =>
                            Loads(wait[x].by, ask[x].kind, ask[x].of)
                       /\ wait[x].at = "sharing" => LoadsInstallation(wait[x].by))'
    BY DEF RequestsLinked
  <2>1. CASE x = q
    BY <1>2, <2>1
  <2>2. CASE x # q
    BY <1>2, <1>5, <1>6, <2>2 DEF RequestsLinked
  <2> QED BY <2>1, <2>2
<1> QED BY <1>2, <1>3, <1>4, <1>7, <1>8

(* What request q finds when it has just been sent.                        *)
LEMMA CachedKinds ==
  ASSUME NEW V, NEW e \in Entries(V), NEW q, NEW load
  PROVE  \/ e.at = "absent" /\ Cached(q, e, load) = load
         \/ /\ e.at = "loading" /\ e.by \in Requests
            /\ Cached(q, e, load) = [at |-> "joined", by |-> e.by]
         \/ /\ e.at = "loaded" /\ e.value \in V
            /\ Cached(q, e, load) = Answered(e.value)
BY EntryKinds DEF Cached

(* A request for a list is sent: it starts a load, shares one, or finds    *)
(* the list cached.                                                        *)
LEMMA SendListServer ==
  ASSUME ServerInv, NEW q \in Requests, NEW p \in Pages, NEW forced \in BOOLEAN,
         NEW a \in ListAsks, a.of = p, Repositories(q, p, forced, a)
  PROVE  /\ ServerInv' /\ Moved(q) /\ ask'[q] = a /\ wait[q].at = "idle"
         /\ \A x \in Requests \ {q} : ask'[x] = ask[x] /\ wait'[x] = wait[x]
         /\ \A x \in Pages :
              /\ repositoryCache'[x] \in Kin(repositoryCache[x], q)
              /\ forced => repositoryCache'[x] \in {Absent, Loading(q)}
         /\ IF forced
              THEN /\ installationRepositoryCache' = Absent
                   /\ branchCache' = [r \in Repos |-> Absent] /\ cleared' = head
              ELSE UNCHANGED <<installationRepositoryCache, branchCache, cleared>>
         /\ \/ wait'[q] = [at |-> "reading"]
            \/ /\ ~forced
               /\ \/ /\ repositoryCache[p].at = "loading"
                     /\ wait'[q] = [at |-> "joined", by |-> repositoryCache[p].by]
                  \/ /\ repositoryCache[p].at = "loaded"
                     /\ wait'[q] = Answered(repositoryCache[p].value)
<1> USE DEF ServerInv
<1> PICK expired \in BOOLEAN :
     LET kept == [x \in Pages |->
           Fresh(repositoryCache[x], forced \/ (expired /\ x = p))]
     IN
     /\ Sends(q)
     /\ IF forced
          THEN /\ branchCache' = [r \in Repos |-> Absent]
               /\ installationRepositoryCache' = Absent
               /\ cleared' = head
          ELSE UNCHANGED <<branchCache, installationRepositoryCache, cleared>>
     /\ repositoryCache' = [kept EXCEPT ![p] = Kept(q, @)]
     /\ wait' = [wait EXCEPT ![q] = Cached(q, kept[p], [at |-> "reading"])]
     /\ ask' = [ask EXCEPT ![q] = a]
  BY DEF Repositories
<1> DEFINE kept == [x \in Pages |->
             Fresh(repositoryCache[x], forced \/ (expired /\ x = p))]
           e == kept[p]
           w == Cached(q, e, [at |-> "reading"])
<1>1. /\ wait[q].at = "idle" /\ wait' = [wait EXCEPT ![q] = w]
      /\ ask' = [ask EXCEPT ![q] = a]
      /\ repositoryCache' = [kept EXCEPT ![p] = Kept(q, @)]
      /\ IF forced
          THEN /\ branchCache' = [r \in Repos |-> Absent]
               /\ installationRepositoryCache' = Absent
               /\ cleared' = head
          ELSE UNCHANGED <<branchCache, installationRepositoryCache, cleared>>
  BY DEF Sends, Free
<1>2. \A x \in Pages : /\ kept[x] \in {repositoryCache[x], Absent}
                       /\ forced => kept[x] = Absent
  BY DEF Fresh
<1>3. \A V : Absent \in Entries(V) /\ Loading(q) \in Entries(V)
  BY EntryMade
<1>4. e \in Entries(Listed)
  BY <1>2, <1>3 DEF CachesTyped
<1>5. \A x \in Pages : \/ repositoryCache'[x] \in {repositoryCache[x], Absent}
                          /\ (forced => repositoryCache'[x] = Absent)
                       \/ /\ x = p /\ repositoryCache'[x] = Loading(q)
                          /\ e.at = "absent"
  BY <1>1, <1>2 DEF Kept
<1>6. Absent.at = "absent"
  BY DEF Absent
<1>7. \/ w = [at |-> "reading"]
      \/ /\ ~forced
         /\ \/ /\ repositoryCache[p].at = "loading"
               /\ w = [at |-> "joined", by |-> repositoryCache[p].by]
            \/ /\ repositoryCache[p].at = "loaded"
               /\ w = Answered(repositoryCache[p].value)
  BY <1>2, <1>4, <1>6, CachedKinds
<1>8. e.at = "absent" => w = [at |-> "reading"]
  BY DEF Cached
<1> HIDE DEF w, e, kept
<1>9. /\ wait'[q] = w /\ ask'[q] = a /\ DOMAIN wait' = Requests
      /\ \A x \in Requests \ {q} : ask'[x] = ask[x] /\ wait'[x] = wait[x]
  BY <1>1 DEF RequestsTyped
<1>10. /\ a \in Asks /\ a # NoAsk /\ a.kind = "list"
  BY DEF Asks, NoAsk, ListAsks
<1>11. CachesTyped'
  <2>1. repositoryCache' \in [Pages -> Entries(Listed)]
    <3>1. \A x \in Pages : repositoryCache'[x] \in Entries(Listed)
      BY <1>3, <1>5 DEF CachesTyped
    <3>2. DOMAIN repositoryCache' = Pages
      BY <1>1 DEF kept
    <3>3. repositoryCache' = [x \in Pages |-> repositoryCache'[x]]
      BY <1>1 DEF kept
    <3> QED BY <3>1, <3>3
  <2>2. branchCache' \in [Repos -> Entries(Commits)]
    BY <1>1, <1>3 DEF CachesTyped
  <2>3. installationRepositoryCache' \in Entries(SUBSET Repos)
    BY <1>1, <1>3 DEF CachesTyped
  <2> QED BY <2>1, <2>2, <2>3 DEF CachesTyped
<1>12. /\ WaitTyped(w, "list") /\ w.at \notin {"idle", "sharing"}
       /\ w.at = "joined" => w.by # q /\ Loads(w.by, "list", p)
  <2>1. CASE w = [at |-> "reading"]
    BY <2>1 DEF WaitTyped, InLoad, Lists, AtGitHub
  <2>2. CASE /\ repositoryCache[p].at = "loading"
             /\ w = [at |-> "joined", by |-> repositoryCache[p].by]
    <3>1. Loads(repositoryCache[p].by, "list", p) /\ repositoryCache[p].by # q
      BY <1>1, <2>2 DEF ListsLinked, Loads, InLoad, Lists, AtGitHub
    <3> QED BY <2>2, <3>1 DEF WaitTyped, InLoad, Lists, AtGitHub, Loads
  <2>3. CASE /\ repositoryCache[p].at = "loaded"
             /\ w = Answered(repositoryCache[p].value)
    <3>1. repositoryCache[p].value \in Listed
      BY <2>3, EntryKinds DEF CachesTyped
    <3> QED BY <2>3, <3>1 DEF Answered, WaitTyped, InLoad, Lists, AtGitHub
  <2> QED BY <1>7, <2>1, <2>2, <2>3
<1>13. /\ \A x \in Pages : repositoryCache[x] # Loading(q)
       /\ \A x \in Repos : branchCache[x] # Loading(q)
       /\ installationRepositoryCache # Loading(q) /\ Absent # Loading(q)
  BY <1>1, OwnEntries DEF Loads, LoadsInstallation, InLoad, Lists, AtGitHub, Absent, Loading
<1>14. \A x \in Pages : /\ repositoryCache'[x] \in Kin(repositoryCache[x], q)
                        /\ repositoryCache'[x] = Loading(q) => x = p /\ w.at \in InLoad
                        /\ forced => repositoryCache'[x] \in {Absent, Loading(q)}
  BY <1>5, <1>8, <1>13 DEF Kin, InLoad, Lists
<1>15. /\ \A r \in Repos : /\ branchCache'[r] \in Kin(branchCache[r], q)
                           /\ branchCache'[r] # Loading(q)
       /\ installationRepositoryCache' \in Kin(installationRepositoryCache, q)
       /\ installationRepositoryCache' # Loading(q)
  BY <1>1, <1>13 DEF Kin
<1>16. ask' \in [Requests -> Asks]
  BY <1>1, <1>10 DEF RequestsTyped
<1>17. wait[q].at \notin InLoad /\ wait[q].at \notin AtGitHub
  BY <1>1 DEF InLoad, Lists, AtGitHub
<1>18. Moved(q)
  BY <1>1, <1>9, <1>10, <1>12, <1>14, <1>15, <1>16, <1>17 DEF Moved
<1>19. ServerInv'
  BY <1>11, <1>18, MoveStep
<1> QED BY <1>1, <1>7, <1>9, <1>14, <1>18, <1>19

(* A request for branches is sent.                                         *)
LEMMA SendBranchesServer ==
  ASSUME ServerInv, WorldTyped, NEW q \in Requests, NEW r \in Repos,
         NEW readers \in SUBSET BranchReaders, GetBranches(q, r, readers)
  PROVE  /\ ServerInv' /\ Moved(q) /\ wait[q].at = "idle" /\ wait'[q].at = "checking"
         /\ ask'[q].kind = "branches" /\ ask'[q].of = r /\ ask'[q].since = cleared[r]
         /\ UNCHANGED caches
         /\ \A x \in Requests \ {q} : ask'[x] = ask[x] /\ wait'[x] = wait[x]
<1> DEFINE a == [kind |-> "branches", of |-> r, forced |-> FALSE, mine |-> readers # {},
                 readers |-> readers, due |-> {}, since |-> cleared[r]]
           w == [at |-> "checking"]
<1>1. /\ wait[q].at = "idle" /\ wait' = [wait EXCEPT ![q] = w]
      /\ ask' = [ask EXCEPT ![q] = a]
      /\ UNCHANGED <<repositoryCache, branchCache, installationRepositoryCache>>
      /\ UNCHANGED caches
  BY DEF GetBranches, Sends, Free, caches
<1>2. /\ a \in BranchAsks /\ a \in Asks /\ a # NoAsk
      /\ a.kind = "branches" /\ a.of = r /\ a.since = cleared[r]
  BY DEF BranchAsks, Asks, NoAsk, WorldTyped
<1>3. WaitTyped(w, "branches") /\ w.at = "checking"
  BY DEF WaitTyped, InLoad, Lists, AtGitHub
<1> HIDE DEF w, a
<1>4. /\ wait'[q] = w /\ ask'[q] = a /\ DOMAIN wait' = Requests
      /\ \A x \in Requests \ {q} : ask'[x] = ask[x] /\ wait'[x] = wait[x]
      /\ ask' \in [Requests -> Asks]
  BY <1>1, <1>2 DEF ServerInv, RequestsTyped
<1>5. /\ \A x \in Pages : repositoryCache[x] # Loading(q)
      /\ \A x \in Repos : branchCache[x] # Loading(q)
      /\ installationRepositoryCache # Loading(q)
  BY <1>1, OwnEntries DEF Loads, LoadsInstallation, InLoad, Lists, AtGitHub
<1>6. Moved(q)
  BY <1>1, <1>2, <1>3, <1>4, <1>5 DEF Moved, Kin, InLoad, Lists, AtGitHub
<1>7. CachesTyped'
  BY <1>1 DEF ServerInv, CachesTyped
<1>8. ServerInv'
  BY <1>6, <1>7, MoveStep
<1> QED BY <1>1, <1>2, <1>3, <1>4, <1>6, <1>8

(* Requests that only lose readers, or gain one that a list can have.      *)
AsksAlike ==
  /\ ask' \in [Requests -> Asks]
  /\ \A q \in Requests : \/ ask'[q] = ask[q]
                         \/ /\ ask[q] # NoAsk /\ ask'[q] # NoAsk
                            /\ SameAsk(ask[q], ask'[q])

(* A step of the clients, and entries that go, leave the server's side as  *)
(* it is.                                                                  *)
LEMMA AlikeServer ==
  ASSUME ServerInv, AsksAlike, UNCHANGED wait, CachesTyped',
         \A p \in Pages : repositoryCache'[p] \in {Absent, repositoryCache[p]},
         \A r \in Repos : branchCache'[r] \in {Absent, branchCache[r]},
         installationRepositoryCache' \in {Absent, installationRepositoryCache}
  PROVE  ServerInv'
<1>1. /\ ask' \in [Requests -> Asks]
      /\ \A q \in Requests :
           /\ ask'[q] = NoAsk <=> ask[q] = NoAsk
           /\ ask[q] # NoAsk => ask'[q].kind = ask[q].kind /\ ask'[q].of = ask[q].of
  BY DEF AsksAlike, SameAsk
<1> QED BY <1>1, QuietStep

(* The page is left: its readers are dropped.                              *)
LEMMA UnreadAlike ==
  ASSUME ServerInv, ask' = Unread
  PROVE  AsksAlike
<1> DEFINE b(q) == [ask[q] EXCEPT !.readers = @ \ {"page", "more", "pick"}]
<1>1. ASSUME NEW q \in Requests
      PROVE  \/ ask'[q] = ask[q]
             \/ /\ ask[q] # NoAsk /\ ask'[q] # NoAsk /\ ask'[q] \in Asks
                /\ SameAsk(ask[q], ask'[q])
  <2>1. CASE Free(q)
    BY <2>1 DEF Unread
  <2>2. CASE ~Free(q)
    <3>1. ask[q] \in Asks /\ ask[q] # NoAsk
      BY <2>2 DEF ServerInv, RequestsTyped, Free
    <3>2. ask'[q] = [ask[q] EXCEPT !.readers = ask[q].readers \ {"page", "more", "pick"}]
      BY <2>2 DEF Unread
    <3> QED BY <3>1, <3>2, AskUnread
  <2> QED BY <2>1, <2>2
<1>2. ask' \in [Requests -> Asks]
  BY <1>1 DEF Unread, ServerInv, RequestsTyped
<1> QED BY <1>1, <1>2 DEF AsksAlike

(* The application is left: all readers are dropped.                       *)
LEMMA DisownedAlike ==
  ASSUME ServerInv,
         ask' = [q \in Requests |->
           IF Free(q) THEN ask[q] ELSE [ask[q] EXCEPT !.mine = FALSE, !.readers = {}]]
  PROVE  AsksAlike
<1>1. ASSUME NEW q \in Requests
      PROVE  \/ ask'[q] = ask[q]
             \/ /\ ask[q] # NoAsk /\ ask'[q] # NoAsk /\ ask'[q] \in Asks
                /\ SameAsk(ask[q], ask'[q])
  <2>1. CASE Free(q)
    BY <2>1
  <2>2. CASE ~Free(q)
    <3>1. ask[q] \in Asks /\ ask[q] # NoAsk
      BY <2>2 DEF ServerInv, RequestsTyped, Free
    <3>2. ask'[q] = [ask[q] EXCEPT !.mine = FALSE, !.readers = {}]
      BY <2>2
    <3> QED BY <3>1, <3>2, AskDisowned
  <2> QED BY <2>1, <2>2
<1>2. ask' \in [Requests -> Asks]
  BY <1>1 DEF ServerInv, RequestsTyped
<1> QED BY <1>1, <1>2 DEF AsksAlike


(* A plain request joins the one under way.                                *)
LEMMA JoinAlike ==
  ASSUME ServerInv, NEW q \in Requests, NEW reader \in PageReaders,
         ask[q].kind = "list", ask' = [ask EXCEPT ![q].readers = @ \cup {reader}]
  PROVE  AsksAlike /\ ask'[q].due = ask[q].due
<1>1. /\ ask[q] \in Asks /\ ask[q] # NoAsk
      /\ ask'[q] = [ask[q] EXCEPT !.readers = @ \cup {reader}]
      /\ \A x \in Requests \ {q} : ask'[x] = ask[x]
  BY DEF ServerInv, RequestsTyped, NoAsk
<1>2. ask'[q] \in Asks /\ ask'[q] # NoAsk /\ SameAsk(ask[q], ask'[q])
  BY <1>1, AskShared
<1>3. ask' \in [Requests -> Asks]
  BY <1>1, <1>2 DEF ServerInv, RequestsTyped
<1> QED BY <1>1, <1>2, <1>3 DEF AsksAlike, SameAsk

-----------------------------------------------------------------------------
(* The clients. *)

PageRecords ==
  [open : BOOLEAN, connection : Connections, loading : BOOLEAN, more : BOOLEAN,
   broken : BOOLEAN, selected : Repos \cup {None}, branches : Commits \cup {None},
   picking : BOOLEAN, creating : BOOLEAN, due : SUBSET Repos]
SwitcherRecords ==
  [connection : Connections, loading : BOOLEAN, more : BOOLEAN,
   byRepo : [Repos -> Commits \cup {None}], creating : BOOLEAN]
NoSession == [at |-> "none"]
Sessions ==
  {NoSession}
  \cup [at : {"asked", "created", "cloned", "ready", "failed"}, repo : Repos,
        chosen : Commits, work : Commits \cup {None},
        from : {"page", "switcher", "nobody"}]
Tabs == [at : {"app", "saving", "saved", "redirected"}, due : SUBSET Repos]

ClientTyped ==
  /\ page \in PageRecords /\ switcher \in SwitcherRecords
  /\ tab \in Tabs /\ session \in Sessions
CountersTyped == asks \in 0..MaxAsks /\ mishaps \in 0..MaxMishaps

(* A page and a switcher as they start. *)
LEMMA ClientStarts ==
  /\ ClosedPage \in PageRecords /\ NewSwitcher \in SwitcherRecords /\ InApp \in Tabs
  /\ [ClosedPage EXCEPT !.open = TRUE, !.loading = TRUE] \in PageRecords
  /\ NoConnection \in Connections
BY DEF ClosedPage, NewSwitcher, InApp, PageRecords, SwitcherRecords, Tabs, NoConnection,
       Connections

(* A list that is shown, and one that is extended.                         *)
LEMMA ConnectionTyped ==
  ASSUME NEW q, NEW v \in Listed, NEW c \in Connections
  PROVE  Connection(q, v) \in Connections /\ Extended(c, q, v) \in Connections
BY DEF Connection, Extended, Connections, Listed

(* The page and the switcher after an answer.                              *)
LEMMA HearsClients ==
  ASSUME ServerInv, ClientTyped, NEW q \in Requests, Hears(q)
  PROVE  ClientTyped'
<1> DEFINE v == wait[q].value
           to == ask[q].readers
<1>1. wait[q].at = "answered" /\ PageHears(q) /\ SwitcherHears(q)
      /\ UNCHANGED <<tab, session>>
  BY DEF Hears, Done
<1>2. ask[q] \in Asks /\ ask[q] # NoAsk
  BY <1>1 DEF ServerInv, RequestsTyped
<1>3. /\ v \in IF ask[q].kind = "list" THEN Listed ELSE Commits
      /\ ask[q].kind = "list" => to \subseteq PageReaders /\ ask[q].due \subseteq Repos
      /\ ask[q].kind # "list" => to \subseteq BranchReaders /\ ask[q].of \in Repos
  BY <1>1, <1>2, AskKinds DEF ServerInv, RequestsTyped, WaitTyped, ListAsks, BranchAsks
<1>4. page' \in PageRecords
  <2>1. page' = IF "page" \in to
               THEN [page EXCEPT !.connection = Connection(q, v),
                                 !.loading = FALSE, !.due = ask[q].due]
             ELSE IF "more" \in to
               THEN [page EXCEPT !.connection = Extended(@, q, v), !.more = FALSE]
             ELSE IF "pick" \in to
               THEN [page EXCEPT !.branches = v, !.picking = FALSE]
             ELSE page
    BY <1>1 DEF PageHears
  <2>2. page \in PageRecords /\ page.connection \in Connections
    BY DEF ClientTyped, PageRecords
  <2>3. CASE "page" \in to
    <3>1. Connection(q, v) \in Connections /\ ask[q].due \subseteq Repos
      BY <1>3, <2>2, <2>3, ConnectionTyped DEF BranchReaders
    <3> QED BY <2>1, <2>2, <2>3, <3>1 DEF PageRecords
  <2>4. CASE "page" \notin to /\ "more" \in to
    <3>1. Extended(page.connection, q, v) \in Connections
      BY <1>3, <2>2, <2>4, ConnectionTyped DEF BranchReaders
    <3> QED BY <2>1, <2>2, <2>4, <3>1 DEF PageRecords
  <2>5. CASE "page" \notin to /\ "more" \notin to /\ "pick" \in to
    <3>1. v \in Commits
      BY <1>3, <2>5 DEF PageReaders
    <3> QED BY <2>1, <2>2, <2>5, <3>1 DEF PageRecords
  <2>6. CASE "page" \notin to /\ "more" \notin to /\ "pick" \notin to
    BY <2>1, <2>2, <2>6
  <2> QED BY <2>3, <2>4, <2>5, <2>6
<1>5. switcher' \in SwitcherRecords
  <2>1. switcher' = IF "switcher" \in to
                   THEN [switcher EXCEPT !.connection = Connection(q, v),
                                         !.loading = FALSE]
                 ELSE IF "switcher more" \in to
                   THEN [switcher EXCEPT !.connection = Extended(@, q, v), !.more = FALSE]
                 ELSE IF "switcher branches" \in to
                   THEN [switcher EXCEPT !.byRepo[ask[q].of] = v]
                 ELSE switcher
    BY <1>1 DEF SwitcherHears
  <2>2. switcher \in SwitcherRecords /\ switcher.connection \in Connections
    BY DEF ClientTyped, SwitcherRecords
  <2>3. CASE "switcher" \in to
    <3>1. Connection(q, v) \in Connections
      BY <1>3, <2>2, <2>3, ConnectionTyped DEF BranchReaders
    <3> QED BY <2>1, <2>2, <2>3, <3>1 DEF SwitcherRecords
  <2>4. CASE "switcher" \notin to /\ "switcher more" \in to
    <3>1. Extended(switcher.connection, q, v) \in Connections
      BY <1>3, <2>2, <2>4, ConnectionTyped DEF BranchReaders
    <3> QED BY <2>1, <2>2, <2>4, <3>1 DEF SwitcherRecords
  <2>5. CASE "switcher" \notin to /\ "switcher more" \notin to /\ "switcher branches" \in to
    <3>1. v \in Commits /\ ask[q].of \in Repos
      BY <1>3, <2>5 DEF PageReaders
    <3> QED BY <2>1, <2>2, <2>5, <3>1 DEF SwitcherRecords
  <2>6. CASE "switcher" \notin to /\ "switcher more" \notin to /\ "switcher branches" \notin to
    BY <2>1, <2>2, <2>6
  <2> QED BY <2>3, <2>4, <2>5, <2>6
<1> QED BY <1>1, <1>4, <1>5 DEF ClientTyped

(* The page and the switcher after a refusal, which changes no repository  *)
(* that is shown.                                                          *)
LEMMA RefusalClients ==
  ASSUME ServerInv, ClientTyped, NEW q \in Requests, HearsRefusal(q)
  PROVE  ClientTyped' /\ page'.connection = page.connection /\ page'.due = page.due
<1> DEFINE to == ask[q].readers
           shown == to \cap {"page", "more", "pick"} # {}
           a == page.loading /\ "page" \notin to
           b == page.more /\ "more" \notin to
           c == page.picking /\ "pick" \notin to
           d == IF shown THEN wait[q].reconnect ELSE page.broken
<1>1. /\ wait[q].at = "refused" /\ UNCHANGED <<tab, session>>
      /\ page' = [page EXCEPT !.loading = a, !.more = b, !.picking = c, !.broken = d]
      /\ switcher' = IF "switcher" \in to
                      THEN [switcher EXCEPT !.connection = NoConnection,
                                            !.loading = FALSE]
                    ELSE IF "switcher more" \in to
                      THEN [switcher EXCEPT !.connection.next = FALSE, !.more = FALSE]
                    ELSE switcher
  BY DEF HearsRefusal, Done
<1>2. a \in BOOLEAN /\ b \in BOOLEAN /\ c \in BOOLEAN /\ d \in BOOLEAN
  BY <1>1 DEF ServerInv, RequestsTyped, WaitTyped, ClientTyped, PageRecords
<1> HIDE DEF a, b, c, d
<1>3. page' \in PageRecords /\ page'.connection = page.connection /\ page'.due = page.due
  BY <1>1, <1>2 DEF ClientTyped, PageRecords
<1>4. switcher' \in SwitcherRecords
  <2>1. switcher \in SwitcherRecords /\ switcher.connection \in Connections
    BY DEF ClientTyped, SwitcherRecords
  <2>2. [switcher.connection EXCEPT !.next = FALSE] \in Connections
    BY <2>1 DEF Connections
  <2>3. CASE "switcher" \in to
    BY <1>1, <2>1, <2>3, ClientStarts DEF SwitcherRecords
  <2>4. CASE "switcher" \notin to /\ "switcher more" \in to
    <3>1. switcher' = [switcher EXCEPT
                         !.connection = [switcher.connection EXCEPT !.next = FALSE],
                         !.more = FALSE]
      BY <1>1, <2>4
    <3> QED BY <2>1, <2>2, <3>1 DEF SwitcherRecords
  <2>5. CASE "switcher" \notin to /\ "switcher more" \notin to
    BY <1>1, <2>1, <2>5
  <2> QED BY <2>3, <2>4, <2>5
<1> QED BY <1>1, <1>3, <1>4 DEF ClientTyped

(* What the page and the switcher do with a list they ask for themselves:  *)
(* they join the request under way, or send one.                           *)
LEMMA GetListServer ==
  ASSUME ServerInv, NEW q \in Requests, NEW p \in Pages, NEW reader \in PageReaders,
         GetRepositories(q, p, reader)
  PROVE  ServerInv'
<1>1. CASE \E x \in Requests : InFlight(x, p)
  <2>1. /\ ask[q].kind = "list" /\ ask' = [ask EXCEPT ![q].readers = @ \cup {reader}]
        /\ UNCHANGED <<wait, repositoryCache, branchCache, installationRepositoryCache>>
    BY <1>1 DEF GetRepositories, InFlight, caches
  <2>2. AsksAlike
    BY <2>1, JoinAlike
  <2>3. CachesTyped'
    BY <2>1 DEF ServerInv, CachesTyped
  <2> QED BY <2>1, <2>2, <2>3, AlikeServer
<1>2. CASE ~ \E x \in Requests : InFlight(x, p)
  <2> DEFINE a == List(p, FALSE, TRUE, {reader}, {})
  <2>1. Repositories(q, p, FALSE, a)
    BY <1>2 DEF GetRepositories
  <2>2. a \in ListAsks /\ a.of = p
    BY DEF List, ListAsks
  <2> HIDE DEF a
  <2> QED BY <2>1, <2>2, SendListServer
<1> QED BY <1>1, <1>2

(* Every step keeps the server's side.                                     *)
LEMMA ServerStep ==
  ASSUME RepoSelectionAssumption, ServerInv, WorldTyped, ClientTyped, Next
  PROVE  ServerInv'
<1>1. ASSUME NEW q \in Requests, ReadInstallations(q)
      PROVE  ServerInv'
  BY <1>1, ReadServer
<1>2. ASSUME NEW q \in Requests, ListInstallationRepositories(q)
      PROVE  ServerInv'
  BY <1>2, ListServer
<1>3. ASSUME NEW q \in Requests, CheckInstallation(q)
      PROVE  ServerInv'
  BY <1>3, CheckServer
<1>4. ASSUME NEW q \in Requests, GitHubAnswers(q)
      PROVE  ServerInv'
  BY <1>4, AnswerServer
<1>5. ASSUME NEW q \in Requests, Arrives(q)
      PROVE  ServerInv'
  BY <1>5, ArriveServer
<1>6. ASSUME NEW q \in Requests, LoadFails(q)
      PROVE  ServerInv'
  BY <1>6, FailServer
<1>7. ASSUME NEW q \in Requests, Hears(q) \/ HearsRefusal(q)
      PROVE  ServerInv'
  BY <1>7, DoneServer DEF Hears, HearsRefusal
<1>8. ASSUME NEW q \in Requests, Open(q)
      PROVE  ServerInv'
  <2>1. GetRepositories(q, 1, "page") /\ "page" \in PageReaders /\ 1 \in Pages
    BY <1>8 DEF Open, PageReaders, Pages
  <2> QED BY <2>1, GetListServer
<1>9. ASSUME NEW q \in Requests, RefreshAccess(q)
      PROVE  ServerInv'
  <2> DEFINE due == Accessible \cap OnPage(1)
  <2>1. due \in SUBSET Repos
    BY DEF OnPage, RepoSelectionAssumption
  <2>2. Repositories(q, 1, TRUE, List(1, TRUE, TRUE, {"page"}, due))
    BY <1>9 DEF RefreshAccess
  <2> HIDE DEF due
  <2> DEFINE a == List(1, TRUE, TRUE, {"page"}, due)
  <2>3. a \in ListAsks /\ a.of = 1 /\ 1 \in Pages
    BY <2>1 DEF List, ListAsks, PageReaders, Pages
  <2> HIDE DEF a
  <2> QED BY <2>2, <2>3, SendListServer DEF a
<1>10. ASSUME NEW q \in Requests, LoadMoreRepositories(q)
       PROVE  ServerInv'
  <2>1. GetRepositories(q, 2, "more") /\ "more" \in PageReaders /\ 2 \in Pages
    BY <1>10 DEF LoadMoreRepositories, PageReaders, Pages
  <2> QED BY <2>1, GetListServer
<1>11. ASSUME NEW q \in Requests, OpenSwitcher(q)
       PROVE  ServerInv'
  <2>1. GetRepositories(q, 1, "switcher") /\ "switcher" \in PageReaders /\ 1 \in Pages
    BY <1>11 DEF OpenSwitcher, PageReaders, Pages
  <2> QED BY <2>1, GetListServer
<1>12. ASSUME NEW q \in Requests, ScrollSwitcher(q)
       PROVE  ServerInv'
  <2>1. GetRepositories(q, 2, "switcher more")
    BY <1>12 DEF ScrollSwitcher
  <2>2. "switcher more" \in PageReaders /\ 2 \in Pages
    BY DEF PageReaders, Pages
  <2> QED BY <2>1, <2>2, GetListServer
<1>13. ASSUME NEW q \in Requests, Land(q)
       PROVE  ServerInv'
  <2> DEFINE a == List(1, FALSE, TRUE, {"page"}, tab.due)
  <2>1. tab.due \in SUBSET Repos
    BY DEF ClientTyped, Tabs
  <2>2. a \in ListAsks /\ a.of = 1 /\ 1 \in Pages
    BY <2>1 DEF List, ListAsks, PageReaders, Pages
  <2>3. Repositories(q, 1, FALSE, a)
    BY <1>13 DEF Land
  <2> HIDE DEF a
  <2> QED BY <2>2, <2>3, SendListServer
<1>14. ASSUME NEW q \in Requests, NEW r \in Repos, SelectRepository(q, r)
       PROVE  ServerInv'
  <2>1. GetBranches(q, r, {"pick"}) /\ {"pick"} \in SUBSET BranchReaders
    BY <1>14 DEF SelectRepository, BranchReaders
  <2> QED BY <2>1, SendBranchesServer
<1>15. ASSUME NEW q \in Requests, NEW r \in Repos, ToggleRepo(q, r)
       PROVE  ServerInv'
  <2>1. /\ GetBranches(q, r, {"switcher branches"})
        /\ {"switcher branches"} \in SUBSET BranchReaders
    BY <1>15 DEF ToggleRepo, BranchReaders
  <2> QED BY <2>1, SendBranchesServer
<1>16. ASSUME NEW q \in Requests, OtherTab(q)
       PROVE  ServerInv'
  <2>1. CASE \E forced \in BOOLEAN :
               Repositories(q, 1, forced, List(1, forced, FALSE, {}, {}))
    <3> PICK forced \in BOOLEAN :
          Repositories(q, 1, forced, List(1, forced, FALSE, {}, {}))
      BY <2>1
    <3> DEFINE a == List(1, forced, FALSE, {}, {})
    <3>1. a \in ListAsks /\ a.of = 1 /\ 1 \in Pages
      BY DEF List, ListAsks, Pages
    <3>2. Repositories(q, 1, forced, a)
      OBVIOUS
    <3> HIDE DEF a
    <3> QED BY <3>1, <3>2, SendListServer
  <2>2. CASE \E r \in Busy : GetBranches(q, r, {})
    <3> PICK r \in Busy : GetBranches(q, r, {})
      BY <2>2
    <3>1. r \in Repos /\ {} \in SUBSET BranchReaders
      BY DEF RepoSelectionAssumption
    <3> QED BY <3>1, SendBranchesServer
  <2> QED BY <1>16, <2>1, <2>2 DEF OtherTab
<1>17. ASSUME NEW r \in Repos, ExpireBranches(r)
       PROVE  ServerInv'
  <2>1. /\ branchCache' = [branchCache EXCEPT ![r] = Absent]
        /\ UNCHANGED <<ask, wait, repositoryCache, installationRepositoryCache>>
    BY <1>17 DEF ExpireBranches
  <2>2. Absent \in Entries(Commits)
    BY EntryMade
  <2>3. CachesTyped'
    BY <2>1, <2>2 DEF ServerInv, CachesTyped
  <2>4. \A x \in Repos : branchCache'[x] \in {Absent, branchCache[x]}
    BY <2>1 DEF ServerInv, CachesTyped
  <2>5. AsksAlike
    BY <2>1 DEF AsksAlike, ServerInv, RequestsTyped
  <2> QED BY <2>1, <2>3, <2>4, <2>5, AlikeServer
<1>18. ASSUME AsksAlike, UNCHANGED <<wait, caches>>
       PROVE  ServerInv'
  <2>1. CachesTyped'
    BY <1>18 DEF ServerInv, CachesTyped, caches
  <2>2. UNCHANGED <<wait, repositoryCache, branchCache, installationRepositoryCache>>
    BY <1>18 DEF caches
  <2> QED BY <1>18, <2>1, <2>2, AlikeServer
<1>19. CASE GoToGitHub
  BY <1>18, <1>19, DisownedAlike DEF GoToGitHub
<1>20. CASE Leave \/ CreateSession
  BY <1>18, <1>20, UnreadAlike DEF Leave, CreateSession
<1>21. CASE ClearAfterSave
  <2>1. /\ repositoryCache' = [p \in Pages |-> Absent]
        /\ branchCache' = [r \in Repos |-> Absent]
        /\ installationRepositoryCache' = Absent /\ UNCHANGED <<ask, wait>>
    BY <1>21 DEF ClearAfterSave, ClearRepositoryCache
  <2>2. \A V : Absent \in Entries(V)
    BY EntryMade
  <2>3. CachesTyped'
    BY <2>1, <2>2 DEF CachesTyped
  <2>4. AsksAlike
    BY <2>1 DEF AsksAlike, ServerInv, RequestsTyped
  <2> QED BY <2>1, <2>3, <2>4, AlikeServer
<1>22. ASSUME UNCHANGED <<ask, wait, caches>>
       PROVE  ServerInv'
  <2>1. AsksAlike
    BY <1>22 DEF AsksAlike, ServerInv, RequestsTyped
  <2> QED BY <1>18, <1>22, <2>1
<1>23. ASSUME NEW r \in Repos, SwitchTo(r) \/ Push(r)
       PROVE  ServerInv'
  BY <1>22, <1>23 DEF SwitchTo, Push
<1>24. CASE Share \/ SelectBranch \/ SaveInstallation \/ SaveFails
  BY <1>22, <1>24 DEF Share, SelectBranch, SaveInstallation, SaveFails
<1>25. CASE CreateSessionFails \/ Clone \/ CloneFails \/ VerifyCommit
  BY <1>22, <1>25 DEF CreateSessionFails, Clone, CloneFails, VerifyCommit
<1> QED BY <1>1, <1>2, <1>3, <1>4, <1>5, <1>6, <1>7, <1>8, <1>9, <1>10, <1>11, <1>12,
           <1>13, <1>14, <1>15, <1>16, <1>17, <1>19, <1>20, <1>21, <1>23, <1>24, <1>25
        DEF Next

(* Every step keeps the clients' side.                                     *)
LEMMA ClientStep ==
  ASSUME RepoSelectionAssumption, ServerInv, WorldTyped, ClientTyped, Next
  PROVE  ClientTyped'
<1>1. /\ page \in PageRecords /\ page.connection \in Connections
      /\ switcher \in SwitcherRecords /\ switcher.connection \in Connections
      /\ tab \in Tabs /\ session \in Sessions
  BY DEF ClientTyped, PageRecords, SwitcherRecords
<1>2. ASSUME UNCHANGED <<tab, page, switcher, session>>
      PROVE  ClientTyped'
  BY <1>2 DEF ClientTyped
<1>3. ASSUME NEW q \in Requests,
             \/ ReadInstallations(q) \/ ListInstallationRepositories(q)
             \/ CheckInstallation(q) \/ GitHubAnswers(q) \/ Arrives(q)
             \/ LoadFails(q) \/ OtherTab(q)
      PROVE  ClientTyped'
  BY <1>2, <1>3 DEF ReadInstallations, ListInstallationRepositories, CheckInstallation,
     GitHubAnswers, Arrives, LoadFails, OtherTab, client
<1>4. ASSUME NEW r \in Repos, ExpireBranches(r) \/ Push(r)
      PROVE  ClientTyped'
  BY <1>2, <1>4 DEF ExpireBranches, Push, client
<1>5. CASE Share
  BY <1>2, <1>5 DEF Share, client
<1>6. ASSUME NEW q \in Requests, Hears(q)
      PROVE  ClientTyped'
  BY <1>6, HearsClients
<1>7. ASSUME NEW q \in Requests, HearsRefusal(q)
      PROVE  ClientTyped'
  BY <1>7, RefusalClients
<1>8. ASSUME NEW q \in Requests, Open(q) \/ Land(q)
      PROVE  ClientTyped'
  <2>1. /\ page' = [ClosedPage EXCEPT !.open = TRUE, !.loading = TRUE]
        /\ tab' \in {tab, InApp} /\ UNCHANGED <<switcher, session>>
    BY <1>8 DEF Open, Land
  <2> QED BY <1>1, <2>1, ClientStarts DEF ClientTyped
<1>9. ASSUME NEW q \in Requests, RefreshAccess(q)
      PROVE  ClientTyped'
  <2>1. /\ page' = [page EXCEPT !.loading = TRUE, !.selected = None, !.branches = None]
        /\ UNCHANGED <<tab, switcher, session>>
    BY <1>9 DEF RefreshAccess
  <2>2. page' \in PageRecords
    BY <1>1, <2>1 DEF PageRecords
  <2> QED BY <1>1, <2>1, <2>2 DEF ClientTyped
<1>10. ASSUME NEW q \in Requests, LoadMoreRepositories(q)
       PROVE  ClientTyped'
  <2>1. /\ page' = [page EXCEPT !.more = TRUE]
        /\ UNCHANGED <<tab, switcher, session>>
    BY <1>10 DEF LoadMoreRepositories
  <2>2. page' \in PageRecords
    BY <1>1, <2>1 DEF PageRecords
  <2> QED BY <1>1, <2>1, <2>2 DEF ClientTyped
<1>11. ASSUME NEW q \in Requests, NEW r \in Repos, SelectRepository(q, r)
       PROVE  ClientTyped'
  <2>1. /\ page' = [page EXCEPT !.selected = r, !.branches = None, !.picking = TRUE]
        /\ UNCHANGED <<tab, switcher, session>>
    BY <1>11 DEF SelectRepository
  <2>2. page' \in PageRecords
    BY <1>1, <2>1 DEF PageRecords
  <2> QED BY <1>1, <2>1, <2>2 DEF ClientTyped
<1>12. ASSUME NEW q \in Requests, NEW r \in Repos, ToggleRepo(q, r)
       PROVE  ClientTyped'
  BY <1>2, <1>12 DEF ToggleRepo, client
<1>13. ASSUME NEW q \in Requests, OpenSwitcher(q)
       PROVE  ClientTyped'
  <2>1. /\ switcher' = [switcher EXCEPT !.loading = TRUE]
        /\ UNCHANGED <<tab, page, session>>
    BY <1>13 DEF OpenSwitcher
  <2>2. switcher' \in SwitcherRecords
    BY <1>1, <2>1 DEF SwitcherRecords
  <2> QED BY <1>1, <2>1, <2>2 DEF ClientTyped
<1>14. ASSUME NEW q \in Requests, ScrollSwitcher(q)
       PROVE  ClientTyped'
  <2>1. /\ switcher' = [switcher EXCEPT !.more = TRUE]
        /\ UNCHANGED <<tab, page, session>>
    BY <1>14 DEF ScrollSwitcher
  <2>2. switcher' \in SwitcherRecords
    BY <1>1, <2>1 DEF SwitcherRecords
  <2> QED BY <1>1, <2>1, <2>2 DEF ClientTyped
<1>15. ASSUME NEW r \in Repos, NEW commit \in Commits, NEW from \in {"page", "switcher"},
              CreateChatSession(r, commit, from)
       PROVE  session' \in Sessions
  BY <1>15 DEF CreateChatSession, Sessions
<1>16. ASSUME NEW r \in Repos, SwitchTo(r)
       PROVE  ClientTyped'
  <2>1. /\ switcher' = [switcher EXCEPT !.creating = TRUE]
        /\ UNCHANGED <<tab, page>> /\ switcher.byRepo[r] # None
        /\ CreateChatSession(r, switcher.byRepo[r], "switcher")
    BY <1>16 DEF SwitchTo
  <2>2. switcher' \in SwitcherRecords
    BY <1>1, <2>1 DEF SwitcherRecords
  <2>3. switcher.byRepo[r] \in Commits
    BY <1>1, <2>1 DEF SwitcherRecords
  <2>4. session' \in Sessions
    BY <1>15, <2>1, <2>3
  <2> QED BY <1>1, <2>1, <2>2, <2>4 DEF ClientTyped
<1>17. CASE SelectBranch
  <2>1. /\ page' = [page EXCEPT !.creating = TRUE]
        /\ UNCHANGED <<tab, switcher>>
        /\ page.selected \in page.connection.repos /\ page.branches # None
        /\ CreateChatSession(page.selected, page.branches, "page")
    BY <1>17 DEF SelectBranch, BranchesShown
  <2>2. page' \in PageRecords
    BY <1>1, <2>1 DEF PageRecords
  <2>3. page.selected \in Repos /\ page.branches \in Commits
    BY <1>1, <2>1 DEF PageRecords, Connections
  <2>4. session' \in Sessions
    BY <1>15, <2>1, <2>3
  <2> QED BY <1>1, <2>1, <2>2, <2>4 DEF ClientTyped
<1>18. CASE Leave
  BY <1>1, <1>18, ClientStarts DEF Leave, ClientTyped
<1>19. CASE GoToGitHub
  BY <1>1, <1>19, ClientStarts DEF GoToGitHub, ClientTyped, Tabs
<1>20. CASE SaveInstallation
  <2>1. tab' \in Tabs
    BY <1>20 DEF SaveInstallation, WorldTyped, Tabs
  <2> QED BY <1>1, <1>20, <2>1 DEF SaveInstallation, ClientTyped
<1>21. CASE ClearAfterSave \/ SaveFails
  BY <1>1, <1>21 DEF ClearAfterSave, SaveFails, ClientTyped, Tabs
<1>22. session.at # "none" =>
         session \in [at : {"asked", "created", "cloned", "ready", "failed"}, repo : Repos,
                      chosen : Commits, work : Commits \cup {None},
                      from : {"page", "switcher", "nobody"}]
  BY <1>1 DEF Sessions, NoSession
<1>23. ASSUME NEW b \in BOOLEAN
       PROVE  [switcher EXCEPT !.creating = b] \in SwitcherRecords
  BY <1>1 DEF SwitcherRecords
<1>24. /\ (switcher.creating /\ session.from # "switcher") \in BOOLEAN
       /\ (page.creating /\ session.from # "page") \in BOOLEAN
       /\ (page.broken /\ session.from # "page") \in BOOLEAN
  OBVIOUS
<1>25. CASE CreateSession
  <2>1. /\ session.at = "asked"
        /\ session' = [session EXCEPT !.at = "created", !.from = "nobody"]
        /\ page' = ClosedPage /\ UNCHANGED tab
        /\ switcher' = [switcher EXCEPT
             !.creating = switcher.creating /\ session.from # "switcher"]
    BY <1>25 DEF CreateSession
  <2>2. session' \in Sessions
    BY <1>22, <2>1 DEF Sessions
  <2>3. switcher' \in SwitcherRecords
    BY <1>23, <1>24, <2>1
  <2> QED BY <1>1, <2>1, <2>2, <2>3, ClientStarts DEF ClientTyped
<1>26. CASE CreateSessionFails
  <2>1. /\ session' = NoSession /\ UNCHANGED tab
        /\ page' = [page EXCEPT !.creating = page.creating /\ session.from # "page",
                                !.broken = page.broken /\ session.from # "page"]
        /\ switcher' = [switcher EXCEPT
             !.creating = switcher.creating /\ session.from # "switcher"]
    BY <1>26 DEF CreateSessionFails, NoSession
  <2>2. ASSUME NEW b \in BOOLEAN, NEW c \in BOOLEAN
        PROVE  [page EXCEPT !.creating = b, !.broken = c] \in PageRecords
    BY <1>1 DEF PageRecords
  <2>3. page' \in PageRecords /\ switcher' \in SwitcherRecords
    BY <1>23, <1>24, <2>1, <2>2
  <2> QED BY <1>1, <2>1, <2>3 DEF ClientTyped, Sessions
<1>27. CASE Clone \/ CloneFails \/ VerifyCommit
  <2>1. UNCHANGED <<tab, page, switcher>> /\ session.at \in {"created", "cloned"}
    BY <1>27 DEF Clone, CloneFails, VerifyCommit, client
  <2>2. /\ session.repo \in Repos
        /\ head[session.repo] \in 0..MaxPushes
        /\ <<session.repo, head[session.repo]>> \in Commits
    BY <1>22, <2>1 DEF WorldTyped, Commits
  <2>3. \/ session' = [session EXCEPT !.at = "cloned",
                         !.work = <<session.repo, head[session.repo]>>]
        \/ \E at \in {"failed", "ready"} : session' = [session EXCEPT !.at = at]
    BY <1>27 DEF Clone, CloneFails, VerifyCommit
  <2>4. session' \in Sessions
    BY <1>22, <2>1, <2>2, <2>3 DEF Sessions
  <2> QED BY <1>1, <2>1, <2>4 DEF ClientTyped
<1> QED BY <1>3, <1>4, <1>5, <1>6, <1>7, <1>8, <1>9, <1>10, <1>11, <1>12, <1>13, <1>14,
           <1>16, <1>17, <1>18, <1>19, <1>20, <1>21, <1>25, <1>26, <1>27
        DEF Next

(* What GitHub and the installation row become: shared and installed only  *)
(* grow.                                                                   *)
LEMMA WorldStep ==
  ASSUME RepoSelectionAssumption, WorldTyped, Next
  PROVE  /\ WorldTyped' /\ shared \subseteq shared'
         /\ installed => installed'
<1> USE DEF WorldTyped
<1> DEFINE Clearing == UNCHANGED <<github, installed>> /\ cleared' \in {cleared, head}
<1>1. ASSUME Clearing
      PROVE  WorldTyped' /\ shared \subseteq shared' /\ (installed => installed')
  <2>1. /\ UNCHANGED <<head, shared, installed>>
        /\ cleared' = cleared \/ cleared' = head
    BY <1>1 DEF github
  <2> QED BY <2>1
<1>2. ASSUME NEW q \in Requests,
             \/ ReadInstallations(q) \/ ListInstallationRepositories(q)
             \/ CheckInstallation(q) \/ GitHubAnswers(q) \/ Arrives(q)
             \/ LoadFails(q) \/ Hears(q) \/ HearsRefusal(q)
      PROVE  Clearing
  BY <1>2 DEF ReadInstallations, ListInstallationRepositories, CheckInstallation,
     GitHubAnswers, Arrives, LoadFails, Hears, HearsRefusal, Done, caches
<1>3. ASSUME NEW q, NEW p, NEW forced, NEW a, Repositories(q, p, forced, a)
      PROVE  cleared' \in {cleared, head}
  BY <1>3 DEF Repositories
<1>4. ASSUME NEW q, NEW p, NEW reader, GetRepositories(q, p, reader)
      PROVE  cleared' \in {cleared, head}
  BY <1>3, <1>4 DEF GetRepositories, caches
<1>5. ASSUME NEW q, NEW r, NEW readers, GetBranches(q, r, readers)
      PROVE  cleared' \in {cleared, head}
  BY <1>5 DEF GetBranches, caches
<1>6. ASSUME NEW q \in Requests,
             \/ Open(q) \/ RefreshAccess(q) \/ LoadMoreRepositories(q)
             \/ OpenSwitcher(q) \/ ScrollSwitcher(q) \/ Land(q) \/ OtherTab(q)
      PROVE  Clearing
  BY <1>3, <1>4, <1>5, <1>6 DEF Open, RefreshAccess, LoadMoreRepositories, OpenSwitcher,
     ScrollSwitcher, Land, OtherTab
<1>7. ASSUME NEW q \in Requests, NEW r \in Repos,
             SelectRepository(q, r) \/ ToggleRepo(q, r)
      PROVE  Clearing
  BY <1>5, <1>7 DEF SelectRepository, ToggleRepo
<1>8. ASSUME NEW r \in Repos, ExpireBranches(r) \/ SwitchTo(r)
      PROVE  Clearing
  BY <1>8 DEF ExpireBranches, SwitchTo, caches
<1>9. ASSUME \/ Leave \/ SelectBranch \/ GoToGitHub \/ ClearAfterSave \/ SaveFails
             \/ CreateSession \/ CreateSessionFails \/ Clone \/ CloneFails \/ VerifyCommit
      PROVE  Clearing
  BY <1>9 DEF Leave, SelectBranch, GoToGitHub, ClearAfterSave, ClearRepositoryCache,
     SaveFails, CreateSession, CreateSessionFails, Clone, CloneFails, VerifyCommit, caches
<1>10. ASSUME NEW r \in Repos, Push(r)
       PROVE  WorldTyped' /\ shared \subseteq shared' /\ (installed => installed')
  <2>1. head[r] + 1 \in 0..MaxPushes
    BY <1>10 DEF Push, RepoSelectionAssumption
  <2>2. /\ head' = [head EXCEPT ![r] = @ + 1]
        /\ UNCHANGED <<shared, installed, cleared>>
    BY <1>10 DEF Push, caches
  <2>3. \A x \in Repos : cleared[x] <= head'[x]
    BY <2>2
  <2> QED BY <2>1, <2>2, <2>3
<1>11. ASSUME Share \/ SaveInstallation
       PROVE  WorldTyped' /\ shared \subseteq shared' /\ (installed => installed')
  BY <1>11 DEF Share, SaveInstallation, github, caches
<1> HIDE DEF Clearing
<1> QED BY <1>1, <1>2, <1>6, <1>7, <1>8, <1>9, <1>10, <1>11 DEF Next

(* The requests and mishaps stay within their bounds.                      *)
LEMMA CountersStep ==
  ASSUME RepoSelectionAssumption, CountersTyped, Next
  PROVE  CountersTyped'
<1> DEFINE Sent ==
             UNCHANGED mishaps /\ (asks' = asks \/ (asks < MaxAsks /\ asks' = asks + 1))
<1>1. ASSUME UNCHANGED <<asks, mishaps>> \/ (UNCHANGED asks /\ Mishap) \/ Sent
      PROVE  CountersTyped'
  BY <1>1 DEF CountersTyped, Mishap, RepoSelectionAssumption
<1>2. ASSUME NEW q, NEW p, NEW forced, NEW a, Repositories(q, p, forced, a)
      PROVE  asks < MaxAsks /\ asks' = asks + 1
  BY <1>2 DEF Repositories, Sends
<1>3. ASSUME NEW q, NEW p, NEW reader, GetRepositories(q, p, reader)
      PROVE  asks' = asks \/ (asks < MaxAsks /\ asks' = asks + 1)
  BY <1>2, <1>3 DEF GetRepositories
<1>4. ASSUME NEW q, NEW r, NEW readers, GetBranches(q, r, readers)
      PROVE  asks < MaxAsks /\ asks' = asks + 1
  BY <1>4 DEF GetBranches, Sends
<1>5. ASSUME NEW q \in Requests,
             \/ ReadInstallations(q) \/ ListInstallationRepositories(q)
             \/ CheckInstallation(q) \/ GitHubAnswers(q) \/ Arrives(q)
             \/ Hears(q) \/ HearsRefusal(q)
      PROVE  UNCHANGED <<asks, mishaps>>
  BY <1>5 DEF ReadInstallations, ListInstallationRepositories, CheckInstallation,
     GitHubAnswers, Arrives, Hears, HearsRefusal, Done
<1>6. ASSUME NEW q \in Requests, LoadFails(q)
      PROVE  UNCHANGED asks /\ Mishap
  BY <1>6 DEF LoadFails
<1>7. ASSUME NEW q \in Requests, OtherTab(q)
      PROVE  Sent
  BY <1>2, <1>4, <1>7 DEF OtherTab
<1>8. ASSUME NEW q \in Requests,
             \/ Open(q) \/ RefreshAccess(q) \/ LoadMoreRepositories(q)
             \/ OpenSwitcher(q) \/ ScrollSwitcher(q) \/ Land(q)
      PROVE  Sent
  BY <1>2, <1>3, <1>8 DEF Open, RefreshAccess, LoadMoreRepositories, OpenSwitcher,
     ScrollSwitcher, Land
<1>9. ASSUME NEW q \in Requests, NEW r \in Repos,
             SelectRepository(q, r) \/ ToggleRepo(q, r)
      PROVE  Sent
  BY <1>4, <1>9 DEF SelectRepository, ToggleRepo
<1>10. ASSUME NEW r \in Repos, ExpireBranches(r) \/ SwitchTo(r) \/ Push(r)
       PROVE  UNCHANGED <<asks, mishaps>>
  BY <1>10 DEF ExpireBranches, SwitchTo, Push
<1>11. ASSUME \/ Share \/ Leave \/ SelectBranch \/ GoToGitHub \/ SaveInstallation
              \/ ClearAfterSave \/ CreateSession \/ Clone \/ VerifyCommit
       PROVE  UNCHANGED <<asks, mishaps>>
  BY <1>11 DEF Share, Leave, SelectBranch, GoToGitHub, SaveInstallation, ClearAfterSave,
     CreateSession, Clone, VerifyCommit
<1>12. ASSUME SaveFails \/ CreateSessionFails \/ CloneFails
       PROVE  UNCHANGED asks /\ Mishap
  BY <1>12 DEF SaveFails, CreateSessionFails, CloneFails
<1> HIDE DEF Sent
<1> QED BY <1>1, <1>5, <1>6, <1>7, <1>8, <1>9, <1>10, <1>11, <1>12 DEF Next

-----------------------------------------------------------------------------
Typed == ServerInv /\ WorldTyped /\ ClientTyped /\ CountersTyped

(* The initial states are typed.                                           *)
LEMMA InitTyped == ASSUME RepoSelectionAssumption, Init PROVE Typed
<1>1. WorldTyped /\ CountersTyped
  BY DEF Init, WorldTyped, CountersTyped, RepoSelectionAssumption
<1>2. ClientTyped
  BY ClientStarts DEF Init, ClientTyped, Sessions, NoSession
<1>3. CachesTyped
  BY EntryMade DEF Init, CachesTyped
<1>4. RequestsTyped
  <2>1. WaitTyped(Idle, NoAsk.kind) /\ Idle.at = "idle"
    BY DEF Idle, WaitTyped, InLoad, Lists, AtGitHub
  <2> QED BY <2>1 DEF Init, RequestsTyped, Asks
<1>5. ListsLinked /\ BranchesLinked /\ InstallationLinked /\ RequestsLinked
  BY DEF Init, ListsLinked, BranchesLinked, InstallationLinked, RequestsLinked, Absent, Idle
<1> QED BY <1>1, <1>2, <1>3, <1>4, <1>5 DEF Typed, ServerInv

(* Every step keeps the types.                                             *)
LEMMA TypedStep == ASSUME RepoSelectionAssumption, Typed, [Next]_vars PROVE Typed'
<1>1. CASE Next
  BY <1>1, ServerStep, ClientStep, WorldStep, CountersStep DEF Typed
<1>2. CASE UNCHANGED vars
  <2>1. UNCHANGED <<head, shared, installed, repositoryCache, installationRepositoryCache,
                    branchCache, cleared, ask, wait, asks, tab, page, switcher, session, mishaps>>
    BY <1>2 DEF vars, github, caches, client
  <2>2. ServerInv'
    BY <2>1 DEF Typed, ServerInv, RequestsTyped, CachesTyped, ListsLinked, BranchesLinked,
       InstallationLinked, RequestsLinked, Loads, LoadsInstallation
  <2>3. WorldTyped' /\ ClientTyped' /\ CountersTyped'
    BY <2>1 DEF Typed, WorldTyped, ClientTyped, CountersTyped
  <2> QED BY <2>2, <2>3 DEF Typed
<1> QED BY <1>1, <1>2

(* They are those of TypeOK.                                               *)
LEMMA TypedIsTypeOK == ASSUME Typed PROVE TypeOK
<1>1. /\ page.connection \in Connections /\ switcher.connection \in Connections
      /\ page.selected \in Repos \cup {None} /\ page.branches \in Commits \cup {None}
      /\ switcher.byRepo \in [Repos -> Commits \cup {None}]
  BY DEF Typed, ClientTyped, PageRecords, SwitcherRecords
<1>2. \A q \in Requests : (wait[q].at = "idle") = (ask[q] = NoAsk)
  BY DEF Typed, ServerInv, RequestsTyped
<1> QED BY <1>1, <1>2 DEF TypeOK, Typed, ServerInv, CachesTyped, WorldTyped, ClientTyped,
        CountersTyped, Tabs

(* The model is type-correct. *)
THEOREM TypeCorrect == FairSpec => []TypeOK
<1>1. Init => Typed
  BY InitTyped, RepoSelectionAssumption
<1>2. Typed /\ [Next]_vars => Typed'
  BY TypedStep, RepoSelectionAssumption
<1>3. Typed => TypeOK
  BY TypedIsTypeOK
<1> QED BY <1>1, <1>2, <1>3, PTL DEF FairSpec

-----------------------------------------------------------------------------
(* How recent the lists of branches are.                                   *)

(* What has come from GitHub for request x is not older than n.            *)
Recent(x, n) == wait[x].at \in {"arriving", "answered"} => wait[x].value[2] >= n

(* What is cached, or will be, is not older than the last clearing of the  *)
(* caches; what a request gets is not older than the last one before it.   *)
EntriesRecent ==
  \A r \in Repos :
    /\ branchCache[r].at = "loaded" => branchCache[r].value[2] >= cleared[r]
    /\ \A x \in Requests :
         branchCache[r].at = "loading" /\ branchCache[r].by = x => Recent(x, cleared[r])
AsksRecent ==
  \A q \in Requests : ask[q].kind = "branches" =>
    /\ ask[q].since <= cleared[ask[q].of]
    /\ Recent(q, ask[q].since)
    /\ \A x \in Requests :
         wait[q].at = "joined" /\ wait[q].by = x => Recent(x, ask[q].since)
BranchesRecent == EntriesRecent /\ AsksRecent

(* The caches are cleared, or the time they were cleared stays.            *)
Clears ==
  \A r \in Repos : \/ cleared'[r] = cleared[r]
                   \/ branchCache'[r] = Absent /\ cleared'[r] >= cleared[r]

(* What is compared of a request are numbers.                              *)
LEMMA AskNumbers ==
  ASSUME NEW a \in Asks, a.kind = "branches", NEW w, WaitTyped(w, a.kind)
  PROVE  /\ a.of \in Repos /\ a.since \in Nat
         /\ w.at \in {"arriving", "answered"} => w.value[2] \in Nat
<1>1. a \in BranchAsks
  BY AskKinds
<1>2. w.at \in {"arriving", "answered"} => w.value \in Commits
  BY DEF WaitTyped
<1>3. \A v \in Commits : v[2] \in Nat
  BY DEF Commits, RepoSelectionAssumption
<1> QED BY <1>1, <1>2, <1>3 DEF BranchAsks, RepoSelectionAssumption

(* A step at which no request moves: entries go, readers change.           *)
LEMMA QuietRecent ==
  ASSUME ServerInv, WorldTyped, WorldTyped', BranchesRecent,
         AsksAlike, UNCHANGED wait, Clears,
         \A r \in Repos : branchCache'[r] \in {Absent, branchCache[r]}
  PROVE  BranchesRecent'
<1>1. Absent.at = "absent"
  BY DEF Absent
<1>2. EntriesRecent'
  <2> SUFFICES ASSUME NEW r \in Repos, branchCache'[r].at # "absent"
               PROVE  (/\ branchCache[r].at = "loaded" =>
                            branchCache[r].value[2] >= cleared[r]
                       /\ \A x \in Requests :
                            branchCache[r].at = "loading" /\ branchCache[r].by = x =>
                              Recent(x, cleared[r]))'
    BY DEF EntriesRecent
  <2>1. branchCache'[r] = branchCache[r] /\ cleared'[r] = cleared[r]
    BY <1>1 DEF Clears
  <2> QED BY <2>1 DEF BranchesRecent, EntriesRecent, Recent
<1>3. AsksRecent'
  <2> SUFFICES ASSUME NEW q \in Requests, ask'[q].kind = "branches"
               PROVE  (/\ ask[q].since <= cleared[ask[q].of]
                       /\ Recent(q, ask[q].since)
                       /\ \A x \in Requests :
                            wait[q].at = "joined" /\ wait[q].by = x =>
                              Recent(x, ask[q].since))'
    BY DEF AsksRecent
  <2>1. /\ ask[q].kind = "branches" /\ ask'[q].of = ask[q].of
        /\ ask'[q].since = ask[q].since
    BY DEF AsksAlike, SameAsk
  <2>2. /\ ask[q].of \in Repos /\ ask[q].since \in Nat
        /\ cleared[ask[q].of] \in Nat /\ cleared'[ask[q].of] \in Nat
    BY <2>1, AskNumbers DEF ServerInv, RequestsTyped, WorldTyped
  <2>3. cleared'[ask[q].of] >= cleared[ask[q].of]
    BY <2>2 DEF Clears
  <2>4. ask[q].since <= cleared'[ask[q].of]
    BY <2>1, <2>2, <2>3 DEF BranchesRecent, AsksRecent
  <2> QED BY <2>1, <2>4 DEF BranchesRecent, AsksRecent, Recent
<1> QED BY <1>2, <1>3 DEF BranchesRecent

(* Request q moves.                                                        *)
LEMMA MovedRecent ==
  ASSUME ServerInv, WorldTyped, ServerInv', WorldTyped', BranchesRecent,
         NEW q \in Requests, Moved(q), Clears,
         ask'[q].kind = "branches" =>
           /\ ask'[q].since <= cleared'[ask'[q].of]
           /\ wait'[q].at = "arriving" => wait'[q].value[2] >= cleared'[ask'[q].of]
           /\ wait'[q].at = "answered" => wait'[q].value[2] >= ask'[q].since
           /\ \A x \in Requests : wait'[q].at = "joined" /\ wait'[q].by = x =>
                Recent(x, ask'[q].since)
  PROVE  BranchesRecent'
<1>1. /\ Absent.at = "absent" /\ Loading(q).at = "loading" /\ Loading(q).by = q
  BY DEF Absent, Loading
<1>2. \A r \in Repos : branchCache'[r] \in {branchCache[r], Absent, Loading(q)}
  BY DEF Moved, Kin
<1>3. \A x \in Requests \ {q} : wait'[x] = wait[x] /\ ask'[x] = ask[x]
  BY DEF Moved
<1>4. EntriesRecent'
  <2> SUFFICES ASSUME NEW r \in Repos, branchCache'[r].at # "absent"
               PROVE  (/\ branchCache[r].at = "loaded" =>
                            branchCache[r].value[2] >= cleared[r]
                       /\ \A x \in Requests :
                            branchCache[r].at = "loading" /\ branchCache[r].by = x =>
                              Recent(x, cleared[r]))'
    BY DEF EntriesRecent
  <2>1. cleared'[r] = cleared[r] /\ branchCache'[r] \in {branchCache[r], Loading(q)}
    BY <1>1, <1>2 DEF Clears
  <2>2. branchCache'[r].at = "loaded" => branchCache'[r].value[2] >= cleared'[r]
    BY <1>1, <2>1 DEF BranchesRecent, EntriesRecent
  <2>3. ASSUME NEW x \in Requests, branchCache'[r].at = "loading", branchCache'[r].by = x
        PROVE  Recent(x, cleared[r])'
    <3>1. CASE x = q
      <4>1. Loads(q, "branches", r)'
        BY <2>3, <3>1 DEF ServerInv, BranchesLinked
      <4> QED BY <3>1, <4>1 DEF Loads, Recent, InLoad, Lists, AtGitHub
    <3>2. CASE x # q
      <4>1. branchCache'[r] = branchCache[r]
        BY <1>1, <2>1, <2>3, <3>2
      <4> QED BY <1>3, <2>1, <2>3, <3>2, <4>1 DEF BranchesRecent, EntriesRecent, Recent
    <3> QED BY <3>1, <3>2
  <2> QED BY <2>2, <2>3
<1>5. AsksRecent'
  <2> SUFFICES ASSUME NEW x \in Requests, ask'[x].kind = "branches"
               PROVE  (/\ ask[x].since <= cleared[ask[x].of]
                       /\ Recent(x, ask[x].since)
                       /\ \A y \in Requests :
                            wait[x].at = "joined" /\ wait[x].by = y =>
                              Recent(y, ask[x].since))'
    BY DEF AsksRecent
  <2>1. /\ ask'[x].of \in Repos /\ ask'[x].since \in Nat
        /\ wait'[x].at \in {"arriving", "answered"} => wait'[x].value[2] \in Nat
        /\ cleared[ask'[x].of] \in Nat /\ cleared'[ask'[x].of] \in Nat
    <3>1. /\ ask'[x].of \in Repos /\ ask'[x].since \in Nat
          /\ wait'[x].at \in {"arriving", "answered"} => wait'[x].value[2] \in Nat
      BY AskNumbers DEF ServerInv, RequestsTyped
    <3> QED BY <3>1 DEF WorldTyped
  <2>2. CASE x = q
    <3>1. Recent(q, ask[q].since)'
      BY <2>1, <2>2 DEF Recent
    <3>2. ASSUME NEW y \in Requests, wait'[q].at = "joined", wait'[q].by = y
          PROVE  Recent(y, ask[q].since)'
      <4>1. y # q /\ wait'[y] = wait[y]
        BY <1>3, <3>2 DEF Moved
      <4>2. Recent(y, ask'[q].since)
        BY <2>2, <3>2
      <4> QED BY <4>1, <4>2 DEF Recent
    <3> QED BY <2>2, <3>1, <3>2
  <2>3. CASE x # q
    <3>1. ask'[x] = ask[x] /\ wait'[x] = wait[x]
      BY <1>3, <2>3
    <3>2. ask[x].since <= cleared'[ask[x].of]
      BY <2>1, <3>1 DEF Clears, BranchesRecent, AsksRecent
    <3>3. Recent(x, ask[x].since)'
      BY <3>1 DEF BranchesRecent, AsksRecent, Recent
    <3>4. ASSUME NEW y \in Requests, wait'[x].at = "joined", wait'[x].by = y
          PROVE  Recent(y, ask[x].since)'
      <4>1. CASE y # q
        BY <1>3, <3>1, <3>4, <4>1 DEF BranchesRecent, AsksRecent, Recent
      <4>2. CASE y = q
        <5>1. Loads(q, "branches", ask[x].of)'
          BY <3>4, <4>2 DEF ServerInv, RequestsLinked
        <5>2. /\ ask'[q].kind = "branches" /\ ask'[q].of = ask[x].of
              /\ wait'[q].at # "answered"
          BY <3>1, <5>1 DEF Loads, InLoad, Lists, AtGitHub
        <5>3. wait'[q].at = "arriving" => wait'[q].value[2] \in Nat
          BY <5>2, AskNumbers DEF ServerInv, RequestsTyped
        <5> QED BY <2>1, <3>1, <3>2, <4>2, <5>2, <5>3 DEF Recent
      <4> QED BY <4>1, <4>2
    <3> QED BY <3>1, <3>2, <3>3, <3>4
  <2> QED BY <2>2, <2>3
<1> QED BY <1>4, <1>5 DEF BranchesRecent

(* The promises of S are settled, with what has come from GitHub.          *)
LEMMA SettledRecent ==
  ASSUME ServerInv, BranchesRecent, NEW S \in SUBSET Requests, Settled(S),
         UNCHANGED <<ask, cleared>>,
         \A x \in S : ask[x].kind = "branches" /\ wait'[x].at = "answered" =>
           wait[x].at = "arriving" /\ wait'[x].value = wait[x].value,
         \A r \in Repos :
           \/ branchCache'[r] \in {Absent, branchCache[r]}
           \/ /\ branchCache[r].at = "loading" /\ branchCache[r].by \in S
              /\ wait[branchCache[r].by].at = "arriving"
              /\ branchCache'[r] = Loaded(wait[branchCache[r].by].value)
  PROVE  BranchesRecent'
<1>1. /\ Absent.at = "absent"
      /\ \A v : Loaded(v).at = "loaded" /\ Loaded(v).value = v
  BY DEF Absent, Loaded
<1>2. ASSUME NEW x \in Requests, NEW n, ask[x].kind = "branches", Recent(x, n),
             wait[x].at # "joined"
      PROVE  Recent(x, n)'
  BY <1>2 DEF Settled, Recent
<1>3. EntriesRecent'
  <2> SUFFICES ASSUME NEW r \in Repos
               PROVE  (/\ branchCache[r].at = "loaded" =>
                            branchCache[r].value[2] >= cleared[r]
                       /\ \A x \in Requests :
                            branchCache[r].at = "loading" /\ branchCache[r].by = x =>
                              Recent(x, cleared[r]))'
    BY DEF EntriesRecent
  <2>1. CASE branchCache'[r] = Absent
    BY <1>1, <2>1
  <2>2. CASE branchCache'[r] = branchCache[r]
    <3>1. branchCache[r].at = "loaded" => branchCache'[r].value[2] >= cleared'[r]
      BY <2>2 DEF BranchesRecent, EntriesRecent
    <3>2. ASSUME NEW x \in Requests, branchCache[r].at = "loading", branchCache[r].by = x
          PROVE  Recent(x, cleared[r])'
      <4>1. ask[x].kind = "branches" /\ wait[x].at # "joined"
        BY <3>2 DEF ServerInv, BranchesLinked, Loads, InLoad, Lists, AtGitHub
      <4>2. Recent(x, cleared[r])
        BY <3>2 DEF BranchesRecent, EntriesRecent
      <4> QED BY <1>2, <4>1, <4>2 DEF Recent
    <3> QED BY <2>2, <3>1, <3>2
  <2>3. CASE /\ branchCache[r].at = "loading" /\ branchCache[r].by \in S
             /\ wait[branchCache[r].by].at = "arriving"
             /\ branchCache'[r] = Loaded(wait[branchCache[r].by].value)
    <3>1. wait[branchCache[r].by].value[2] >= cleared[r]
      BY <2>3 DEF BranchesRecent, EntriesRecent, Recent
    <3> QED BY <1>1, <2>3, <3>1
  <2> QED BY <2>1, <2>2, <2>3
<1>4. AsksRecent'
  <2> SUFFICES ASSUME NEW q \in Requests, ask[q].kind = "branches"
               PROVE  (/\ ask[q].since <= cleared[ask[q].of]
                       /\ Recent(q, ask[q].since)
                       /\ \A x \in Requests :
                            wait[q].at = "joined" /\ wait[q].by = x =>
                              Recent(x, ask[q].since))'
    BY DEF AsksRecent
  <2>1. /\ ask[q].since <= cleared[ask[q].of] /\ Recent(q, ask[q].since)
        /\ \A x \in Requests :
             wait[q].at = "joined" /\ wait[q].by = x => Recent(x, ask[q].since)
    BY DEF BranchesRecent, AsksRecent
  <2>2. CASE wait[q].at # "joined"
    <3>1. wait'[q].at # "joined"
      BY <2>2 DEF Settled
    <3> QED BY <1>2, <2>1, <2>2, <3>1 DEF Recent
  <2>3. CASE wait[q].at = "joined"
    <3>1. Loads(wait[q].by, "branches", ask[q].of)
      BY <2>3 DEF ServerInv, RequestsLinked
    <3>2. PICK x \in Requests : wait[q].by = x
      BY <3>1 DEF Loads
    <3>3. ask[x].kind = "branches" /\ wait[x].at # "joined"
      BY <3>1, <3>2 DEF Loads, InLoad, Lists, AtGitHub
    <3>4. Recent(x, ask[q].since)'
      <4>1. Recent(x, ask[q].since)
        BY <2>1, <2>3, <3>2
      <4> QED BY <1>2, <3>3, <4>1 DEF Recent
    <3>5. /\ wait'[q] = IF x \in S THEN wait'[x] ELSE wait[q]
          /\ x \in S => wait'[x].at # "joined"
      BY <2>3, <3>2 DEF Settled, InLoad, Lists, AtGitHub
    <3>6. CASE x \in S
      BY <2>1, <3>4, <3>5, <3>6 DEF Recent
    <3>7. CASE x \notin S
      BY <2>1, <2>3, <3>2, <3>4, <3>5, <3>7 DEF Recent
    <3> QED BY <3>6, <3>7
  <2> QED BY <2>2, <2>3
<1> QED BY <1>3, <1>4 DEF BranchesRecent

(* The installation row is read: nothing is known of branches.             *)
LEMMA ReadRecent ==
  ASSUME ServerInv, WorldTyped, WorldTyped', BranchesRecent,
         NEW q \in Requests, ReadInstallations(q)
  PROVE  BranchesRecent'
<1>1. ServerInv' /\ Moved(q)
  BY ReadServer
<1>2. ask'[q].kind # "branches"
  BY DEF ReadInstallations, ServerInv, RequestsTyped, WaitTyped, Lists
<1>3. Clears
  BY DEF ReadInstallations, caches, Clears
<1> QED BY <1>1, <1>2, <1>3, MovedRecent

(* The repositories are listed: no branches either.                        *)
LEMMA ListRecent ==
  ASSUME ServerInv, WorldTyped, WorldTyped', BranchesRecent,
         NEW q \in Requests, ListInstallationRepositories(q)
  PROVE  BranchesRecent'
<1>1. /\ ServerInv' /\ UNCHANGED branchCache
      /\ IF wait'[q].at = "answered" THEN Settled({q}) ELSE Moved(q)
  BY ListServer
<1>2. wait[q].at = "listing" /\ UNCHANGED <<ask, cleared>>
  BY DEF ListInstallationRepositories
<1>3. ask[q].kind = "list" /\ ask'[q].kind # "branches"
  BY <1>2 DEF ServerInv, RequestsTyped, WaitTyped, Lists
<1>4. CASE wait'[q].at = "answered"
  BY <1>1, <1>2, <1>3, <1>4, SettledRecent
<1>5. CASE wait'[q].at # "answered"
  <2>1. Clears
    BY <1>2 DEF Clears
  <2> QED BY <1>1, <1>3, <1>5, <2>1, MovedRecent
<1> QED BY <1>4, <1>5

(* The branches are looked up: what is cached or being loaded is not older *)
(* than the last clearing, nor is what will be loaded.                     *)
LEMMA CheckRecent ==
  ASSUME ServerInv, WorldTyped, WorldTyped', BranchesRecent,
         NEW q \in Requests, CheckInstallation(q)
  PROVE  BranchesRecent'
<1> DEFINE r == ask[q].of
<1>1. /\ ServerInv' /\ Moved(q) /\ UNCHANGED ask
      /\ ask[q].kind = "branches" /\ r \in Repos
      /\ \/ wait'[q].at \in {"asking", "refused"}
         \/ /\ branchCache[r].at = "loading"
            /\ wait'[q] = [at |-> "joined", by |-> branchCache[r].by]
         \/ /\ branchCache[r].at = "loaded"
            /\ wait'[q] = Answered(branchCache[r].value)
  BY CheckServer
<1>2. UNCHANGED cleared /\ Clears
  BY DEF CheckInstallation, Clears
<1>3. /\ ask[q].since <= cleared[r]
      /\ cleared[r] \in Nat /\ ask[q].since \in Nat
  BY <1>1, AskNumbers DEF BranchesRecent, AsksRecent, WorldTyped, ServerInv, RequestsTyped
<1> HIDE DEF r
<1>4. CASE wait'[q].at \in {"asking", "refused"}
  BY <1>1, <1>2, <1>3, <1>4, MovedRecent DEF r
<1>5. CASE /\ branchCache[r].at = "loading"
           /\ wait'[q] = [at |-> "joined", by |-> branchCache[r].by]
  <2>1. ASSUME NEW x \in Requests, wait'[q].by = x
        PROVE  Recent(x, ask[q].since)
    <3>1. /\ branchCache[r].by = x /\ ask[x].kind = "branches"
          /\ WaitTyped(wait[x], ask[x].kind) /\ ask[x] \in Asks
      BY <1>1, <1>5, <2>1 DEF ServerInv, BranchesLinked, Loads, RequestsTyped
    <3>2. wait[x].at \in {"arriving", "answered"} => wait[x].value[2] \in Nat
      BY <3>1, AskNumbers
    <3>3. Recent(x, cleared[r])
      BY <1>1, <1>5, <3>1 DEF BranchesRecent, EntriesRecent
    <3> QED BY <1>3, <3>2, <3>3 DEF Recent
  <2>2. wait'[q].at = "joined"
    BY <1>5
  <2> QED BY <1>1, <1>2, <1>3, <2>1, <2>2, MovedRecent DEF r
<1>6. CASE /\ branchCache[r].at = "loaded"
           /\ wait'[q] = Answered(branchCache[r].value)
  <2>1. wait'[q].at = "answered" /\ wait'[q].value = branchCache[r].value
    BY <1>6 DEF Answered
  <2>2. wait'[q].value[2] \in Nat
    BY <1>1, <2>1, AskNumbers DEF ServerInv, RequestsTyped
  <2>3. wait'[q].value[2] >= cleared[r]
    BY <1>1, <1>6, <2>1 DEF BranchesRecent, EntriesRecent
  <2>4. wait'[q].value[2] >= ask[q].since
    BY <1>3, <2>2, <2>3
  <2> QED BY <1>1, <1>2, <1>3, <2>1, <2>4, MovedRecent DEF r
<1> QED BY <1>1, <1>4, <1>5, <1>6

(* GitHub reads the head, which is not older than any clearing.            *)
LEMMA AnswerRecent ==
  ASSUME ServerInv, WorldTyped, WorldTyped', BranchesRecent,
         NEW q \in Requests, GitHubAnswers(q)
  PROVE  BranchesRecent'
<1>1. ServerInv' /\ Moved(q)
  BY AnswerServer
<1>2. UNCHANGED <<ask, cleared>> /\ Clears
  BY DEF GitHubAnswers, caches, Clears
<1>3. ASSUME ask[q].kind = "branches"
      PROVE  /\ ask[q].since <= cleared[ask[q].of]
             /\ wait'[q].at = "arriving" /\ wait'[q].value[2] >= cleared[ask[q].of]
  <2>1. ask[q].of \in Repos
    BY <1>3, AskNumbers DEF ServerInv, RequestsTyped
  <2>2. cleared[ask[q].of] <= head[ask[q].of]
    BY <2>1 DEF WorldTyped
  <2>3. wait'[q] = [at |-> "arriving", value |-> <<ask[q].of, head[ask[q].of]>>]
    BY <1>3 DEF GitHubAnswers, ServerInv, RequestsTyped
  <2>4. head[ask[q].of] \in Nat /\ cleared[ask[q].of] \in Nat
    BY <2>1 DEF WorldTyped
  <2> QED BY <1>3, <2>2, <2>3, <2>4 DEF BranchesRecent, AsksRecent
<1> QED BY <1>1, <1>2, <1>3, MovedRecent

(* GitHub's answer arrives: only those who share a list share it           *)
(* otherwise than through the cache.                                       *)
LEMMA ArriveRecent ==
  ASSUME ServerInv, BranchesRecent, NEW q \in Requests, Arrives(q)
  PROVE  BranchesRecent'
<1> DEFINE S == Sharing(q)
<1>1. /\ Settled(S)
      /\ \A x \in S : wait'[x] = Answered(Shares(q, x, wait[q].value))
      /\ \A r \in Repos :
           \/ branchCache'[r] = branchCache[r]
           \/ /\ branchCache[r].at = "loading" /\ branchCache[r].by \in S
              /\ branchCache'[r] = Loaded(Shares(q, branchCache[r].by, wait[q].value))
  BY ArriveServer
<1>2. wait[q].at = "arriving" /\ UNCHANGED <<ask, cleared>>
  BY DEF Arrives
<1>3. \A x \in S : ask[x].kind = "branches" =>
        x = q /\ Shares(q, x, wait[q].value) = wait[q].value
  BY SharersAlike DEF Shares
<1>4. S \in SUBSET Requests
  BY SharersAlike
<1> HIDE DEF S
<1>5. \A x \in S : ask[x].kind = "branches" =>
        wait[x].at = "arriving" /\ wait'[x].value = wait[x].value
  <2> SUFFICES ASSUME NEW x \in S, ask[x].kind = "branches"
               PROVE  wait[x].at = "arriving" /\ wait'[x].value = wait[x].value
    OBVIOUS
  <2>1. x = q /\ wait'[x] = Answered(wait[q].value)
    BY <1>1, <1>3
  <2>2. Answered(wait[q].value).value = wait[q].value
    BY DEF Answered
  <2> QED BY <1>2, <2>1, <2>2
<1>6. ASSUME NEW r \in Repos
      PROVE  \/ branchCache'[r] \in {Absent, branchCache[r]}
             \/ /\ branchCache[r].at = "loading" /\ branchCache[r].by \in S
                /\ wait[branchCache[r].by].at = "arriving"
                /\ branchCache'[r] = Loaded(wait[branchCache[r].by].value)
  <2>1. branchCache[r].at = "loading" => ask[branchCache[r].by].kind = "branches"
    BY DEF ServerInv, BranchesLinked, Loads
  <2> QED BY <1>1, <1>2, <1>3, <2>1
<1> QED BY <1>1, <1>2, <1>4, <1>5, <1>6, SettledRecent

(* A load fails: nothing comes of it.                                      *)
LEMMA FailRecent ==
  ASSUME ServerInv, BranchesRecent, NEW q \in Requests, LoadFails(q)
  PROVE  BranchesRecent'
<1>1. /\ Settled(Sharing(q))
      /\ \A x \in Sharing(q) : wait'[x] = Refused(TRUE)
      /\ \A r \in Repos : branchCache'[r] \in {Absent, branchCache[r]}
  BY FailServer
<1>2. UNCHANGED <<ask, cleared>>
  BY DEF LoadFails
<1>3. Sharing(q) \in SUBSET Requests
  BY SharersAlike
<1>4. \A x \in Sharing(q) : wait'[x].at # "answered"
  BY <1>1 DEF Refused
<1> QED BY <1>1, <1>2, <1>3, <1>4, SettledRecent

(* A request is over.                                                      *)
LEMMA DoneRecent ==
  ASSUME ServerInv, BranchesRecent, NEW q \in Requests,
         wait[q].at \in {"answered", "refused"}, Done(q)
  PROVE  BranchesRecent'
<1>1. /\ ask'[q] = NoAsk /\ wait'[q].at = "idle"
      /\ \A x \in Requests \ {q} : ask'[x] = ask[x] /\ wait'[x] = wait[x]
  BY DoneServer
<1>2. UNCHANGED <<branchCache, cleared>>
  BY DEF Done, caches
<1>3. ASSUME NEW x \in Requests, NEW n, Recent(x, n)
      PROVE  Recent(x, n)'
  BY <1>1, <1>3 DEF Recent
<1>4. EntriesRecent'
  <2> SUFFICES ASSUME NEW r \in Repos
               PROVE  (/\ branchCache[r].at = "loaded" =>
                            branchCache[r].value[2] >= cleared[r]
                       /\ \A x \in Requests :
                            branchCache[r].at = "loading" /\ branchCache[r].by = x =>
                              Recent(x, cleared[r]))'
    BY DEF EntriesRecent
  <2> QED BY <1>2, <1>3 DEF BranchesRecent, EntriesRecent, Recent
<1>5. AsksRecent'
  <2> SUFFICES ASSUME NEW y \in Requests, ask'[y].kind = "branches"
               PROVE  (/\ ask[y].since <= cleared[ask[y].of]
                       /\ Recent(y, ask[y].since)
                       /\ \A x \in Requests :
                            wait[y].at = "joined" /\ wait[y].by = x =>
                              Recent(x, ask[y].since))'
    BY DEF AsksRecent
  <2>1. ask'[y] = ask[y] /\ wait'[y] = wait[y]
    BY <1>1 DEF NoAsk
  <2> QED BY <1>2, <1>3, <2>1 DEF BranchesRecent, AsksRecent, Recent
<1> QED BY <1>4, <1>5 DEF BranchesRecent

(* A request for a list is sent; if it is forced the caches are cleared.   *)
LEMMA SendListRecent ==
  ASSUME ServerInv, WorldTyped, WorldTyped', BranchesRecent,
         NEW q \in Requests, NEW p \in Pages, NEW forced \in BOOLEAN,
         NEW a \in ListAsks, a.of = p, Repositories(q, p, forced, a)
  PROVE  BranchesRecent'
<1>1. /\ Moved(q) /\ wait[q].at = "idle" /\ ask'[q] = a
      /\ \/ wait'[q] = [at |-> "reading"]
         \/ /\ ~forced
             /\ \/ /\ repositoryCache[p].at = "loading"
                   /\ wait'[q] = [at |-> "joined", by |-> repositoryCache[p].by]
                \/ /\ repositoryCache[p].at = "loaded"
                   /\ wait'[q] = Answered(repositoryCache[p].value)
  BY SendListServer
<1>2. ServerInv'
  BY SendListServer
<1>3. ask'[q].kind # "branches"
  BY <1>1 DEF ListAsks
<1>4. Clears
  <2>1. CASE forced
    <3>1. branchCache' = [r \in Repos |-> Absent] /\ cleared' = head
      BY <2>1 DEF Repositories
    <3> QED BY <3>1 DEF Clears, WorldTyped
  <2>2. CASE ~forced
    <3>1. cleared' = cleared
      BY <2>2 DEF Repositories
    <3> QED BY <3>1 DEF Clears
  <2> QED BY <2>1, <2>2
<1> QED BY <1>1, <1>2, <1>3, <1>4, MovedRecent

(* A request for branches is sent.                                         *)
LEMMA SendBranchesRecent ==
  ASSUME ServerInv, WorldTyped, WorldTyped', BranchesRecent,
         NEW q \in Requests, NEW r \in Repos,
         NEW readers \in SUBSET BranchReaders, GetBranches(q, r, readers)
  PROVE  BranchesRecent'
<1>1. /\ ServerInv' /\ Moved(q) /\ wait'[q].at = "checking"
      /\ ask'[q].of = r /\ ask'[q].since = cleared[r] /\ UNCHANGED caches
  BY SendBranchesServer
<1>2. UNCHANGED cleared /\ Clears /\ cleared[r] <= cleared[r]
  BY <1>1 DEF caches, Clears, WorldTyped
<1> QED BY <1>1, <1>2, MovedRecent

(* The list the page or the switcher asks for itself.                      *)
LEMMA GetListRecent ==
  ASSUME ServerInv, WorldTyped, WorldTyped', BranchesRecent,
         NEW q \in Requests, NEW p \in Pages, NEW reader \in PageReaders,
         GetRepositories(q, p, reader)
  PROVE  BranchesRecent'
<1>1. CASE \E x \in Requests : InFlight(x, p)
  <2>1. /\ ask[q].kind = "list" /\ ask' = [ask EXCEPT ![q].readers = @ \cup {reader}]
        /\ UNCHANGED <<wait, branchCache, cleared>>
    BY <1>1 DEF GetRepositories, InFlight, caches
  <2>2. AsksAlike
    BY <2>1, JoinAlike
  <2>3. Clears
    BY <2>1 DEF Clears
  <2> QED BY <2>1, <2>2, <2>3, QuietRecent
<1>2. CASE ~ \E x \in Requests : InFlight(x, p)
  <2> DEFINE a == List(p, FALSE, TRUE, {reader}, {})
  <2>1. Repositories(q, p, FALSE, a)
    BY <1>2 DEF GetRepositories
  <2>2. a \in ListAsks /\ a.of = p
    BY DEF List, ListAsks
  <2> HIDE DEF a
  <2> QED BY <2>1, <2>2, SendListRecent
<1> QED BY <1>1, <1>2

(* Every step keeps what is cached, and on its way, recent.                *)
LEMMA RecentStep ==
  ASSUME RepoSelectionAssumption, Typed, BranchesRecent, Next
  PROVE  BranchesRecent'
<1> USE DEF Typed
<1>0. WorldTyped'
  BY WorldStep
<1>1. ASSUME NEW q \in Requests,
             \/ ReadInstallations(q) \/ ListInstallationRepositories(q)
             \/ CheckInstallation(q) \/ GitHubAnswers(q) \/ Arrives(q) \/ LoadFails(q)
      PROVE  BranchesRecent'
  BY <1>0, <1>1, ReadRecent, ListRecent, CheckRecent, AnswerRecent, ArriveRecent, FailRecent
<1>2. ASSUME NEW q \in Requests, Hears(q) \/ HearsRefusal(q)
      PROVE  BranchesRecent'
  BY <1>2, DoneRecent DEF Hears, HearsRefusal
<1>3. ASSUME NEW q \in Requests,
             Open(q) \/ LoadMoreRepositories(q) \/ OpenSwitcher(q) \/ ScrollSwitcher(q)
      PROVE  BranchesRecent'
  <2>1. {1, 2} \subseteq Pages
    BY DEF Pages
  <2>2. {"page", "more", "switcher", "switcher more"} \subseteq PageReaders
    BY DEF PageReaders
  <2>3. CASE Open(q)
    <3>1. GetRepositories(q, 1, "page")
      BY <2>3 DEF Open
    <3> QED BY <1>0, <2>1, <2>2, <3>1, GetListRecent
  <2>4. CASE LoadMoreRepositories(q)
    <3>1. GetRepositories(q, 2, "more")
      BY <2>4 DEF LoadMoreRepositories
    <3> QED BY <1>0, <2>1, <2>2, <3>1, GetListRecent
  <2>5. CASE OpenSwitcher(q)
    <3>1. GetRepositories(q, 1, "switcher")
      BY <2>5 DEF OpenSwitcher
    <3> QED BY <1>0, <2>1, <2>2, <3>1, GetListRecent
  <2>6. CASE ScrollSwitcher(q)
    <3>1. GetRepositories(q, 2, "switcher more")
      BY <2>6 DEF ScrollSwitcher
    <3> QED BY <1>0, <2>1, <2>2, <3>1, GetListRecent
  <2> QED BY <1>3, <2>3, <2>4, <2>5, <2>6
<1>4. ASSUME NEW q \in Requests, RefreshAccess(q)
      PROVE  BranchesRecent'
  <2> DEFINE due == Accessible \cap OnPage(1)
             a == List(1, TRUE, TRUE, {"page"}, due)
  <2>1. due \in SUBSET Repos
    BY DEF OnPage, RepoSelectionAssumption
  <2>2. Repositories(q, 1, TRUE, a)
    BY <1>4 DEF RefreshAccess
  <2> HIDE DEF due
  <2>3. a \in ListAsks /\ a.of = 1 /\ 1 \in Pages
    BY <2>1 DEF List, ListAsks, PageReaders, Pages
  <2> HIDE DEF a
  <2> QED BY <1>0, <2>2, <2>3, SendListRecent
<1>5. ASSUME NEW q \in Requests, Land(q)
      PROVE  BranchesRecent'
  <2> DEFINE a == List(1, FALSE, TRUE, {"page"}, tab.due)
  <2>1. tab.due \in SUBSET Repos
    BY DEF ClientTyped, Tabs
  <2>2. a \in ListAsks /\ a.of = 1 /\ 1 \in Pages
    BY <2>1 DEF List, ListAsks, PageReaders, Pages
  <2>3. Repositories(q, 1, FALSE, a)
    BY <1>5 DEF Land
  <2> HIDE DEF a
  <2> QED BY <1>0, <2>2, <2>3, SendListRecent
<1>6. ASSUME NEW q \in Requests, NEW r \in Repos, SelectRepository(q, r) \/ ToggleRepo(q, r)
      PROVE  BranchesRecent'
  <2>1. \E readers \in SUBSET BranchReaders : GetBranches(q, r, readers)
    BY <1>6 DEF SelectRepository, ToggleRepo, BranchReaders
  <2> QED BY <1>0, <2>1, SendBranchesRecent
<1>7. ASSUME NEW q \in Requests, OtherTab(q)
      PROVE  BranchesRecent'
  <2>1. CASE \E forced \in BOOLEAN :
               Repositories(q, 1, forced, List(1, forced, FALSE, {}, {}))
    <3> PICK forced \in BOOLEAN :
          Repositories(q, 1, forced, List(1, forced, FALSE, {}, {}))
      BY <2>1
    <3> DEFINE a == List(1, forced, FALSE, {}, {})
    <3>1. a \in ListAsks /\ a.of = 1 /\ 1 \in Pages
      BY DEF List, ListAsks, Pages
    <3>2. Repositories(q, 1, forced, a)
      OBVIOUS
    <3> HIDE DEF a
    <3> QED BY <1>0, <3>1, <3>2, SendListRecent
  <2>2. CASE \E r \in Busy : GetBranches(q, r, {})
    <3> PICK r \in Busy : GetBranches(q, r, {})
      BY <2>2
    <3>1. r \in Repos /\ {} \in SUBSET BranchReaders
      BY DEF RepoSelectionAssumption
    <3> QED BY <1>0, <3>1, SendBranchesRecent
  <2> QED BY <1>7, <2>1, <2>2 DEF OtherTab
<1>8. ASSUME AsksAlike, UNCHANGED <<wait, caches>>
      PROVE  BranchesRecent'
  <2>1. UNCHANGED <<wait, branchCache, cleared>> /\ Clears
    BY <1>8 DEF caches, Clears
  <2> QED BY <1>0, <1>8, <2>1, QuietRecent
<1>9. ASSUME UNCHANGED <<ask, wait, caches>>
      PROVE  BranchesRecent'
  <2>1. AsksAlike
    BY <1>9 DEF AsksAlike, ServerInv, RequestsTyped
  <2> QED BY <1>8, <1>9, <2>1
<1>10. ASSUME NEW r \in Repos, ExpireBranches(r)
       PROVE  BranchesRecent'
  <2>1. /\ branchCache' = [branchCache EXCEPT ![r] = Absent]
        /\ UNCHANGED <<ask, wait, cleared>>
    BY <1>10 DEF ExpireBranches
  <2>2. \A x \in Repos : branchCache'[x] \in {Absent, branchCache[x]}
    BY <2>1 DEF ServerInv, CachesTyped
  <2>3. AsksAlike /\ Clears
    BY <2>1 DEF AsksAlike, ServerInv, RequestsTyped, Clears
  <2> QED BY <1>0, <2>1, <2>2, <2>3, QuietRecent
<1>11. CASE ClearAfterSave
  <2>1. /\ branchCache' = [r \in Repos |-> Absent] /\ cleared' = head
        /\ UNCHANGED <<ask, wait>>
    BY <1>11 DEF ClearAfterSave, ClearRepositoryCache
  <2>2. AsksAlike /\ Clears
    BY <2>1 DEF AsksAlike, ServerInv, RequestsTyped, Clears, WorldTyped
  <2> QED BY <1>0, <2>1, <2>2, QuietRecent
<1>12. CASE GoToGitHub
  BY <1>8, <1>12, DisownedAlike DEF GoToGitHub
<1>13. CASE Leave \/ CreateSession
  BY <1>8, <1>13, UnreadAlike DEF Leave, CreateSession
<1>14. ASSUME NEW r \in Repos, SwitchTo(r) \/ Push(r)
       PROVE  BranchesRecent'
  BY <1>9, <1>14 DEF SwitchTo, Push
<1>15. CASE Share \/ SelectBranch \/ SaveInstallation \/ SaveFails
  BY <1>9, <1>15 DEF Share, SelectBranch, SaveInstallation, SaveFails
<1>16. CASE CreateSessionFails \/ Clone \/ CloneFails \/ VerifyCommit
  BY <1>9, <1>16 DEF CreateSessionFails, Clone, CloneFails, VerifyCommit
<1> QED BY <1>1, <1>2, <1>3, <1>4, <1>5, <1>6, <1>7, <1>10, <1>11, <1>12, <1>13, <1>14,
           <1>15, <1>16
        DEF Next

(* Branches asked for after an explicit refresh, in whichever tab, or      *)
(* after the App was connected, are answered with what GitHub had no       *)
(* earlier than that, whatever older requests still load, share or settle. *)
THEOREM RefreshReachesAllBranches == FairSpec => []RefreshReachesBranches
<1>1. Init => Typed /\ BranchesRecent
  BY InitTyped, RepoSelectionAssumption
     DEF Init, BranchesRecent, EntriesRecent, AsksRecent, Absent, NoAsk
<1>2. Typed /\ BranchesRecent /\ [Next]_vars => (Typed /\ BranchesRecent)'
  <2> SUFFICES ASSUME Typed, BranchesRecent, [Next]_vars
               PROVE  (Typed /\ BranchesRecent)'
    OBVIOUS
  <2>1. Typed'
    BY TypedStep, RepoSelectionAssumption
  <2>2. CASE Next
    BY <2>1, <2>2, RecentStep, RepoSelectionAssumption
  <2>3. CASE UNCHANGED vars
    BY <2>1, <2>3 DEF vars, caches, BranchesRecent, EntriesRecent, AsksRecent, Recent
  <2> QED BY <2>2, <2>3
<1>3. Typed /\ BranchesRecent => RefreshReachesBranches
  BY DEF BranchesRecent, AsksRecent, Recent, RefreshReachesBranches
<1> QED BY <1>1, <1>2, <1>3, PTL DEF FairSpec

-----------------------------------------------------------------------------
(* What a refresh shows.                                                   *)

(* The entry of the installation's repositories, loaded or loading, will   *)
(* not hide a repository of D.                                             *)
Grants(D) ==
  LET e == installationRepositoryCache
  IN /\ e.at = "loaded" => D \subseteq e.value
     /\ e.at = "loading" /\ wait[e.by].at = "arriving" => D \subseteq wait[e.by].value

(* The answer request x will get, or has, holds D.                         *)
Brings(x, D) ==
  /\ wait[x].at # "joined"
  /\ wait[x].at \in {"reading", "listing"} => Grants(D)
  /\ wait[x].at = "listing" => wait[x].installed
  /\ wait[x].at = "arriving" => D \subseteq wait[x].value
  /\ wait[x].at = "sharing" /\ wait[wait[x].by].at = "arriving" =>
       D \subseteq wait[wait[x].by].value
  /\ wait[x].at = "answered" => D \subseteq wait[x].value.repos

(* So does the answer it shares; so does the first page in the cache.      *)
WillBring(q, D) ==
  /\ wait[q].at # "joined" => Brings(q, D)
  /\ \A y \in Requests : wait[q].at = "joined" /\ wait[q].by = y => Brings(y, D)
FirstPageBrings(D) ==
  /\ repositoryCache[1].at = "loaded" => D \subseteq repositoryCache[1].value.repos
  /\ \A y \in Requests :
       repositoryCache[1].at = "loading" /\ repositoryCache[1].by = y => Brings(y, D)

Accessed(D) == D \subseteq shared \cap FirstPage /\ installed

(* The inductive invariant: a request that owes the page D will bring it,  *)
(* and so will the one that is sent when the user is back from GitHub.     *)
AsksKept ==
  \A q \in Requests, D \in SUBSET Repos :
    ask[q].kind = "list" /\ ask[q].due = D /\ D # {} =>
      ask[q].of = 1 /\ Accessed(D) /\ WillBring(q, D)
TabKept ==
  \A D \in SUBSET Repos :
    tab.due = D /\ D # {} =>
      /\ tab.at \in {"saved", "redirected"} /\ Accessed(D)
      /\ tab.at = "redirected" => Grants(D) /\ FirstPageBrings(D)

(* A step keeps what is promised of D.                                     *)
Firsts(x) == x \in Requests /\ ask[x].kind = "list" /\ ask[x].of = 1
Keeps(D) ==
  /\ Grants(D) => Grants(D)'
  /\ Grants(D) /\ FirstPageBrings(D) => FirstPageBrings(D)'
  /\ \A x \in Requests : Firsts(x) /\ Brings(x, D) => Brings(x, D)'

(* Request x goes on after a step with what it was sent for: it shares the *)
(* answer it shared, or has it.                                            *)
GoesOn(x) ==
  /\ ask[x].kind = "list" /\ SameAsk(ask[x], ask'[x])
  /\ wait'[x].at = "joined" => wait'[x] = wait[x]
  /\ wait[x].at = "joined" /\ wait'[x].at # "joined" => wait'[x] = wait'[wait[x].by]
(* Request x is new, and will bring what it is to bring.                   *)
Begins(x) ==
  \A D \in SUBSET Repos :
    ask'[x].due = D /\ D # {} =>
      ask'[x].of = 1 /\ Accessed(D)' /\ WillBring(x, D)'
Faithful ==
  /\ \A D \in SUBSET Repos : Accessed(D) => Keeps(D)
  /\ \A x \in Requests :
       ask'[x].kind = "list" /\ ask'[x].due # {} => GoesOn(x) \/ Begins(x)

(* A request that goes on will bring what it would have brought.           *)
LEMMA WillBringStep ==
  ASSUME ServerInv, NEW D, Keeps(D), NEW q \in Requests, GoesOn(q), ask[q].of = 1,
         WillBring(q, D)
  PROVE  WillBring(q, D)'
<1>1. CASE wait[q].at # "joined"
  <2>1. Brings(q, D)'
    BY <1>1 DEF Keeps, WillBring, GoesOn, Firsts
  <2>2. wait'[q].at # "joined"
    BY <1>1 DEF GoesOn
  <2> QED BY <2>1, <2>2 DEF WillBring
<1>2. CASE wait[q].at = "joined"
  <2> DEFINE y == wait[q].by
  <2>1. y \in Requests /\ Firsts(y)
    BY <1>2 DEF ServerInv, RequestsLinked, Loads, Firsts, GoesOn
  <2>2. Brings(y, D)
    BY <1>2, <2>1 DEF WillBring
  <2>3. ASSUME NEW z, z = wait[q].by
        PROVE  Brings(z, D)'
    BY <2>1, <2>2, <2>3 DEF Keeps
  <2>4. CASE wait'[q].at = "joined"
    BY <1>2, <2>3, <2>4 DEF WillBring, GoesOn
  <2>5. CASE wait'[q].at # "joined"
    <3> PICK z : z = wait[q].by
      OBVIOUS
    <3>1. wait'[q] = wait'[z] /\ Brings(z, D)'
      BY <1>2, <2>3, <2>5 DEF GoesOn
    <3>2. Brings(q, D)'
      BY <3>1 DEF Brings
    <3> QED BY <2>5, <3>2 DEF WillBring
  <2> QED BY <2>4, <2>5
<1> QED BY <1>1, <1>2

(* Access is never taken away.                                             *)
LEMMA AccessedStep ==
  ASSUME NEW D, Accessed(D), shared \subseteq shared', installed => installed'
  PROVE  Accessed(D)'
BY DEF Accessed

(* A faithful step keeps what every request owes.                          *)
LEMMA AsksKeptStep ==
  ASSUME ServerInv, AsksKept, Faithful, shared \subseteq shared', installed => installed'
  PROVE  AsksKept'
<1> SUFFICES ASSUME NEW q \in Requests, NEW D \in SUBSET Repos,
                    ask'[q].kind = "list", ask'[q].due = D, D # {}
             PROVE  (ask[q].of = 1 /\ Accessed(D) /\ WillBring(q, D))'
  BY DEF AsksKept
<1>1. GoesOn(q) \/ Begins(q)
  BY DEF Faithful
<1>2. CASE GoesOn(q)
  <2>1. ask[q].kind = "list" /\ ask[q].due = D /\ ask'[q].of = ask[q].of
    BY <1>2 DEF GoesOn, SameAsk
  <2>2. ask[q].of = 1 /\ Accessed(D) /\ WillBring(q, D)
    BY <2>1 DEF AsksKept
  <2>3. Keeps(D)
    BY <2>2 DEF Faithful
  <2>4. WillBring(q, D)'
    BY <1>2, <2>2, <2>3, WillBringStep
  <2>5. Accessed(D)'
    BY <2>2, AccessedStep
  <2> QED BY <2>1, <2>2, <2>4, <2>5
<1>3. CASE Begins(q)
  BY <1>3 DEF Begins
<1> QED BY <1>1, <1>2, <1>3

(* A step at which no request moves, though entries may go.                *)
LEMMA QuietFaithful ==
  ASSUME ServerInv, AsksAlike, UNCHANGED wait,
         repositoryCache'[1] \in {Absent, repositoryCache[1]},
         installationRepositoryCache' \in {Absent, installationRepositoryCache}
  PROVE  Faithful
<1>1. ASSUME NEW D
      PROVE  /\ Grants(D) => Grants(D)'
             /\ \A x : Brings(x, D) => Brings(x, D)'
  BY DEF Grants, Brings, Absent
<1>2. ASSUME NEW D
      PROVE  Keeps(D)
  BY <1>1 DEF Keeps, FirstPageBrings, Absent
<1>3. ASSUME NEW x \in Requests, ask'[x].kind = "list"
      PROVE  GoesOn(x)
  BY <1>3 DEF AsksAlike, GoesOn, SameAsk
<1> QED BY <1>2, <1>3 DEF Faithful

(* Whoever is at GitHub, or shares an answer of GitHub.                    *)
LEMMA AtGitHubStays ==
  ASSUME ServerInv
  PROVE  /\ installationRepositoryCache.at = "loading" =>
              /\ installationRepositoryCache.by \in Requests
              /\ wait[installationRepositoryCache.by].at \in AtGitHub
              /\ ask[installationRepositoryCache.by].kind = "list"
         /\ \A x \in Requests : wait[x].at = "sharing" =>
              /\ wait[x].by \in Requests /\ wait[wait[x].by].at \in AtGitHub
              /\ ask[wait[x].by].kind = "list"
         /\ repositoryCache[1].at = "loading" =>
              /\ Firsts(repositoryCache[1].by)
              /\ wait[repositoryCache[1].by].at \in InLoad
BY DEF ServerInv, InstallationLinked, RequestsLinked, LoadsInstallation, ListsLinked, Loads,
       Firsts, Pages

(* Request q moves, in a way that keeps what is promised of it.            *)
LEMMA MovedKeeps ==
  ASSUME ServerInv, NEW q \in Requests, Moved(q),
         \A D \in SUBSET Repos : Accessed(D) =>
           /\ ask'[q].kind = "list" /\ wait'[q].at = "arriving" => D \subseteq wait'[q].value
           /\ Firsts(q) /\ Brings(q, D) => Brings(q, D)',
         repositoryCache'[1] = Loading(q) =>
           repositoryCache[1] = Loading(q) \/ wait'[q].at = "reading"
  PROVE  \A D \in SUBSET Repos : Accessed(D) => Keeps(D)
<1>1. /\ \A x \in Requests \ {q} : wait'[x] = wait[x] /\ ask'[x] = ask[x]
      /\ installationRepositoryCache' \in Kin(installationRepositoryCache, q)
      /\ installationRepositoryCache' = Loading(q) => ask'[q].kind = "list"
      /\ repositoryCache'[1] \in Kin(repositoryCache[1], q)
      /\ wait[q].at \in AtGitHub => wait'[q].at \in AtGitHub /\ ask'[q] = ask[q]
  BY DEF Moved, Pages, ServerInv, RequestsTyped, AtGitHub
<1>2. /\ Absent.at = "absent" /\ Loading(q).at = "loading" /\ Loading(q).by = q
  BY DEF Absent, Loading
<1>3. ASSUME NEW D \in SUBSET Repos, Accessed(D)
      PROVE  Grants(D) => Grants(D)'
  <2>1. CASE installationRepositoryCache' = Absent
    BY <1>2, <2>1 DEF Grants
  <2>2. CASE installationRepositoryCache' = Loading(q)
    BY <1>1, <1>2, <1>3, <2>2 DEF Grants
  <2>3. CASE installationRepositoryCache' = installationRepositoryCache
    <3>1. CASE /\ installationRepositoryCache.at = "loading"
               /\ installationRepositoryCache.by = q
      <4>1. ask'[q].kind = "list"
        BY <1>1, <3>1, AtGitHubStays
      <4> QED BY <1>3, <2>3, <3>1, <4>1 DEF Grants
    <3>2. CASE ~(/\ installationRepositoryCache.at = "loading"
                 /\ installationRepositoryCache.by = q)
      BY <1>1, <2>3, <3>2, AtGitHubStays DEF Grants
    <3> QED BY <3>1, <3>2
  <2> QED BY <1>1, <2>1, <2>2, <2>3 DEF Kin
<1>4. ASSUME NEW D \in SUBSET Repos, Accessed(D),
             NEW x \in Requests, Firsts(x), Brings(x, D)
      PROVE  Brings(x, D)'
  <2>1. CASE x = q
    BY <1>4, <2>1
  <2>2. CASE x # q
    <3>1. wait'[x] = wait[x]
      BY <1>1, <2>2
    <3>2. CASE wait[x].at = "sharing" /\ wait[x].by = q
      <4>1. ask'[q].kind = "list"
        BY <1>1, <3>2, AtGitHubStays
      <4> QED BY <1>3, <1>4, <3>1, <3>2, <4>1 DEF Brings
    <3>3. CASE wait[x].at = "sharing" /\ wait[x].by # q
      <4>1. wait'[wait[x].by] = wait[wait[x].by]
        BY <1>1, <3>3, AtGitHubStays
      <4> QED BY <1>3, <1>4, <3>1, <3>3, <4>1 DEF Brings
    <3>4. CASE wait[x].at # "sharing"
      BY <1>3, <1>4, <3>1, <3>4 DEF Brings
    <3> QED BY <3>2, <3>3, <3>4
  <2> QED BY <2>1, <2>2
<1>5. ASSUME NEW D \in SUBSET Repos, Accessed(D), Grants(D), FirstPageBrings(D)
      PROVE  FirstPageBrings(D)'
  <2>1. CASE repositoryCache'[1] = Absent
    BY <1>2, <2>1 DEF FirstPageBrings
  <2>2. CASE repositoryCache'[1] = repositoryCache[1]
    <3>1. \A y \in Requests : repositoryCache[1].at = "loading" /\ repositoryCache[1].by = y
            => Brings(y, D)'
      BY <1>4, <1>5, AtGitHubStays DEF FirstPageBrings
    <3> QED BY <1>5, <2>2, <3>1 DEF FirstPageBrings
  <2>3. CASE repositoryCache'[1] = Loading(q) /\ repositoryCache[1] # Loading(q)
    <3>1. Brings(q, D)'
      BY <1>3, <1>5, <2>3 DEF Brings
    <3> QED BY <1>2, <2>3, <3>1 DEF FirstPageBrings
  <2> QED BY <1>1, <2>1, <2>2, <2>3 DEF Kin
<1> QED BY <1>3, <1>4, <1>5 DEF Keeps

(* Nor do the other requests lose anything by it.                          *)
LEMMA MovedFaithful ==
  ASSUME ServerInv, NEW q \in Requests, Moved(q),
         \A D \in SUBSET Repos : Accessed(D) =>
           /\ ask'[q].kind = "list" /\ wait'[q].at = "arriving" => D \subseteq wait'[q].value
           /\ Firsts(q) /\ Brings(q, D) => Brings(q, D)',
         repositoryCache'[1] = Loading(q) =>
           repositoryCache[1] = Loading(q) \/ wait'[q].at = "reading",
         ask'[q].kind = "list" /\ ask'[q].due # {} => GoesOn(q) \/ Begins(q)
  PROVE  Faithful
<1>1. \A D \in SUBSET Repos : Accessed(D) => Keeps(D)
  BY MovedKeeps
<1>2. \A x \in Requests \ {q} : wait'[x] = wait[x] /\ ask'[x] = ask[x]
  BY DEF Moved
<1>3. ASSUME NEW x \in Requests, x # q, ask'[x].kind = "list"
      PROVE  GoesOn(x)
  BY <1>2, <1>3 DEF GoesOn, SameAsk
<1> QED BY <1>1, <1>3 DEF Faithful

(* The promises of S are settled, with what they promised.                 *)
LEMMA SettledFaithful ==
  ASSUME ServerInv, NEW S \in SUBSET Requests, Settled(S), UNCHANGED ask,
         \A D \in SUBSET Repos : Accessed(D) =>
           /\ Grants(D) => Grants(D)'
           /\ \A x \in S : Firsts(x) /\ Brings(x, D) => Brings(x, D)',
         \/ repositoryCache'[1] \in {Absent, repositoryCache[1]}
         \/ /\ repositoryCache[1].at = "loading" /\ repositoryCache[1].by \in S
            /\ \E v : /\ wait'[repositoryCache[1].by] = Answered(v)
                      /\ repositoryCache'[1] = Loaded(v)
  PROVE  Faithful
<1>1. /\ \A x \in Requests \ S : wait[x].at # "joined" => wait'[x] = wait[x]
      /\ \A x \in Requests : wait[x].at = "sharing" /\ wait[x].by \in S => x \in S
      /\ repositoryCache'[1].at = "loading" => repositoryCache'[1].by \notin S
  BY DEF Settled, Pages
<1>2. \A x \in Requests : wait[x].at \in AtGitHub /\ x \notin S => wait'[x] = wait[x]
  BY <1>1 DEF AtGitHub
<1>3. ASSUME NEW D \in SUBSET Repos, Accessed(D),
             NEW x \in Requests, Firsts(x), Brings(x, D)
      PROVE  Brings(x, D)'
  <2>1. CASE x \in S
    BY <1>3, <2>1
  <2>2. CASE x \notin S
    <3>1. wait'[x] = wait[x]
      BY <1>1, <1>3, <2>2 DEF Brings
    <3>2. wait[x].at = "sharing" => wait'[wait[x].by] = wait[wait[x].by]
      BY <1>1, <1>2, <2>2, AtGitHubStays
    <3>3. Grants(D) => Grants(D)'
      BY <1>3
    <3> QED BY <1>3, <3>1, <3>2, <3>3 DEF Brings
  <2> QED BY <2>1, <2>2
<1>4. ASSUME NEW D \in SUBSET Repos, Accessed(D), FirstPageBrings(D)
      PROVE  FirstPageBrings(D)'
  <2>1. CASE repositoryCache'[1] = Absent
    BY <2>1 DEF FirstPageBrings, Absent
  <2>2. \A y \in Requests : repositoryCache[1].at = "loading" /\ repositoryCache[1].by = y
            => Brings(y, D)'
    BY <1>3, <1>4, AtGitHubStays DEF FirstPageBrings
  <2>3. CASE repositoryCache'[1] = repositoryCache[1]
    BY <1>4, <2>2, <2>3 DEF FirstPageBrings
  <2>4. CASE /\ repositoryCache[1].at = "loading" /\ repositoryCache[1].by \in S
             /\ \E v : /\ wait'[repositoryCache[1].by] = Answered(v)
                       /\ repositoryCache'[1] = Loaded(v)
    <3> PICK v : /\ wait'[repositoryCache[1].by] = Answered(v)
                 /\ repositoryCache'[1] = Loaded(v)
      BY <2>4
    <3> PICK y \in Requests : y = repositoryCache[1].by
      BY <2>4
    <3>1. Brings(y, D)' /\ wait'[y] = Answered(v)
      BY <2>2, <2>4
    <3>2. D \subseteq v.repos
      BY <3>1 DEF Brings, Answered
    <3> QED BY <3>2 DEF FirstPageBrings, Loaded
  <2> QED BY <2>1, <2>3, <2>4
<1>5. \A D \in SUBSET Repos : Accessed(D) => Keeps(D)
  BY <1>3, <1>4 DEF Keeps
<1>6. ASSUME NEW x \in Requests, ask'[x].kind = "list"
      PROVE  GoesOn(x)
  <2>1. CASE x \in S
    BY <1>6, <2>1 DEF GoesOn, SameAsk, Settled, InLoad, Lists, AtGitHub
  <2>2. CASE x \notin S /\ wait[x].at = "joined" /\ wait[x].by \in S
    BY <1>6, <2>2 DEF GoesOn, SameAsk, Settled
  <2>3. CASE x \notin S /\ ~(wait[x].at = "joined" /\ wait[x].by \in S)
    BY <1>6, <2>3 DEF GoesOn, SameAsk, Settled
  <2> QED BY <2>1, <2>2, <2>3
<1> QED BY <1>5, <1>6 DEF Faithful

(* A request is over.                                                      *)
LEMMA DoneFaithful ==
  ASSUME ServerInv, NEW q \in Requests, wait[q].at \in {"answered", "refused"}, Done(q)
  PROVE  Faithful
<1>1. /\ wait'[q].at = "idle" /\ ask'[q] = NoAsk
      /\ \A x \in Requests \ {q} : ask'[x] = ask[x] /\ wait'[x] = wait[x]
      /\ UNCHANGED <<repositoryCache, installationRepositoryCache>>
  BY DoneServer DEF Done, caches
<1>2. \A x \in Requests : wait[x].at \in AtGitHub => wait'[x] = wait[x]
  BY <1>1 DEF AtGitHub
<1>3. ASSUME NEW D, Grants(D)
      PROVE  Grants(D)'
  BY <1>1, <1>2, <1>3, AtGitHubStays DEF Grants
<1>4. ASSUME NEW D, NEW x \in Requests, Brings(x, D)
      PROVE  Brings(x, D)'
  <2>1. CASE x = q
    BY <1>1, <2>1 DEF Brings
  <2>2. CASE x # q
    <3>1. wait'[x] = wait[x]
      BY <1>1, <2>2
    <3>2. wait[x].at = "sharing" => wait'[wait[x].by] = wait[wait[x].by]
      BY <1>2, AtGitHubStays
    <3> QED BY <1>3, <1>4, <3>1, <3>2 DEF Brings
  <2> QED BY <2>1, <2>2
<1>5. \A D : Keeps(D)
  BY <1>1, <1>3, <1>4, AtGitHubStays DEF Keeps, FirstPageBrings, Firsts
<1>6. ASSUME NEW x \in Requests, ask'[x].kind = "list"
      PROVE  GoesOn(x)
  BY <1>1, <1>6 DEF GoesOn, SameAsk, NoAsk
<1> QED BY <1>5, <1>6 DEF Faithful

(* The installation row is read, after the access was granted.             *)
LEMMA ReadFaithful ==
  ASSUME ServerInv, WorldTyped, NEW q \in Requests, ReadInstallations(q)
  PROVE  Faithful
<1>1. /\ wait[q].at = "reading" /\ wait' = [wait EXCEPT ![q] =
                                      [at |-> "listing", installed |-> installed]]
      /\ UNCHANGED <<ask, repositoryCache, installationRepositoryCache>>
  BY DEF ReadInstallations, caches
<1>2. /\ wait'[q] = [at |-> "listing", installed |-> installed]
      /\ \A x \in Requests \ {q} : wait'[x] = wait[x]
  BY <1>1 DEF ServerInv, RequestsTyped
<1>3. ASSUME NEW D \in SUBSET Repos, Accessed(D), Brings(q, D)
      PROVE  Brings(q, D)'
  <2>1. Grants(D)
    BY <1>1, <1>3 DEF Brings
  <2>2. Grants(D)'
    BY <1>1, <1>2, <2>1, AtGitHubStays DEF Grants, AtGitHub
  <2> QED BY <1>2, <1>3, <2>2 DEF Brings, Accessed
<1>4. ask'[q].kind = "list" => GoesOn(q)
  BY <1>1, <1>2 DEF GoesOn, SameAsk
<1> QED BY <1>1, <1>2, <1>3, <1>4, ReadServer, MovedFaithful

(* GitHub reads what is shared, after the access was granted.              *)
LEMMA AnswerFaithful ==
  ASSUME ServerInv, WorldTyped, NEW q \in Requests, GitHubAnswers(q)
  PROVE  Faithful
<1> DEFINE w == [at |-> "arriving",
                 value |-> IF ask[q].kind = "list" THEN shared
                           ELSE <<ask[q].of, head[ask[q].of]>>]
<1>1. /\ wait[q].at = "asking" /\ wait' = [wait EXCEPT ![q] = w]
      /\ UNCHANGED <<ask, repositoryCache, installationRepositoryCache>>
  BY DEF GitHubAnswers, caches
<1>2. wait'[q] = w
  BY <1>1 DEF ServerInv, RequestsTyped
<1>3. w.at = "arriving" /\ (ask[q].kind = "list" => w.value = shared)
  OBVIOUS
<1> HIDE DEF w
<1>4. ASSUME NEW D \in SUBSET Repos, Accessed(D), ask[q].kind = "list"
      PROVE  D \subseteq wait'[q].value
  BY <1>2, <1>3, <1>4 DEF Accessed
<1>5. ASSUME NEW D \in SUBSET Repos, Accessed(D), Firsts(q)
      PROVE  Brings(q, D)'
  BY <1>2, <1>3, <1>4, <1>5 DEF Brings, Firsts
<1>6. ask'[q].kind = "list" => GoesOn(q)
  BY <1>1, <1>2, <1>3 DEF GoesOn, SameAsk
<1> QED BY <1>1, <1>4, <1>5, <1>6, AnswerServer, MovedFaithful

(* Requests for branches owe no list.                                      *)
LEMMA CheckFaithful ==
  ASSUME ServerInv, NEW q \in Requests, CheckInstallation(q)
  PROVE  Faithful
<1>1. /\ wait[q].at = "checking"
      /\ UNCHANGED <<ask, repositoryCache, installationRepositoryCache>>
  BY DEF CheckInstallation
<1>2. ask[q].kind = "branches"
  BY <1>1 DEF ServerInv, RequestsTyped, WaitTyped
<1> QED BY <1>1, <1>2, CheckServer, MovedFaithful DEF Firsts

(* Nor do they disturb one when they are sent.                             *)
LEMMA SendBranchesFaithful ==
  ASSUME ServerInv, WorldTyped, NEW q \in Requests, NEW r \in Repos,
         NEW readers \in SUBSET BranchReaders, GetBranches(q, r, readers)
  PROVE  Faithful
<1>1. /\ Moved(q) /\ wait[q].at = "idle" /\ ask'[q].kind = "branches"
      /\ UNCHANGED repositoryCache
  BY SendBranchesServer DEF caches
<1>2. ~Firsts(q)
  BY <1>1 DEF Firsts, ServerInv, RequestsTyped, NoAsk
<1> QED BY <1>1, <1>2, MovedFaithful

(* A request for a list is sent, with nothing it owes or with what it will *)
(* bring.                                                                  *)
LEMMA SendListKeeps ==
  ASSUME ServerInv, NEW q \in Requests, NEW p \in Pages, NEW forced \in BOOLEAN,
         NEW a \in ListAsks, a.of = p, Repositories(q, p, forced, a)
  PROVE  /\ \A D \in SUBSET Repos : Accessed(D) => Keeps(D)
         /\ a.due = {} \/ Begins(q) => Faithful
<1>1. /\ Moved(q) /\ wait[q].at = "idle" /\ ask'[q] = a
      /\ wait'[q].at \in {"reading", "joined", "answered"}
  <2>1. /\ Moved(q) /\ wait[q].at = "idle" /\ ask'[q] = a
        /\ \/ wait'[q] = [at |-> "reading"]
           \/ /\ ~forced
               /\ \/ /\ repositoryCache[p].at = "loading"
                     /\ wait'[q] = [at |-> "joined", by |-> repositoryCache[p].by]
                  \/ /\ repositoryCache[p].at = "loaded"
                     /\ wait'[q] = Answered(repositoryCache[p].value)
    BY SendListServer
  <2>2. \A v : Answered(v).at = "answered"
    BY DEF Answered
  <2> QED BY <2>1, <2>2
<1>2. ~Firsts(q)
  BY <1>1 DEF Firsts, ServerInv, RequestsTyped, NoAsk
<1>3. repositoryCache'[1] = Loading(q) => wait'[q].at = "reading"
  BY <1>1 DEF Moved, InLoad, Lists, AtGitHub, Pages
<1>4. \A D \in SUBSET Repos : Accessed(D) => Keeps(D)
  BY <1>1, <1>2, <1>3, MovedKeeps
<1>5. ASSUME a.due = {} \/ Begins(q)
      PROVE  Faithful
  BY <1>1, <1>2, <1>3, <1>5, MovedFaithful
<1> QED BY <1>4, <1>5

(* The lists the page and the switcher ask for owe nothing.                *)
LEMMA GetListFaithful ==
  ASSUME ServerInv, NEW q \in Requests, NEW p \in Pages, NEW reader \in PageReaders,
         GetRepositories(q, p, reader)
  PROVE  Faithful
<1>1. CASE \E x \in Requests : InFlight(x, p)
  <2>1. /\ ask[q].kind = "list" /\ ask' = [ask EXCEPT ![q].readers = @ \cup {reader}]
        /\ UNCHANGED <<wait, repositoryCache, installationRepositoryCache>>
    BY <1>1 DEF GetRepositories, InFlight, caches
  <2>2. AsksAlike
    BY <2>1, JoinAlike
  <2> QED BY <2>1, <2>2, QuietFaithful
<1>2. CASE ~ \E x \in Requests : InFlight(x, p)
  <2> DEFINE a == List(p, FALSE, TRUE, {reader}, {})
  <2>1. Repositories(q, p, FALSE, a)
    BY <1>2 DEF GetRepositories
  <2>2. a \in ListAsks /\ a.of = p /\ a.due = {}
    BY DEF List, ListAsks
  <2> HIDE DEF a
  <2> QED BY <2>1, <2>2, SendListKeeps
<1> QED BY <1>1, <1>2

(* The repositories are listed: an entry that is cached or loading holds   *)
(* what is owed, and what GitHub is asked for now it will hold.            *)
LEMMA ListFaithful ==
  ASSUME ServerInv, NEW q \in Requests, ListInstallationRepositories(q)
  PROVE  Faithful
<1> PICK expired \in BOOLEAN :
      LET e == Fresh(installationRepositoryCache, expired)
          nothing == [installed |-> FALSE, repos |-> {}]
      IN /\ wait[q].at = "listing"
         /\ \/ /\ ~wait[q].installed
               /\ Fulfil({q}, [x \in {q} |-> nothing])
               /\ UNCHANGED installationRepositoryCache
            \/ /\ wait[q].installed /\ e.at = "loaded"
               /\ Fulfil({q}, [x \in {q} |->
                    ListValue(x, [installed |-> TRUE, repos |-> e.value])])
               /\ UNCHANGED installationRepositoryCache
            \/ /\ wait[q].installed /\ e.at # "loaded"
               /\ installationRepositoryCache' = Kept(q, e)
               /\ wait' = [wait EXCEPT ![q] =
                    IF e.at = "loading" THEN [at |-> "sharing", by |-> e.by]
                    ELSE [at |-> "asking"]]
               /\ UNCHANGED <<repositoryCache, branchCache>>
         /\ UNCHANGED <<github, installed, ask, client, session, mishaps, asks>>
  BY DEF ListInstallationRepositories
<1> DEFINE e == Fresh(installationRepositoryCache, expired)
<1>1. /\ e \in Entries(SUBSET Repos) /\ e \in {Absent, installationRepositoryCache}
      /\ Absent.at = "absent"
  <2>1. e \in Entries(SUBSET Repos)
    BY EntryKept DEF ServerInv, CachesTyped
  <2> QED BY <2>1 DEF Fresh, Absent
<1>2. ask[q].kind = "list" /\ wait[q].at = "listing" /\ UNCHANGED ask
  BY DEF ServerInv, RequestsTyped, WaitTyped, Lists
(* The list is answered at once.                                           *)
<1>3. ASSUME NEW v \in Listed,
             Fulfil({q}, [x \in {q} |-> v]), UNCHANGED installationRepositoryCache,
             \A D \in SUBSET Repos :
               Accessed(D) /\ Firsts(q) /\ Brings(q, D) => D \subseteq v.repos
      PROVE  Faithful
  <2>1. /\ Settled({q}) /\ wait'[q] = Answered(v)
        /\ \A p \in Pages :
              \/ repositoryCache'[p] = repositoryCache[p]
              \/ /\ repositoryCache[p].at = "loading" /\ repositoryCache[p].by = q
                 /\ repositoryCache'[p] = Loaded(v)
    BY <1>2, <1>3, FulfilOne
  <2>2. \A x \in Requests : wait[x].at \in AtGitHub => wait'[x] = wait[x]
    BY <1>2, <2>1 DEF Settled, AtGitHub
  <2>3. ASSUME NEW D, Grants(D)
        PROVE  Grants(D)'
    BY <1>3, <2>2, <2>3, AtGitHubStays DEF Grants
  <2>4. ASSUME NEW D \in SUBSET Repos, Accessed(D), Firsts(q), Brings(q, D)
        PROVE  Brings(q, D)'
    BY <1>3, <2>1, <2>4 DEF Brings, Answered
  <2>5. \/ repositoryCache'[1] \in {Absent, repositoryCache[1]}
        \/ /\ repositoryCache[1].at = "loading" /\ repositoryCache[1].by \in {q}
           /\ \E y : /\ wait'[repositoryCache[1].by] = Answered(y)
                     /\ repositoryCache'[1] = Loaded(y)
    BY <2>1 DEF Pages
  <2> QED BY <1>2, <2>1, <2>3, <2>4, <2>5, SettledFaithful
<1>4. CASE /\ ~wait[q].installed
           /\ Fulfil({q}, [x \in {q} |-> [installed |-> FALSE, repos |-> {}]])
           /\ UNCHANGED installationRepositoryCache
  <2>1. [installed |-> FALSE, repos |-> {}] \in Listed
    BY DEF Listed
  <2>2. \A D : ~Brings(q, D)
    BY <1>2, <1>4 DEF Brings
  <2> QED BY <1>3, <1>4, <2>1, <2>2
<1>5. CASE /\ wait[q].installed /\ e.at = "loaded"
           /\ Fulfil({q}, [x \in {q} |->
                ListValue(x, [installed |-> TRUE, repos |-> e.value])])
           /\ UNCHANGED installationRepositoryCache
  <2> DEFINE v == ListValue(q, [installed |-> TRUE, repos |-> e.value])
  <2>1. v \in Listed
    BY <1>1, <1>5, EntryKinds DEF Listed, ListValue
  <2>2. [x \in {q} |-> ListValue(x, [installed |-> TRUE, repos |-> e.value])]
          = [x \in {q} |-> v]
    OBVIOUS
  <2>3. ASSUME NEW D \in SUBSET Repos, Accessed(D), Firsts(q), Brings(q, D)
        PROVE  D \subseteq v.repos
    <3>1. Grants(D) /\ e = installationRepositoryCache
      BY <1>1, <1>2, <1>5, <2>3 DEF Brings
    <3>2. D \subseteq e.value
      BY <1>5, <3>1 DEF Grants
    <3> QED BY <2>3, <3>2 DEF ListValue, OnPage, Firsts, Accessed
  <2> HIDE DEF v
  <2> QED BY <1>3, <1>5, <2>1, <2>2, <2>3
<1>6. CASE /\ wait[q].installed /\ e.at # "loaded"
           /\ installationRepositoryCache' = Kept(q, e)
           /\ wait' = [wait EXCEPT ![q] =
                IF e.at = "loading" THEN [at |-> "sharing", by |-> e.by]
                ELSE [at |-> "asking"]]
           /\ UNCHANGED <<repositoryCache, branchCache>>
  <2>1. /\ wait'[q] = IF e.at = "loading" THEN [at |-> "sharing", by |-> e.by]
                      ELSE [at |-> "asking"]
        /\ \A x \in Requests \ {q} : wait'[x] = wait[x]
    BY <1>6 DEF ServerInv, RequestsTyped
  <2>2. wait'[q].at \in {"sharing", "asking"}
    BY <2>1
  <2>3. Moved(q)
    BY <2>2, ListServer
  <2>4. ASSUME NEW D \in SUBSET Repos, Brings(q, D)
        PROVE  Brings(q, D)'
    <3>1. CASE e.at = "loading"
      <4>1. /\ wait'[q] = [at |-> "sharing", by |-> e.by] /\ e = installationRepositoryCache
            /\ Grants(D)
        BY <1>1, <1>2, <2>1, <2>4, <3>1 DEF Brings
      <4>2. wait[e.by].at \in AtGitHub /\ e.by \in Requests
        BY <3>1, <4>1, AtGitHubStays
      <4>3. wait'[e.by] = wait[e.by]
        BY <1>2, <2>1, <4>2 DEF AtGitHub
      <4> QED BY <3>1, <4>1, <4>3 DEF Brings, Grants
    <3>2. CASE e.at # "loading"
      BY <2>1, <3>2 DEF Brings
    <3> QED BY <3>1, <3>2
  <2>5. GoesOn(q)
    BY <1>2, <2>2 DEF GoesOn, SameAsk
  <2> QED BY <1>6, <2>2, <2>3, <2>4, <2>5, MovedFaithful
<1> QED BY <1>4, <1>5, <1>6

(* GitHub's answer arrives, and brings what it holds to all who share it.  *)
LEMMA ArriveFaithful ==
  ASSUME ServerInv, NEW q \in Requests, Arrives(q)
  PROVE  Faithful
<1> DEFINE S == Sharing(q)
           v == wait[q].value
<1>1. /\ wait[q].at = "arriving" /\ UNCHANGED ask
      /\ installationRepositoryCache' =
           IF installationRepositoryCache.at = "loading"
              /\ installationRepositoryCache.by = q
             THEN Loaded(v) ELSE installationRepositoryCache
  BY DEF Arrives, Entry
<1>2. S \in SUBSET Requests /\ q \in S
  BY DEF Sharing
<1>3. /\ Settled(S) /\ \A x \in S : wait'[x] = Answered(Shares(q, x, v))
      /\ \/ repositoryCache'[1] = repositoryCache[1]
         \/ /\ repositoryCache[1].at = "loading"
            /\ repositoryCache[1].by \in S
            /\ repositoryCache'[1] = Loaded(Shares(q, repositoryCache[1].by, v))
  BY ArriveServer DEF Pages
<1>4. \A x \in S : x # q => wait[x].at = "sharing" /\ wait[x].by = q
                            /\ ask[x].kind = "list" /\ ask[q].kind = "list"
  BY SharersAlike
<1> HIDE DEF S
<1>5. ASSUME NEW D, Grants(D)
      PROVE  Grants(D)'
  <2>1. CASE /\ installationRepositoryCache.at = "loading"
             /\ installationRepositoryCache.by = q
    BY <1>1, <1>5, <2>1 DEF Grants, Loaded
  <2>2. CASE ~(/\ installationRepositoryCache.at = "loading"
               /\ installationRepositoryCache.by = q)
    <3>1. installationRepositoryCache.at = "loading" =>
            installationRepositoryCache.by \in Requests \ S
            /\ wait[installationRepositoryCache.by].at # "joined"
      BY <1>4, <2>2, AtGitHubStays DEF AtGitHub
    <3> QED BY <1>1, <1>3, <1>5, <2>2, <3>1 DEF Grants, Settled
  <2> QED BY <2>1, <2>2
<1>6. ASSUME NEW D \in SUBSET Repos, Accessed(D), NEW x \in S, Firsts(x), Brings(x, D)
      PROVE  Brings(x, D)'
  <2>1. D \subseteq v
    BY <1>1, <1>4, <1>6 DEF Brings
  <2>2. ask[q].kind = "list"
    BY <1>4, <1>6 DEF Firsts
  <2>3. D \subseteq Shares(q, x, v).repos
    BY <1>6, <2>1, <2>2 DEF Shares, ListValue, OnPage, Firsts, Accessed
  <2>4. wait'[x] = Answered(Shares(q, x, v))
    BY <1>3
  <2> QED BY <2>3, <2>4 DEF Brings, Answered
<1>7. \/ repositoryCache'[1] \in {Absent, repositoryCache[1]}
      \/ /\ repositoryCache[1].at = "loading" /\ repositoryCache[1].by \in S
         /\ \E y : /\ wait'[repositoryCache[1].by] = Answered(y)
                   /\ repositoryCache'[1] = Loaded(y)
  BY <1>3
<1> QED BY <1>1, <1>2, <1>3, <1>5, <1>6, <1>7, SettledFaithful

(* A load fails: who shares it is refused, and is shown nothing.           *)
LEMMA FailFaithful ==
  ASSUME ServerInv, NEW q \in Requests, LoadFails(q)
  PROVE  Faithful
<1> DEFINE S == Sharing(q)
<1> HIDE DEF S
<1>1. /\ Settled(S) /\ \A x \in S : wait'[x] = Refused(TRUE)
      /\ repositoryCache'[1] \in {Absent, repositoryCache[1]}
      /\ installationRepositoryCache' \in {Absent, installationRepositoryCache}
      /\ UNCHANGED ask /\ S \in SUBSET Requests
  <2>1. /\ Settled(S) /\ \A x \in S : wait'[x] = Refused(TRUE)
        /\ \A p \in Pages : repositoryCache'[p] \in {Absent, repositoryCache[p]}
        /\ installationRepositoryCache' \in {Absent, installationRepositoryCache}
    BY FailServer DEF S
  <2>2. UNCHANGED ask /\ S \in SUBSET Requests
    BY DEF LoadFails, Sharing, S
  <2>3. repositoryCache'[1] \in {Absent, repositoryCache[1]}
    BY <2>1 DEF Pages
  <2> QED BY <2>1, <2>2, <2>3
<1>2. ASSUME NEW D, Grants(D)
      PROVE  Grants(D)'
  <2>1. CASE installationRepositoryCache'.at = "loading"
    <3>1. /\ installationRepositoryCache' = installationRepositoryCache
          /\ installationRepositoryCache.by \notin S
      BY <1>1, <2>1 DEF Settled
    <3>2. wait'[installationRepositoryCache.by] = wait[installationRepositoryCache.by]
      BY <1>1, <2>1, <3>1, AtGitHubStays DEF Settled, AtGitHub
    <3> QED BY <1>2, <2>1, <3>1, <3>2 DEF Grants
  <2>2. CASE installationRepositoryCache'.at # "loading"
    BY <1>1, <1>2, <2>2 DEF Grants, Absent
  <2> QED BY <2>1, <2>2
<1>3. \A D : \A x \in S : Brings(x, D)'
  BY <1>1 DEF Brings, Refused
<1> QED BY <1>1, <1>2, <1>3, SettledFaithful

(* A refresh: everything cached is forgotten, so GitHub is asked.          *)
LEMMA RefreshFaithful ==
  ASSUME RepoSelectionAssumption, Typed, NEW q \in Requests, RefreshAccess(q)
  PROVE  Faithful
<1> DEFINE due == Accessible \cap OnPage(1)
           a == List(1, TRUE, TRUE, {"page"}, due)
<1>1. due \in SUBSET Repos /\ (due # {} => installed) /\ due \subseteq shared \cap FirstPage
  BY DEF OnPage, RepoSelectionAssumption, Accessible
<1>2. Repositories(q, 1, TRUE, a) /\ UNCHANGED <<shared, installed>> /\ ServerInv
  BY DEF RefreshAccess, Typed, github
<1> HIDE DEF due
<1>3. a \in ListAsks /\ a.of = 1 /\ a.due = due /\ 1 \in Pages
  BY <1>1 DEF List, ListAsks, PageReaders, Pages
<1> HIDE DEF a
<1>4. /\ ask'[q] = a /\ installationRepositoryCache' = Absent
      /\ wait'[q] = [at |-> "reading"]
  <2>1. ask'[q] = a
    BY <1>2 DEF Repositories, ServerInv, RequestsTyped
  <2>2. \/ wait'[q] = [at |-> "reading"]
        \/ /\ ~TRUE
           /\ \/ /\ repositoryCache[1].at = "loading"
                 /\ wait'[q] = [at |-> "joined", by |-> repositoryCache[1].by]
              \/ /\ repositoryCache[1].at = "loaded"
                 /\ wait'[q] = Answered(repositoryCache[1].value)
    BY <1>2, <1>3, SendListServer
  <2>3. installationRepositoryCache' = Absent
    BY <1>2 DEF Repositories
  <2> QED BY <2>1, <2>2, <2>3
<1>5. Begins(q)
  BY <1>1, <1>2, <1>3, <1>4 DEF Begins, Accessed, WillBring, Brings, Grants, Absent
<1> QED BY <1>2, <1>3, <1>5, SendListKeeps

(* The load after the user came back from GitHub.                          *)
LEMMA LandFaithful ==
  ASSUME Typed, TabKept, NEW q \in Requests, Land(q)
  PROVE  Faithful
<1> DEFINE a == List(1, FALSE, TRUE, {"page"}, tab.due)
<1>1. tab.due \in SUBSET Repos /\ ServerInv
  BY DEF Typed, ClientTyped, Tabs
<1>2. /\ Repositories(q, 1, FALSE, a) /\ UNCHANGED <<shared, installed>>
      /\ tab.at = "redirected"
  BY DEF Land, github
<1>3. a \in ListAsks /\ a.of = 1 /\ a.due = tab.due /\ 1 \in Pages
  BY <1>1 DEF List, ListAsks, PageReaders, Pages
<1> HIDE DEF a
<1>4. /\ ask'[q] = a
      /\ \/ wait'[q] = [at |-> "reading"]
         \/ /\ ~FALSE
            /\ \/ /\ repositoryCache[1].at = "loading"
                  /\ wait'[q] = [at |-> "joined", by |-> repositoryCache[1].by]
               \/ /\ repositoryCache[1].at = "loaded"
                  /\ wait'[q] = Answered(repositoryCache[1].value)
  BY <1>1, <1>2, <1>3, SendListServer
<1>5. \A D \in SUBSET Repos : Accessed(D) => Keeps(D)
  BY <1>1, <1>2, <1>3, SendListKeeps
<1>6. ASSUME NEW D \in SUBSET Repos, tab.due = D, D # {}
      PROVE  Accessed(D)' /\ WillBring(q, D)'
  <2>1. Accessed(D) /\ Grants(D) /\ FirstPageBrings(D)
    BY <1>2, <1>6 DEF TabKept
  <2>2. Accessed(D)'
    BY <1>2, <2>1 DEF Accessed
  <2>3. Grants(D)' /\ \A x \in Requests : Firsts(x) /\ Brings(x, D) => Brings(x, D)'
    BY <1>5, <2>1 DEF Keeps
  <2>4. CASE wait'[q] = [at |-> "reading"]
    BY <2>2, <2>3, <2>4 DEF WillBring, Brings
  <2>5. CASE /\ repositoryCache[1].at = "loading"
             /\ wait'[q] = [at |-> "joined", by |-> repositoryCache[1].by]
    <3> PICK y \in Requests : y = repositoryCache[1].by
      BY <1>1, <2>5, AtGitHubStays DEF Firsts
    <3>1. Firsts(y) /\ Brings(y, D)
      BY <1>1, <2>1, <2>5, AtGitHubStays DEF FirstPageBrings
    <3>2. Brings(y, D)'
      BY <2>3, <3>1
    <3> QED BY <2>2, <2>5, <3>2 DEF WillBring
  <2>6. CASE /\ repositoryCache[1].at = "loaded"
             /\ wait'[q] = Answered(repositoryCache[1].value)
    BY <2>1, <2>2, <2>6 DEF FirstPageBrings, WillBring, Brings, Answered
  <2> QED BY <1>4, <2>2, <2>4, <2>5, <2>6
<1>7. Begins(q)
  BY <1>3, <1>4, <1>6 DEF Begins
<1> QED BY <1>1, <1>2, <1>3, <1>7, SendListKeeps

(* Every step is faithful.                                                 *)
LEMMA FaithfulStep ==
  ASSUME RepoSelectionAssumption, Typed, TabKept, Next
  PROVE  Faithful
<1> USE DEF Typed
<1>1. ASSUME NEW q \in Requests, ReadInstallations(q)
      PROVE  Faithful
  BY <1>1, ReadFaithful
<1>2. ASSUME NEW q \in Requests, ListInstallationRepositories(q)
      PROVE  Faithful
  BY <1>2, ListFaithful
<1>3. ASSUME NEW q \in Requests, CheckInstallation(q)
      PROVE  Faithful
  BY <1>3, CheckFaithful
<1>4. ASSUME NEW q \in Requests, GitHubAnswers(q)
      PROVE  Faithful
  BY <1>4, AnswerFaithful
<1>5. ASSUME NEW q \in Requests, Arrives(q)
      PROVE  Faithful
  BY <1>5, ArriveFaithful
<1>6. ASSUME NEW q \in Requests, LoadFails(q)
      PROVE  Faithful
  BY <1>6, FailFaithful
<1>7. ASSUME NEW q \in Requests, Hears(q) \/ HearsRefusal(q)
      PROVE  Faithful
  BY <1>7, DoneFaithful DEF Hears, HearsRefusal
<1>8. ASSUME NEW q \in Requests, Open(q)
      PROVE  Faithful
  <2>1. GetRepositories(q, 1, "page") /\ "page" \in PageReaders /\ 1 \in Pages
    BY <1>8 DEF Open, PageReaders, Pages
  <2> QED BY <2>1, GetListFaithful
<1>9. ASSUME NEW q \in Requests, RefreshAccess(q)
      PROVE  Faithful
  BY <1>9, RefreshFaithful
<1>10. ASSUME NEW q \in Requests, LoadMoreRepositories(q)
       PROVE  Faithful
  <2>1. GetRepositories(q, 2, "more") /\ "more" \in PageReaders /\ 2 \in Pages
    BY <1>10 DEF LoadMoreRepositories, PageReaders, Pages
  <2> QED BY <2>1, GetListFaithful
<1>11. ASSUME NEW q \in Requests, OpenSwitcher(q)
       PROVE  Faithful
  <2>1. GetRepositories(q, 1, "switcher") /\ "switcher" \in PageReaders /\ 1 \in Pages
    BY <1>11 DEF OpenSwitcher, PageReaders, Pages
  <2> QED BY <2>1, GetListFaithful
<1>12. ASSUME NEW q \in Requests, ScrollSwitcher(q)
       PROVE  Faithful
  <2>1. GetRepositories(q, 2, "switcher more")
    BY <1>12 DEF ScrollSwitcher
  <2>2. "switcher more" \in PageReaders /\ 2 \in Pages
    BY DEF PageReaders, Pages
  <2> QED BY <2>1, <2>2, GetListFaithful
<1>13. ASSUME NEW q \in Requests, Land(q)
       PROVE  Faithful
  BY <1>13, LandFaithful
<1>14. ASSUME NEW q \in Requests, NEW r \in Repos, SelectRepository(q, r)
       PROVE  Faithful
  <2>1. GetBranches(q, r, {"pick"}) /\ {"pick"} \in SUBSET BranchReaders
    BY <1>14 DEF SelectRepository, BranchReaders
  <2> QED BY <2>1, SendBranchesFaithful
<1>15. ASSUME NEW q \in Requests, NEW r \in Repos, ToggleRepo(q, r)
       PROVE  Faithful
  <2>1. /\ GetBranches(q, r, {"switcher branches"})
        /\ {"switcher branches"} \in SUBSET BranchReaders
    BY <1>15 DEF ToggleRepo, BranchReaders
  <2> QED BY <2>1, SendBranchesFaithful
<1>16. ASSUME NEW q \in Requests, OtherTab(q)
       PROVE  Faithful
  <2>1. CASE \E forced \in BOOLEAN :
               Repositories(q, 1, forced, List(1, forced, FALSE, {}, {}))
    <3> PICK forced \in BOOLEAN :
          Repositories(q, 1, forced, List(1, forced, FALSE, {}, {}))
      BY <2>1
    <3> DEFINE a == List(1, forced, FALSE, {}, {})
    <3>1. a \in ListAsks /\ a.of = 1 /\ 1 \in Pages /\ a.due = {}
      BY DEF List, ListAsks, Pages
    <3>2. Repositories(q, 1, forced, a)
      OBVIOUS
    <3> HIDE DEF a
    <3> QED BY <3>1, <3>2, SendListKeeps
  <2>2. CASE \E r \in Busy : GetBranches(q, r, {})
    <3> PICK r \in Busy : GetBranches(q, r, {})
      BY <2>2
    <3>1. r \in Repos /\ {} \in SUBSET BranchReaders
      BY DEF RepoSelectionAssumption
    <3> QED BY <3>1, SendBranchesFaithful
  <2> QED BY <1>16, <2>1, <2>2 DEF OtherTab
<1>17. ASSUME AsksAlike, UNCHANGED wait,
              repositoryCache'[1] \in {Absent, repositoryCache[1]},
              installationRepositoryCache' \in {Absent, installationRepositoryCache}
       PROVE  Faithful
  BY <1>17, QuietFaithful
<1>18. ASSUME UNCHANGED <<ask, wait, repositoryCache, installationRepositoryCache>>
       PROVE  Faithful
  <2>1. AsksAlike
    BY <1>18 DEF AsksAlike, ServerInv, RequestsTyped
  <2> QED BY <1>17, <1>18, <2>1
<1>19. CASE GoToGitHub
  <2>1. AsksAlike
    BY <1>19, DisownedAlike DEF GoToGitHub
  <2> QED BY <1>17, <1>19, <2>1 DEF GoToGitHub, caches
<1>20. CASE Leave \/ CreateSession
  <2>1. AsksAlike
    BY <1>20, UnreadAlike DEF Leave, CreateSession
  <2> QED BY <1>17, <1>20, <2>1 DEF Leave, CreateSession, caches
<1>21. CASE ClearAfterSave
  <2>1. repositoryCache'[1] = Absent /\ installationRepositoryCache' = Absent
        /\ UNCHANGED <<ask, wait>>
    BY <1>21 DEF ClearAfterSave, ClearRepositoryCache, Pages
  <2>2. AsksAlike
    BY <2>1 DEF AsksAlike, ServerInv, RequestsTyped
  <2> QED BY <1>17, <2>1, <2>2
<1>22. ASSUME NEW r \in Repos, ExpireBranches(r) \/ SwitchTo(r) \/ Push(r)
       PROVE  Faithful
  BY <1>18, <1>22 DEF ExpireBranches, SwitchTo, Push, caches
<1>23. CASE Share \/ SelectBranch \/ SaveInstallation \/ SaveFails
  BY <1>18, <1>23 DEF Share, SelectBranch, SaveInstallation, SaveFails, caches
<1>24. CASE CreateSessionFails \/ Clone \/ CloneFails \/ VerifyCommit
  BY <1>18, <1>24 DEF CreateSessionFails, Clone, CloneFails, VerifyCommit, caches
<1> QED BY <1>1, <1>2, <1>3, <1>4, <1>5, <1>6, <1>7, <1>8, <1>9, <1>10, <1>11, <1>12,
           <1>13, <1>14, <1>15, <1>16, <1>19, <1>20, <1>21, <1>22, <1>23, <1>24
        DEF Next

(* What the user is to see when back from GitHub stays in reach of the     *)
(* load that is sent then: SaveInstallation comes before the caches are    *)
(* cleared.                                                                *)
LEMMA TabKeptStep ==
  ASSUME RepoSelectionAssumption, Typed, TabKept, Next
  PROVE  TabKept'
<1>1. Faithful /\ shared \subseteq shared' /\ (installed => installed')
  BY FaithfulStep, WorldStep DEF Typed
<1>2. ASSUME UNCHANGED tab
      PROVE  TabKept'
  <2> SUFFICES ASSUME NEW D \in SUBSET Repos, tab.due = D, D # {}
               PROVE  /\ tab.at \in {"saved", "redirected"} /\ Accessed(D)'
                      /\ tab.at = "redirected" => Grants(D)' /\ FirstPageBrings(D)'
    BY <1>2 DEF TabKept
  <2>1. /\ tab.at \in {"saved", "redirected"} /\ Accessed(D)
        /\ tab.at = "redirected" => Grants(D) /\ FirstPageBrings(D)
    BY DEF TabKept
  <2>2. Accessed(D)'
    BY <1>1, <2>1, AccessedStep
  <2>3. Keeps(D)
    BY <1>1, <2>1 DEF Faithful
  <2> QED BY <2>1, <2>2, <2>3 DEF Keeps
<1>3. ASSUME NEW q \in Requests,
             \/ ReadInstallations(q) \/ ListInstallationRepositories(q)
             \/ CheckInstallation(q) \/ GitHubAnswers(q) \/ Arrives(q)
             \/ LoadFails(q) \/ OtherTab(q) \/ Hears(q) \/ HearsRefusal(q)
      PROVE  UNCHANGED tab
  BY <1>3 DEF ReadInstallations, ListInstallationRepositories, CheckInstallation,
     GitHubAnswers, Arrives, LoadFails, OtherTab, Hears, HearsRefusal, Done, client
<1>4. ASSUME NEW q \in Requests,
             \/ Open(q) \/ RefreshAccess(q) \/ LoadMoreRepositories(q)
             \/ OpenSwitcher(q) \/ ScrollSwitcher(q)
      PROVE  UNCHANGED tab
  BY <1>4 DEF Open, RefreshAccess, LoadMoreRepositories, OpenSwitcher, ScrollSwitcher
<1>5. ASSUME NEW q \in Requests, NEW r \in Repos,
             SelectRepository(q, r) \/ ToggleRepo(q, r)
      PROVE  UNCHANGED tab
  BY <1>5 DEF SelectRepository, ToggleRepo, client
<1>6. ASSUME NEW r \in Repos, ExpireBranches(r) \/ SwitchTo(r) \/ Push(r)
      PROVE  UNCHANGED tab
  BY <1>6 DEF ExpireBranches, SwitchTo, Push, client
<1>7. ASSUME \/ Share \/ Leave \/ SelectBranch \/ CreateSession \/ CreateSessionFails
             \/ Clone \/ CloneFails \/ VerifyCommit
      PROVE  UNCHANGED tab
  BY <1>7 DEF Share, Leave, SelectBranch, CreateSession, CreateSessionFails, Clone,
     CloneFails, VerifyCommit, client
<1>8. tab \in Tabs /\ (tab.at \in {"app", "saving"} => tab.due = {})
  BY DEF Typed, ClientTyped, Tabs, TabKept
<1>9. ASSUME NEW q \in Requests, Land(q)
      PROVE  TabKept'
  BY <1>9 DEF Land, InApp, TabKept
<1>10. CASE GoToGitHub \/ SaveFails
  <2>1. tab'.due = {}
    BY <1>8, <1>10 DEF GoToGitHub, SaveFails, Tabs
  <2> QED BY <2>1 DEF TabKept
<1>11. CASE SaveInstallation
  BY <1>11 DEF SaveInstallation, TabKept, Accessed, OnPage, github
<1>12. CASE ClearAfterSave
  <2>1. /\ tab.at = "saved" /\ tab'.due = tab.due /\ tab'.at = "redirected"
        /\ repositoryCache'[1] = Absent /\ installationRepositoryCache' = Absent
    BY <1>8, <1>12 DEF ClearAfterSave, ClearRepositoryCache, Pages, Tabs
  <2>2. \A D : Grants(D)' /\ FirstPageBrings(D)'
    BY <2>1 DEF Grants, FirstPageBrings, Absent
  <2>3. \A D \in SUBSET Repos : tab.due = D /\ D # {} => Accessed(D)'
    BY <1>1, AccessedStep DEF TabKept
  <2> QED BY <2>1, <2>2, <2>3 DEF TabKept
<1> QED BY <1>2, <1>3, <1>4, <1>5, <1>6, <1>7, <1>9, <1>10, <1>11, <1>12 DEF Next

(* What the page shows changes with the answers it hears only.             *)
LEMMA RefreshStep ==
  ASSUME Typed, AsksKept, RefreshShowsAccess, Next
  PROVE  RefreshShowsAccess'
<1> USE DEF RefreshShowsAccess
<1>1. page \in PageRecords /\ page.connection \in Connections
  BY DEF Typed, ClientTyped, PageRecords
<1>2. ASSUME page'.connection = page.connection, page'.due = page.due
      PROVE  RefreshShowsAccess'
  BY <1>2
<1>3. ASSUME page'.due = {}
      PROVE  RefreshShowsAccess'
  BY <1>3
<1>4. ASSUME NEW q \in Requests, Hears(q)
      PROVE  RefreshShowsAccess'
  <2> DEFINE v == wait[q].value
             to == ask[q].readers
  <2>1. /\ wait[q].at = "answered"
        /\ page' = IF "page" \in to
               THEN [page EXCEPT !.connection = Connection(q, v),
                                 !.loading = FALSE, !.due = ask[q].due]
             ELSE IF "more" \in to
               THEN [page EXCEPT !.connection = Extended(@, q, v), !.more = FALSE]
             ELSE IF "pick" \in to
               THEN [page EXCEPT !.branches = v, !.picking = FALSE]
             ELSE page
    BY <1>4 DEF Hears, PageHears
  <2>2. CASE "page" \in to
    <3>1. page'.connection.repos = v.repos /\ page'.due = ask[q].due
      BY <1>1, <2>1, <2>2 DEF PageRecords, Connection
    <3>2. ask[q].kind = "list" /\ ask[q].due \in SUBSET Repos
      <4>1. ask[q] \in Asks /\ ask[q] # NoAsk
        BY <2>1 DEF Typed, ServerInv, RequestsTyped
      <4>2. ask[q].kind = "branches" => ask[q].readers \subseteq BranchReaders
        BY <4>1, AskKinds DEF BranchAsks
      <4> QED BY <2>2, <4>1, <4>2, AskKinds DEF BranchReaders
    <3>3. ask[q].due # {} => ask[q].due \subseteq v.repos
      BY <2>1, <3>2 DEF AsksKept, WillBring, Brings
    <3> QED BY <3>1, <3>3
  <2>3. CASE "page" \notin to /\ "more" \in to
    <3>1. page'.connection = Extended(page.connection, q, v) /\ page'.due = page.due
      BY <1>1, <2>1, <2>3 DEF PageRecords
    <3>2. page.connection.repos \subseteq page'.connection.repos
      BY <1>1, <3>1 DEF Extended, Connections
    <3> QED BY <3>1, <3>2
  <2>4. CASE "page" \notin to /\ "more" \notin to
    <3>1. page'.connection = page.connection /\ page'.due = page.due
      BY <1>1, <2>1, <2>4 DEF PageRecords
    <3> QED BY <1>2, <3>1
  <2> QED BY <2>2, <2>3, <2>4
<1>5. ASSUME NEW q \in Requests, HearsRefusal(q)
      PROVE  RefreshShowsAccess'
  BY <1>2, <1>5, RefusalClients DEF Typed
<1>6. ASSUME UNCHANGED page
      PROVE  RefreshShowsAccess'
  BY <1>2, <1>6
<1>7. ASSUME NEW q \in Requests,
             \/ ReadInstallations(q) \/ ListInstallationRepositories(q)
             \/ CheckInstallation(q) \/ GitHubAnswers(q) \/ Arrives(q)
             \/ LoadFails(q) \/ OtherTab(q) \/ OpenSwitcher(q) \/ ScrollSwitcher(q)
      PROVE  UNCHANGED page
  BY <1>7 DEF ReadInstallations, ListInstallationRepositories, CheckInstallation,
     GitHubAnswers, Arrives, LoadFails, OtherTab, OpenSwitcher, ScrollSwitcher, client
<1>8. ASSUME NEW r \in Repos, ExpireBranches(r) \/ SwitchTo(r) \/ Push(r)
      PROVE  UNCHANGED page
  BY <1>8 DEF ExpireBranches, SwitchTo, Push, client
<1>9. ASSUME NEW q \in Requests, NEW r \in Repos, ToggleRepo(q, r)
      PROVE  UNCHANGED page
  BY <1>9 DEF ToggleRepo, client
<1>10. ASSUME \/ Share \/ SaveInstallation \/ ClearAfterSave \/ SaveFails
              \/ Clone \/ CloneFails \/ VerifyCommit
       PROVE  UNCHANGED page
  BY <1>10 DEF Share, SaveInstallation, ClearAfterSave, SaveFails, Clone, CloneFails,
     VerifyCommit, client
<1>11. ASSUME NEW q \in Requests, Open(q) \/ Land(q)
       PROVE  page'.due = {}
  BY <1>11 DEF Open, Land, ClosedPage
<1>12. ASSUME Leave \/ GoToGitHub \/ CreateSession
       PROVE  page'.due = {}
  <2>1. page' = ClosedPage
    BY <1>12 DEF Leave, GoToGitHub, CreateSession
  <2> QED BY <2>1 DEF ClosedPage
<1>13. ASSUME NEW q \in Requests,
              \/ RefreshAccess(q) \/ LoadMoreRepositories(q)
              \/ \E r \in Repos : SelectRepository(q, r)
       PROVE  page'.connection = page.connection /\ page'.due = page.due
  BY <1>1, <1>13 DEF RefreshAccess, LoadMoreRepositories, SelectRepository, PageRecords
<1>14. ASSUME SelectBranch \/ CreateSessionFails
       PROVE  page'.connection = page.connection /\ page'.due = page.due
  BY <1>1, <1>14 DEF SelectBranch, CreateSessionFails, PageRecords
<1> QED BY <1>2, <1>3, <1>4, <1>5, <1>6, <1>7, <1>8, <1>9, <1>10, <1>11, <1>12, <1>13, <1>14
        DEF Next

(* "Refresh access", and the load after the App was connected, show every  *)
(* repository of the first page that was accessible when the user asked,   *)
(* whatever older requests still load or the caches held.                  *)
THEOREM RefreshShowsWhatIsAccessible == FairSpec => []RefreshShowsAccess
<1> DEFINE I == Typed /\ AsksKept /\ TabKept /\ RefreshShowsAccess
<1>1. Init => I
  <2> SUFFICES ASSUME Init PROVE I
    OBVIOUS
  <2>1. Typed
    BY InitTyped, RepoSelectionAssumption
  <2>2. AsksKept
    BY DEF Init, AsksKept, NoAsk
  <2>3. TabKept /\ RefreshShowsAccess
    BY DEF Init, TabKept, RefreshShowsAccess, InApp, ClosedPage
  <2> QED BY <2>1, <2>2, <2>3
<1>2. I /\ [Next]_vars => I'
  <2> SUFFICES ASSUME I, [Next]_vars PROVE I'
    OBVIOUS
  <2>1. Typed'
    BY TypedStep, RepoSelectionAssumption
  <2>2. CASE Next
    <3>1. TabKept' /\ RefreshShowsAccess'
      BY <2>2, TabKeptStep, RefreshStep, RepoSelectionAssumption
    <3>2. AsksKept'
      BY <2>2, FaithfulStep, WorldStep, AsksKeptStep, RepoSelectionAssumption DEF Typed
    <3> QED BY <2>1, <3>1, <3>2
  <2>3. CASE UNCHANGED vars
    <3>1. UNCHANGED <<shared, installed, repositoryCache, installationRepositoryCache,
                      ask, wait, tab, page>>
      BY <2>3 DEF vars, github, caches, client
    <3>2. \A D : Grants(D)' <=> Grants(D)
      BY <3>1 DEF Grants
    <3>3. \A x, D : Brings(x, D)' <=> Brings(x, D)
      BY <3>1, <3>2 DEF Brings
    <3>4. AsksKept'
      BY <3>1, <3>3 DEF AsksKept, Accessed, WillBring
    <3>5. TabKept'
      BY <3>1, <3>2, <3>3 DEF TabKept, Accessed, FirstPageBrings
    <3> QED BY <2>1, <3>1, <3>4, <3>5 DEF RefreshShowsAccess
  <2> QED BY <2>2, <2>3
<1>3. I => RefreshShowsAccess
  OBVIOUS
<1> HIDE DEF I
<1> QED BY <1>1, <1>2, <1>3, PTL DEF FairSpec
=============================================================================
