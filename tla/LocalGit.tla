------------------------------ MODULE LocalGit ------------------------------
(***************************************************************************)
(* DefaultLocalGitContextProvider: the diffs that the chat offers for the  *)
(* repositories of the workspace, and Repository, which finds out what     *)
(* their branches are by several reads of a checkout that may change.      *)
(*                                                                         *)
(* What isomorphic-git reads is modelled from its use: a checkout has the  *)
(* branch of its HEAD, which need not have a commit yet, or is detached.   *)
(***************************************************************************)
EXTENDS Naturals, Sequences, SequencesExt, FiniteSets

CONSTANTS
  Repositories, Branches,
  InitialCheckouts,  \* bound: what the repositories look like at first
  MaxCheckouts       \* bound: changes of a checkout while a search is at work

ASSUME RepositoriesFinite == IsFiniteSet(Repositories)

\* git refuses a branch of this name; "detached" stands for no branch.
ASSUME BranchesAssumption == Branches \cap {"HEAD", "detached"} = {}

VARIABLES
  repositories, \* those that the repository service has, in its order
  disabled,     \* repositories of projects without Duo
  checkouts,
  search,       \* the search at work
  offered       \* the last answer, the search that it belongs to, and its diffs

localGitVars == <<repositories, disabled, checkouts, search, offered>>

-----------------------------------------------------------------------------
(* Repository.                                                             *)

\* A branch, by its name or by its ref.
Short(b) == [path |-> "", name |-> b]
Ref(b) == [path |-> "refs/heads/", name |-> b]
HEAD == Short("HEAD")

\* Whether the default branch of the remote is known locally ("ref"), to the
\* remote only, or not at all.
Checkouts ==
  [head : Branches \cup {"detached"}, branches : SUBSET Branches,
   origin : {"none", "ref", "remote", "unreachable", "unreadable"}, default : Branches]

ASSUME CheckoutsKnown == InitialCheckouts \subseteq [Repositories -> Checkouts]

mainBranchNames == <<"main", "master", "trunk", "development">>

\* A commit is checked out, so that HEAD can be resolved.
hasCommit(c) == c.head = "detached" \/ c.head \in c.branches

Done(value) == [at |-> "done", value |-> value]
At(stage) == [at |-> stage, value |-> HEAD]

tryGetMainBranchFromLocalBranches(c) ==
  LET names == SelectSeq(mainBranchNames, LAMBDA n : n \in c.branches)
  IN Short(IF names = <<>> THEN "main" ELSE Head(names))

\* What the next read of getMainBranch may lead to.  The ref of the remote's HEAD
\* begins with refs/heads/, which is not what is taken off it.
getMainBranch(c, reading) ==
  CASE reading.at = "remotes" ->
         {CASE c.origin = "unreadable" -> Done(Short("main"))
            [] c.origin = "none" -> At("local")
            [] c.origin = "ref" -> Done(Short(c.default))
            [] OTHER -> At("remote")}
    [] reading.at = "remote" ->
         {At("local")} \cup (IF c.origin = "remote" THEN {Done(Ref(c.default))} ELSE {})
    [] OTHER -> {Done(tryGetMainBranchFromLocalBranches(c))}

getCurrentBranch(c, reading) ==
  IF reading.at # "branch" THEN getMainBranch(c, reading)
  ELSE {IF c.head = "detached" THEN At("remotes") ELSE Done(Short(c.head))}

-----------------------------------------------------------------------------
(* The provider.                                                           *)

Unread == [mainBranch |-> At("remotes"), currentBranch |-> At("branch"),
           allBranches |-> [at |-> "list", value |-> {}], headRef |-> At("ref")]

NoSearch == [order |-> <<>>, infos |-> <<>>, crossed |-> FALSE, changes |-> 0]
searching == search.order # <<>>

item(r, branch) == [repository |-> r, branch |-> branch, enabled |-> r \notin disabled]

\* Mutant: the branch that is checked out is offered too.
offersTheCurrentBranch(r, info) ==
  {item(r, HEAD)}
  \cup {item(r, b) : b \in {info.mainBranch.value} \ {info.currentBranch.value}}
  \cup {item(r, b) : b \in info.allBranches.value \ {info.mainBranch.value}}

getStaticOptionsForRepository(r, info) ==
  {item(r, HEAD)}
  \cup {item(r, b) : b \in {info.mainBranch.value} \ {info.currentBranch.value}}
  \cup {item(r, b) : b \in info.allBranches.value
                          \ {info.mainBranch.value, info.currentBranch.value}}

\* All of them; or those that a query finds, of which one title is shown once.
resultsOf(s, query) ==
  LET of(r) == getStaticOptionsForRepository(r, s.infos[r])
      all == UNION {of(r) : r \in ToSet(s.order)}
      later(x) == \E i, j \in DOMAIN s.order :
        /\ i < j /\ s.order[i] = x.repository
        /\ \E y \in of(s.order[j]) : y.branch = x.branch
  IN IF query = "" THEN all
     ELSE {x \in all : ~later(x) /\ x.branch.name = query}

Answer(items, query) ==
  /\ offered' = [items |-> items, query |-> query, crossed |-> search.crossed,
                 order |-> search.order, checkouts |-> checkouts, diffs |-> <<>>]
  /\ search' = NoSearch
  /\ UNCHANGED <<repositories, disabled, checkouts>>

NoAnswer == [items |-> {}, query |-> "", crossed |-> TRUE, order |-> <<>>,
             checkouts |-> <<>>, diffs |-> <<>>]

-----------------------------------------------------------------------------
LocalGitInit ==
  /\ repositories \in SetToSeqs(Repositories)
  /\ disabled \in SUBSET Repositories
  /\ checkouts \in InitialCheckouts
  /\ search = NoSearch /\ offered = NoAnswer

\* searchContextItems: a debounced search begins, and reads every repository at once.
Search ==
  /\ ~searching /\ repositories # <<>>
  /\ search' = [NoSearch EXCEPT !.order = repositories,
                                !.infos = [r \in ToSet(repositories) |-> Unread]]
  /\ offered' = NoAnswer
  /\ UNCHANGED <<repositories, disabled, checkouts>>

Keep(r, field, reading) ==
  /\ search' = [search EXCEPT !.infos[r][field] = reading]
  /\ UNCHANGED <<repositories, disabled, checkouts, offered>>

ReadMainBranch(r) ==
  /\ search.infos[r].mainBranch.at # "done"
  /\ \E reading \in getMainBranch(checkouts[r], search.infos[r].mainBranch) :
       Keep(r, "mainBranch", reading)

ReadCurrentBranch(r) ==
  /\ search.infos[r].currentBranch.at # "done"
  /\ \E reading \in getCurrentBranch(checkouts[r], search.infos[r].currentBranch) :
       Keep(r, "currentBranch", reading)

ListBranches(r) ==
  /\ search.infos[r].allBranches.at # "done"
  /\ Keep(r, "allBranches", Done({Short(b) : b \in checkouts[r].branches}))

\* The manager takes a search that fails for one without results.
ReadHeadRef(r) ==
  /\ search.infos[r].headRef.at # "done"
  /\ IF hasCommit(checkouts[r]) THEN Keep(r, "headRef", Done(HEAD)) ELSE Answer({}, "")

\* The query is compared with titles at the end.
SearchEnds(query) ==
  /\ searching
  /\ \A r \in ToSet(search.order) : \A field \in DOMAIN Unread :
       search.infos[r][field].at = "done"
  /\ Answer(resultsOf(search, query), query)

ReadStep == \E r \in ToSet(search.order) :
  ReadMainBranch(r) \/ ReadCurrentBranch(r) \/ ListBranches(r) \/ ReadHeadRef(r)

\* getItemWithContent: the editor is asked for the diff, if there is the repository.
GetItemWithContent(x) ==
  /\ offered.diffs = <<>>
  /\ offered' = [offered EXCEPT
       !.diffs = [y \in {x} |-> IF y.repository \in ToSet(repositories) THEN "asked" ELSE "none"]]
  /\ UNCHANGED <<repositories, disabled, checkouts, search>>
DiffArrives(x) ==
  /\ offered.diffs[x] = "asked"
  /\ offered' = [offered EXCEPT !.diffs[x] = "diff"]
  /\ UNCHANGED <<repositories, disabled, checkouts, search>>

\* The developer, or git, changes the checkout of a repository while it is read.
Checkout(r, c) ==
  /\ searching /\ search.changes < MaxCheckouts
  /\ checkouts' = [checkouts EXCEPT ![r] = c]
  /\ search' = [search EXCEPT !.crossed = TRUE, !.changes = @ + 1]
  /\ UNCHANGED <<repositories, disabled, offered>>
\* The repository goes with its folder.  A search has its own list.
Forget(r) ==
  /\ ~searching
  /\ \E i \in DOMAIN repositories :
       repositories[i] = r /\ repositories' = RemoveAt(repositories, i)
  /\ UNCHANGED <<disabled, checkouts, search, offered>>

\* Other branches and another HEAD; the remote stays what it is.
Changed(c) == {[c EXCEPT !.head = h, !.branches = @ \cup ({h} \cap Branches)] :
                 h \in Branches \cup {"detached"}}

LocalGitNext ==
  \/ Search \/ ReadStep
  \/ \E query \in {"", "HEAD"} \cup Branches : SearchEnds(query)
  \/ \E x \in offered.items : GetItemWithContent(x)
  \/ \E x \in DOMAIN offered.diffs : DiffArrives(x)
  \/ \E r \in Repositories : \E c \in Changed(checkouts[r]) : Checkout(r, c)
  \/ \E r \in Repositories : Forget(r)

LocalGitSpec == LocalGitInit /\ [][LocalGitNext]_localGitVars

-----------------------------------------------------------------------------
\* Of a repository that does not change during the search, and whose main branch is
\* not only known to the remote, a search for everything offers HEAD and every branch
\* but the one that is checked out, each of them once and only if there is nothing
\* that cannot be read (#getStaticOptionsForRepository, whose test says "should filter
\* out main if on main").
EveryBranchIsOffered ==
  (~offered.crossed /\ offered.query = ""
   /\ \A r \in ToSet(offered.order) : hasCommit(offered.checkouts[r])) =>
    \A r \in ToSet(offered.order) :
      LET c == offered.checkouts[r]
          titles == {x.branch : x \in {y \in offered.items : y.repository = r}}
      IN c.origin # "remote" =>
           /\ c.head # "detached" =>
                {Short(b) : b \in c.branches \ {c.head}} \cup {HEAD} \subseteq titles
           /\ Short(c.head) \notin titles
           /\ c.head = "detached" =>
                Cardinality({Short(b) : b \in c.branches} \ titles) <= 1
=============================================================================
