---------------------------- MODULE ContextItems ----------------------------
(***************************************************************************)
(* What the providers of open tabs, local files, merge requests and issues *)
(* find for the chat, and why an item of theirs is disabled: contents that *)
(* are binary, projects without Duo, and the policy that a folder states   *)
(* in .ai-context-policy.yml (DefaultFilePolicyProvider).                  *)
(*                                                                         *)
(* A query is empty or not; what it matches is all there is.               *)
(***************************************************************************)
EXTENDS Naturals, FiniteSets

CONSTANTS
  Folders, ContextFiles,
  FolderOf, PathOf,     \* by file: a folder or NoFolder, and the path in it
  NoFolder,
  Issuables, KindOf,    \* issues and merge requests
  SlicedTo,             \* MAX_SEARCH_RESULTS, and the limit of the services
  PolicyContents,       \* bound: contents of the file with the policy
  InitialContents,      \* bound: texts of the files at first
  MaxPolicyReads, MaxSelections   \* bounds

\* Contents: no file, one that cannot be read, one without text, one of comments only,
\* which is no mapping, and a mapping.
ASSUME PolicyContentsKnown ==
  \A content \in PolicyContents :
    content.is \in {"missing", "unreadable", "empty", "comments", "mapping"}

VARIABLES
  policyFiles,  \* by folder: what its policy file has
  policyReads,  \* by folder: reads of the policy on their way
  policy,       \* #policyType and #excludePatterns
  policySource, \* history: the content that was last read and states a policy
  contents,     \* by file: text, binary or unreadable
  disabledFolders, disabledIssuables,   \* of projects without Duo
  selectedIssuables,
  finding,      \* the search at work
  found         \* what the last search answered

itemVars == <<policyFiles, policyReads, policy, policySource, contents, disabledFolders,
              disabledIssuables, selectedIssuables, finding, found>>

-----------------------------------------------------------------------------
(* The policy.                                                             *)

NoFile == [is |-> "missing", type |-> "allow", exclude |-> {}]
DefaultPolicy == [type |-> "allow", exclude |-> {}]

\* Mutant: a file that has gone leaves its policy in force.
keepsThePolicy(content) ==
  IF content.is \in {"unreadable", "empty"} THEN DefaultPolicy
  ELSE IF content.is = "missing" THEN policy
  ELSE [type |-> content.type, exclude |-> content.exclude]

policyIn(content) ==
  IF content.is \in {"missing", "unreadable", "empty"} THEN DefaultPolicy
  ELSE [type |-> content.type, exclude |-> content.exclude]

isContextItemAllowed(p, f) ==
  /\ FolderOf[f] # NoFolder
  /\ IF p.type = "block" THEN PathOf[f] \in p.exclude ELSE PathOf[f] \notin p.exclude

\* The repositories of a folder were set.
PolicyInit(folder) ==
  /\ policyReads[folder] < MaxPolicyReads
  /\ policyReads' = [policyReads EXCEPT ![folder] = @ + 1]
  /\ UNCHANGED <<policyFiles, policy, policySource, contents, disabledFolders,
                 disabledIssuables, selectedIssuables, finding, found>>

\* One policy is kept for all folders.  Taking the keys of what is no mapping throws.
PolicyRead(folder) ==
  /\ policyReads[folder] > 0
  /\ policyReads' = [policyReads EXCEPT ![folder] = @ - 1]
  /\ LET content == policyFiles[folder]
     IN IF content.is = "comments" THEN UNCHANGED <<policy, policySource>>
        ELSE policy' = policyIn(content) /\ policySource' = content
  /\ UNCHANGED <<policyFiles, contents, disabledFolders, disabledIssuables,
                 selectedIssuables, finding, found>>

-----------------------------------------------------------------------------
(* Searches.                                                               *)

Idle == [category |-> "none", pending |-> {}, results |-> {}, stage |-> "none",
         items |-> {}, crossed |-> FALSE, selections |-> 0]
NoResult == [category |-> "none", items |-> {}, crossed |-> FALSE, source |-> NoFile]
\* slice(0, MAX_SEARCH_RESULTS): some of the results, up to the limit.
slices(results) == {s \in SUBSET results : Cardinality(s) <= SlicedTo}

Entry(x, enabled) == [of |-> x, enabled |-> enabled]
known == <<policyFiles, policyReads, policy, policySource, contents, disabledFolders,
           disabledIssuables, selectedIssuables>>

Answered(category, items, crossed) ==
  /\ found' = [category |-> category, items |-> items, crossed |-> crossed,
                source |-> policySource]
  /\ finding' = Idle
  /\ UNCHANGED known

\* Open tabs are only found by an empty query.  All is known at once.
tabItem(f) ==
  Entry(f, /\ contents[f] # "binary"
           /\ FolderOf[f] \notin disabledFolders
           /\ isContextItemAllowed(policy, f))

SearchOpenTabs ==
  /\ finding = Idle
  /\ Answered("open_tab", {tabItem(f) : f \in ContextFiles}, FALSE)

SearchBegins(category) ==
  /\ finding = Idle
  /\ finding' = [Idle EXCEPT
       !.category = category, !.stage = "asked",
       !.pending = {f \in ContextFiles : category = "file" /\ FolderOf[f] # NoFolder}]
  /\ found' = NoResult
  /\ UNCHANGED known

\* isBinaryFile: a file that cannot be read is taken for binary.
isBinaryFile(f) == contents[f] # "text"
localItem(f) == Entry(f, ~isBinaryFile(f) /\ FolderOf[f] \notin disabledFolders)

LocalFileRead(f) ==
  /\ finding.category = "file" /\ f \in finding.pending
  /\ finding' = [finding EXCEPT !.pending = @ \ {f}, !.items = @ \cup {localItem(f)}]
  /\ UNCHANGED <<known, found>>
LocalFilesFound ==
  /\ finding.category = "file" /\ finding.pending = {}
  /\ Answered("file", finding.items, finding.crossed)

\* The search of the instance is cut to the limit; of merge requests those are left out
\* that are selected already.
notSelected(category, results) ==
  {x \in results : category = "merge_request" => x \notin selectedIssuables}

IssuablesArrive ==
  /\ finding.category \in {"merge_request", "issue"} /\ finding.stage = "asked"
  /\ \E results \in slices({x \in Issuables : KindOf[x] = finding.category}) :
       finding' = [finding EXCEPT
         !.results = notSelected(finding.category, results),
         !.stage = "projects", !.crossed = FALSE]
  /\ UNCHANGED <<known, found>>

\* The projects that they belong to are known.  (The provider cuts once more to the same
\* limit, which leaves all there are.)
ProjectStatusesArrive ==
  /\ finding.stage = "projects"
  /\ Answered(finding.category,
              {Entry(x, x \notin disabledIssuables) : x \in finding.results},
              finding.crossed)

\* Either request fails: nothing was found.
IssuablesFail ==
  /\ finding.category \in {"merge_request", "issue"}
  /\ Answered(finding.category, {}, finding.crossed)

-----------------------------------------------------------------------------
(* What the user does meanwhile.                                           *)

\* An item is selected, or removed, during a search, one at a time.
SelectIssuable(x) ==
  /\ finding.selections < MaxSelections /\ finding # Idle
  /\ \/ x \in selectedIssuables /\ selectedIssuables' = selectedIssuables \ {x}
     \/ selectedIssuables = {} /\ selectedIssuables' = {x}
  /\ finding' = [finding EXCEPT !.crossed = TRUE, !.selections = @ + 1]
  /\ UNCHANGED <<policyFiles, policyReads, policy, policySource, contents, disabledFolders,
                 disabledIssuables, found>>

\* A file with a policy is written while nothing is searched for.
PolicyWritten(folder) ==
  /\ finding = Idle
  /\ \E content \in PolicyContents : policyFiles' = [policyFiles EXCEPT ![folder] = content]
  /\ UNCHANGED <<policyReads, policy, policySource, contents, disabledFolders,
                 disabledIssuables, selectedIssuables, finding>>
  /\ found' = NoResult

ItemsInit ==
  /\ policyFiles = [folder \in Folders |-> NoFile]
  /\ policyReads = [folder \in Folders |-> 0]
  /\ policy = DefaultPolicy /\ policySource = NoFile
  /\ contents \in InitialContents
  /\ disabledFolders \in SUBSET Folders
  /\ disabledIssuables \in {{}, {CHOOSE x \in Issuables : TRUE}}
  /\ selectedIssuables = {}
  /\ finding = Idle /\ found = NoResult

ItemsNext ==
  \/ \E folder \in Folders : PolicyInit(folder) \/ PolicyRead(folder) \/ PolicyWritten(folder)
  \/ SearchOpenTabs
  \/ \E category \in {"file", "merge_request", "issue"} : SearchBegins(category)
  \/ \E f \in ContextFiles : LocalFileRead(f)
  \/ LocalFilesFound \/ IssuablesArrive \/ ProjectStatusesArrive \/ IssuablesFail
  \/ \E x \in Issuables : SelectIssuable(x)
ItemsSpec == ItemsInit /\ [][ItemsNext]_itemVars

-----------------------------------------------------------------------------
\* What the content of a policy file means for a path: all but those listed, or, for a
\* policy that blocks, only those.
permits(content, path) ==
  content.is = "mapping" =>
    IF content.type = "block" THEN path \in content.exclude ELSE path \notin content.exclude

\* An open tab is enabled if and only if it is text of a folder whose project has Duo, and
\* the policy file that was read last permits it, however reads of folders, files that go
\* and files that are no mapping came before (DefaultFilePolicyProvider.init,
\* #getOpenFiles); and a merge request that the user selected before the search's results
\* came is not offered again.
ItemsAreThosePermitted ==
  /\ found.category = "open_tab" =>
       \A e \in found.items :
         LET f == e.of
         IN e.enabled <=> /\ contents[f] # "binary" /\ FolderOf[f] # NoFolder
                          /\ FolderOf[f] \notin disabledFolders
                          /\ permits(found.source, PathOf[f])
  /\ (found.category = "merge_request" /\ ~found.crossed) =>
       {e.of : e \in found.items} \cap selectedIssuables = {}
=============================================================================
