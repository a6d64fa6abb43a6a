---------------------------- MODULE Repositories ----------------------------
(***************************************************************************)
(* src/common/services/fs and services/git: the virtual file system, which *)
(* walks a workspace folder and passes on the watcher's file events, and   *)
(* the repository service, which keeps the files of every Git repository   *)
(* of the folder with what .gitignore says of them.                        *)
(*                                                                         *)
(* There is one workspace folder.  A uri is a value; how uris contain each *)
(* other, and which of them merely begin with the same characters, are     *)
(* constants.  A walk of a directory reads the disk when it begins and is  *)
(* answered later.  The exclude file and the ignore status of directories  *)
(* are left out.                                                           *)
(***************************************************************************)
EXTENDS Naturals, FiniteSets, Sequences, SequencesExt

CONSTANTS
  Folder,        \* the uri of the workspace folder
  Files, Dirs,   \* uris of files and of directories
  Below,         \* by directory: the uris in it, at any depth
  SamePrefix,    \* by directory: the uris that begin with its characters only
  ConfigOf,      \* by directory that can be a repository: its .git/config
  IndexOf,       \* likewise: its .git/index
  IgnoreFiles,   \* the .gitignore files
  Hides, Shows,  \* by .gitignore: the files that it ignores, or un-ignores
  InitialDisks,  \* what may be on disk at the start
  MaxInputs      \* bound: changes of the disk, and configurations

Configs == Range(ConfigOf)
InGitFolder == Configs \cup Range(IndexOf)

ASSUME UrisAreTree ==
  /\ IsFiniteSet(Files \cup Dirs) /\ Files \cap Dirs = {}
  /\ DOMAIN Below = Dirs /\ DOMAIN SamePrefix = Dirs
  /\ \A d \in Dirs :
       /\ Below[d] \subseteq Files \cup Dirs /\ d \notin Below[d]
       /\ \A e \in Dirs : e \in Below[d] => Below[e] \subseteq Below[d]
       /\ \A e \in Dirs : e \in SamePrefix[d] => Below[e] \subseteq SamePrefix[d]
       /\ \A e \in Dirs : Below[d] \cap Below[e] # {} =>
            d = e \/ d \in Below[e] \/ e \in Below[d]

ASSUME GitFilesAreFiles ==
  /\ IgnoreFiles \subseteq Files /\ InitialDisks \subseteq SUBSET Files
  /\ DOMAIN ConfigOf \subseteq Dirs /\ DOMAIN IndexOf \subseteq DOMAIN ConfigOf
  /\ \A r \in DOMAIN ConfigOf : ConfigOf[r] \in Files \cap Below[r]
  /\ \A r \in DOMAIN IndexOf : IndexOf[r] \in Files \cap Below[r]
  /\ Range(IndexOf) \cap (Configs \cup IgnoreFiles) = {}

VARIABLES
  disk,     \* the files, those that the index of a root tracks, and how often they changed
  vfs,      \* the virtual file system
  queue,    \* #fileChangeQueue: events, and whether it is paused
  jobs,     \* the handling of the event at work, between two awaits
  sets,     \* walks of the folder and the #setWorkspaceRepositories that follow them
  setQueue, \* the queue that #setWorkspaceRepositoriesQueueMap has, and how many there were
  repos,    \* the repositories of the folder by their root
  stale     \* history: files of which the service may have missed something

repositoriesVars == <<disk, vfs, queue, jobs, sets, setQueue, repos, stale>>

\* The client has just configured the folder.
RepositoriesInit ==
  /\ \E files \in InitialDisks : disk = [files |-> files, index |-> {}, changes |-> 0]
  /\ vfs = [configured |-> TRUE, initialized |-> FALSE, setups |-> 1, asked |-> 0,
            registering |-> 0, listeners |-> 0, mine |-> FALSE]
  /\ queue = [events |-> <<>>, paused |-> FALSE]
  /\ jobs = {} /\ sets = <<>> /\ setQueue = [current |-> 0, made |-> 0]
  /\ repos = <<>> /\ stale = {}

-----------------------------------------------------------------------------
\* What was missed of a uri, or below it; on a .gitignore or an index anything depends.
affected(uris) ==
  LET below == uris \cup UNION {Below[d] : d \in uris \cap Dirs}
  IN  IF below \cap (IgnoreFiles \cup Range(IndexOf)) # {} THEN Files ELSE Files \cap below

\* Walks and sets that are not over yet would not know of these uris either.
missing(s, uris) == [i \in DOMAIN s |-> [s[i] EXCEPT !.missed = @ \cup affected(uris)]]
miss(uris) == stale' = stale \cup affected(uris) /\ sets' = missing(sets, uris)

\* The folder's files are read anew, outside the queue of file events.
Reading == \E i \in DOMAIN sets : sets[i].by = "vfs"

-----------------------------------------------------------------------------
\* One repository: which files are in it, which of them were found ignored when
\* they were set, its directories, its ignore rules and the tracked files.
newRepository ==
  [files |-> {}, ignored |-> {}, dirs |-> {}, rules |-> {}, tracked |-> {}]

\* The last of the .gitignore files, from shallow to deep, that knows the file.
ignores(rules, f) ==
  \E g \in rules : f \in Hides[g] /\ \A h \in rules \ {g} :
     f \in Shows[h] => \E d \in Dirs : g \in Below[d] /\ h \notin Below[d]

\* Whether a file is ignored when it is set: tracked files never are.
isFileIgnored(repo, f) == f \notin repo.tracked /\ ignores(repo.rules, f)

\* setFile with its directories, for a set of files.
setFiles(repo, root, fs) ==
  [repo EXCEPT
     !.files = @ \cup fs,
     !.ignored = (@ \ fs) \cup {f \in fs : isFileIgnored(repo, f)},
     !.dirs = @ \cup {d \in Dirs \cap Below[root] : fs \cap Below[d] # {}}]

\* getCurrentTreeFiles without ignored files.
visible(repo) == repo.files \ (repo.ignored \ repo.tracked)

removeFile(repo, f) == [repo EXCEPT !.files = @ \ {f}]

removeFilesUnderDirectory(repo, d) ==
  LET under == Below[d] \cup SamePrefix[d] \cup {d}
  IN  [repo EXCEPT !.files = @ \ under, !.dirs = @ \ under]

\* The roots that the uri is in; the matcher answers from shallow to deep.
matching(roots, uri) == {r \in roots : uri \in Below[r] \cup {r}}
matchingRepository(roots, uri) ==
  CHOOSE r \in matching(roots, uri) : matching(roots, uri) \cap Below[r] = {}

\* What a client of the service is shown of the folder.
getCurrentFilesForWorkspace == UNION {visible(repos[r]) : r \in DOMAIN repos}

getFilesByRepositories(files, roots) ==
  [r \in roots |->
     {f \in files : matching(roots, f) # {} /\ matchingRepository(roots, f) = r}]

\* git.listFiles.
getTrackedFiles(root) == {f \in Files : <<root, f>> \in disk.index}

\* setupGitForRepository, and the files added after it.  A .gitignore of the
\* list that cannot be read leaves the repository without files.
readable(list) == list \cap IgnoreFiles \subseteq disk.files
setUp(repo, root, list) ==
  IF readable(list)
  THEN setFiles([repo EXCEPT !.rules = list \cap IgnoreFiles,
                             !.tracked = getTrackedFiles(root)], root, list)
  ELSE repo

-----------------------------------------------------------------------------
(* The disk and its watcher.                                               *)

heard == vfs.configured /\ vfs.listeners > 0

\* A change is delivered once to every listener that is registered.
event(type, uri, lost) ==
  /\ queue' = [queue EXCEPT !.events =
       @ \o [i \in 1..(IF heard THEN vfs.listeners ELSE 0) |-> [type |-> type, uri |-> uri]]]
  /\ miss(IF heard THEN lost ELSE lost \cup {uri})

changes(files, index) ==
  /\ disk.changes + vfs.asked < MaxInputs
  /\ disk' = [files |-> files, index |-> index, changes |-> disk.changes + 1]
  /\ UNCHANGED <<vfs, jobs, setQueue, repos>>

CreateFile(f) ==
  /\ f \notin disk.files /\ changes(disk.files \cup {f}, disk.index) /\ event("Created", f, {})
DeleteFile(f) ==
  /\ f \in disk.files /\ changes(disk.files \ {f}, disk.index) /\ event("Deleted", f, {})
ChangeFile(f) ==
  /\ f \in disk.files /\ changes(disk.files, disk.index) /\ event("Changed", f, {})

\* A directory is moved in with files, or deleted: one event for all of it.
CreateDirectory(d, fs) ==
  /\ fs # {} /\ disk.files \cap Below[d] = {}
  /\ changes(disk.files \cup fs, disk.index) /\ event("Created", d, {})
DeleteDirectory(d) ==
  LET untracked == {entry \in disk.index : IndexOf[entry[1]] \in Below[d]}
  IN  /\ disk.files \cap Below[d] # {}
      /\ changes(disk.files \ Below[d], disk.index \ untracked)
      /\ event("Deleted", d, {entry[2] : entry \in untracked})

\* git add, and git rm --cached, which an ignored file survives unnoticed.  Both
\* write the index.
rootsOnDisk == {r \in DOMAIN ConfigOf : ConfigOf[r] \in disk.files}
writes(root, index, lost) ==
  /\ changes(disk.files \cup {IndexOf[root]}, index)
  /\ event(IF IndexOf[root] \in disk.files THEN "Changed" ELSE "Created", IndexOf[root], lost)
Stage(root, f) ==
  /\ f \in (disk.files \cap Below[root]) \ InGitFolder /\ <<root, f>> \notin disk.index
  /\ root \in rootsOnDisk /\ matchingRepository(rootsOnDisk, f) = root
  /\ writes(root, disk.index \cup {<<root, f>>}, {})
Unstage(root, f) ==
  /\ root \in rootsOnDisk /\ <<root, f>> \in disk.index
  /\ writes(root, disk.index \ {<<root, f>>}, {f})

-----------------------------------------------------------------------------
(* The virtual file system.                                                *)

Configure(present) ==
  /\ disk.changes + vfs.asked < MaxInputs
  /\ vfs' = [vfs EXCEPT !.configured = present, !.setups = @ + 1, !.asked = @ + 1]
  /\ UNCHANGED <<disk, queue, jobs, sets, setQueue, repos, stale>>

\* A walk of the folder, and the set that follows.  Whoever awaits it (holds) is
\* handling a file event.
walk(by) == [by |-> by, stage |-> "walking", holds |-> by = "event", q |-> 0,
             files |-> disk.files, missed |-> {}, todo |-> {}]

handleWorkspaceFolderStateChange == walk("event")

\* The rest of setup(), once the feature flags are known: the folder is walked
\* if it is new, and the watcher registered anew.
SetUp ==
  /\ vfs.setups > 0
  /\ vfs' = [vfs EXCEPT
       !.setups = @ - 1, !.initialized = vfs.configured,
       !.listeners = IF vfs.mine THEN @ - 1 ELSE @, !.mine = FALSE,
       !.registering = @ + 1]
  /\ sets' = IF vfs.configured /\ ~vfs.initialized THEN Append(sets, walk("vfs")) ELSE sets
  /\ UNCHANGED <<disk, queue, jobs, setQueue, repos, stale>>

\* The client answers the registration, or it fails.
Registered ==
  /\ vfs.registering > 0
  /\ vfs' = [vfs EXCEPT !.registering = @ - 1, !.listeners = @ + 1, !.mine = TRUE]
  /\ UNCHANGED <<disk, queue, jobs, sets, setQueue, repos, stale>>
RegistrationFails ==
  /\ vfs.registering > 0 /\ vfs' = [vfs EXCEPT !.registering = @ - 1]
  /\ UNCHANGED <<disk, queue, jobs, sets, setQueue, repos, stale>>

\* #queueSetWorkspaceRepositories: before a set has ended, every call makes its
\* own queue.
newQueue == IF setQueue.current = 0 THEN setQueue.made + 1 ELSE setQueue.current

FolderWalked(i) ==
  /\ sets[i].stage = "walking"
  /\ sets' = Append(RemoveAt(sets, i), [sets[i] EXCEPT !.stage = "queued", !.q = newQueue])
  /\ setQueue' = [setQueue EXCEPT !.made = IF newQueue > @ THEN newQueue ELSE @]
  /\ UNCHANGED <<disk, vfs, queue, jobs, repos, stale>>
\* A failure is logged; the folder counts as initialized.
WalkFails(i) ==
  /\ sets[i].stage = "walking" /\ sets[i].by = "vfs"
  /\ sets' = RemoveAt(sets, i)
  /\ UNCHANGED <<disk, vfs, queue, jobs, setQueue, repos, stale>>

-----------------------------------------------------------------------------
(* #setWorkspaceRepositories.                                              *)

\* A repository is where a .git/config is.
detectRepositories(files) == {r \in DOMAIN ConfigOf : ConfigOf[r] \in files}

\* What is at work on the repositories that are cleared goes on unseen.
clearRepositoriesForWorkspace ==
  jobs' = {IF j.pc = "lstat" THEN [j EXCEPT !.root = "gone"] ELSE j : j \in jobs}

addRepositoriesToWorkspace(roots) == repos' = [r \in roots |-> newRepository]

\* The repositories are replaced at once.
SetStarts(i) ==
  /\ sets[i].stage = "queued" /\ \A j \in 1..(i - 1) : sets[j].q # sets[i].q
  /\ queue' = [queue EXCEPT !.paused = TRUE]
  /\ clearRepositoriesForWorkspace
  /\ LET roots == detectRepositories(sets[i].files)
     IN  /\ addRepositoriesToWorkspace(roots)
         /\ sets' = [j \in DOMAIN sets |->
              IF j = i THEN [sets[j] EXCEPT !.stage = "building", !.todo = roots]
              ELSE IF sets[j].stage = "building" THEN [sets[j] EXCEPT !.todo = {}] ELSE sets[j]]
  /\ stale' = sets[i].missed \cup (stale \cap affected({e.uri : e \in Range(queue.events)}))
  /\ UNCHANGED <<disk, vfs, setQueue>>

RepositoryIsSetUp(i, root) ==
  /\ root \in sets[i].todo
  /\ LET list == getFilesByRepositories(sets[i].files, DOMAIN repos)[root]
     IN  /\ repos' = [repos EXCEPT ![root] = setUp(@, root, list)]
         /\ stale' = IF readable(list) THEN stale ELSE Files
  /\ sets' = [sets EXCEPT ![i].todo = @ \ {root}]
  /\ UNCHANGED <<disk, vfs, queue, jobs, setQueue>>

started(q) == [q EXCEPT !.paused = FALSE]

SetEnds(i) ==
  /\ sets[i].stage = "building" /\ sets[i].todo = {}
  /\ sets' = [j \in DOMAIN RemoveAt(sets, i) |->
       [RemoveAt(sets, i)[j] EXCEPT
          !.holds = @ \/ (sets[i].holds /\ RemoveAt(sets, i)[j].q = sets[i].q)]]
  /\ setQueue' = [setQueue EXCEPT !.current = sets[i].q]
  /\ queue' = started(queue)
  /\ UNCHANGED <<disk, vfs, jobs, repos, stale>>

-----------------------------------------------------------------------------
(* #handleWorkspaceFileUpdate, one event at a time.                        *)

job(pc, uri, root) == [pc |-> pc, uri |-> uri, root |-> root, files |-> disk.files]

matched(uri) == matching(DOMAIN repos, uri) # {}
repositoryOf(uri) == matchingRepository(DOMAIN repos, uri)
knownDirectory(uri) == uri \in repos[repositoryOf(uri)].dirs

\* What a deleted directory takes with it.
swept(d) == repos[repositoryOf(d)].files \cap (Below[d] \cup SamePrefix[d])

isStateChangeOfConfig(type, uri) ==   \* Mutant: a .gitignore is a file like others.
  matched(uri) /\ uri \in Configs \cup DOMAIN repos

\* The folder is set anew for a change of .git/config or .gitignore, of a root,
\* and for a deleted directory that held one.
isStateChange(type, uri) ==
  /\ matched(uri)
  /\ \/ uri \in Configs \cup IgnoreFiles \cup DOMAIN repos
     \/ type = "Deleted" /\ knownDirectory(uri) /\ swept(uri) \cap (Configs \cup IgnoreFiles) # {}

\* The awaits that begin with another event: an lstat, and the list of tracked
\* files (debounced, nobody waits for it).
begun(type, uri) ==
  IF ~matched(uri) \/ isStateChange(type, uri) THEN {}
  ELSE {job("refresh", uri, r) : r \in {q \in DOMAIN IndexOf \cap DOMAIN repos : uri = IndexOf[q]}}
         \cup IF type = "Created" THEN {job("lstat", uri, repositoryOf(uri))} ELSE {}

\* The repositories after an event that needs no await.
updated(type, uri) ==
  IF ~matched(uri) \/ uri \in Configs \cup IgnoreFiles \cup DOMAIN repos \/ type = "Created"
  THEN repos
  ELSE [repos EXCEPT ![repositoryOf(uri)] =
          IF type = "Changed" THEN setFiles(@, repositoryOf(uri), {uri})
          ELSE IF uri \in @.dirs THEN removeFilesUnderDirectory(@, uri)
          ELSE removeFile(@, uri)]

\* Files of which the event of a directory leaves a wrong account: those that only
\* share the prefix of a deleted one, and those of repositories in it; the service
\* passes over a directory that is in no repository, whatever repositories it has.
mistaken(type, uri) ==
  IF uri \notin Dirs THEN {}
  ELSE IF ~matched(uri) THEN IF DOMAIN repos \cap Below[uri] = {} THEN {} ELSE {uri}
  ELSE IF type # "Deleted" THEN {}
  ELSE (IF knownDirectory(uri) THEN swept(uri) \cap SamePrefix[uri] ELSE {})
         \cup UNION {repos[r].files : r \in DOMAIN repos \cap Below[uri]}

AtWork == (\E j \in jobs : j.pc # "refresh") \/ (\E i \in DOMAIN sets : sets[i].holds)

TakeEvent ==
  /\ ~queue.paused /\ ~AtWork /\ queue.events # <<>>
  /\ LET e == Head(queue.events)
         lost == mistaken(e.type, e.uri) \cup (IF Reading THEN {e.uri} ELSE {})
     IN  /\ repos' = updated(e.type, e.uri) /\ jobs' = jobs \cup begun(e.type, e.uri)
         /\ stale' = stale \cup affected(lost)
         /\ sets' = missing(sets, lost)
                      \o (IF isStateChange(e.type, e.uri)
                          THEN <<handleWorkspaceFolderStateChange>> ELSE <<>>)
  /\ queue' = [queue EXCEPT !.events = Tail(@)]
  /\ UNCHANGED <<disk, vfs, setQueue>>

\* lstat answers; the repository may have been replaced meanwhile.
FileCreated(j) ==
  /\ j.pc = "lstat" /\ j.uri \notin Dirs
  /\ jobs' = jobs \ {j}
  /\ miss(IF j.root = "gone" \/ Reading THEN {j.uri} ELSE {})
  /\ repos' = IF j.root # "gone" /\ j.uri \in disk.files
              THEN [repos EXCEPT ![j.root] = setFiles(@, j.root, {j.uri})] ELSE repos
  /\ UNCHANGED <<disk, vfs, queue, setQueue>>
DirectoryCreated(j) ==
  /\ j.pc = "lstat" /\ j.uri \in Dirs
  /\ jobs' = (jobs \ {j}) \cup {job("walk", j.uri, j.root)}
  /\ UNCHANGED <<disk, vfs, queue, sets, setQueue, repos, stale>>

\* Every file of a directory that was created is handled as created, all at the
\* same time.
DirectoryWalked(j) ==
  /\ j.pc = "walk"
  /\ LET files == j.files \cap Below[j.uri]
         states == {f \in files : isStateChange("Created", f)}
     IN  /\ jobs' = (jobs \ {j}) \cup UNION {begun("Created", f) : f \in files}
         /\ sets' = missing(sets, IF Reading THEN {j.uri} ELSE {})
                      \o [i \in 1..Cardinality(states) |-> handleWorkspaceFolderStateChange]
         /\ stale' = stale \cup affected(IF Reading THEN {j.uri} ELSE {})
  /\ UNCHANGED <<disk, vfs, queue, setQueue, repos>>

RefreshTrackedFiles(j) ==
  /\ j.pc = "refresh" /\ jobs' = jobs \ {j}
  /\ repos' = IF j.root \in DOMAIN repos
              THEN [repos EXCEPT ![j.root].tracked = getTrackedFiles(j.root)] ELSE repos
  /\ UNCHANGED <<disk, vfs, queue, sets, setQueue, stale>>

-----------------------------------------------------------------------------
DiskChanges ==
  \/ \E f \in Files \ Range(IndexOf) : CreateFile(f) \/ DeleteFile(f) \/ ChangeFile(f)
  \/ \E d \in Dirs \ {Folder} :
       DeleteDirectory(d) \/ \E fs \in SUBSET (Files \cap Below[d]) : CreateDirectory(d, fs)
  \/ \E root \in DOMAIN IndexOf, f \in Files : Stage(root, f) \/ Unstage(root, f)

Proceed ==
  \/ SetUp \/ Registered \/ RegistrationFails
  \/ \E i \in DOMAIN sets :
       \/ FolderWalked(i) \/ WalkFails(i) \/ SetStarts(i) \/ SetEnds(i)
       \/ \E root \in sets[i].todo : RepositoryIsSetUp(i, root)
  \/ TakeEvent
  \/ \E j \in jobs : \/ FileCreated(j) \/ DirectoryCreated(j) \/ DirectoryWalked(j)
                     \/ RefreshTrackedFiles(j)

RepositoriesNext == DiskChanges \/ (\E present \in BOOLEAN : Configure(present)) \/ Proceed

RepositoriesSpec == RepositoriesInit /\ [][RepositoriesNext]_repositoriesVars

-----------------------------------------------------------------------------
AtRest ==
  /\ queue.events = <<>> /\ jobs = {} /\ sets = <<>>
  /\ vfs.setups = 0 /\ vfs.registering = 0

\* "the SSOT (Single Source of Truth) for repository state in a workspace": at
\* rest, a repository has the files that are on disk, and shows those that it
\* tracks or that no .gitignore of it ignores.  Except for files that changed
\* while nothing was listening, while the virtual file system read the folder,
\* that were un-tracked, that the event of a directory was mistaken about, or whose
\* repository could not be set up.
SingleSourceOfTruth ==
  AtRest => \A f \in Files \ stale : matched(f) =>
    LET root == repositoryOf(f)
        rules == {g \in IgnoreFiles \cap disk.files : matching(DOMAIN repos, g) # {}
                                                     /\ repositoryOf(g) = root}
    IN  /\ \A r \in DOMAIN repos : f \in repos[r].files <=> r = root /\ f \in disk.files
        /\ f \in getCurrentFilesForWorkspace
             <=> f \in disk.files /\ (<<root, f>> \in disk.index \/ ~ignores(rules, f))

=============================================================================
