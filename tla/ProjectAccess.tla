---------------------------- MODULE ProjectAccess ----------------------------
(***************************************************************************)
(* src/common/services/duo_access: which projects of the workspace may use *)
(* Duo.  A change of the configuration clears the cache at once and fills  *)
(* it again after the folders have been walked and the instance been asked *)
(* about every remote; nothing keeps two refreshes apart.                  *)
(*                                                                         *)
(* A Git config file is [folder, root, remotes]; a remote is [host, path]. *)
(* Parsing a remote's url yields its host and path.                        *)
(***************************************************************************)
EXTENDS Naturals, FiniteSets

CONSTANTS
  Hosts,          \* the instances that the client may configure
  WorkspaceFolders,
  NameOf,         \* the name of each folder, which need not be unique
  GitConfigs,     \* the .git/config files
  Under(_, _),    \* Under(uri, root): the uri begins like the project's uri
  DuoEnabled,     \* by host: the paths of projects with Duo enabled
  MaxChanges      \* bound: notifications of the client

VARIABLES
  config,     \* the host, the folders, and how often they were changed
  access,     \* #duoProjects by folder
  refreshes   \* updateCache, between its awaits

accessVars == <<config, access, refreshes>>

Remotes == UNION {c.remotes : c \in GitConfigs}

AccessInit == /\ config \in [host : Hosts, folders : {WorkspaceFolders}, changes : {0}]
              /\ access = [projects |-> <<>>, asked |-> [host |-> "", folders |-> {}],
                           mixed |-> FALSE, failed |-> FALSE]
              /\ refreshes = {}

-----------------------------------------------------------------------------
\* parseKhulnaSoftRemote: remotes of other instances are not looked at.
parseRemotes(c, host) == {r \in c.remotes : r.host = host}

\* The deepest project whose directory the uri is in.
projectsOf(folder) == IF folder \in DOMAIN access.projects THEN access.projects[folder] ELSE {}
deepestProjects(uri, folder) ==
  LET in == {p \in projectsOf(folder) : Under(uri, p.root)}
  IN  {p \in in : ~\E q \in in : q.root # p.root /\ Under(q.root, p.root)}

\* Of several remotes of one repository the first one counts: any, here.
checkProjectStatus(uri, folder) ==
  LET ps == deepestProjects(uri, folder)
  IN  IF ps = {} THEN {"NonGitlabProject"}
      ELSE {IF p.enabled THEN "DuoEnabled" ELSE "DuoDisabled" : p \in ps}

-----------------------------------------------------------------------------
updateCacheKeeping(host, folders) ==   \* Mutant: the folders that went are not cleared.
  /\ access' = [access EXCEPT !.asked = [host |-> host, folders |-> folders],
                              !.mixed = refreshes # {}, !.failed = FALSE]
  /\ refreshes' = refreshes \cup
       {[id |-> config.changes, host |-> host, folders |-> folders,
        read |-> FALSE, remotes |-> {}]}

\* didChangeConfiguration: the configuration is merged and a refresh begins.
updateCache(host, folders) ==
  /\ access' = [access EXCEPT !.projects = <<>>, !.asked = [host |-> host, folders |-> folders],
                              !.mixed = refreshes # {}, !.failed = FALSE]
  /\ refreshes' = refreshes \cup
       {[id |-> config.changes, host |-> host, folders |-> folders,
        read |-> FALSE, remotes |-> {}]}

DidChangeConfiguration(host, folders) ==
  /\ config.changes < MaxChanges
  /\ config' = [host |-> host, folders |-> folders, changes |-> config.changes + 1]
  /\ updateCache(host, folders)

\* didChangeWorkspaceFolders: nothing is refreshed, and folders are removed by name.
DidChangeWorkspaceFolders(added, removed) ==
  /\ config.changes < MaxChanges
  /\ added \cap config.folders = {} /\ removed \subseteq config.folders /\ added \cup removed # {}
  /\ config' = [config EXCEPT !.changes = @ + 1,
       !.folders = {f \in @ : ~\E g \in removed : NameOf[g] = NameOf[f]} \cup added]
  /\ UNCHANGED <<access, refreshes>>

\* The folders are walked; a config file that cannot be read has no remotes.
gitlabRemotesForWorkspaceFolders(r, unreadable) ==
  {[folder |-> x[1].folder, root |-> x[1].root, path |-> x[2].path] : x \in
     {x \in (GitConfigs \ unreadable) \X Remotes :
        x[1].folder \in r.folders /\ x[2] \in parseRemotes(x[1], r.host)}}

FoldersWalked(r, unreadable) ==
  /\ ~r.read
  /\ refreshes' = (refreshes \ {r}) \cup
       {[r EXCEPT !.read = TRUE, !.remotes = gitlabRemotesForWorkspaceFolders(r, unreadable)]}
  /\ access' = [access EXCEPT !.failed = @ \/ unreadable # {}]
  /\ UNCHANGED config

\* The walk fails: logged, the cache stays empty.
WalkOfFoldersFails(r) ==
  /\ ~r.read
  /\ refreshes' = refreshes \ {r} /\ access' = [access EXCEPT !.failed = TRUE]
  /\ UNCHANGED config

\* The instance that is configured by now has answered for every project; one
\* that it could not answer for counts as enabled.
checkDuoFeaturesEnabled(path, failing) == path \in failing \cup DuoEnabled[config.host]

Refreshed(r, failing) ==
  /\ r.read /\ failing \subseteq {m.path : m \in r.remotes}
  /\ refreshes' = refreshes \ {r}
  /\ access' = [access EXCEPT
       !.failed = @ \/ failing # {},
       !.projects = [f \in DOMAIN @ \cup r.folders |->
          IF f \notin r.folders THEN @[f]
          ELSE {[root |-> m.root, enabled |-> checkDuoFeaturesEnabled(m.path, failing)] :
                  m \in {n \in r.remotes : n.folder = f}}]]
  /\ UNCHANGED config

AccessProceeds ==
  \E r \in refreshes :
    \/ \E cs \in SUBSET GitConfigs : FoldersWalked(r, cs)
    \/ WalkOfFoldersFails(r)
    \/ \E ps \in SUBSET {m.path : m \in Remotes} : Refreshed(r, ps)

ClientChanges ==
  \/ \E h \in Hosts, fs \in SUBSET WorkspaceFolders : DidChangeConfiguration(h, fs)
  \/ \E add, remove \in SUBSET WorkspaceFolders : DidChangeWorkspaceFolders(add, remove)

AccessNext == ClientChanges \/ AccessProceeds

AccessSpec == AccessInit /\ [][AccessNext]_accessVars

-----------------------------------------------------------------------------
\* The last refresh ran alone and nothing failed.
Settled == refreshes = {} /\ ~access.mixed /\ ~access.failed

\* What the instance and the folders of the last refresh have to say.
projectsFor(folder, host) ==
  {[root |-> x[1].root, enabled |-> x[2].path \in DuoEnabled[host]] : x \in
     {x \in GitConfigs \X Remotes : x[1].folder = folder /\ x[2] \in parseRemotes(x[1], host)}}

\* Unless refreshes overlapped or something could not be read, the cache says
\* of exactly the folders of the last configuration what its instance says:
\* no project of an earlier instance or folder is left in it.
AccessIsCurrent ==
  Settled => access.projects = [f \in access.asked.folders |-> projectsFor(f, access.asked.host)]
=============================================================================
