----------------------------- MODULE MCServices -----------------------------
(***************************************************************************)
(* What the chat offers as context (the diffs of the repositories, the     *)
(* libraries of the projects, tabs, files, merge requests and issues), how *)
(* the server starts, and what it knows of its account.  A behaviour       *)
(* follows one of them, its focus.                                         *)
(*                                                                         *)
(* They keep their names, as their proofs state them (see WorkspaceProofs  *)
(* and InstanceProofs).                                                    *)
(***************************************************************************)
EXTENDS FeatureFlags, ServerConnection, ContextItems, LocalGit, DependencyScan, TLC

VARIABLE focus

-----------------------------------------------------------------------------
\* Two repositories with a branch of the same name.
checkout(h, bs, o) == [head |-> h, branches |-> bs, origin |-> o, default |-> "main"]
MCInitialCheckouts ==
  {"r1" :> checkout(h, bs, o) @@ "r2" :> checkout("main", {"main", "topic"}, "ref") :
     h \in Branches \cup {"detached"}, bs \in {{"topic"}, Branches},
     o \in {"none", "ref", "remote", "unreachable", "unreadable"}}

\* A file of the types that differ with up to three lines, five of a csharp project, and
\* another in the same repository.
MCRepositoryOf == [f1 |-> "r1", f2 |-> "r1"]
line(is, name) == [is |-> is, name |-> name]
these(kinds, names) == {line(is, name) : is \in kinds, name \in names}
libraries == these({"library"}, {"l1", "l2"})
ends == {line(is, is) : is \in {"start", "bracket", "blank", "header", "comment"}}
LinesOf ==
  [t \in {"ruby", "poetry", "conantxt"} |-> libraries \cup ends]
  @@ [t \in {"go", "gradle"} |-> these({"library", "single"}, {"l1", "l2"}) \cup ends]
  @@ "conanpy" :> these({"library", "single", "call"}, {"l1", "l2"}) \cup ends
  @@ "conda" :> libraries \cup these({"nested"}, {"l1"}) @@ "php" :> libraries
  @@ "csharp" :> libraries \cup these({"start"}, {""}) @@ "none" :> libraries
files(t, lines) ==
  [f1 |-> [type |-> t, lines |-> lines, readable |-> TRUE],
   f2 |-> [type |-> "pip", lines |-> <<line("library", "l3")>>, readable |-> TRUE]]
upTo(n, lines) == UNION {[1 .. k -> lines] : k \in 0 .. n}
MCInitialFiles ==
  {files(s[1], s[2]) : s \in
     UNION {{t} \X upTo(IF t = "csharp" THEN 5 ELSE 3, LinesOf[t]) : t \in DOMAIN LinesOf}}

\* Two folders, a file in each, and one that is in none.
MCFolderOf == [c1 |-> "F", c2 |-> "G", c3 |-> NoFolder]
MCPathOf == [c1 |-> "p1", c2 |-> "p2", c3 |-> "p1"]
MCKindOf == [m1 |-> "merge_request", m2 |-> "merge_request", i1 |-> "issue"]
content(is, type, exclude) == [is |-> is, type |-> type, exclude |-> exclude]
MCPolicyContents ==
  {content("missing", "allow", {}), content("comments", "allow", {}),
   content("mapping", "allow", {"p1"}), content("mapping", "block", {"p2"})}
texts(t) == [c1 |-> t, c2 |-> "text", c3 |-> "text"]
MCInitialContents == {texts(t) : t \in {"text", "binary", "unreadable"}}

InstanceFlags ==
  <<"advanced_context_resolver", "code_suggestions_context", "duo_additional_context">>

-----------------------------------------------------------------------------
hostVars == <<connectionVars, flagsVars>>
vars == <<focus, localGitVars, dependencyVars, itemVars, hostVars>>

\* A part that is not followed has one initial state.
Init ==
  /\ focus \in {"git", "dependencies", "items", "connection", "flags"}
  /\ \/ focus = "git" /\ disabled \in {{}, {"r1"}}
     \/ /\ focus # "git" /\ disabled = {} /\ repositories = <<"r1", "r2">>
        /\ checkouts \in {c \in InitialCheckouts : c["r1"] = checkout("main", Branches, "none")}
  /\ \/ focus = "dependencies"
     \/ focus # "dependencies" /\ disabledRepositories = {} /\ sources = files("none", <<>>)
  /\ \/ focus = "items" /\ disabledFolders \in {{}, {"F"}}
     \/ focus # "items" /\ disabledFolders = {} /\ disabledIssuables = {}
                        /\ contents = texts("text")
  /\ LocalGitInit /\ DependencyInit /\ ItemsInit /\ ConnectionInit /\ FlagsInit

OfGit(step) == focus = "git" /\ step /\ UNCHANGED <<focus, dependencyVars, itemVars, hostVars>>
OfDependencies(step) ==
  focus = "dependencies" /\ step /\ UNCHANGED <<focus, localGitVars, itemVars, hostVars>>
OfItems(step) ==
  focus = "items" /\ step /\ UNCHANGED <<focus, localGitVars, dependencyVars, hostVars>>
OfConnection(step) ==
  focus = "connection" /\ step /\ UNCHANGED <<focus, localGitVars, dependencyVars, itemVars, flagsVars>>
OfFlags(step) ==
  focus = "flags" /\ step
    /\ UNCHANGED <<focus, localGitVars, dependencyVars, itemVars, connectionVars>>

Next ==
  \/ OfGit(LocalGitNext) \/ OfDependencies(DependencyNext) \/ OfItems(ItemsNext)
  \/ OfConnection(ConnectionNext) \/ OfFlags(FlagsNext)
Spec == Init /\ [][Next]_vars
=============================================================================
