----------------------------- MODULE MCWorkspace -----------------------------
(***************************************************************************)
(* What the server knows of the client's workspace: the repositories and   *)
(* their files, the open tabs and the projects they belong to, the context *)
(* that the user selects.  They share no variable, so that a behaviour     *)
(* follows one of them, its focus; interleaving them would only multiply   *)
(* their states.                                                           *)
(*                                                                         *)
(* They keep their names, as their proofs state them (see                  *)
(* WorkspaceProofs).                                                       *)
(***************************************************************************)
EXTENDS Repositories, AdvancedContext, AiContext, TLC

VARIABLE focus

-----------------------------------------------------------------------------
\* Folder w is a repository, and so is w/x/r; w/lib.ts begins like w/lib.
MCFiles == {"w/.git/config", "w/.git/index", "w/.gitignore", "w/lib/a", "w/lib.ts",
            "w/x/r/.git/config"}
MCDirs == {"w", "w/lib", "w/x", "w/x/r"}
MCBelow ==
  "w" :> (MCFiles \cup MCDirs) \ {"w"} @@ "w/lib" :> {"w/lib/a"}
   @@ "w/x" :> {"w/x/r", "w/x/r/.git/config"} @@ "w/x/r" :> {"w/x/r/.git/config"}
MCSamePrefix == [d \in MCDirs |-> IF d = "w/lib" THEN {"w/lib.ts"} ELSE {}]
MCConfigOf == "w" :> "w/.git/config" @@ "w/x/r" :> "w/x/r/.git/config"
MCIndexOf == "w" :> "w/.git/index"
MCHides == "w/.gitignore" :> {"w/lib/a", "w/lib.ts"}
MCShows == "w/.gitignore" :> {}
MCInitialDisks == {MCFiles \ {"w/lib/a"}}

\* Two instances, two folders of the same name, a project in another one.
MCNameOf == [f \in WorkspaceFolders |-> "src"]
remote(h, p) == [host |-> h, path |-> p]
MCGitConfigs == {[folder |-> "w", root |-> "w", remotes |-> {remote("a", "p"), remote("b", "p")}],
                 [folder |-> "w", root |-> "w/x", remotes |-> {remote("a", "q")}]}
MCUnder(uri, root) ==
  \/ uri = root
  \/ <<uri, root>> \in {<<"w/f", "w">>, <<"w/x", "w">>, <<"w/x/g", "w">>, <<"w/x/g", "w/x">>}
MCDuoEnabled == "a" :> {"p"} @@ "b" :> {}
MCDocuments == {"w/f", "w/x/g"}
MCFolderBelow == [d \in MCDocuments |-> "w"]
MCLanguageOf == "w/f" :> "ts" @@ "w/x/g" :> "elm"

\* Open tabs, and issues of two projects.
MCItemsOf == "open_tab" :> {"tab"} @@ "issue" :> {"i1", "i2"}
MCProjectOf == "i1" :> "p" @@ "i2" :> "q"
MCFeaturesOf == "a" :> {"open_tab", "issue"} @@ "b" :> {"issue"}
MCEnabledProjects == "a" :> {"p"} @@ "b" :> {"q"}
MCSize == [i \in {"tab", "i1", "i2"} |-> 4]

-----------------------------------------------------------------------------
vars == <<focus, repositoriesVars, advancedVars, contextVars>>

Init == /\ focus \in {"repositories", "tabs", "context"}
        /\ RepositoriesInit /\ TabsInit /\ ContextInit
        /\ focus # "tabs" => config.host = "a"

OfRepositories(step) ==
  focus = "repositories" /\ step /\ UNCHANGED <<focus, advancedVars, contextVars>>
OfTabs(step) == focus = "tabs" /\ step /\ UNCHANGED <<focus, repositoriesVars, contextVars>>
OfContext(step) == focus = "context" /\ step /\ UNCHANGED <<focus, repositoriesVars, advancedVars>>

Next == OfRepositories(RepositoriesNext) \/ OfTabs(TabsNext) \/ OfContext(ContextNext)

Spec == Init /\ [][Next]_vars /\ WF_vars(OfContext(ContextProceed))

=============================================================================
