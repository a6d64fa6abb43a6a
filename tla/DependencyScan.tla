--------------------------- MODULE DependencyScan ---------------------------
(***************************************************************************)
(* The libraries of a project that the chat offers as one item for each    *)
(* repository: DefaultDependencyContextProvider, DefaultDependencyScanner, *)
(* which reads the files of a repository, and their parsers.               *)
(*                                                                         *)
(* A file is its name, as far as that decides on the parser, and its       *)
(* lines: what they are and the name they give.  A requirement may have a  *)
(* line of its own (single), be a call in conan's python (call) or nested  *)
(* in an entry of conda (nested); the start of a csharp project's lines is *)
(* that of an item group.  Versions and other syntax are left out.         *)
(***************************************************************************)
EXTENDS Naturals, Sequences

CONSTANTS
  SourceFiles,
  RepositoryOf,  \* by file
  InitialFiles,  \* bound: what is in the files at first
  MaxEdits       \* bound: edits while a search is at work

\* What is in a file at first, whose lines are a sequence.
ASSUME FilesHaveLines ==
  \A files \in InitialFiles : DOMAIN files = SourceFiles /\ \A f \in SourceFiles :
     LET file == files[f]
     IN  /\ file = [type |-> file.type, lines |-> file.lines, readable |-> file.readable]
         /\ Len(file.lines) \in Nat /\ DOMAIN file.lines = 1 .. Len(file.lines)
         /\ file.readable \in BOOLEAN

VARIABLES
  sources,   \* by file: its type, its lines, and whether it can be read
  disabledRepositories, \* of projects without Duo
  scan,      \* the search at work
  dependencies   \* the items that were offered last

dependencyVars == <<sources, disabledRepositories, scan, dependencies>>

-----------------------------------------------------------------------------
(* Parsers.                                                                *)

\* The types whose dependencies are listed in a section, and lines that end it: a
\* bracket, a line without text, or the header of the next section.
endCondition ==
  [ruby |-> {"blank"}, go |-> {"bracket"}, poetry |-> {"blank"}, gradle |-> {"bracket"},
   conantxt |-> {"header", "start"}, conanpy |-> {"bracket"}]

\* What parsers take for a library in a section, what is none included.
parseLine ==
  LET anyText == {"library", "start", "bracket", "header", "comment"}
  IN  [ruby |-> anyText, go |-> {"library", "single", "start", "header", "comment"},
       poetry |-> anyText, gradle |-> {"library", "single"}, conantxt |-> {"library", "bracket"},
       conanpy |-> {"library", "single", "call", "header"}]

\* A requirement in a line of its own starts a section, and is lost if none is open.
openers(type) == {"start"} \cup IF type \in {"go", "gradle", "conanpy"} THEN {"single"} ELSE {}

\* Mutant: a section goes on to the end of the file.
neverEnds(type, line) == TRUE
continues(type, line) == line.is \notin endCondition[type]

\* scanBySection, a line at a time: whether line n has left it in a section.
sections(type, lines) ==
  LET inSection[n \in 0 .. Len(lines)] ==
        n > 0 /\ IF inSection[n - 1] THEN continues(type, lines[n]) ELSE lines[n].is \in openers(type)
  IN  inSection

linesOf(lines, kinds) == {n \in DOMAIN lines : lines[n].is \in kinds}
scanBySection(type, lines) ==
  {n \in linesOf(lines, parseLine[type]) :
     sections(type, lines)[n - 1] /\ continues(type, lines[n])}

\* scanCSharpProject: the references of the first group that has any; one is no array.
references(lines, i) ==
  {n \in linesOf(lines, {"library"}) : n > i /\ \A k \in i + 1 .. n : lines[k].is # "start"}
packageReferences(lines) ==
  UNION {references(lines, i) : i \in {j \in linesOf(lines, {"start"}) :
           \A k \in linesOf(lines, {"start"}) : k < j => references(lines, k) = {}}}

\* The lines whose libraries are found; other types are parsed as a whole, and have
\* no libraries in what is nested.
Structured == {"javascript", "pip", "conda", "php", "maven", "vcpkg"}
parseDependencyFile(type, lines) ==
  IF type \in DOMAIN endCondition
  THEN scanBySection(type, lines) \cup IF type = "conanpy" THEN linesOf(lines, {"call"}) ELSE {}
  ELSE IF type = "csharp" THEN packageReferences(lines) ELSE linesOf(lines, {"library"})

parses(f) ==
  f.readable /\ (f.type = "csharp" => \A n \in DOMAIN f.lines : packageReferences(f.lines) # {n})

librariesOf(f) ==
  {f.lines[n].name : n \in IF parses(f) THEN parseDependencyFile(f.type, f.lines) ELSE {}}

\* dependencyFileType: the first type whose name the path ends with.
DEPENDENCY_TYPES == DOMAIN endCondition \cup Structured \cup {"csharp"}
isDependencyFile(f) == f.type \in DEPENDENCY_TYPES

-----------------------------------------------------------------------------
(* The search.                                                             *)

NoScan == [files |-> {}, query |-> "", libs |-> <<>>, crossed |-> FALSE, edits |-> 0]
NoItems == [items |-> <<>>, crossed |-> TRUE, files |-> <<>>]
filesOf(r) == {f \in SourceFiles : RepositoryOf[f] = r}
RepositoriesOf(files) == {RepositoryOf[f] : f \in files}

DependencyInit ==
  /\ sources \in InitialFiles
  /\ disabledRepositories \in SUBSET RepositoriesOf(SourceFiles)
  /\ scan = NoScan /\ dependencies = NoItems

\* searchContextItems: the files that are there are read at once, unless the project
\* has no Duo; a query is part of the path of a repository.
ScanBegins(query) ==
  LET asked == IF query = "" THEN RepositoriesOf(SourceFiles) ELSE {query}
      files == {f \in SourceFiles : RepositoryOf[f] \in asked}
  IN /\ scan.files = {}
     /\ scan' = [NoScan EXCEPT
          !.files = files, !.query = query,
          !.libs = [f \in {g \in files : ~ (/\ RepositoryOf[g] \notin disabledRepositories
                                           /\ isDependencyFile(sources[g]))} |-> {}]]
     /\ dependencies' = NoItems
     /\ UNCHANGED <<sources, disabledRepositories>>

\* A file that cannot be read or parsed is one without libraries.
FileRead(f) ==
  /\ f \in scan.files \ DOMAIN scan.libs
  /\ scan' = [scan EXCEPT !.libs = [g \in DOMAIN @ \cup {f} |->
       IF g # f THEN @[g] ELSE librariesOf(sources[f])]]
  /\ UNCHANGED <<sources, disabledRepositories, dependencies>>

\* One item for each repository, with the libraries of its files.
ScanEnds ==
  /\ scan.files # {} /\ DOMAIN scan.libs = scan.files
  /\ dependencies' =
       [items |-> [r \in RepositoriesOf(scan.files) |-> UNION {scan.libs[f] : f \in filesOf(r)}],
        crossed |-> scan.crossed, files |-> sources]
  /\ scan' = NoScan
  /\ UNCHANGED <<sources, disabledRepositories>>

\* Somebody empties a file, or deletes it, while it is searched for.
SourceEdited(f) ==
  /\ scan.files # {} /\ scan.edits < MaxEdits
  /\ \E readable \in BOOLEAN :
       sources' = [sources EXCEPT ![f].lines = <<>>, ![f].readable = readable]
  /\ scan' = [scan EXCEPT !.crossed = TRUE, !.edits = @ + 1]
  /\ UNCHANGED <<disabledRepositories, dependencies>>

DependencyNext ==
  \/ \E query \in {""} \cup RepositoriesOf(SourceFiles) : ScanBegins(query)
  \/ \E f \in SourceFiles : FileRead(f) \/ SourceEdited(f)
  \/ ScanEnds

DependencySpec == DependencyInit /\ [][DependencyNext]_dependencyVars

-----------------------------------------------------------------------------
\* Whether line n is in a section: after one that opens it, with no end in between.
inside(f, n, opening) ==
  \E i \in DOMAIN f.lines :
    /\ i < n /\ f.lines[i].is \in opening
    /\ \A k \in i + 1 .. n - 1 : f.lines[k].is \notin endCondition[f.type]

\* The lines of a file that name a library.
named(f) ==
  {n \in DOMAIN f.lines :
     \/ /\ f.lines[n].is = "library"
        /\ f.type \in DOMAIN endCondition => inside(f, n, {"start"})
        /\ f.type = "csharp" => \E i \in DOMAIN f.lines : i < n /\ f.lines[i].is = "start"
     \/ f.lines[n].is = "single" /\ "single" \in openers(f.type)
     \/ f.lines[n].is = "call" /\ f.type = "conanpy"
     \/ f.lines[n].is = "nested" /\ f.type = "conda"}

\* Whether two lines of a csharp project are in the same group of items.
together(f, m, n) == \A k \in (m + 1 .. n) \cup (n + 1 .. m) : f.lines[k].is # "start"

\* Of these, parsers lose: a requirement in a line of its own that opens a section, what
\* is nested, and references of a group after the first, or alone in theirs.
passedOver(f) ==
  {n \in named(f) :
     \/ f.lines[n].is = "single" /\ ~inside(f, n, openers(f.type))
     \/ f.lines[n].is = "nested"
     \/ /\ f.type = "csharp"
        /\ \/ \E m \in named(f) : m < n /\ ~together(f, m, n)
           \/ \A m \in named(f) : together(f, m, n) => m = n}

\* The names that a file is to offer: none if it has no parser or cannot be read.
offeredBy(f) ==
  {f.lines[n].name : n \in IF isDependencyFile(f) /\ f.readable THEN named(f) \ passedOver(f) ELSE {}}

\* The grammar of sections: one start if a start ends them, and in what the parser takes
\* for a section nothing else that it takes for a library.
wellFormed(f) ==
  f.type \in DOMAIN endCondition =>
    /\ "start" \in endCondition[f.type] =>
         \A i, j \in linesOf(f.lines, {"start"}) : i = j
    /\ \A n \in DOMAIN f.lines :
         inside(f, n, openers(f.type)) /\ f.lines[n].is \in parseLine[f.type] => n \in named(f)

\* The item of a repository offers the libraries that its files name, whatever ends their
\* sections, except for those that a parser is known to lose, if nobody edits the files
\* meanwhile (scanBySection, scanCSharpProject, scanCppConanPy).
DependenciesAreThoseOfTheFiles ==
  ~dependencies.crossed =>
    \A r \in DOMAIN dependencies.items :
      (r \notin disabledRepositories /\ \A f \in filesOf(r) : wellFormed(dependencies.files[f])) =>
         dependencies.items[r] = UNION {offeredBy(dependencies.files[f]) : f \in filesOf(r)}
=============================================================================
