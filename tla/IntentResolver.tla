--------------------------- MODULE IntentResolver ---------------------------
(***************************************************************************)
(* Whether a completion or a generation is meant: SuggestionService's      *)
(* #getIntent and src/common/tree_sitter, which parse the document and     *)
(* look at the comments, the functions and the size of it.                 *)
(*                                                                         *)
(* A tree is what the resolvers ask of it: the rows on which statements    *)
(* start, the comments, and at most one function, whose braces are         *)
(* statements of it.  Comments do not share a row.  Functions of python    *)
(* and ruby, which have no braces, are left out.                           *)
(***************************************************************************)
EXTENDS Integers, FiniteSets, FiniteSetsExt

CONSTANTS
  Rows,        \* rows of what is parsed: 1..n
  Columns,     \* columns of the cursor
  LanguageIds, \* bound: languages of documents
  MinLines,    \* minLinesOfCode
  MaxComments  \* bound: comments of a document

ASSUME RowsAssumption == /\ IsFiniteSet(Rows) /\ Rows = 1 .. Cardinality(Rows)
                         /\ MinLines \in Nat

VARIABLES
  parsers,     \* the languages that have a parser
  loadState,
  parsing,     \* the request at work: its stage, document and cursor
  resolution   \* the intent that was found last

intentVars == <<parsers, loadState, parsing, resolution>>

-----------------------------------------------------------------------------
(* Languages.                                                              *)

\* Editors' languages, and the extensions that stand for them.
editorLanguageIds ==
  [c |-> {"c"}, cpp |-> {"cpp"}, c_sharp |-> {"csharp"}, css |-> {"css"}, go |-> {"go"},
   java |-> {"java"}, javascript |-> {"javascript"}, python |-> {"python"}, ruby |-> {"ruby"},
   scala |-> {"scala"}, typescript |-> {"typescript"},
   tsx |-> {"typescriptreact", "javascriptreact"}, kotlin |-> {"kotlin"},
   powershell |-> {"powershell"}, rust |-> {"rust"}, yaml |-> {"yaml"}, html |-> {"html"},
   bash |-> {"shellscript"}, json |-> {"json"}]
extensions == [js |-> "javascript", ts |-> "typescript", jsx |-> "tsx", tsx |-> "tsx"]

emptyFunctionQueries ==
  DOMAIN editorLanguageIds \ {"css", "powershell", "yaml", "html", "json"}

\* A script of a Vue document is named by its lang, which is taken for an extension.
getLanguageInfo(d) ==
  IF d.language = "vue" THEN {extensions[l] : l \in {d.lang} \cap DOMAIN extensions}
  ELSE {name \in DOMAIN editorLanguageIds : d.language \in editorLanguageIds[name]}

-----------------------------------------------------------------------------
(* Trees.                                                                  *)

Comments == {c \in [from : Rows, to : Rows, empty : BOOLEAN] : c.from <= c.to}
Functions == {f \in [from : Rows, to : Rows] : f.from <= f.to}
rowsOf(node) == node.from .. node.to

\* A function of one row is empty; a comment on its first row is inside of a longer
\* one, and one on its last row is not.
inside(c, f) == f.from <= c.from /\ c.from < f.to
wellFormed(t) ==
  /\ \A c, d \in t.comments : c # d => rowsOf(c) \cap rowsOf(d) = {}
  /\ \A c \in t.comments : t.code \cap rowsOf(c) \subseteq {c.from}
  /\ t.blanks \subseteq UNION {(c.from + 1) .. (c.to - 1) : c \in t.comments}
  /\ \A f \in t.functions :
       {f.from, f.to} \subseteq t.code /\ \A c \in t.comments : inside(c, f) => c.to < f.to
Trees ==
  {t \in [code : SUBSET Rows, blanks : SUBSET Rows,
          comments : UNION {kSubset(k, Comments) : k \in 0 .. MaxComments},
          functions : {{}} \cup {{f} : f \in Functions}] : wellFormed(t)}

\* A Vue document has rows and characters above its script.
Documents ==
  {[tree |-> t, language |-> l, lang |-> "js", above |-> IF l = "vue" THEN 1 ELSE 0] :
     t \in Trees, l \in LanguageIds}
ScriptStart == 30

functionAround(c, t) == {f \in t.functions : inside(c, f)}
parentRows(c, t) ==
  IF functionAround(c, t) = {} THEN Rows ELSE UNION {rowsOf(f) : f \in functionAround(c, t)}

\* The rows on which a child of the comment's parent starts.
within(f) == (f.from + 1) .. f.to
directChildren(c, t) ==
  LET starts == t.code \cup {d.from : d \in t.comments}
  IN  IF functionAround(c, t) # {} THEN starts \cap parentRows(c, t)
      ELSE (t.code \ UNION {within(f) : f \in t.functions})
             \cup {d.from : d \in {e \in t.comments : functionAround(e, t) = {}}}

-----------------------------------------------------------------------------
(* Comments.                                                               *)

getLastComment(comments) == {c \in comments : \A d \in comments : d.to <= c.to}
commentAtCursor(t, row) == getLastComment({c \in t.comments : row \in rowsOf(c)})
commentAboveCursor(t, row) == getLastComment({c \in t.comments : c.to < row})

isPositionInNode(row, rows) == row \in rows
\* Mutant: what stands between the comment and the cursor is not looked at.
seesNothingBetween(c, t, row) == FALSE
hasNodeBetweenCursorAndComment(c, t, row) ==
  \E start \in directChildren(c, t) : c.to < start /\ start <= row

getCommentForCursor(t, row) ==
  {c \in commentAboveCursor(t, row) :
     isPositionInNode(row, parentRows(c, t)) /\ ~hasNodeBetweenCursorAndComment(c, t, row)}

getTotalCommentLines(t) == Cardinality(UNION {rowsOf(c) : c \in t.comments})
linesOfText(t) == (t.code \cup UNION {rowsOf(c) : c \in t.comments}) \ t.blanks

\* Of a Vue document the text is all of it: the rows above the script, the tag's on its
\* first row and the one with the end tag are lines, too.
getTotalNonEmptyLines(d) ==
  IF d.language = "vue" THEN d.above + Cardinality({1} \cup linesOfText(d.tree)) + 1
  ELSE Cardinality(linesOfText(d.tree))

isSmallFile(d) ==
  getTotalNonEmptyLines(d) - getTotalCommentLines(d.tree) < MinLines

-----------------------------------------------------------------------------
(* Functions.                                                              *)

atOrBefore(p, q) == p.row < q.row \/ (p.row = q.row /\ p.column <= q.column)
isCursorInsideNode(cursor, start, end) == atOrBefore(start, cursor) /\ atOrBefore(cursor, end)

\* From the end of the opening brace to the start of the closing one.
emptyBodies(t) ==
  {f \in t.functions :
     /\ t.code \cap within(f) \subseteq {f.to}
     /\ \A c \in t.comments : ~inside(c, f)}
findEmptyBodyPosition(f) ==
  [startPosition |-> [row |-> f.from, column |-> 2],
   endPosition |-> [row |-> f.to, column |-> IF f.from = f.to THEN 3 ELSE 0]]

isCursorInEmptyFunction(t, name, cursor) ==
  /\ name \in emptyFunctionQueries
  /\ \E f \in emptyBodies(t) :
       LET body == findEmptyBodyPosition(f)
       IN  isCursorInsideNode(cursor, body.startPosition, body.endPosition)

-----------------------------------------------------------------------------
Undefined == [intent |-> "none", generationType |-> "none"]
Completion == [intent |-> "completion", generationType |-> "none"]
Generation(type) == [intent |-> "generation", generationType |-> type]

getIntent(d, cursor) ==
  LET above == getCommentForCursor(d.tree, cursor.row) IN
  IF commentAtCursor(d.tree, cursor.row) # {} THEN Completion
  ELSE IF above # {} THEN IF \E c \in above : c.empty THEN Completion ELSE Generation("comment")
  ELSE IF isSmallFile(d) THEN Generation("small_file")
  ELSE IF \E name \in getLanguageInfo(d) : isCursorInEmptyFunction(d.tree, name, cursor)
       THEN Generation("empty_function")
  ELSE Undefined

\* Where the cursor is in what is parsed: of a Vue document, in its script.  The
\* characters that precede the script are taken off the column, whatever the row.
positionIn(d, cursor) ==
  IF d.language = "vue"
  THEN [row |-> cursor.row - d.above, column |-> cursor.column - ScriptStart]
  ELSE cursor

-----------------------------------------------------------------------------
NoRequest == [stage |-> "none"]

\* Requests that were answered have left their parsers.
IntentInit ==
  /\ parsers \in {{}, UNION {getLanguageInfo([language |-> l, lang |-> "js"]) : l \in LanguageIds}}
  /\ loadState = "init" /\ parsing = NoRequest /\ resolution = Undefined

\* parseFile or parseContent: #handleInit, and the parser of the language, which is
\* there or is loaded.
ParseFile(d, cursor) ==
  /\ loadState' = "ready"
  /\ parsing' = [document |-> d, cursor |-> cursor, stage |->
       IF getLanguageInfo(d) = {} THEN "unknown"
       ELSE IF getLanguageInfo(d) \subseteq parsers THEN "parsed" ELSE "loading"]
  /\ UNCHANGED <<parsers, resolution>>

LanguageLoaded ==
  /\ parsing.stage = "loading"
  /\ parsing' = [parsing EXCEPT !.stage = "parsed"]
  /\ parsers' = parsers \cup getLanguageInfo(parsing.document)
  /\ UNCHANGED <<loadState, resolution>>

\* There is no intent without a tree; the next request tries again.
LoadFails ==
  /\ parsing.stage = "loading"
  /\ parsing' = [parsing EXCEPT !.stage = "unknown"]
  /\ loadState' = "errored"
  /\ UNCHANGED <<parsers, resolution>>

Resolve ==
  /\ parsing.stage = "parsed"
  /\ resolution' = getIntent(parsing.document, positionIn(parsing.document, parsing.cursor))
  /\ parsing' = [parsing EXCEPT !.stage = "resolved"]
  /\ UNCHANGED <<parsers, loadState>>

IntentNext ==
  \/ /\ parsing = NoRequest
     /\ \E d \in Documents, column \in Columns : \E row \in Rows :
          ParseFile(d, [row |-> row + d.above, column |-> column])
  \/ LanguageLoaded \/ LoadFails \/ Resolve

IntentSpec == IntentInit /\ [][IntentNext]_intentVars

-----------------------------------------------------------------------------
\* The intent that the rules of getIntent's comment give the text, read row by row
\* from the cursor upwards: on a comment, after a comment that says nothing, or
\* that says something, whatever function either is in.  Otherwise the size
\* decides: with less code than MinLines a file is small; it may be taken for
\* small with more where code and comment share a row or a comment has blank rows.
IntentFollowsTheText ==
  (parsing.stage = "resolved" /\ parsing.document.language # "vue") =>
    LET t == parsing.document.tree
        row == parsing.cursor.row
        comment(r) == {c \in t.comments : r \in rowsOf(c)}
        text == t.code \cup {r \in Rows : comment(r) # {}}
        last == {r \in text : r <= row /\ \A q \in text : q <= row => q <= r}
        after == IF row \in text THEN {} ELSE UNION {comment(r) : r \in last}
        codeOnly == {r \in t.code : comment(r) = {}}
    IN  IF comment(row) # {} THEN resolution = Completion
        ELSE IF after # {}
        THEN resolution = IF \E c \in after : c.empty THEN Completion ELSE Generation("comment")
        ELSE /\ resolution.generationType # "comment" /\ resolution # Completion
             /\ Cardinality(t.code) < MinLines => resolution = Generation("small_file")
             /\ resolution = Generation("small_file") =>
                  Cardinality(codeOnly) - Cardinality(t.blanks) < MinLines

\* "Adjust position: map cursor from full Vue file to script content": below the
\* row of its tag, the script of a Vue document has the intent of its text.
VueCursorIsMapped ==
  LET d == parsing.document
      row == parsing.cursor.row - d.above
  IN  (parsing.stage = "resolved" /\ d.language = "vue" /\ row > 1) =>
        resolution = getIntent(d, [row |-> row, column |-> parsing.cursor.column])

=============================================================================
