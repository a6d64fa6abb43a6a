--------------------------- MODULE AdvancedContext ---------------------------
(***************************************************************************)
(* The files that go along with a code suggestion request: documents       *)
(* (document_service.ts), the LRU cache of open tabs (open_tabs), their    *)
(* texts (document_transformer_service.ts) and the filters of              *)
(* advanced_context, which look up the projects of ProjectAccess.          *)
(*                                                                         *)
(* A text is its size; the languages of a document never change while it   *)
(* is open, since the editor closes and opens it then.                     *)
(***************************************************************************)
EXTENDS ProjectAccess, Sequences, SequencesExt

CONSTANTS
  Documents,
  FolderBelow,    \* by document: the folder that its uri begins with
  LanguageOf,     \* by document
  SupportedLanguages, AdditionalLanguages,
  Sizes,          \* of the texts
  LruLimit,       \* LRU_CACHE_BYTE_SIZE_LIMIT
  RequestLimit,   \* CODE_SUGGESTIONS_REQUEST_BYTE_SIZE_LIMIT
  MaxTabEdits     \* bound: events of documents and changes of the languages

ASSUME SizesAreNumbers == Sizes \subseteq Nat /\ RequestLimit \in Nat

VARIABLES
  open,       \* the open documents with their texts
  tabs,       \* the LRU cache, most recent first
  languages,  \* the languages that are enabled
  edits

tabVars == <<open, tabs, languages, edits>>
advancedVars == <<accessVars, tabVars>>

TabsInit == /\ AccessInit /\ open = <<>> /\ tabs = <<>>
            /\ languages = SupportedLanguages /\ edits = 0

-----------------------------------------------------------------------------
(* OpenTabsLruCache.                                                       *)

getDocumentSize(t) == IF t.size = 0 THEN 1 ELSE t.size

sizeOf(ts) == FoldLeft(LAMBDA n, t : n + getDocumentSize(t), 0, ts)

\* Where the cache has a uri: nowhere, or in one place.
placesOf(ts, uri) == {i \in DOMAIN ts : ts[i].uri = uri}
placeOf(ts, uri) == CHOOSE i \in placesOf(ts, uri) : TRUE

deleteFile(ts, uri) == IF placesOf(ts, uri) = {} THEN ts ELSE RemoveAt(ts, placeOf(ts, uri))

\* The least recently used are evicted until all fit; what can never fit is not
\* kept, and neither is what was there of it.
updateFile(ts, tab) ==
  LET rest == deleteFile(ts, tab.uri)
      fitting == {n \in 0..Len(rest) : sizeOf(<<tab>> \o SubSeq(rest, 1, n)) <= LruLimit}
  IN  IF fitting = {} THEN rest
      ELSE <<tab>> \o SubSeq(rest, 1, CHOOSE n \in fitting : \A m \in fitting : m <= n)

\* A read of one tab makes it the most recent one.
touched(ts, uri) == <<ts[placeOf(ts, uri)]>> \o deleteFile(ts, uri)

\* The open files of the same folder, without the current one, by their places.
mostRecentFiles(current) ==
  {i \in DOMAIN tabs : tabs[i].folder = current.folder /\ tabs[i].uri # current.uri}

-----------------------------------------------------------------------------
(* Documents, and the tabs that follow them.                               *)

\* A folder that is no longer configured is nobody's; the tabs that were
\* updated before keep it.
getContext(uri, size) ==
  [uri |-> uri, size |-> size,
   folder |-> IF FolderBelow[uri] \in config.folders THEN FolderBelow[uri] ELSE "none"]

edit == edits < MaxTabEdits /\ edits' = edits + 1 /\ UNCHANGED <<accessVars, languages>>

\* onDidOpen and onDidChangeContent.
DidOpenOrChange(uri, size) ==
  /\ edit
  /\ open' = [u \in DOMAIN open \cup {uri} |-> IF u = uri THEN size ELSE open[u]]
  /\ tabs' = updateFile(tabs, getContext(uri, size))

\* onDidSave and onDidSetActive.
DidSaveOrSetActive(uri) ==
  /\ edit /\ uri \in DOMAIN open
  /\ tabs' = updateFile(tabs, getContext(uri, open[uri])) /\ UNCHANGED open

DidClose(uri) ==
  /\ edit /\ uri \in DOMAIN open
  /\ open' = [u \in DOMAIN open \ {uri} |-> open[u]]
  /\ tabs' = deleteFile(tabs, uri)

\* The AI context reads the text of a selected tab.
ReadOpenTab(uri) ==
  /\ edit /\ placesOf(tabs, uri) # {}
  /\ tabs' = touched(tabs, uri) /\ UNCHANGED open

\* SupportedLanguagesService: denied is denied, also what is added.
UpdateLanguages(allow, deny) ==
  /\ edits < MaxTabEdits /\ edits' = edits + 1
  /\ languages' = (SupportedLanguages \cup allow) \ deny
  /\ UNCHANGED <<accessVars, open, tabs>>

-----------------------------------------------------------------------------
(* The filters, in their order, of the places of tabs.                     *)

emptyContentFilter(files) == {i \in files : tabs[i].size > 0}

\* Without a folder nothing is known of projects.
duoProjectAccessFilter(files, folder) ==
  {i \in files : folder = "none" \/ "DuoDisabled" \notin checkProjectStatus(tabs[i].uri, folder)}

supportedLanguageFilter(files) == {i \in files : LanguageOf[tabs[i].uri] \in languages}

\* How many bytes there are up to each place, given the sizes of what is taken along.
totals(documentSize, sizes) ==
  LET total[i \in 0..Len(tabs)] ==
        IF i = 0 THEN documentSize
        ELSE total[i - 1] + IF i \in DOMAIN sizes THEN sizes[i] ELSE 0
  IN  total

sizesOf(files) == [i \in files |-> tabs[i].size]

\* Mutant: what exceeds the limit stays whole.
wholeFiles(files, documentSize, torn) == sizesOf(files)
\* The first file that exceeds the limit is cut, the ones after it are left out.
\* A character that the cut tears apart becomes one of up to two bytes more.
byteSizeLimitFilter(files, documentSize, torn) ==
  LET total == totals(documentSize, sizesOf(files))
      over == {i \in files : total[i] > RequestLimit}
      first == CHOOSE i \in over : \A j \in over : i <= j
      kept == tabs[first].size - (total[first] - RequestLimit)
  IN  IF over = {} THEN sizesOf(files)
      ELSE [i \in {j \in files : j < first \/ (j = first /\ kept > 0)} |->
              IF i = first THEN kept + torn ELSE tabs[i].size]

\* One resolver: open tabs.
buildContext(current) == mostRecentFiles(current)

\* getAdvancedContext, which has no await that anything else could use.
getAdvancedContext(uri, torn) ==
  LET current == getContext(uri, open[uri])
      files == supportedLanguageFilter(
                 duoProjectAccessFilter(emptyContentFilter(buildContext(current)), current.folder))
  IN  byteSizeLimitFilter(files, current.size, torn)

-----------------------------------------------------------------------------
TabsNext ==
  \/ AccessNext /\ UNCHANGED tabVars
  \/ \E d \in Documents :
       \/ \E n \in Sizes : DidOpenOrChange(d, n)
       \/ DidSaveOrSetActive(d) \/ DidClose(d) \/ ReadOpenTab(d)
  \/ \E allow \in SUBSET AdditionalLanguages,
        deny \in SUBSET (SupportedLanguages \cup AdditionalLanguages) : UpdateLanguages(allow, deny)

TabsSpec == TabsInit /\ [][TabsNext]_advancedVars

-----------------------------------------------------------------------------
\* "The byte size limit takes into the size of the total context resolutions
\* content + size of document content" (advanced_context_filters.ts:74), save for
\* the character that the cut may tear apart.
ContextFits ==
  \A u \in DOMAIN open, torn \in 0..2 :
    LET context == getAdvancedContext(u, torn)
    IN  DOMAIN context # {} => totals(open[u], context)[Len(tabs)] <= RequestLimit + 2

=============================================================================
