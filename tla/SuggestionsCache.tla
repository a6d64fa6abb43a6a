-------------------------- MODULE SuggestionsCache --------------------------
(***************************************************************************)
(* src/common/suggestion/suggestions_cache.ts: suggestions kept by the     *)
(* place they were made for, to be offered again while the user types      *)
(* along.  A place stands for the document, the line number and the        *)
(* non-empty lines around it; the current line up to the cursor and the    *)
(* texts are sequences of characters, because the cache compares them.     *)
(*                                                                         *)
(* The operators take the map of entries and return it after the call, so  *)
(* that they can be composed with the code that calls the cache.           *)
(***************************************************************************)
EXTENDS Naturals, Sequences, FiniteSets, SequencesExt, Functions

CONSTANT Blank    \* the white-space character of an indentation

NoEntries == <<>>

Indentation(line) ==
  Cardinality({i \in DOMAIN line : \A j \in 1 .. i : line[j] = Blank})

\* #getSuggestionKey
suggestionKey(place, line) == <<place, Indentation(line)>>

\* An entry; retrieved is the set of characters whose timesRetrievedByPosition
\* is above zero.
Entry(line, texts) == [currentLine |-> line, suggestions |-> texts, retrieved |-> {}]

addToSuggestionCache(cache, place, line, texts) ==
  [k \in DOMAIN cache \cup {suggestionKey(place, line)} |->
     IF k = suggestionKey(place, line) THEN Entry(line, texts) ELSE cache[k]]

\* cache.delete, or an entry that is too old or too large to keep.
delete(cache, k) == Restrict(cache, DOMAIN cache \ {k})

\* Mutant: only the current line's length is looked at.
matchesLength(entry, text, line) ==
  LET diff == Len(line) - Len(entry.currentLine)
  IN  Len(line) >= Len(entry.currentLine) /\ diff < Len(text)

\* Whether the user has typed along the suggestion, but not all of it.
matches(entry, text, line) ==
  LET diff == Len(line) - Len(entry.currentLine)
  IN  /\ Len(line) >= Len(entry.currentLine) /\ diff < Len(text)
      /\ line = entry.currentLine \o SubSeq(text, 1, diff)

alreadyRetrieved(entry, line) == Len(line) \in entry.retrieved

\* The indices of the suggestions that match, and the i-th of them.
fitting(entry, line) ==
  {n \in DOMAIN entry.suggestions : matches(entry, entry.suggestions[n], line)}
nth(indices, i) == CHOOSE n \in indices : Cardinality(indices \cap (1 .. n)) = i

\* What is left of the suggestions that match, in order.
optionsOf(entry, line) ==
  LET typed == Len(line) - Len(entry.currentLine)
      text(i) == entry.suggestions[nth(fitting(entry, line), i)]
  IN  [i \in 1 .. Cardinality(fitting(entry, line)) |->
         SubSeq(text(i), typed + 1, Len(text(i)))]

cachedOptions(cache, place, line) ==
  LET k == suggestionKey(place, line)
  IN  IF k \notin DOMAIN cache \/ alreadyRetrieved(cache[k], line) THEN <<>>
      ELSE optionsOf(cache[k], line)

\* The entries after getCachedSuggestions: a second retrieval from the same
\* character discards the entry, a first one is counted.
afterRetrieval(cache, place, line) ==
  LET k == suggestionKey(place, line)
  IN  IF k \notin DOMAIN cache THEN cache
      ELSE IF alreadyRetrieved(cache[k], line) THEN delete(cache, k)
      ELSE [cache EXCEPT ![k].retrieved = @ \cup {Len(line)}]

=============================================================================
