------------------------- MODULE SuggestionsCacheUse -------------------------
(***************************************************************************)
(* The cache under every order of responses (which carry the line as it    *)
(* was when the request was made), requests from any line, expiry of the   *)
(* time to live, eviction and the setting that switches it off and on.     *)
(***************************************************************************)
EXTENDS SuggestionsCache

CONSTANTS
  Places,
  Characters,
  Lines,       \* current lines, up to the cursor
  Responses    \* sequences of suggested texts

ASSUME TextsAssumption == /\ Lines \subseteq Seq(Characters)
                          /\ Responses \subseteq Seq(Seq(Characters))

VARIABLES
  cache,
  enabled,     \* client.suggestionsCache.enabled
  offered      \* history: what the latest retrieval returned

cacheVars == <<cache, enabled, offered>>

NoOffer == <<>>

CacheInit == cache = NoEntries /\ enabled = TRUE /\ offered = NoOffer

AddToCache(place, line, texts) ==
  /\ enabled
  /\ cache' = addToSuggestionCache(cache, place, line, texts)
  /\ offered' = NoOffer
  /\ UNCHANGED enabled

GetCached(place, line) ==
  /\ enabled
  /\ offered' = cachedOptions(cache, place, line)
  /\ cache' = afterRetrieval(cache, place, line)
  /\ UNCHANGED enabled

\* ttlAutopurge, or the least recently used entry making room.
ExpireEntry(k) == /\ cache' = delete(cache, k)
                  /\ offered' = NoOffer /\ UNCHANGED enabled

SwitchCache == /\ enabled' = ~enabled
               /\ offered' = NoOffer /\ UNCHANGED cache

CacheNext ==
  \/ \E place \in Places, line \in Lines :
       GetCached(place, line) \/ \E texts \in Responses : AddToCache(place, line, texts)
  \/ \E k \in DOMAIN cache : ExpireEntry(k)
  \/ SwitchCache

CacheSpec == CacheInit /\ [][CacheNext]_cacheVars

-----------------------------------------------------------------------------
\* Accepting an offered option gives exactly a line that was suggested for
\* this place; nothing is offered once the suggestion is typed out.
OffersCompleteTheSuggestion ==
  [][\A place \in Places, line \in Lines : GetCached(place, line) =>
       \A i \in DOMAIN offered' :
         LET entry == cache[suggestionKey(place, line)]
         IN  /\ offered'[i] # <<>>
             /\ \E j \in DOMAIN entry.suggestions :
                  line \o offered'[i] = entry.currentLine \o entry.suggestions[j]]_cacheVars

=============================================================================
