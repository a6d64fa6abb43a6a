-------------------------- MODULE DirectConnection --------------------------
(***************************************************************************)
(* Completions that ask KhulnaSoft Cloud directly before they ask the      *)
(* instance (src/common/suggestion_client: the direct client, the default  *)
(* client and the fallback from one to the other).                         *)
(*                                                                         *)
(* The direct client needs connection details, which it asks the instance  *)
(* for without anyone waiting: the completion that finds none goes to the  *)
(* instance, and so does every other one until the answer is there; each   *)
(* of them asks again.  An answer is kept whatever has happened since.     *)
(* Both breakers open at every error (ExponentialBackoffCircuitBreaker);   *)
(* here they are open or closed.                                           *)
(***************************************************************************)
EXTENDS Naturals, Sequences

CONSTANTS
  Completions,          \* the requests for completions
  DirectAccounts,       \* instances with a token
  MaxReconfigurations   \* bound

VARIABLES
  directAccount, validApi,  \* the account of the API client; #isValidApi
  details,       \* #connectionDetails: none or one
  fetches,       \* requests for details on their way, oldest first
  detailsOpen,   \* #connectionDetailsCircuitBreaker
  directOpen,    \* #directConnectionCircuitBreaker
  trackerOptions,\* the account that client.snowplowTrackerOptions come from
  completions,   \* [Completions -> where the request is and what it uses]
  reconfigurations

directVars == <<directAccount, validApi, details, fetches, detailsOpen, directOpen,
                trackerOptions, completions, reconfigurations>>

Details(account, crossed) == [of |-> account, expired |-> FALSE, crossed |-> crossed]

DirectInit ==
  /\ directAccount \in DirectAccounts /\ validApi = TRUE
  /\ details = {} /\ fetches = <<>>
  /\ detailsOpen = FALSE /\ directOpen = FALSE
  /\ trackerOptions = {}
  /\ completions = [c \in Completions |-> [at |-> "idle", uses |-> {}]]
  /\ reconfigurations = 0

-----------------------------------------------------------------------------
\* Mutant: the details of the account before are kept.
keptDetails(ds) == ds
resetDetails(ds) == {}

\* onApiReconfigured.  A request for details that is on its way goes on.
Reconfigure(account, valid) ==
  /\ reconfigurations < MaxReconfigurations
  /\ reconfigurations' = reconfigurations + 1
  /\ directAccount' = account /\ validApi' = valid
  /\ details' = resetDetails(details)
  /\ directOpen' = FALSE
  /\ fetches' = [f \in DOMAIN fetches |-> [fetches[f] EXCEPT !.crossed = TRUE]]
  /\ UNCHANGED <<detailsOpen, trackerOptions, completions>>

\* The grace period before the expiry is over.
Expire ==
  /\ \E d \in details : ~d.expired /\ details' = {[d EXCEPT !.expired = TRUE]}
  /\ UNCHANGED <<directAccount, validApi, fetches, detailsOpen, directOpen, trackerOptions,
                 completions, reconfigurations>>

goesTo(c, client) ==
  completions' = [completions EXCEPT ![c] =
    [at |-> client, uses |-> IF client = "direct" THEN details ELSE {}]]

usable == \E d \in details : ~d.expired

\* getSuggestions of the direct client.  A generation is not for it.
AskDirectly(c) ==
  /\ completions[c].at = "idle"
  /\ validApi /\ ~directOpen /\ usable
  /\ goesTo(c, "direct")
  /\ UNCHANGED <<directAccount, validApi, details, fetches, detailsOpen, directOpen,
                 trackerOptions, reconfigurations>>

AskForDetails(c) ==
  /\ completions[c].at = "idle"
  /\ validApi /\ ~directOpen /\ ~usable
  /\ goesTo(c, "default")
  /\ fetches' = IF detailsOpen THEN fetches
                ELSE Append(fetches, [of |-> directAccount, crossed |-> FALSE])
  /\ UNCHANGED <<directAccount, validApi, details, detailsOpen, directOpen,
                 trackerOptions, reconfigurations>>

\* The intent is GENERATION, the API is not valid, or the breaker is open.
AskTheInstance(c) ==
  /\ completions[c].at = "idle"
  /\ goesTo(c, "default")
  /\ UNCHANGED <<directAccount, validApi, details, fetches, detailsOpen, directOpen,
                 trackerOptions, reconfigurations>>

without(f) == SubSeq(fetches, 1, f - 1) \o SubSeq(fetches, f + 1, Len(fetches))

\* #fetchDirectConnectionDetails after its await: details and tracker options
\* are those of the answer, or none after a failure.
DetailsArrive(f) ==
  /\ details' = {Details(fetches[f].of, fetches[f].crossed)}
  /\ trackerOptions' = {fetches[f].of}
  /\ fetches' = without(f)
  /\ UNCHANGED <<directAccount, validApi, detailsOpen, directOpen, completions,
                 reconfigurations>>

DetailsFail(f) ==
  /\ details' = {} /\ trackerOptions' = {}
  /\ detailsOpen' = TRUE
  /\ fetches' = without(f)
  /\ UNCHANGED <<directAccount, validApi, directOpen, completions, reconfigurations>>

DirectAnswers(c) ==
  /\ completions[c].at = "direct"
  /\ goesTo(c, "answered")
  /\ UNCHANGED <<directAccount, validApi, details, fetches, detailsOpen, directOpen,
                 trackerOptions, reconfigurations>>

\* A failure, which is logged and not thrown, or an empty answer.
DirectFails(c) ==
  /\ completions[c].at = "direct"
  /\ goesTo(c, "default")
  /\ directOpen' \in {directOpen, TRUE}
  /\ UNCHANGED <<directAccount, validApi, details, fetches, detailsOpen, trackerOptions,
                 reconfigurations>>

InstanceAnswers(c) ==
  /\ completions[c].at = "default"
  /\ \E outcome \in {"answered", "refused"} : goesTo(c, outcome)
  /\ UNCHANGED <<directAccount, validApi, details, fetches, detailsOpen, directOpen,
                 trackerOptions, reconfigurations>>

BackoffOver ==
  /\ \/ detailsOpen /\ detailsOpen' = FALSE /\ UNCHANGED directOpen
     \/ directOpen /\ directOpen' = FALSE /\ UNCHANGED detailsOpen
  /\ UNCHANGED <<directAccount, validApi, details, fetches, trackerOptions, completions,
                 reconfigurations>>

DirectNext ==
  \/ \E account \in DirectAccounts, valid \in BOOLEAN : Reconfigure(account, valid)
  \/ Expire \/ BackoffOver
  \/ \E c \in Completions :
       \/ AskDirectly(c) \/ AskForDetails(c) \/ AskTheInstance(c)
       \/ DirectAnswers(c) \/ DirectFails(c) \/ InstanceAnswers(c)
  \/ \E f \in DOMAIN fetches : DetailsArrive(f) \/ DetailsFail(f)

DirectSpec == DirectInit /\ [][DirectNext]_directVars

-----------------------------------------------------------------------------
\* Code is sent with the token of the account that is configured, never with
\* that of the one before: details belong to the API client's account, unless
\* the account changed while they were asked for (the answer is kept then).
DirectDetailsAreCurrent ==
  \A d \in details : d.of = directAccount \/ d.crossed

=============================================================================
