\* A backoff of 1, 2, 4, 8, 8, ... ticks.  Four errors open the fixed-time
\* breaker in the code (MAX_ERRORS_BEFORE_CIRCUIT_BREAK), two here.
CONSTANTS
  InitialBackoff = 1
  Multiplier = 2
  MaxBackoff = 8
  MaxErrorCount = 7
  MaxTimers = 2
  MaxErrorsBeforeBreaking = 2
  BreakTime = 3
  Blank = " "
  Characters = {" ", "a", "b"}
  Places = {"p"}
  Lines <- MCLines
  Responses <- MCResponses
  Requests = {"r1", "r2"}
  RequestPlaces = {"p"}
  RequestLines <- MCRequestLines
  ResponseChoices <- MCResponseChoices
  MaxOptions = 2
  MaxItems = 3
  \* One stream of a client that tracks acceptance only, with room for a
  \* completion in the post-processors, one in the queue and one more item.
  Streams <- MCStreams
  Suggestions <- MCTrackingIds
  ClientActions = {"ACCEPTED"}
SPECIFICATION SuggestionsSpec
INVARIANTS
  AnsweredIsSettled
  AtMostOneLateCompletion
  CompletionIsTracked
PROPERTIES
  BackoffNeverShrinks
  KeepsPromise
  BehavesLikeRequestBreaker
  OffersCompleteTheSuggestion
  EveryRequestIsAnswered
  NotificationsInOrder
  EveryStreamEnds
CHECK_DEADLOCK FALSE
