----------------------------- MODULE FeatureFlags -----------------------------
(***************************************************************************)
(* What the server knows of the instance it talks to: the flags of its     *)
(* features (src/common/feature_flags.ts) and the user of the token        *)
(* (src/common/core/services/user_service.ts).  Both are asked for again   *)
(* whenever the API client has been reconfigured.                          *)
(*                                                                         *)
(* The updates that others ask for, such as the virtual file system before *)
(* it looks at a flag, go through a throttle that is wrapped around the    *)
(* very function that calls it.  Its first call is answered with an        *)
(* update; from then on it hands out the promise of that first update, and *)
(* asks nothing any more: flags asked for before the token was checked     *)
(* stay unknown until a reconfiguration.  What the code does besides:      *)
(* flags survive a token that becomes invalid, the user does not; answers  *)
(* to the questions of two accounts may cross.                             *)
(***************************************************************************)
EXTENDS Integers, Sequences, FiniteSets, SequencesExt

CONSTANTS
  Flags,        \* a sequence, in the order in which they are asked for
  FlagAccounts,
  MaxAccounts   \* bound: reconfigurations

VARIABLES
  reconfigured,  \* how often the API client got another account
  current,       \* its account, "none" if it has no token
  announced,     \* whether the account was checked and its subscribers were told
  flags,         \* by flag: the account whose instance answered for it, or "unknown"
  updates,       \* updates at work: the flag they ask for, of which account
  throttle,      \* whether the throttle has been called
  user,          \* the account of the user
  asks,          \* questions for the user
  crossed        \* an account came while the questions of another were at work

flagsVars == <<reconfigured, current, announced, flags, updates, throttle, user, asks, crossed>>

FlagsInit ==
  /\ reconfigured = 0 /\ current = "none" /\ announced = TRUE /\ crossed = FALSE
  /\ flags = [f \in ToSet(Flags) |-> "unknown"] /\ updates = <<>> /\ throttle = "uncalled"
  /\ user = "none" /\ asks = <<>>

\* #updateInstanceFeatureFlags up to its first await.
update(us, account) == Append(us, [next |-> 1, of |-> account])

\* Mutant: a reconfiguration goes through the throttle, like everybody else.
throttledUpdate(us, account) == IF throttle = "uncalled" THEN update(us, account) ELSE us
updateNow(us, account) == update(us, account)

\* configureApi takes another account and begins to check its token.
ApiConfigured(account) ==
  /\ reconfigured < MaxAccounts /\ reconfigured' = reconfigured + 1
  /\ announced /\ announced' = FALSE
  /\ account # current /\ current' = account
  /\ crossed' = (updates # <<>> \/ asks # <<>>)
  /\ UNCHANGED <<flags, updates, throttle, user, asks>>

\* The check is over.  An invalid token is removed; the flags stay.
ApiReconfigured(valid) ==
  /\ ~announced /\ announced' = TRUE
  /\ IF valid
     THEN /\ updates' = updateNow(updates, current) /\ asks' = Append(asks, current)
          /\ UNCHANGED <<current, user>>
     ELSE current' = "none" /\ user' = "none" /\ UNCHANGED <<updates, asks>>
  /\ UNCHANGED <<reconfigured, flags, throttle, crossed>>

\* updateInstanceFeatureFlags: the throttle calls it, and is called by it.
UpdateInstanceFeatureFlags ==
  /\ throttle = "uncalled" /\ throttle' = "called"
  /\ updates' = update(updates, current)
  /\ UNCHANGED <<reconfigured, current, announced, flags, user, asks, crossed>>

\* A request that fails makes the flag false, which is an answer too.
FlagAnswered(u) ==
  /\ flags' = [flags EXCEPT ![Flags[updates[u].next]] = updates[u].of]
  /\ updates' = IF updates[u].next = Len(Flags) THEN RemoveAt(updates, u)
                ELSE [updates EXCEPT ![u] = [next |-> @.next + 1, of |-> current]]
  /\ UNCHANGED <<reconfigured, current, announced, throttle, user, asks, crossed>>

\* A user who cannot be fetched, or has no numeric id, is nobody.
UserAnswered(a) ==
  /\ \E failed \in BOOLEAN : user' = IF failed THEN "none" ELSE asks[a]
  /\ asks' = RemoveAt(asks, a)
  /\ UNCHANGED <<reconfigured, current, announced, flags, updates, throttle, crossed>>

FlagsNext ==
  \/ \E account \in FlagAccounts : ApiConfigured(account)
  \/ \E valid \in BOOLEAN : ApiReconfigured(valid)
  \/ UpdateInstanceFeatureFlags
  \/ \E u \in DOMAIN updates : FlagAnswered(u)
  \/ \E a \in DOMAIN asks : UserAnswered(a)

FlagsSpec == FlagsInit /\ [][FlagsNext]_flagsVars

-----------------------------------------------------------------------------
\* Once the questions of a reconfiguration are answered, every flag and the
\* user are those of the account in force, unless the questions of another
\* were still at work when it came.
KnownIsOfTheAccount ==
  announced /\ current # "none" /\ ~crossed /\ updates = <<>> /\ asks = <<>> =>
    /\ \A f \in DOMAIN flags : flags[f] = current
    /\ user \in {current, "none"}

=============================================================================
