------------------------------ MODULE LLMGateway ------------------------------
(***************************************************************************)
(* One completion through the language-model gateway: the provider's retry *)
(* loop, and the fallback provider behind it.  (llm/gateway.py)            *)
(*                                                                         *)
(* A client starts a completion with Ask and goes on when call is no       *)
(* longer "asking".  Clients run one completion at a time, so one set of   *)
(* variables serves all the calls of a request.                            *)
(***************************************************************************)
EXTENDS Integers

CONSTANT MaxRetries   \* MAX_RETRIES: posts to one provider in one call

ASSUME GatewayAssumption == MaxRetries \in Nat \ {0}

Provider == {"primary", "fallback"}

VARIABLES
    configured,   \* the providers get_gateway built
    call,         \* the completion in flight, and how it ended
    provider,     \* the provider being asked
    posts,        \* requests sent to each provider in this call
    refused,      \* providers that rejected this call with a 4xx
    completions   \* completions counted in total_usage

callVars    == <<call, provider, posts, refused>>
gatewayVars == <<configured, callVars, completions>>

\* A missing fallback, or one without a key, leaves the primary alone.
GatewayInit ==
    /\ configured \in {{"primary"}, Provider}
    /\ call = "none"
    /\ provider = "primary"
    /\ posts = [p \in Provider |-> 0]
    /\ refused = {}
    /\ completions = 0

\* gateway.complete: the primary is asked first.
Ask ==
    /\ call' = "asking"
    /\ provider' = "primary"
    /\ posts' = [p \in Provider |-> 0]
    /\ refused' = {}

\* One attempt of the retry loop reaches the provider.
Post ==
    /\ call = "asking"
    /\ posts' = [posts EXCEPT ![provider] = posts[provider] + 1]

\* Mutant: the fallback is never tried.
GivesUp_NoFallback == call' = "raised" /\ UNCHANGED provider

\* The provider raised LLMError.  Any LLMError of the primary is handed to the
\* fallback; that of the last provider leaves the gateway.
GivesUp ==
    IF provider = "primary" /\ "fallback" \in configured
    THEN provider' = "fallback" /\ UNCHANGED call
    ELSE call' = "raised" /\ UNCHANGED provider

Answers ==
    /\ Post
    /\ call' = "answered"
    /\ completions' = completions + 1
    /\ UNCHANGED <<configured, provider, refused>>

\* A 200 whose body _parse cannot read is no LLMError: neither the retry loop
\* nor the gateway catches it.
Garbles ==
    /\ Post
    /\ call' = "crashed"
    /\ UNCHANGED <<configured, provider, refused, completions>>

\* Mutant: one attempt too many.
Transient_OneMore ==
    /\ Post
    /\ IF posts[provider] < MaxRetries THEN UNCHANGED <<call, provider>> ELSE GivesUp
    /\ UNCHANGED <<configured, refused, completions>>

\* A 429, a 5xx or a transport error, or a 4xx that quotes the words "server
\* error": the next attempt, until there have been MaxRetries.
Transient ==
    /\ Post
    /\ IF posts[provider] + 1 < MaxRetries THEN UNCHANGED <<call, provider>> ELSE GivesUp
    /\ UNCHANGED <<configured, refused, completions>>

\* Any other 4xx is raised at once.
Rejects ==
    /\ Post
    /\ refused' = refused \cup {provider}
    /\ GivesUp
    /\ UNCHANGED <<configured, completions>>

GatewayNext == Answers \/ Garbles \/ Transient \/ Rejects

-----------------------------------------------------------------------------
(* Properties *)

GatewayTypeOK ==
    /\ configured \in {{"primary"}, Provider}
    /\ call \in {"none", "asking", "answered", "raised", "crashed"}
    /\ provider \in configured
    /\ posts \in [Provider -> 0..MaxRetries]
    /\ refused \in SUBSET configured
    /\ completions \in Nat

\* Provider p has nothing more to give in this call.
Exhausted(p) == p \in refused \/ posts[p] = MaxRetries

\* A completion fails with LLMError only after every configured provider has
\* rejected it or has been tried MaxRetries times.
NoEarlyRaise == call = "raised" => \A p \in configured : Exhausted(p)

===============================================================================
