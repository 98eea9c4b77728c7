---------------------------- MODULE ProviderErrors -----------------------------
(***************************************************************************)
(* What becomes of the reply of a provider: the adapters of                *)
(* dante/local_runtime.py and dante/inference.py make a typed error of it, *)
(* with the delay the provider asked for, and classify                     *)
(* (dante/continuity.py) decides from the type whether the backend, the    *)
(* route or the request has failed.                                        *)
(*                                                                         *)
(* A reply is its status code, how its body arrives and what it says, and  *)
(* its headers that ask for a delay; one code stands for those that are    *)
(* treated alike.  A completion of the Ollama adapter makes several        *)
(* requests: its reply is the first that fails, or the last.               *)
(***************************************************************************)
EXTENDS Integers

CONSTANT RetryAfter         \* the delays a provider may ask for, 0 for none

Adapters == {"litellm", "ollama", "llamacpp"}

\* No reply at all: the time is over, or the connection is lost.
TimedOut == 0
Lost == 1

\* 401 is 403 too, 408 is 504, 413 is 422, 500 is all above.  A body is whole, over
\* max_response_bytes, or one that stalls, breaks off or cannot be decoded.  after is
\* Retry-After, reset the end of a rate limit: a point in time, or seconds from now.
Reply ==
    [code: {TimedOut, Lost, 200, 302, 400, 401, 404, 408, 413, 429, 500},
     body: {"whole", "huge", "stalled", "broken", "garbled"},
     says: {"answer", "garbage", "context", "quota", "charged", "absent", "remote"},
     after: RetryAfter,
     reset: RetryAfter,
     unit: {"time", "seconds"}]

Larger(a, b) == IF a >= b THEN a ELSE b

\* The body of a 200: no answer at all, another model's or one without content is
\* garbage.  A runtime may not have the model (absent); Ollama may not run it itself
\* (remote), and LiteLLM may report a cost (charged).
OllamaSays(says) ==
    CASE says = "answer" -> "none"
      [] says = "absent" -> "AdapterUnavailable"
      [] says = "remote" -> "PolicyDenied"
      [] OTHER -> "InvalidResponse"

LlamaCppSays(says) ==
    CASE says = "answer" -> "none"
      [] says = "absent" -> "AdapterUnavailable"
      [] OTHER -> "InvalidResponse"

LiteLLMSays(says) ==
    CASE says = "answer" -> "none"
      [] says = "charged" -> "PolicyDenied"
      [] OTHER -> "InvalidResponse"

\* LocalRuntimeAdapter._error
LocalHttpError(r) ==
    CASE r.code = 408 -> "InferenceTimeout"
      [] r.code = 429 -> "RateLimitUnavailable"
      [] r.code \in {401, 302} -> "PolicyDenied"
      [] r.code \in {400, 413} /\ r.says = "context" -> "ContextExceeded"
      [] r.code \in {404, 500} -> "AdapterUnavailable"
      [] OTHER -> "InvalidRequest"

\* AICloudLiteLLMAdapter._http_error; it reads a body for a 429 and a 400 only, and
\* does without one it cannot make sense of, but not without one that breaks off.
CloudHttpError(r) ==
    LET read == r.body = "whole" IN
    CASE r.code \in {400, 429} /\ r.body = "broken" -> "untyped"
      [] r.code = 429 /\ r.body # "broken" ->
            IF read /\ r.says = "quota" THEN "QuotaExhausted" ELSE "RateLimitUnavailable"
      [] r.code = 408 -> "InferenceTimeout"
      [] r.code = 401 -> "PolicyDenied"
      [] r.code = 400 /\ read /\ r.says = "context" -> "ContextExceeded"
      [] r.code = 500 -> "AdapterUnavailable"
      [] OTHER -> "InvalidRequest"

\* LocalRuntimeAdapter._json: the whole body comes before the status is looked at.
LocalError(r, said) ==
    CASE r.code = TimedOut -> "InferenceTimeout"
      [] r.code = Lost -> "AdapterUnavailable"
      [] r.code > Lost /\ r.body = "huge" -> "InvalidResponse"
      [] r.code > Lost /\ r.body = "stalled" -> "InferenceTimeout"
      [] r.code > Lost /\ r.body = "broken" -> "AdapterUnavailable"
      [] r.code > Lost /\ r.body = "garbled" -> "untyped"
      [] r.code = 200 /\ r.body = "whole" -> said
      [] r.code > 200 /\ r.body = "whole" -> LocalHttpError(r)

\* AICloudLiteLLMAdapter.complete; the body of an answer may have any size.
CloudError(r) ==
    CASE r.code = TimedOut -> "InferenceTimeout"
      [] r.code = Lost -> "AdapterUnavailable"
      [] r.code = 200 /\ r.body = "stalled" -> "InferenceTimeout"
      [] r.code = 200 /\ r.body = "broken" -> "AdapterUnavailable"
      [] r.code = 200 /\ r.body = "garbled" -> "InvalidResponse"
      [] r.code = 200 /\ r.body \in {"whole", "huge"} -> LiteLLMSays(r.says)
      [] r.code > 200 -> CloudHttpError(r)

\* What a call raises: none for an answer, untyped for what is no InferenceError
\* (httpx.DecodingError, http.client.IncompleteRead), which infer lets through.
Error(adapter, r) ==
    CASE adapter = "ollama" -> LocalError(r, OllamaSays(r.says))
      [] adapter = "llamacpp" -> LocalError(r, LlamaCppSays(r.says))
      [] adapter = "litellm" -> CloudError(r)

\* classify
Verdict(error) ==
    CASE error \in {"QuotaExhausted", "RateLimitUnavailable", "InferenceTimeout",
                    "AdapterUnavailable", "InvalidResponse"} -> "retry"
      [] error \in {"ContextExceeded", "PolicyDenied"} -> "route"
      [] OTHER -> "request"

\* The headers of r are looked at.
HeadersSeen(adapter, r) == r.code > 200 /\ (adapter = "litellm" \/ r.body = "whole")

\* reset_at_seconds: seconds from now are read as a time long past.
ResetAt(r) == IF r.unit = "time" THEN r.reset ELSE 0

\* Seeded fault: only a rate limit has a delay.
CarriedByLimits(adapter, r) ==
    [after |-> IF HeadersSeen(adapter, r) /\ r.code = 429 THEN r.after ELSE 0,
     until |-> IF HeadersSeen(adapter, r) /\ adapter = "litellm" /\ r.code = 429
               THEN ResetAt(r) ELSE 0]

\* What the error carries: retry_after, a delay, and retry_at, a point in time.
Carried(adapter, r) ==
    [after |-> IF /\ HeadersSeen(adapter, r)
                  /\ r.code \in {408, 429, 500} \/ (r.code = 404 /\ adapter # "litellm")
               THEN r.after ELSE 0,
     until |-> IF HeadersSeen(adapter, r) /\ adapter = "litellm" /\ r.code = 429
               THEN ResetAt(r) ELSE 0]

\* The delay a provider asks for in a refusal that arrives whole: Retry-After, or with
\* a rate limit of a cloud provider the time of the reset.
Asked(adapter, r) ==
    IF r.code > 200 /\ r.body = "whole" /\ Verdict(Error(adapter, r)) = "retry"
    THEN IF adapter = "litellm" /\ r.code = 429 /\ r.unit = "time"
         THEN Larger(r.after, r.reset) ELSE r.after
    ELSE 0

\* A failed call: what it means, what its error carries, and what was asked for.
Failures ==
    UNION {{[verdict |-> Verdict(Error(a, r)),
             told |-> Carried(a, r).after,
             until |-> Carried(a, r).until,
             asked |-> Asked(a, r)]
               : r \in {r \in Reply : Error(a, r) \notin {"none", "untyped"}}} : a \in Adapters}

\* Some reply raises what is no InferenceError.
MayRaise == \E a \in Adapters, r \in Reply : Error(a, r) = "untyped"
=============================================================================
