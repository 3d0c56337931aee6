------------------------------ MODULE RpcClient ------------------------------
(***************************************************************************)
(* What becomes of one request of the two JSON-RPC clients: JsonRpcClient   *)
(* (crates/evm/src/lib.rs, call_value) and SolanaLightRpc (the sampler's,   *)
(* apps/cli/src/main.rs, call).  Both try again a bounded number of times,  *)
(* but not after the same replies.  The pauses between attempts are left    *)
(* out: they only delay a request.                                          *)
(***************************************************************************)
EXTENDS Naturals

\* unreachable: no response; cut: the body ends early; garbled: not JSON; error and throttled:
\* HTTP success with an error object, throttled when its text speaks of limits; null: a result
\* that is null.
Replies == {"result", "null", "error", "throttled", "garbled", "cut",
            "http_429", "http_5xx", "http_4xx", "unreachable"}

EvmRetried    == {"unreachable", "cut", "http_429", "http_5xx", "throttled"}
SolanaRetried == {"unreachable", "http_429", "http_5xx", "http_4xx"}

Answers == {"result", "null"}

\* A request in its attempt-th try (from 0) of `attempts` is tried again, or fails.
TriedAgain(reply, retried, attempt, attempts) == reply \in retried /\ attempt + 1 < attempts

Fails(reply, retried, attempt, attempts) ==
    /\ reply \notin Answers
    /\ ~TriedAgain(reply, retried, attempt, attempts)
=============================================================================
