----------------------------- MODULE Idempotency -----------------------------
(***************************************************************************)
(* The idempotency middleware: a request with an Idempotency-Key replays a *)
(* cached response, is refused while another one holds the key's lock, or  *)
(* runs the handler and caches what it answered.                           *)
(*                                                                         *)
(* app/main.py (IdempotencyMiddleware) and the helpers it calls in         *)
(* app/infrastructure/redis_client.py.                                     *)
(*                                                                         *)
(* Cache and lock live in Redis; each call of a helper is one step and may *)
(* fail, which the helper reports as None or False.  A key stands for the  *)
(* pair of the caller's principal and its Idempotency-Key, so the keys of  *)
(* two tenants are different.  Requests without a key pass through.        *)
(***************************************************************************)
EXTENDS Integers, FiniteSets

CONSTANTS
  HttpWorkers,  \* requests served at a time
  Keys,         \* principal and Idempotency-Key
  NoKey

ASSUME IdempotencyAssumption == NoKey \notin Keys

VARIABLES
  cached,   \* the keys with a cached response
  locked,   \* the keys whose lock is set
  request,  \* what each worker is doing
  faulty    \* history: keys whose lock expired under its holder or whose handler raised

idempotencyVars == <<cached, locked, request, faulty>>

Steps == {"idle", "missed", "running", "answered", "raised", "caching", "fallback"}

IdempotencyTypeOK ==
  /\ cached \subseteq Keys
  /\ locked \subseteq Keys
  /\ request \in [HttpWorkers -> [step : Steps, key : Keys \cup {NoKey},
                                  cacheable : BOOLEAN]]
  /\ faulty \subseteq Keys

Free == [step |-> "idle", key |-> NoKey, cacheable |-> FALSE]

IdempotencyInit ==
  /\ cached = {}
  /\ locked = {}
  /\ request = [w \in HttpWorkers |-> Free]
  /\ faulty = {}

At(w, step) == request[w].step = step
Goto(w, step) == request' = [request EXCEPT ![w].step = step]
Finish(w) == request' = [request EXCEPT ![w] = Free]

\* The handler of the request is executing.
Executing(w) == request[w].step \in {"running", "fallback"}

\* It has taken the lock of k and has yet to delete it.
Holding(w, k) ==
  request[w].key = k /\ request[w].step \in {"running", "answered", "raised"}

----------------------------------------------------------------------------
(* dispatch *)

\* The cache has no response, or cannot be read; a hit is replayed and changes nothing.
CacheMiss(w, k) ==
  /\ At(w, "idle")
  /\ request' = [request EXCEPT ![w] = [step |-> "missed", key |-> k,
                                        cacheable |-> FALSE]]
  /\ UNCHANGED <<cached, locked, faulty>>

\* A lock that is set without NX.
SetWithoutNx(w) ==
  /\ At(w, "missed")
  /\ locked' = locked \cup {request[w].key}
  /\ Goto(w, "running")
  /\ UNCHANGED <<cached, faulty>>

\* SET NX with a TTL of 60 s.
safe_redis_set_nx(w) ==
  /\ At(w, "missed")
  /\ request[w].key \notin locked
  /\ locked' = locked \cup {request[w].key}
  /\ Goto(w, "running")
  /\ UNCHANGED <<cached, faulty>>

\* The key is locked, or Redis did not answer, before or after it set the key: 409.
InFlight(w) ==
  /\ At(w, "missed")
  /\ \/ locked' = locked \cup {request[w].key}
     \/ UNCHANGED locked
  /\ Finish(w)
  /\ UNCHANGED <<cached, faulty>>

\* call_next answers; 2xx, 404, 409 and 422 are cacheable.
HandlerAnswers(w, is_cacheable) ==
  /\ At(w, "running")
  /\ request' = [request EXCEPT ![w] = [step |-> "answered", key |-> request[w].key,
                                        cacheable |-> is_cacheable]]
  /\ UNCHANGED <<cached, locked, faulty>>

HandlerRaises(w) ==
  /\ At(w, "running")
  /\ Goto(w, "raised")
  /\ faulty' = faulty \cup {request[w].key}
  /\ UNCHANGED <<cached, locked>>

\* The lock is deleted before the response is cached, whoever set it; the deletion
\* may fail, which is ignored.
ReleaseLock(w) ==
  /\ request[w].step \in {"answered", "raised"}
  /\ \/ locked' = locked \ {request[w].key}
     \/ UNCHANGED locked
  /\ \/ At(w, "raised") /\ Goto(w, "fallback")
     \/ At(w, "answered") /\ request[w].cacheable /\ Goto(w, "caching")
     \/ At(w, "answered") /\ ~request[w].cacheable /\ Finish(w)
  /\ UNCHANGED <<cached, faulty>>

\* SETEX for 24 hours; a failure is ignored.
safe_redis_setex(w) ==
  /\ At(w, "caching")
  /\ \/ cached' = cached \cup {request[w].key}
     \/ UNCHANGED cached
  /\ Finish(w)
  /\ UNCHANGED <<locked, faulty>>

\* Any exception of the handler is taken for a failure of Redis, and the handler is
\* called again, without the lock and without caching its answer.
FallbackEnds(w) ==
  /\ At(w, "fallback")
  /\ Finish(w)
  /\ UNCHANGED <<cached, locked, faulty>>

\* The process dies; its lock stays until it expires.
Crash(w) ==
  /\ ~At(w, "idle")
  /\ Finish(w)
  /\ UNCHANGED <<cached, locked, faulty>>

LockExpires(k) ==
  /\ k \in locked
  /\ locked' = locked \ {k}
  /\ faulty' = IF \E w \in HttpWorkers : Holding(w, k) THEN faulty \cup {k} ELSE faulty
  /\ UNCHANGED <<cached, request>>

ResponseExpires(k) ==
  /\ k \in cached
  /\ cached' = cached \ {k}
  /\ UNCHANGED <<locked, request, faulty>>

IdempotencyNext ==
  \/ \E w \in HttpWorkers :
       \/ \E k \in Keys : CacheMiss(w, k)
       \/ safe_redis_set_nx(w)
       \/ InFlight(w)
       \/ \E c \in BOOLEAN : HandlerAnswers(w, c)
       \/ HandlerRaises(w)
       \/ ReleaseLock(w)
       \/ safe_redis_setex(w)
       \/ FallbackEnds(w)
       \/ Crash(w)
  \/ \E k \in Keys : LockExpires(k) \/ ResponseExpires(k)

IdempotencySpec == IdempotencyInit /\ [][IdempotencyNext]_idempotencyVars

----------------------------------------------------------------------------
(* Properties *)

\* Single flight: the handler runs for two requests of one key at the same time only
\* after the key's lock expired under its holder or a handler raised.  Note that
\* it is overlap that is excluded: a request that missed the cache just before a
\* response was stored runs the handler again afterwards.
OverlapNeedsFault ==
  \A v, w \in HttpWorkers :
    (v # w /\ Executing(v) /\ Executing(w) /\ request[v].key = request[w].key)
      => request[v].key \in faulty
=============================================================================
