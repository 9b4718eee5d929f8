------------------------------- MODULE ApiKeys -------------------------------
(***************************************************************************)
(* API keys and the time of their last use: a request notes the time in    *)
(* Redis, and a task drains the notes into the table every five minutes.   *)
(*                                                                         *)
(* app/modules/api_keys/service.py, repository.py, tasks.py, router.py,    *)
(* models.py.                                                              *)
(*                                                                         *)
(* The task reads the entries one by one, updates a batch of rows, deletes *)
(* the entries it read and commits, in this order; neither runs of it nor  *)
(* requests exclude each other.  Times are the order in which they were    *)
(* taken.  Hashes, scopes and expiry decide only who is let in.            *)
(***************************************************************************)
EXTENDS Integers, FiniteSets

CONSTANTS
  KeyWorkers,  \* requests and runs of the task at a time
  ApiKeyIds,
  FlushBatch,  \* FLUSH_BATCH_SIZE
  MaxUses,     \* bound: uses of keys in a behaviour
  NoApiKey

ASSUME ApiKeysAssumption ==
  /\ FlushBatch \in Nat \ {0}
  /\ MaxUses \in Nat
  /\ NoApiKey \notin ApiKeyIds

VARIABLES
  apiKey,    \* api_keys rows
  uses,      \* times taken so far
  entry,     \* the Redis entries apikey:last_used:<id>, 0 if there is none
  keyWork,   \* what each worker is doing
  noted,     \* history: the time last written to the entry of each key
  lost       \* history: keys whose last noted time was deleted unread, expired or rolled back

apiKeysVars == <<apiKey, uses, entry, keyWork, noted, lost>>

Times == 0..MaxUses
ApiKeyRow == [status : {"none", "live", "deleted"}, last_used_at : Times]

\* read: the entries a run has read, 0 for the others; unread: those it has yet to read.
KeyWork == [step : {"idle", "noting", "draining", "written", "cleared"},
            key : ApiKeyIds \cup {NoApiKey}, time : Times,
            unread : SUBSET ApiKeyIds, read : [ApiKeyIds -> Times]]

NoKeyWork == [step |-> "idle", key |-> NoApiKey, time |-> 0, unread |-> {},
              read |-> [k \in ApiKeyIds |-> 0]]

ApiKeysTypeOK ==
  /\ apiKey \in [ApiKeyIds -> ApiKeyRow]
  /\ uses \in Times
  /\ entry \in [ApiKeyIds -> Times]
  /\ keyWork \in [KeyWorkers -> KeyWork]
  /\ noted \in [ApiKeyIds -> Times]
  /\ lost \subseteq ApiKeyIds

ApiKeysInit ==
  /\ apiKey = [k \in ApiKeyIds |-> [status |-> "none", last_used_at |-> 0]]
  /\ uses = 0
  /\ entry = [k \in ApiKeyIds |-> 0]
  /\ keyWork = [w \in KeyWorkers |-> NoKeyWork]
  /\ noted = [k \in ApiKeyIds |-> 0]
  /\ lost = {}

EndWork(w) == keyWork' = [keyWork EXCEPT ![w] = NoKeyWork]

\* The rows a run will update, and holds locked once it has.
Mapping(w) == {k \in ApiKeyIds : keyWork[w].read[k] # 0}
Writing(w) == keyWork[w].step \in {"written", "cleared"}

----------------------------------------------------------------------------
(* Keys *)

create_key(k) ==
  /\ apiKey[k].status = "none"
  /\ apiKey' = [apiKey EXCEPT ![k].status = "live"]
  /\ UNCHANGED <<uses, entry, keyWork, noted, lost>>

\* A soft delete, which waits for the lock of a run.
revoke_key(k) ==
  /\ apiKey[k].status = "live"
  /\ \A w \in KeyWorkers : ~(Writing(w) /\ k \in Mapping(w))
  /\ apiKey' = [apiKey EXCEPT ![k].status = "deleted"]
  /\ UNCHANGED <<uses, entry, keyWork, noted, lost>>

\* The key is found and the time is taken; the request may still be serving a key that
\* has been revoked since.
authenticate_key(w, k) ==
  /\ keyWork[w].step = "idle"
  /\ apiKey[k].status = "live"
  /\ uses < MaxUses
  /\ uses' = uses + 1
  /\ keyWork' = [keyWork EXCEPT ![w].step = "noting", ![w].key = k, ![w].time = uses + 1]
  /\ UNCHANGED <<apiKey, entry, noted, lost>>

\* SETEX for five minutes, or a failure, which nobody hears of.
_record_last_used(w) ==
  LET k == keyWork[w].key IN
  /\ keyWork[w].step = "noting"
  /\ \/ /\ entry' = [entry EXCEPT ![k] = keyWork[w].time]
        /\ noted' = [noted EXCEPT ![k] = keyWork[w].time]
        /\ lost' = lost \ {k}
     \/ UNCHANGED <<entry, noted, lost>>
  /\ EndWork(w)
  /\ UNCHANGED <<apiKey, uses>>

EntryExpires(k) ==
  /\ entry[k] # 0
  /\ entry' = [entry EXCEPT ![k] = 0]
  /\ lost' = lost \cup {k}
  /\ UNCHANGED <<apiKey, uses, keyWork, noted>>

----------------------------------------------------------------------------
(* flush_api_key_last_used *)

\* The keys SCAN returns are those there are now, at least.
StartFlush(w) ==
  /\ keyWork[w].step = "idle"
  /\ keyWork' = [keyWork EXCEPT ![w].step = "draining",
                                ![w].unread = {k \in ApiKeyIds : entry[k] # 0}]
  /\ UNCHANGED <<apiKey, uses, entry, noted, lost>>

_drain_last_used_redis(w, k) ==
  /\ keyWork[w].step = "draining"
  /\ k \in keyWork[w].unread
  /\ Cardinality(Mapping(w)) < FlushBatch
  /\ keyWork' = [keyWork EXCEPT ![w].unread = @ \ {k}, ![w].read[k] = entry[k]]
  /\ UNCHANGED <<apiKey, uses, entry, noted, lost>>

\* All entries are read, the batch is full, or Redis failed.  One UPDATE, which waits for
\* the rows of another run.
update_last_used_batch(w) ==
  /\ keyWork[w].step = "draining"
  /\ Mapping(w) # {}
  /\ \A v \in KeyWorkers : Writing(v) => Mapping(v) \cap Mapping(w) = {}
  /\ keyWork' = [keyWork EXCEPT ![w].step = "written"]
  /\ UNCHANGED <<apiKey, uses, entry, noted, lost>>

\* The entries read are deleted, whatever they hold by now.
_clear_redis_keys(w) ==
  /\ keyWork[w].step = "written"
  /\ entry' = [k \in ApiKeyIds |-> IF k \in Mapping(w) THEN 0 ELSE entry[k]]
  /\ keyWork' = [keyWork EXCEPT ![w].step = "cleared"]
  /\ lost' = lost \cup {k \in Mapping(w) : entry[k] \notin {0, keyWork[w].read[k]}}
  /\ UNCHANGED <<apiKey, uses, noted>>

\* An update that writes the time read over a later one.
Overwriting(m, n) == IF n = 0 THEN m ELSE n

\* The later of the time in the row and the time read.
Greatest(m, n) == IF m < n THEN n ELSE m

\* Also without the deletion, whose failure is logged.
CommitFlush(w) ==
  /\ Writing(w)
  /\ apiKey' = [k \in ApiKeyIds |->
       [apiKey[k] EXCEPT !.last_used_at = Greatest(@, keyWork[w].read[k])]]
  /\ EndWork(w)
  /\ UNCHANGED <<uses, entry, noted, lost>>

\* Nothing to write, or a failure: the deletion of the entries is not undone.
RollbackFlush(w) ==
  /\ keyWork[w].step \in {"draining", "written", "cleared"}
  /\ lost' = IF keyWork[w].step = "cleared" THEN lost \cup Mapping(w) ELSE lost
  /\ EndWork(w)
  /\ UNCHANGED <<apiKey, uses, entry, noted>>

ApiKeysNext ==
  \/ \E k \in ApiKeyIds : create_key(k) \/ revoke_key(k) \/ EntryExpires(k)
  \/ \E w \in KeyWorkers :
       \/ \E k \in ApiKeyIds : authenticate_key(w, k) \/ _drain_last_used_redis(w, k)
       \/ _record_last_used(w)
       \/ StartFlush(w)
       \/ update_last_used_batch(w)
       \/ _clear_redis_keys(w)
       \/ CommitFlush(w)
       \/ RollbackFlush(w)

ApiKeysSpec == ApiKeysInit /\ [][ApiKeysNext]_apiKeysVars

----------------------------------------------------------------------------
(* Properties *)

\* The time noted last for a key is still in Redis, or in its row, or in the hands of a
\* run that has written the row, deleted the entry and will commit, unless the entry
\* expired, was replaced between the run's read and its deletion, or the run was rolled
\* back after the deletion: a run never deletes what it has not written.
UseIsKept ==
  \A k \in ApiKeyIds \ lost :
    \/ noted[k] = entry[k]
    \/ noted[k] <= apiKey[k].last_used_at
    \/ \E w \in KeyWorkers : keyWork[w].step = "cleared" /\ noted[k] <= keyWork[w].read[k]
=============================================================================
