------------------------------- MODULE Outbox -------------------------------
(***************************************************************************)
(* The transactional outbox of the observation stream.  Checks write their *)
(* result and an outbox row in one transaction; process_outbox, started    *)
(* every 10 s whether or not the last run has ended, moves rows to         *)
(* observations in batches.                                                *)
(*                                                                         *)
(* app/modules/checks/service.py (execute_check and                        *)
(* _enqueue_observation_outbox), app/modules/observations/outbox.py and    *)
(* tasks.py, app/infrastructure/async_tasks.py (commit or rollback).       *)
(*                                                                         *)
(* Rows are invisible to other transactions until their transaction        *)
(* commits.  Events are numbered in the order of created_at, which is not  *)
(* the order of commits.                                                   *)
(***************************************************************************)
EXTENDS Naturals, FiniteSets

CONSTANTS
  Workers,      \* Celery workers running execute_check
  Processors,   \* Celery workers running process_outbox
  MaxEvents,    \* bound: outbox rows numbered in a behaviour
  Leftover,     \* rows of an unknown event type left by another release
  BatchSize,    \* PROCESS_BATCH_SIZE
  MaxFaults     \* bound: exceptions and crashes of process_outbox in a behaviour

ASSUME ConstantsAssumption ==
  /\ MaxEvents \in Nat
  /\ Leftover \in 0..MaxEvents
  /\ BatchSize \in Nat \ {0}
  /\ MaxFaults \in Nat

Events == 1..MaxEvents
Unknown == 1..Leftover

VARIABLES
  results,       \* committed events: the check_results rows, and Unknown
  outbox,        \* committed observation_outbox rows
  observations,  \* committed observations rows of each event
  next,          \* number of events numbered so far
  check,         \* the transaction of each execute_check
  drain,         \* the transaction of each process_outbox
  faults         \* number of exceptions and crashes of process_outbox so far

vars == <<results, outbox, observations, next, check, drain, faults>>

----------------------------------------------------------------------------
CheckTx == [pc : {"idle", "inserted", "enqueued"}, event : 0..MaxEvents]
IdleCheck == [pc |-> "idle", event |-> 0]

\* batch: rows locked by list_pending; todo: not handled yet; inserted,
\* deleted: the writes so far; pc "failed": a statement failed, so the rest of
\* the session is ignored.
DrainTx == [pc : {"idle", "draining", "failed"},
            batch : SUBSET Events, todo : SUBSET Events,
            inserted : SUBSET (Events \ Unknown), deleted : SUBSET Events]
IdleDrain == [pc |-> "idle", batch |-> {}, todo |-> {}, inserted |-> {}, deleted |-> {}]

TypeOK ==
  /\ results \subseteq Events
  /\ outbox \subseteq Events
  /\ observations \in [Events -> Nat]
  /\ next \in Leftover..MaxEvents
  /\ check \in [Workers -> CheckTx]
  /\ drain \in [Processors -> DrainTx]
  /\ faults \in 0..MaxFaults

Init ==
  /\ results = Unknown
  /\ outbox = Unknown
  /\ observations = [e \in Events |-> 0]
  /\ next = Leftover
  /\ check = [w \in Workers |-> IdleCheck]
  /\ drain = [p \in Processors |-> IdleDrain]
  /\ faults = 0

----------------------------------------------------------------------------
(* execute_check: both of its exits, blocked and probed, enqueue one event *)

InsertResult(w) ==
  /\ check[w].pc = "idle"
  /\ check' = [check EXCEPT ![w].pc = "inserted"]
  /\ UNCHANGED <<results, outbox, observations, next, drain, faults>>

\* Faulty: the event is committed by a session of its own.
FaultyEnqueue(w) ==
  /\ check[w].pc = "inserted"
  /\ next < MaxEvents
  /\ next' = next + 1
  /\ outbox' = outbox \cup {next + 1}
  /\ check' = [check EXCEPT ![w] = [pc |-> "enqueued", event |-> next + 1]]
  /\ UNCHANGED <<results, observations, drain, faults>>

\* _enqueue_observation_outbox
Enqueue(w) ==
  /\ check[w].pc = "inserted"
  /\ next < MaxEvents
  /\ next' = next + 1
  /\ check' = [check EXCEPT ![w] = [pc |-> "enqueued", event |-> next + 1]]
  /\ UNCHANGED <<results, outbox, observations, drain, faults>>

CommitCheck(w) ==
  /\ check[w].pc = "enqueued"
  /\ results' = results \cup {check[w].event}
  /\ outbox' = outbox \cup {check[w].event}
  /\ check' = [check EXCEPT ![w] = IdleCheck]
  /\ UNCHANGED <<observations, next, drain, faults>>

\* The task fails, before or after it enqueued its event, or the worker dies.
AbortCheck(w) ==
  /\ check[w].pc # "idle"
  /\ check' = [check EXCEPT ![w] = IdleCheck]
  /\ UNCHANGED <<results, outbox, observations, next, drain, faults>>

----------------------------------------------------------------------------
(* process_outbox *)

\* Faulty: no FOR UPDATE, so other runs select the same rows.
FaultyLockedByOthers(p) == {}

LockedByOthers(p) == UNION {drain[q].batch : q \in Processors \ {p}}

\* list_pending: the oldest rows nobody has locked (SKIP LOCKED).
Oldest(S) == {e \in S : Cardinality({d \in S : d < e}) < BatchSize}

ListPending(p) ==
  LET rows == Oldest(outbox \ LockedByOthers(p))
  IN /\ drain[p].pc = "idle"
     /\ rows # {}
     /\ drain' = [drain EXCEPT ![p] = [IdleDrain EXCEPT !.pc = "draining",
                                                        !.batch = rows, !.todo = rows]]
     /\ UNCHANGED <<results, outbox, observations, next, check, faults>>

\* Faulty: unknown types are recorded like the others.
FaultyProcessEvent(p, e) ==
  /\ drain[p].pc = "draining"
  /\ e \in drain[p].todo
  /\ \A d \in drain[p].todo : e <= d
  /\ drain' = [drain EXCEPT ![p].todo = @ \ {e}, ![p].deleted = @ \cup {e},
                            ![p].inserted = @ \cup {e}]
  /\ UNCHANGED <<results, outbox, observations, next, check, faults>>

\* One turn of the loop: insert the observation and delete the row, or only
\* delete a row of an unknown type.
ProcessEvent(p, e) ==
  /\ drain[p].pc = "draining"
  /\ e \in drain[p].todo
  /\ \A d \in drain[p].todo : e <= d
  /\ drain' = [drain EXCEPT ![p].todo = @ \ {e}, ![p].deleted = @ \cup {e},
                            ![p].inserted = @ \cup ({e} \ Unknown)]
  /\ UNCHANGED <<results, outbox, observations, next, check, faults>>

\* Recording e raises without harm to the transaction (a payload of another
\* release): the exception is caught, and e stays pending for the next run.
SkipEvent(p, e) ==
  /\ drain[p].pc = "draining"
  /\ e \in drain[p].todo \ Unknown
  /\ \A d \in drain[p].todo : e <= d
  /\ faults < MaxFaults
  /\ faults' = faults + 1
  /\ drain' = [drain EXCEPT ![p].todo = @ \ {e}]
  /\ UNCHANGED <<results, outbox, observations, next, check>>

\* A statement of the loop fails.  The exception is caught and the loop goes
\* on, but no later statement of this session has an effect.  A failed flush
\* gives the locks back at once, a failed DELETE when the task ends.
FailEvent(p) ==
  /\ drain[p].pc = "draining"
  /\ drain[p].todo # {}
  /\ faults < MaxFaults
  /\ faults' = faults + 1
  /\ \E kept \in {{}, drain[p].batch} :
       drain' = [drain EXCEPT ![p] = [IdleDrain EXCEPT !.pc = "failed", !.batch = kept]]
  /\ UNCHANGED <<results, outbox, observations, next, check>>

CommitBatch(p) ==
  /\ drain[p].pc = "draining"
  /\ drain[p].todo = {}
  /\ outbox' = outbox \ drain[p].deleted
  /\ observations' = [e \in Events |-> IF e \in drain[p].inserted
                                       THEN observations[e] + 1 ELSE observations[e]]
  /\ drain' = [drain EXCEPT ![p] = IdleDrain]
  /\ UNCHANGED <<results, next, check, faults>>

\* A crash or a lost connection ends the transaction at any time.
Crash(p) ==
  /\ drain[p].pc # "idle"
  /\ faults < MaxFaults
  /\ faults' = faults + 1
  /\ drain' = [drain EXCEPT ![p] = IdleDrain]
  /\ UNCHANGED <<results, outbox, observations, next, check>>

\* Faulty: the failed session is neither rolled back nor closed.
FaultyRollbackBatch(p) == FALSE

\* The commit of a failed transaction rolls back.
RollbackBatch(p) ==
  /\ drain[p].pc = "failed"
  /\ drain' = [drain EXCEPT ![p] = IdleDrain]
  /\ UNCHANGED <<results, outbox, observations, next, check, faults>>

----------------------------------------------------------------------------
CheckStep(w) == InsertResult(w) \/ Enqueue(w) \/ CommitCheck(w) \/ AbortCheck(w)

\* What the code of process_outbox does by itself.
DrainStep(p) ==
  \/ ListPending(p)
  \/ \E e \in Events : ProcessEvent(p, e)
  \/ CommitBatch(p)
  \/ RollbackBatch(p)

Next ==
  \/ \E w \in Workers : CheckStep(w)
  \/ \E p \in Processors :
       \/ DrainStep(p)
       \/ \E e \in Events : SkipEvent(p, e)
       \/ FailEvent(p)
       \/ Crash(p)

\* Beat keeps starting process_outbox and every run goes on to its end.
\* Checks owe nothing.
Fairness == \A p \in Processors : WF_vars(DrainStep(p))

Spec == Init /\ [][Next]_vars /\ Fairness

----------------------------------------------------------------------------
(* What the outbox promises *)

\* process_outbox_batch: "a crash can never lose an observation (the event row
\* stays pending) or duplicate one".  Every committed check result is pending
\* or observed once, and nothing else is either.
NoneLostNoneDuplicated ==
  \A e \in Events \ Unknown :
    IF e \in results
    THEN (e \in outbox /\ observations[e] = 0) \/ (e \notin outbox /\ observations[e] = 1)
    ELSE e \notin outbox /\ observations[e] = 0

\* FIX 9: "the evidence stream can never silently lose events".  The outbox
\* implements the stream, liveness included.
Stream == INSTANCE ObservationStream
            WITH recorded <- results, pending <- outbox, observed <- observations

StreamSpec == Stream!Spec

\* Beat and process_outbox: every committed check result is observed in the end.
EveryResultObserved ==
  \A e \in Events \ Unknown : e \in results ~> observations[e] = 1
=============================================================================
