---------------------------- MODULE CheckDispatch ----------------------------
(***************************************************************************)
(* From a dependency that is due to its probes: Celery beat starts a run   *)
(* that reads the due dependencies, oldest first and up to a limit, sends  *)
(* one execute_check task per region and commits their next due date.      *)
(*                                                                         *)
(* app/modules/checks/service.py (schedule_due_checks), tasks.py,          *)
(* app/modules/dependencies/repository.py, app/infrastructure/celery_app   *)
(* and async_tasks.                                                        *)
(*                                                                         *)
(* The tasks leave before the commit, and runs are not exclusive.  Due     *)
(* dates are abstracted to the order in which they passed.  What a probe   *)
(* does is module CheckQuorum; here it is one step.                        *)
(***************************************************************************)
EXTENDS Integers, Sequences, SequencesExt, FiniteSets

CONSTANTS
  Schedulers,     \* runs of schedule_checks at a time
  DueDeps,        \* dependencies
  Regions,        \* regions of every dependency
  Limit,          \* dependencies read by a run
  CheckRetries,   \* max_retries of execute_check
  MaxFaults       \* bound: runs rolled back and probes that raise

ASSUME CheckDispatchAssumption ==
  /\ Limit \in Nat \ {0}
  /\ CheckRetries \in Nat
  /\ MaxFaults \in Nat

VARIABLES
  monitored,  \* is_active, FALSE also once deleted or before creation
  due,        \* the dependencies with next_check_at in the past, oldest first
  run,        \* the run of each scheduler
  attempts,   \* execute_check messages: how often each may still be tried, 0 if none
  owed,       \* history: probes missing since the dependency became due
  mishaps     \* how many faults have happened

checkDispatchVars == <<monitored, due, run, attempts, owed, mishaps>>

\* unsent: dependencies whose tasks are still to be sent.  seen: what was due when the run
\* took the time its due dates count from, and has not been rescheduled since.
Run == [open : BOOLEAN, picked : SUBSET DueDeps, unsent : SUBSET DueDeps,
        seen : SUBSET DueDeps]

NoRun == [open |-> FALSE, picked |-> {}, unsent |-> {}, seen |-> {}]

CheckDispatchTypeOK ==
  /\ monitored \in [DueDeps -> BOOLEAN]
  /\ due \in Seq(DueDeps) /\ IsInjective(due)
  /\ run \in [Schedulers -> Run]
  /\ attempts \in [DueDeps \X Regions -> 0..CheckRetries + 1]
  /\ owed \subseteq DueDeps \X Regions
  /\ mishaps \in 0..MaxFaults

CheckDispatchInit ==
  /\ monitored = [d \in DueDeps |-> FALSE]
  /\ due = <<>>
  /\ run = [w \in Schedulers |-> NoRun]
  /\ attempts = [t \in DueDeps \X Regions |-> 0]
  /\ owed = {}
  /\ mishaps = 0

----------------------------------------------------------------------------
(* Dependencies *)

IsDue(d) == d \in ToSet(due)

\* Creation, with a due date of now; a later change of is_active; deletion.
SetMonitored(d, active) ==
  /\ monitored[d] # active
  /\ monitored' = [monitored EXCEPT ![d] = active]
  /\ UNCHANGED <<due, run, attempts, owed, mishaps>>

\* A dependency that is queued once more while it is due.
BecomesDueTwice(d) ==
  /\ due' = Append(due, d)
  /\ owed' = owed \cup ({d} \X Regions)
  /\ UNCHANGED <<monitored, run, attempts, mishaps>>

\* The clock reaches next_check_at.
BecomesDue(d) ==
  /\ ~IsDue(d)
  /\ due' = Append(due, d)
  /\ owed' = owed \cup ({d} \X Regions)
  /\ UNCHANGED <<monitored, run, attempts, mishaps>>

----------------------------------------------------------------------------
(* Runs *)

\* a stands before b in the queue q.
Before(q, a, b) == \E i, j \in DOMAIN q : i < j /\ q[i] = a /\ q[j] = b

ActiveDue == {d \in ToSet(due) : monitored[d]}

\* A query that sorts the newest due date first.
NewestDueFirst ==
  {d \in ActiveDue : Cardinality({e \in ActiveDue : Before(due, d, e)}) < Limit}

\* The first Limit of those that are active.
get_due_dependencies ==
  {d \in ActiveDue : Cardinality({e \in ActiveDue : Before(due, e, d)}) < Limit}

StartRun(w) ==
  /\ ~run[w].open
  /\ get_due_dependencies # {}
  /\ run' = [run EXCEPT ![w] = [open |-> TRUE, picked |-> get_due_dependencies,
                                unsent |-> get_due_dependencies, seen |-> ToSet(due)]]
  /\ UNCHANGED <<monitored, due, attempts, owed, mishaps>>

\* One message per region; a message of the same probe still waiting is the same to us.
SendChecks(w, d) ==
  /\ d \in run[w].unsent
  /\ run' = [run EXCEPT ![w].unsent = @ \ {d}]
  /\ attempts' = [t \in DueDeps \X Regions |->
                    IF t[1] = d THEN CheckRetries + 1 ELSE attempts[t]]
  /\ UNCHANGED <<monitored, due, owed, mishaps>>

\* The queue when the picked dependencies leave it, except those whose new due date has
\* passed as well: the interval may be shorter than the run.  That date is later than the
\* start of the run, hence than the due date of all it saw.
Rescheduled(w, late) ==
  LET kept == ToSet(due) \ run[w].picked
  IN {q \in SetToSeqs(kept \cup late) :
        /\ \A a, b \in kept : Before(due, a, b) => Before(q, a, b)
        /\ \A a \in run[w].seen \cap kept, b \in late : Before(q, a, b)}

CommitRun(w, late) ==
  /\ run[w].open
  /\ run[w].unsent = {}
  /\ late \subseteq run[w].picked
  /\ due' \in Rescheduled(w, late)
  /\ run' = [v \in Schedulers |->
               IF v = w THEN NoRun ELSE [run[v] EXCEPT !.seen = @ \ run[w].picked]]
  /\ owed' = owed \cup (late \X Regions)
  /\ UNCHANGED <<monitored, attempts, mishaps>>

\* A broker error, the time limit or a crash: sent tasks stay sent.
RollbackRun(w) ==
  /\ run[w].open
  /\ mishaps < MaxFaults
  /\ run' = [run EXCEPT ![w] = NoRun]
  /\ mishaps' = mishaps + 1
  /\ UNCHANGED <<monitored, due, attempts, owed>>

----------------------------------------------------------------------------
(* Probes *)

\* The check is recorded, or skipped when its dependency is no longer active.
execute_check(t) ==
  /\ attempts[t] > 0
  /\ attempts' = [attempts EXCEPT ![t] = 0]
  /\ owed' = IF monitored[t[1]] THEN owed \ {t} ELSE owed
  /\ UNCHANGED <<monitored, due, run, mishaps>>

\* autoretry_for: after the last attempt the message is lost.
CheckRaises(t) ==
  /\ attempts[t] > 0
  /\ mishaps < MaxFaults
  /\ attempts' = [attempts EXCEPT ![t] = @ - 1]
  /\ mishaps' = mishaps + 1
  /\ UNCHANGED <<monitored, due, run, owed>>

----------------------------------------------------------------------------

CheckDispatchNext ==
  \/ \E d \in DueDeps : BecomesDue(d) \/ \E active \in BOOLEAN : SetMonitored(d, active)
  \/ \E w \in Schedulers :
       \/ StartRun(w)
       \/ \E d \in DueDeps : SendChecks(w, d)
       \/ \E late \in SUBSET DueDeps : CommitRun(w, late)
       \/ RollbackRun(w)
  \/ \E t \in DueDeps \X Regions : execute_check(t) \/ CheckRaises(t)

\* The clock goes on, beat starts runs, and started runs and delivered tasks finish.
CheckDispatchFairness ==
  /\ \A d \in DueDeps : WF_checkDispatchVars(BecomesDue(d))
  /\ \A w \in Schedulers :
       /\ WF_checkDispatchVars(StartRun(w))
       /\ WF_checkDispatchVars(\E d \in DueDeps : SendChecks(w, d))
       /\ WF_checkDispatchVars(\E late \in SUBSET DueDeps : CommitRun(w, late))
  /\ \A t \in DueDeps \X Regions : WF_checkDispatchVars(execute_check(t))

CheckDispatchSpec ==
  CheckDispatchInit /\ [][CheckDispatchNext]_checkDispatchVars /\ CheckDispatchFairness

----------------------------------------------------------------------------
(* Properties *)

\* A dependency that is due and stays active is probed in every region, however many others
\* become due meanwhile, whatever runs overlap, and after runs that were rolled back and
\* probes that raised: get_due_dependencies serves the oldest due date first.
DueIsProbed ==
  \A t \in DueDeps \X Regions :
    (t \in owed /\ monitored[t[1]]) ~> (t \notin owed \/ ~monitored[t[1]])
=============================================================================
