---------------------------- MODULE OutboxProofs ----------------------------
(***************************************************************************)
(* Theorems about Outbox for any number of workers, processors and events, *)
(* any batch size and any number of failures.                              *)
(***************************************************************************)
EXTENDS Outbox, TLAPS

----------------------------------------------------------------------------
(* The inductive invariant *)

\* An event that a check has numbered is its own until the check commits.
ChecksOK ==
  \A v \in Workers : check[v].pc = "enqueued" =>
    /\ check[v].event \in Events \ Unknown
    /\ check[v].event <= next
    /\ check[v].event \notin results
    /\ \A w \in Workers \ {v} : check[w].pc = "enqueued" => check[w].event # check[v].event

\* A processor writes within the batch it has locked; no two batches meet.
DrainOK(p) ==
  /\ drain[p].batch \subseteq outbox
  /\ drain[p].pc = "draining" =>
       /\ drain[p].batch # {}
       /\ drain[p].todo \subseteq drain[p].batch
       /\ drain[p].deleted \subseteq drain[p].batch \ drain[p].todo
       /\ drain[p].inserted = drain[p].deleted \ Unknown

DrainsOK ==
  /\ \A p \in Processors : DrainOK(p)
  /\ \A p, q \in Processors : p # q => drain[p].batch \cap drain[q].batch = {}

\* Committed events are numbered, and pending or settled.
EventsOK ==
  /\ outbox \subseteq results
  /\ \A e \in results : e <= next
  /\ \A e \in Events \ Unknown :
       observations[e] = IF e \in results \ outbox THEN 1 ELSE 0

OutboxInv ==
  /\ TypeOK
  /\ ChecksOK
  /\ DrainsOK
  /\ EventsOK

----------------------------------------------------------------------------
(* It holds *)

\* Initially only the rows of the other release are in the outbox.
LEMMA OutboxInit == Init => OutboxInv
<1> SUFFICES ASSUME Init PROVE OutboxInv
  OBVIOUS
<1> USE ConstantsAssumption DEF Init, IdleCheck, IdleDrain, Events, Unknown
<1>1. TypeOK
  BY DEF TypeOK, CheckTx, DrainTx
<1>2. ChecksOK /\ DrainsOK /\ EventsOK
  BY DEF ChecksOK, DrainsOK, DrainOK, EventsOK
<1>3. QED
  BY <1>1, <1>2 DEF OutboxInv

\* The check side: InsertResult, Enqueue, CommitCheck and AbortCheck.
LEMMA CheckPreserves ==
  ASSUME OutboxInv, NEW w \in Workers, CheckStep(w)
  PROVE  OutboxInv'
<1> USE ConstantsAssumption DEF OutboxInv
<1>1. CASE InsertResult(w)
  <2>1. TypeOK'
    BY <1>1 DEF InsertResult, TypeOK, CheckTx
  <2>2. ChecksOK'
    BY <1>1 DEF InsertResult, ChecksOK, TypeOK, CheckTx
  <2>3. QED
    BY <1>1, <2>1, <2>2 DEF InsertResult, DrainsOK, DrainOK, EventsOK
<1>2. CASE Enqueue(w)
  <2>1. next + 1 \in Events \ Unknown
    BY <1>2 DEF Enqueue, TypeOK, Events, Unknown
  <2>2. next \in Nat /\ next' = next + 1
    BY <1>2 DEF Enqueue, TypeOK
  <2>3. check' = [check EXCEPT ![w] = [pc |-> "enqueued", event |-> next + 1]]
    BY <1>2 DEF Enqueue
  <2>4. TypeOK'
    BY <1>2, <2>1, <2>2, <2>3 DEF Enqueue, TypeOK, CheckTx, Events
  <2>5. ChecksOK'
    <3>1. next + 1 \notin results
      BY <2>2 DEF EventsOK
    <3>2. check'[w].pc = "enqueued" /\ check'[w].event = next + 1
      BY <2>3 DEF TypeOK
    <3>3. \A v \in Workers \ {w} : check'[v] = check[v]
      BY <2>3 DEF TypeOK
    <3>4. \A v \in Workers \ {w} : check[v].pc = "enqueued" =>
             check[v].event \in Nat /\ check[v].event <= next
      BY DEF ChecksOK, Events
    <3>5. QED
      BY <1>2, <2>1, <2>2, <3>1, <3>2, <3>3, <3>4 DEF Enqueue, ChecksOK
  <2>6. EventsOK'
    BY <1>2, <2>2 DEF Enqueue, EventsOK, TypeOK, Events
  <2>7. QED
    BY <1>2, <2>4, <2>5, <2>6 DEF Enqueue, DrainsOK, DrainOK
<1>3. CASE CommitCheck(w)
  <2>1. /\ check[w].event \in Events \ Unknown /\ check[w].event <= next
        /\ check[w].event \notin results
    BY <1>3 DEF CommitCheck, ChecksOK
  <2>2. TypeOK'
    BY <1>3, <2>1 DEF CommitCheck, TypeOK, CheckTx, IdleCheck
  <2>3. ChecksOK'
    BY <1>3 DEF CommitCheck, ChecksOK, TypeOK, IdleCheck
  <2>4. DrainsOK'
    BY <1>3 DEF CommitCheck, DrainsOK, DrainOK
  <2>5. EventsOK'
    BY <1>3, <2>1 DEF CommitCheck, EventsOK
  <2>6. QED
    BY <2>2, <2>3, <2>4, <2>5
<1>4. CASE AbortCheck(w)
  <2>1. TypeOK'
    BY <1>4 DEF AbortCheck, TypeOK, CheckTx, IdleCheck
  <2>2. ChecksOK'
    BY <1>4 DEF AbortCheck, ChecksOK, TypeOK, IdleCheck
  <2>3. QED
    BY <1>4, <2>1, <2>2 DEF AbortCheck, DrainsOK, DrainOK, EventsOK
<1>5. QED
  BY <1>1, <1>2, <1>3, <1>4 DEF CheckStep

\* A processor that ends, by commit, rollback or crash, releases its batch.
LEMMA DrainsReleased ==
  ASSUME OutboxInv, NEW p \in Processors, drain' = [drain EXCEPT ![p] = IdleDrain],
         \A q \in Processors \ {p} : drain[q].batch \subseteq outbox'
  PROVE  DrainsOK'
<1> USE DEF OutboxInv
<1>1. drain'[p].batch = {} /\ drain'[p].pc = "idle"
  BY DEF TypeOK, IdleDrain
<1>2. \A q \in Processors \ {p} : drain'[q] = drain[q]
  BY DEF TypeOK
<1>3. QED
  BY <1>1, <1>2 DEF DrainsOK, DrainOK

\* list_pending locks rows of outbox that nobody else has locked.
LEMMA ListPreserves ==
  ASSUME OutboxInv, NEW p \in Processors, ListPending(p)
  PROVE  OutboxInv'
<1> USE ConstantsAssumption DEF OutboxInv
<1> DEFINE rows == Oldest(outbox \ LockedByOthers(p))
           after == [IdleDrain EXCEPT !.pc = "draining", !.batch = rows, !.todo = rows]
<1>1. /\ rows # {} /\ rows \subseteq outbox
      /\ \A q \in Processors \ {p} : rows \cap drain[q].batch = {}
  BY DEF ListPending, Oldest, LockedByOthers
<1>2. /\ after.pc = "draining" /\ after.batch = rows /\ after.todo = rows
      /\ after.inserted = {} /\ after.deleted = {}
  BY DEF IdleDrain
<1>3. rows \subseteq Events
  BY <1>1 DEF TypeOK
<1>4. after \in DrainTx
  BY <1>3 DEF DrainTx, IdleDrain
<1> HIDE DEF rows, after
<1>5. drain' = [drain EXCEPT ![p] = after]
  BY DEF ListPending, rows, after
<1>6. TypeOK'
  BY <1>4, <1>5 DEF ListPending, TypeOK
<1>7. drain'[p] = after /\ \A q \in Processors \ {p} : drain'[q] = drain[q]
  BY <1>5 DEF TypeOK
<1>8. ASSUME NEW q \in Processors PROVE DrainOK(q)'
  <2>1. CASE q = p
    <3>1. {} \subseteq rows \ rows /\ {} \ Unknown = {}
      OBVIOUS
    <3>2. QED
      BY <1>1, <1>2, <1>7, <2>1, <3>1 DEF ListPending, DrainOK
  <2>2. CASE q # p
    BY <1>7, <2>2 DEF ListPending, DrainsOK, DrainOK
  <2>3. QED
    BY <2>1, <2>2
<1>9. DrainsOK'
  BY <1>1, <1>2, <1>7, <1>8 DEF DrainsOK
<1>10. QED
  BY <1>6, <1>9 DEF ListPending, ChecksOK, EventsOK

\* One turn of the loop keeps the writes within the batch.
LEMMA ProcessPreserves ==
  ASSUME OutboxInv, NEW p \in Processors, NEW e \in Events, ProcessEvent(p, e)
  PROVE  OutboxInv'
<1> USE ConstantsAssumption DEF OutboxInv
<1> DEFINE before == drain[p]
           after == [before EXCEPT !.todo = before.todo \ {e},
                                   !.deleted = before.deleted \cup {e},
                                   !.inserted = before.inserted \cup ({e} \ Unknown)]
<1>1. before \in DrainTx /\ before.pc = "draining" /\ e \in before.todo
  BY DEF ProcessEvent, TypeOK
<1>2. after \in DrainTx
  BY <1>1 DEF DrainTx
<1>3. /\ after.pc = before.pc /\ after.batch = before.batch
      /\ after.todo = before.todo \ {e} /\ after.deleted = before.deleted \cup {e}
      /\ after.inserted = before.inserted \cup ({e} \ Unknown)
  BY <1>1 DEF DrainTx
<1>4. drain' = [drain EXCEPT ![p] = after]
  BY DEF ProcessEvent, TypeOK, DrainTx
<1>5. DrainOK(p)
  BY DEF DrainsOK
<1> HIDE DEF after
<1>6. TypeOK'
  <2>1. drain \in [Processors -> DrainTx]
    BY DEF TypeOK
  <2>2. drain' \in [Processors -> DrainTx]
    BY <1>2, <1>4, <2>1
  <2>3. QED
    BY <2>2 DEF ProcessEvent, TypeOK
<1>7. drain'[p] = after /\ \A q \in Processors \ {p} : drain'[q] = drain[q]
  BY <1>4 DEF TypeOK
<1>8. DrainOK(p)'
  <2>1. /\ before.batch \subseteq outbox /\ before.batch # {}
        /\ before.todo \subseteq before.batch
        /\ before.deleted \subseteq before.batch \ before.todo
        /\ before.inserted = before.deleted \ Unknown
    BY <1>1, <1>5 DEF DrainOK
  <2>2. after.deleted \subseteq after.batch \ after.todo
    BY <1>1, <1>3, <2>1
  <2>3. after.inserted = after.deleted \ Unknown
    BY <1>3, <2>1
  <2>4. /\ after.batch \subseteq outbox /\ after.batch # {}
        /\ after.todo \subseteq after.batch
    BY <1>3, <2>1
  <2>5. QED
    BY <1>7, <2>2, <2>3, <2>4 DEF ProcessEvent, DrainOK
<1>9. DrainsOK'
  <2>1. ASSUME NEW q \in Processors \ {p} PROVE DrainOK(q)'
    BY <1>7, <2>1 DEF ProcessEvent, DrainsOK, DrainOK
  <2>2. \A q \in Processors : drain'[q].batch = drain[q].batch
    BY <1>3, <1>7
  <2>3. QED
    BY <1>8, <2>1, <2>2 DEF DrainsOK
<1>10. QED
  BY <1>6, <1>9 DEF ProcessEvent, ChecksOK, EventsOK

\* A skipped row is neither inserted nor deleted.
LEMMA SkipPreserves ==
  ASSUME OutboxInv, NEW p \in Processors, NEW e \in Events, SkipEvent(p, e)
  PROVE  OutboxInv'
<1> USE ConstantsAssumption DEF OutboxInv
<1> DEFINE before == drain[p]
           after == [before EXCEPT !.todo = before.todo \ {e}]
<1>1. before \in DrainTx /\ before.pc = "draining" /\ DrainOK(p)
  BY DEF SkipEvent, TypeOK, DrainsOK
<1>2. /\ after \in DrainTx /\ after.pc = before.pc /\ after.batch = before.batch
      /\ after.todo = before.todo \ {e} /\ after.deleted = before.deleted
      /\ after.inserted = before.inserted
  BY <1>1 DEF DrainTx
<1>3. drain' = [drain EXCEPT ![p] = after]
  BY DEF SkipEvent, TypeOK, DrainTx
<1> HIDE DEF after
<1>4. drain'[p] = after /\ \A q \in Processors \ {p} : drain'[q] = drain[q]
  BY <1>3 DEF TypeOK
<1>5. faults' \in 0..MaxFaults
  BY DEF SkipEvent, TypeOK
<1>6. TypeOK'
  BY <1>2, <1>3, <1>5 DEF SkipEvent, TypeOK
<1>7. DrainOK(p)'
  <2>1. /\ before.batch \subseteq outbox /\ before.batch # {}
        /\ before.todo \subseteq before.batch
        /\ before.deleted \subseteq before.batch \ before.todo
        /\ before.inserted = before.deleted \ Unknown
    BY <1>1 DEF DrainOK
  <2>2. after.todo \subseteq after.batch /\ after.deleted \subseteq after.batch \ after.todo
    BY <1>2, <2>1
  <2>3. QED
    BY <1>2, <1>4, <2>1, <2>2 DEF SkipEvent, DrainOK
<1>8. DrainsOK'
  <2>1. ASSUME NEW q \in Processors \ {p} PROVE DrainOK(q)'
    BY <1>4, <2>1 DEF SkipEvent, DrainsOK, DrainOK
  <2>2. \A q \in Processors : drain'[q].batch = drain[q].batch
    BY <1>2, <1>4
  <2>3. QED
    BY <1>7, <2>1, <2>2 DEF DrainsOK
<1>9. QED
  BY <1>6, <1>8 DEF SkipEvent, ChecksOK, EventsOK

\* What a batch commits is a part of it: rows deleted, and observed if known.
LEMMA BatchDone ==
  ASSUME OutboxInv, NEW p \in Processors, CommitBatch(p)
  PROVE  /\ drain[p].deleted \subseteq drain[p].batch /\ drain[p].deleted \subseteq outbox
         /\ drain[p].inserted = drain[p].deleted \ Unknown
<1>1. DrainOK(p) /\ drain[p].pc = "draining"
  BY DEF OutboxInv, DrainsOK, CommitBatch
<1>2. QED
  BY <1>1 DEF DrainOK

\* The commit of a batch: its rows leave outbox and are observed, together.
LEMMA CommitPreserves ==
  ASSUME OutboxInv, NEW p \in Processors, CommitBatch(p)
  PROVE  OutboxInv'
<1> USE ConstantsAssumption DEF OutboxInv
<1>1. /\ drain[p].deleted \subseteq drain[p].batch /\ drain[p].deleted \subseteq outbox
      /\ drain[p].inserted = drain[p].deleted \ Unknown
  BY BatchDone
<1>2. TypeOK'
  <2>1. drain' \in [Processors -> DrainTx]
    BY DEF CommitBatch, TypeOK, IdleDrain, DrainTx
  <2>2. observations' \in [Events -> Nat]
    BY DEF CommitBatch, TypeOK
  <2>3. QED
    BY <2>1, <2>2 DEF CommitBatch, TypeOK
<1>3. ChecksOK'
  BY DEF CommitBatch, ChecksOK
<1>4. DrainsOK'
  <2>1. \A q \in Processors \ {p} : drain[q].batch \subseteq outbox'
    BY <1>1 DEF CommitBatch, DrainsOK, DrainOK
  <2>2. QED
    BY <2>1, DrainsReleased DEF CommitBatch
<1>5. EventsOK'
  BY <1>1 DEF CommitBatch, EventsOK, TypeOK
<1>6. QED
  BY <1>2, <1>3, <1>4, <1>5

\* Failures, rollbacks and crashes write nothing.
LEMMA FailurePreserves ==
  ASSUME OutboxInv, NEW p \in Processors, FailEvent(p) \/ RollbackBatch(p) \/ Crash(p)
  PROVE  OutboxInv'
<1> USE ConstantsAssumption DEF OutboxInv
<1>1. CASE FailEvent(p)
  <2>1. PICK kept \in {{}, drain[p].batch} :
          drain' = [drain EXCEPT ![p] = [IdleDrain EXCEPT !.pc = "failed", !.batch = kept]]
    BY <1>1 DEF FailEvent
  <2>2. drain'[p] = [IdleDrain EXCEPT !.pc = "failed", !.batch = kept]
        /\ \A q \in Processors \ {p} : drain'[q] = drain[q]
    BY <2>1 DEF TypeOK
  <2>3. drain'[p] \in DrainTx /\ drain'[p].pc = "failed" /\ drain'[p].batch = kept
    BY <2>2 DEF IdleDrain, DrainTx, TypeOK
  <2>4. faults' \in 0..MaxFaults
    BY <1>1 DEF FailEvent, TypeOK
  <2>5. TypeOK'
    BY <1>1, <2>1, <2>2, <2>3, <2>4 DEF FailEvent, TypeOK
  <2>6. DrainsOK'
    BY <1>1, <2>2, <2>3 DEF FailEvent, DrainsOK, DrainOK
  <2>7. QED
    BY <1>1, <2>5, <2>6 DEF FailEvent, ChecksOK, EventsOK
<1>2. CASE RollbackBatch(p) \/ Crash(p)
  <2>1. /\ drain' = [drain EXCEPT ![p] = IdleDrain]
        /\ UNCHANGED <<results, outbox, observations, next, check>>
    BY <1>2 DEF RollbackBatch, Crash
  <2>2. faults' \in 0..MaxFaults
    BY <1>2 DEF RollbackBatch, Crash, TypeOK
  <2>3. TypeOK'
    BY <2>1, <2>2 DEF TypeOK, IdleDrain, DrainTx
  <2>4. DrainsOK'
    BY <2>1, DrainsReleased DEF DrainsOK, DrainOK
  <2>5. QED
    BY <2>1, <2>3, <2>4 DEF ChecksOK, EventsOK
<1>3. QED
  BY <1>1, <1>2

\* The outbox keeps its inductive invariant whatever checks and processors
\* overlap and whatever fails.
THEOREM OutboxInvariant == Spec => []OutboxInv
<1>1. OutboxInv /\ [Next]_vars => OutboxInv'
  <2> SUFFICES ASSUME OutboxInv, [Next]_vars PROVE OutboxInv'
    OBVIOUS
  <2>1. CASE UNCHANGED vars
    BY <2>1 DEF vars, OutboxInv, TypeOK, ChecksOK, DrainsOK, DrainOK, EventsOK
  <2>2. QED
    BY <2>1, CheckPreserves, ListPreserves, ProcessPreserves, SkipPreserves, CommitPreserves,
       FailurePreserves
       DEF Next, DrainStep
<1>2. QED
  BY OutboxInit, <1>1, PTL DEF Spec

\* process_outbox_batch loses and duplicates no observation.
THEOREM ExactlyOnce == Spec => []NoneLostNoneDuplicated
<1>1. OutboxInv => NoneLostNoneDuplicated
  BY DEF OutboxInv, EventsOK, NoneLostNoneDuplicated
<1>2. QED
  BY OutboxInvariant, <1>1, PTL

\* The state of the outbox always has its types.
THEOREM OutboxTypeCorrect == Spec => []TypeOK
<1>1. OutboxInv => TypeOK
  BY DEF OutboxInv
<1>2. QED
  BY OutboxInvariant, <1>1, PTL

----------------------------------------------------------------------------
(* The outbox implements the stream, but for liveness *)

\* Every behaviour of execute_check and process_outbox is one of the stream of
\* FIX 9: a commit of a check records its event, a commit of a batch settles it,
\* and every other step is invisible.
THEOREM OutboxImplementsStream == Spec => Stream!Init /\ [][Stream!Next]_(Stream!vars)
<1> USE ConstantsAssumption
<1>1. Init => Stream!Init
  BY DEF Init, Stream!Init
<1>2. OutboxInv /\ [Next]_vars => [Stream!Next]_(Stream!vars)
  <2> SUFFICES ASSUME OutboxInv, [Next]_vars PROVE [Stream!Next]_(Stream!vars)
    OBVIOUS
  <2> USE DEF OutboxInv
  <2>1. CASE UNCHANGED <<results, outbox, observations>>
    BY <2>1 DEF Stream!vars
  <2>2. ASSUME NEW w \in Workers, CommitCheck(w) PROVE Stream!Next
    <3>1. check[w].event \in Events /\ check[w].event \notin results
      BY <2>2 DEF CommitCheck, ChecksOK
    <3>2. Stream!Record(check[w].event)
      BY <2>2, <3>1 DEF CommitCheck, Stream!Record
    <3>3. QED
      BY <3>1, <3>2 DEF Stream!Next
  <2>3. ASSUME NEW p \in Processors, CommitBatch(p) PROVE [Stream!Next]_(Stream!vars)
    <3> DEFINE S == drain[p].deleted
    <3>1. S \subseteq outbox /\ drain[p].inserted = S \ Unknown
      BY <2>3, BatchDone
    <3>2. S \in SUBSET Events
      BY <3>1 DEF TypeOK
    <3>3. CASE S = {}
      <4>1. outbox' = outbox /\ results' = results
        BY <2>3, <3>3 DEF CommitBatch
      <4>2. observations' = observations
        BY <2>3, <3>1, <3>3 DEF CommitBatch, TypeOK
      <4>3. QED
        BY <4>1, <4>2 DEF Stream!vars
    <3>4. CASE S # {}
      <4>1. Stream!Settle(S)
        BY <2>3, <3>1, <3>4 DEF CommitBatch, Stream!Settle
      <4>2. QED
        BY <3>2, <4>1 DEF Stream!Next
    <3>5. QED
      BY <3>3, <3>4
  <2>4. QED
    BY <2>1, <2>2, <2>3
       DEF Next, CheckStep, DrainStep, InsertResult, Enqueue, AbortCheck, ListPending,
           ProcessEvent, SkipEvent, FailEvent, RollbackBatch, Crash, vars
<1>3. QED
  BY <1>1, <1>2, OutboxInvariant, PTL DEF Spec
=============================================================================
