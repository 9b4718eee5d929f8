------------------------- MODULE ObservationStream -------------------------
(***************************************************************************)
(* What FIX 9 promises of the evidence stream: an event that has been      *)
(* recorded, together with the check result that produced it, stays        *)
(* pending until it is observed exactly once.  Events the processor does   *)
(* not know are discarded.                                                 *)
(***************************************************************************)
EXTENDS Naturals

CONSTANTS
  Events,    \* events that may be recorded
  Unknown    \* those among them of a type the processor does not know

VARIABLES
  recorded,  \* events recorded so far
  pending,   \* events waiting to be observed
  observed   \* how often each event has been observed

vars == <<recorded, pending, observed>>

Init ==
  /\ recorded = Unknown
  /\ pending = Unknown
  /\ observed = [e \in Events |-> 0]

Record(e) ==
  /\ e \notin recorded
  /\ recorded' = recorded \cup {e}
  /\ pending' = pending \cup {e}
  /\ UNCHANGED observed

\* Events leave together: the known ones observed, the unknown ones discarded.
Settle(S) ==
  /\ S # {} /\ S \subseteq pending
  /\ pending' = pending \ S
  /\ observed' = [e \in Events |-> IF e \in S \ Unknown THEN observed[e] + 1
                                                        ELSE observed[e]]
  /\ UNCHANGED recorded

Next == (\E e \in Events : Record(e)) \/ (\E S \in SUBSET Events : Settle(S))

Spec == Init /\ [][Next]_vars /\ WF_vars(\E S \in SUBSET Events : Settle(S))
=============================================================================
