---------------------------- MODULE StepSequence ----------------------------
(***************************************************************************)
(* What a sequential orchestration promises: its steps are released one    *)
(* after the other, each after the one before it was completed, and what   *)
(* was released or completed stays so.                                     *)
(***************************************************************************)
EXTENDS Naturals

CONSTANTS Orchestrations, Length

VARIABLES released, completed   \* the steps of each orchestration
vars == <<released, completed>>

Init ==
  /\ released = [o \in Orchestrations |-> {}]
  /\ completed = [o \in Orchestrations |-> {}]

Release(o, k) ==
  /\ k \notin released[o]
  /\ k > 0 => k - 1 \in completed[o]
  /\ released' = [released EXCEPT ![o] = @ \cup {k}]
  /\ UNCHANGED completed

Complete(o, k) ==
  /\ k \in released[o] \ completed[o]
  /\ completed' = [completed EXCEPT ![o] = @ \cup {k}]
  /\ UNCHANGED released

Next == \E o \in Orchestrations, k \in 0 .. Length - 1 : Release(o, k) \/ Complete(o, k)

Spec == Init /\ [][Next]_vars
=============================================================================
