----------------------------- MODULE WriteAhead -----------------------------
(***************************************************************************)
(* What the execution journal promises about the disk, without sessions,   *)
(* commands or recovery: a request is granted once its intent is durable,  *)
(* grants are never withdrawn, and the disk changes only by performing a   *)
(* granted request, each one at most once.                                 *)
(***************************************************************************)
EXTENDS Naturals

VARIABLES
  granted,    \* requests whose intent is durable
  performed   \* requests whose mutation has happened

vars == <<granted, performed>>

Init == granted = {} /\ performed = {}

\* An intent, or several that a late flush completes together, become durable.
Grant ==
  /\ granted' \in SUBSET Nat
  /\ granted \subseteq granted'
  /\ UNCHANGED performed

Perform(i) ==
  /\ i \in granted \ performed
  /\ performed' = performed \cup {i}
  /\ UNCHANGED granted

Next == Grant \/ \E i \in granted : Perform(i)

Spec == Init /\ [][Next]_vars

=============================================================================
