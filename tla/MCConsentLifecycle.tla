------------------------- MODULE MCConsentLifecycle -------------------------
(* Small instances of ConsentLifecycle for TLC. *)
EXTENDS ConsentLifecycle, TLC

\* Commands of one kind are interchangeable.
SameCommands == Permutations(ApproveCmds) \cup Permutations(StartCmds)

=============================================================================
