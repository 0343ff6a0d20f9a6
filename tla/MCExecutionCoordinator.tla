----------------------- MODULE MCExecutionCoordinator -----------------------
(* Plans for the TLC instances of ExecutionCoordinator. *)
EXTENDS ExecutionCoordinator, TLC

\* One move.
OneMove == <<{}>>

\* A directory, a stage that breaks a rename cycle, and the staged file's move
\* into the directory.
StagedMove == <<{}, {}, {1, 2}>>

\* The rollback commands do the same and no property tells them apart.
SameRollbacks == Permutations(RollbackCmds)

=============================================================================
