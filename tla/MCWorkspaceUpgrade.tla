------------------------- MODULE MCWorkspaceUpgrade -------------------------
(* TLC instances of WorkspaceUpgrade. *)
EXTENDS WorkspaceUpgrade

\* Every schema class (a blank database is what a death after its creation
\* leaves), and defective contents with and without a migration on the way.
MCDatabases0 ==
    [schema : Schemas \ {"blank"}, defect : {"none"}]
    \cup {[schema |-> "current", defect |-> "health"],
          [schema |-> "recent", defect |-> "owners"]}
=============================================================================
