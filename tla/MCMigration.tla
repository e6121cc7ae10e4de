---------------------------- MODULE MCMigration -----------------------------
EXTENDS MigrationHistory

\* The app writes in tree 1 and the file 3, the updater in tree 2.
ByProgram == [p \in Program |-> IF p = "app" THEN {1, 3} \cap Op ELSE {2}]

\* The one tree is the updater's state.
UpdaterOnly == [p \in Program |-> IF p = "updater" THEN {1} ELSE {}]
=============================================================================
