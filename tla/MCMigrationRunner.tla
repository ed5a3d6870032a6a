-------------------------- MODULE MCMigrationRunner --------------------------
(* Instances of MigrationRunner for TLC. *)
EXTENDS MigrationRunner

\* The callers' lists: the complete one and that of an older release.
FullAndOlder == {{1, 2}, {1}}

\* One list for everybody.
OneList == {{1, 2}}
=============================================================================
