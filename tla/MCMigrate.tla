------------------------------ MODULE MCMigrate ------------------------------
(* Small instances of Migrate for TLC. *)
EXTENDS Migrate

CONSTANTS old, new, other

\* A rolling deployment: the new image has one file more,
\* and two containers of it overlap.
TwoImages == [s \in Services |-> IF s = old THEN 2 ELSE 3]

=============================================================================
