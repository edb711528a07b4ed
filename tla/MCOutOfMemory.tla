---------------------------- MODULE MCOutOfMemory -----------------------------
(***************************************************************************)
(* An instance of OutOfMemory for TLC.                                     *)
(***************************************************************************)
EXTENDS OutOfMemory

\* Three exceptions: a chain that leads back to its start, or past it, needs no more.
SomeExceptions == {"wrapped", "raised", "deepest"}

=============================================================================
