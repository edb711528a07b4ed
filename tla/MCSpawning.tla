------------------------------ MODULE MCSpawning ------------------------------
(***************************************************************************)
(* An instance of Spawning for TLC.                                        *)
(***************************************************************************)
EXTENDS Spawning, TLC

SomeBlasVars == <<"OMP_NUM_THREADS", "MKL_NUM_THREADS">>

\* Words of two bits.  6 is 2 and a carry of 1: two words, like an offset of 6.
SomeSeeds   == {2, 6}
SomeOffsets == {0, 6}

ThreadSymmetry == Permutations(Threads)

=============================================================================
