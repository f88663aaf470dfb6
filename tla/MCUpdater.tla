----------------------------- MODULE MCUpdater -----------------------------
(* Model-checking instance of Updater.                                     *)
EXTENDS Updater, TLC

\* Each is newer than the one before it by another of its numbers, and older
\* by one that does not count.
Releases == {<<0, 9, 1>>, <<0, 10, 0>>, <<1, 0, 2>>}

\* The runs are interchangeable.
Alike == Permutations(Process)
=============================================================================
