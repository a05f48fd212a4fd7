----------------------------- MODULE MCStateFile -----------------------------
(* Small instances of StateFile: the actors and the tasks are model values  *)
(* and interchangeable.                                                     *)
EXTENDS StateFile, TLC

FileSymmetry == Permutations(Actors) \cup Permutations(Tasks)
=============================================================================
