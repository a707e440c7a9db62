-------------------------- MODULE MCModelProfiles ---------------------------
(* Three profiles, two conversations beside the commands, a crash and a    *)
(* file access that fails.                                                 *)
EXTENDS ModelProfiles, TLC

Symmetry == Permutations(Threads)
=============================================================================
