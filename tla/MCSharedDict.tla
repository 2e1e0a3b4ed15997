---------------------------- MODULE MCSharedDict ----------------------------
(* Instances of SharedDict for TLC.                                        *)
EXTENDS SharedDict, TLC

(* Keys and addresses are interchangeable; the loader is not.              *)
Symmetry == Permutations(Keys) \cup Permutations(Addrs)
              \cup Permutations(Threads \ {Loader})
=============================================================================
