----------------------------- MODULE MCManifest -----------------------------
(* Manifest for TLC: keys, jids and tasks are each interchangeable.        *)
EXTENDS Manifest, TLC

Symmetry == Permutations(Keys) \cup Permutations(Jids) \cup Permutations(Tasks)
=============================================================================
