------------------------------ MODULE MCSending ------------------------------
(* Two tasks, one of which may be the retry of the other.  Tasks do not    *)
(* differ, and neither do the goroutines: Call takes any free one.         *)
EXTENDS Sending

CONSTANTS t1, t2, g1, g2, k1

Symmetric == Permutations({t1, t2}) \cup Permutations({g1, g2})
=============================================================================
