---------------------------- MODULE MCCpuProfiler ----------------------------
(* CpuProfiler for TLC: three traces that compete for a bucket of two        *)
(* entries, and one that has a bucket for itself.                            *)
EXTENDS CpuProfiler, TLC

CONSTANTS s1, s2, s3, s4

MCStacks == {s1, s2, s3, s4}
MCDepth == s1 :> 1 @@ s2 :> 2 @@ s3 :> 1 @@ s4 :> 2
MCBucketOf == s1 :> 1 @@ s2 :> 1 @@ s3 :> 1 @@ s4 :> 2

MCSymmetry == Permutations(Threads)
==============================================================================
