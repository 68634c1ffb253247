------------------------- MODULE MCVerificationQueue -------------------------
(* Small instances of VerificationQueue.                                    *)
EXTENDS VerificationQueue, TLC

CONSTANTS w1, w2, r1, r2, f1, f2, f3, f4, g1, g2, d1

\* A technical and a document finding.
TwoSources == f1 :> g1 @@ f2 :> d1
\* Two findings of one scan, one without a tool, one in a document.
AllSources == f1 :> g1 @@ f2 :> g1 @@ f3 :> g2 @@ f4 :> d1

Symmetry == Permutations(Workers) \cup Permutations(Runs)
=============================================================================
