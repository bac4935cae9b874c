---------------------------- MODULE MCReviewGate ----------------------------
(* ReviewGate for TLC: requests are interchangeable, and the drafts are    *)
(* those of two jobs, or of one.                                           *)
EXTENDS ReviewGate, TLC

MCOf == [d \in Draft |-> IF d <= 2 THEN "a" ELSE "b"]

ReviewSymmetry == Permutations(Request)
=============================================================================
