-------------------------- MODULE MCSocialPublisher --------------------------
(* Instances of SocialPublisher for TLC. *)
EXTENDS SocialPublisher, TLC

CONSTANTS yt, fb, w1, w2, t1, t2

\* Workers and lease tokens are interchangeable.
Symmetry == Permutations(Workers) \cup Permutations(Tokens)
==============================================================================
