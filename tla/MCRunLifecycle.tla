--------------------------- MODULE MCRunLifecycle ---------------------------
(* RunLifecycle for TLC: requests are interchangeable.                     *)
EXTENDS RunLifecycle, TLC

Interchangeable == Permutations(Request)
=============================================================================
