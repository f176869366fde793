------------------------------- MODULE MCLink -------------------------------
(* A session whose runtime is replaced while attempts to connect are awaited. *)
EXTENDS SessionLink, TLC

AnyAttempt == Permutations(Attempts)
=============================================================================
