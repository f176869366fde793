------------------------------- MODULE MCAsk --------------------------------
(* Two tools that ask, side by side. *)
EXTENDS AskWaiter

MCSpec == AskInit /\ [][AskNext]_askVars
=============================================================================
