------------------------------- MODULE MCSpawn -------------------------------
(* Two sessions that need a broker. *)
EXTENDS BrokerSpawn
=============================================================================
