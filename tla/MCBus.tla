------------------------------- MODULE MCBus -------------------------------
(* The extension bus in one scope: session a may own the namespace, and b may *)
(* too, or only has it.                                                       *)
EXTENDS ExtensionBus, TLC

CONSTANTS a, b, one

MCScope  == [k \in Keys |-> one]
Eligible == [k \in Keys |-> {"eligible"}]
Either   == a :> {"eligible"} @@ b :> {"eligible", "member"}
\* A session commits payloads of its own.
Own      == [k \in Keys |-> {k}]
Nobody   == [k \in Keys |-> {}]
Sockets  == Permutations(Conns)
=============================================================================
