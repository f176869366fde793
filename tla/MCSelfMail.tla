----------------------------- MODULE MCSelfMail -----------------------------
(* A sender that takes the name of the disconnected session it wrote to.     *)
EXTENDS BrokerRouting, TLC

CONSTANTS a, b, one, ia, ib, x, y, m1

Named(n)   == [name |-> n, alias |-> FALSE, cwd |-> one]
MCScope    == [k \in {a, b} |-> one]
MCIdOf     == a :> ia @@ b :> ib
MCProfiles == a :> {Named(x), Named(y)} @@ b :> {Named(y)}
MCMessages == {[id |-> m1, author |-> a, ask |-> FALSE, replyTo |-> None,
                supersedes |-> None, body |-> one]}
MCDests    == {y}
MCPrefix   == {}
MCEpochs   == a :> 2 @@ b :> 1
Sockets    == Permutations(Conns)
=============================================================================
