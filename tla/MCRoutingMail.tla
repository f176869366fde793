--------------------------- MODULE MCRoutingMail ---------------------------
(* The mailbox and the delivery records: a sender that retries and reuses its *)
(* message ids, a session that comes and goes, and another with the same name *)
(* and directory, while records and mail age and are evicted.                 *)
EXTENDS BrokerRouting, TLC

CONSTANTS a, b, d, one, other, ia, ib, id, x, y, m1, m2

Named(n)   == [name |-> n, alias |-> FALSE, cwd |-> one]
MCScope    == [k \in {a, b, d} |-> one]
MCIdOf     == a :> ia @@ b :> ib @@ d :> id
MCProfiles == a :> {Named(x)} @@ b :> {Named(x), Named(y)} @@ d :> {Named(y)}
Msg(i, body) ==
  [id |-> i, author |-> a, ask |-> FALSE, replyTo |-> None, supersedes |-> None,
   body |-> body]
\* a writes two messages, and may use the id of the first again for other words.
MCMessages == {Msg(m1, one), Msg(m1, other), Msg(m2, one)}
MCDests    == {ib, y}
MCPrefix   == {}
MCEpochs   == a :> 1 @@ b :> 2 @@ d :> 1
Sockets    == Permutations(Conns)
=============================================================================
