-------------------------- MODULE MCRoutingReplies --------------------------
(* Replies: b, under a name or under a runtime alias, asks a and is gone when *)
(* a answers; d has chosen the same name in the same directory.                *)
EXTENDS BrokerRouting, TLC

CONSTANTS a, b, d, one, ia, ib, id, x, y, q1, r1

Named(n)   == [name |-> n, alias |-> FALSE, cwd |-> one]
MCScope    == [k \in {a, b, d} |-> one]
MCIdOf     == a :> ia @@ b :> ib @@ d :> id
MCProfiles == a :> {Named(x)} @@ b :> {Named(y), [Named(y) EXCEPT !.alias = TRUE]}
                @@ d :> {Named(y)}
Msg(i, author, ask, replyTo) ==
  [id |-> i, author |-> author, ask |-> ask, replyTo |-> replyTo,
   supersedes |-> None, body |-> one]
MCMessages == {Msg(q1, b, TRUE, None), Msg(r1, a, FALSE, q1)}
MCDests    == {ia, ib, y}
MCPrefix   == {}
MCEpochs   == a :> 1 @@ b :> 2 @@ d :> 1
Sockets    == Permutations(Conns)
=============================================================================
