-------------------------- MODULE MCRoutingScopes ---------------------------
(* Two scopes whose sessions share ids and names, exact sends, prefixes of ids, *)
(* a message that supersedes another, replaced sockets, and a broker that dies. *)
EXTENDS BrokerRouting, TLC

CONSTANTS a, b, o, one, two, ia, ib, pb, y, q1, m1

MCScope    == a :> one @@ b :> one @@ o :> two
MCIdOf     == a :> ia @@ b :> ib @@ o :> ib
MCProfiles == [k \in {a, b, o} |->
                 {[name |-> IF k = a THEN None ELSE y, alias |-> FALSE, cwd |-> one]}]
Msg(i, ask, supersedes) ==
  [id |-> i, author |-> a, ask |-> ask, replyTo |-> None, supersedes |-> supersedes,
   body |-> one]
\* a asks (q1), and writes a message (m1) of its own or in the place of the question.
MCMessages == {Msg(q1, TRUE, None), Msg(m1, FALSE, None), Msg(m1, FALSE, q1)}
MCDests    == {ib, pb}
MCPrefix   == {<<pb, ib>>}
MCEpochs   == a :> 1 @@ b :> 2 @@ o :> 1
Sockets    == Permutations(Conns)
=============================================================================
