--------------------------- MODULE MCRoutingAsks ---------------------------
(* Asks between two sessions, and a third that meddles: answers, counter-asks, *)
(* cancellations, retries, replaced sockets and timeouts.                       *)
EXTENDS BrokerRouting, TLC

CONSTANTS a, b, c, one, ia, ib, ic, q1, q2, q3, r1

MCScope    == [k \in {a, b, c} |-> one]
MCIdOf     == a :> ia @@ b :> ib @@ c :> ic
MCProfiles == [k \in {a, b, c} |-> {[name |-> None, alias |-> FALSE, cwd |-> one]}]
Msg(id, author, ask, replyTo) ==
  [id |-> id, author |-> author, ask |-> ask, replyTo |-> replyTo,
   supersedes |-> None, body |-> one]
\* a asks b (q1); b asks a of its own accord (q2), or as its answer (q3); c, a bystander,
\* claims to answer a (r1).
MCMessages == {Msg(q1, a, TRUE, None), Msg(q2, b, TRUE, None), Msg(q3, b, TRUE, q1),
               Msg(r1, c, FALSE, q1)}
MCDests    == {ia, ib}
MCPrefix   == {}
MCEpochs   == a :> 2 @@ b :> 1 @@ c :> 1
Sockets    == Permutations(Conns)
=============================================================================
