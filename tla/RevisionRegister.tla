-------------------------- MODULE RevisionRegister --------------------------
(***************************************************************************)
(* What ExtensionStateManager (src/broker/extension-state.ts) promises of  *)
(* the state of one namespace: a register that changes only by compare-    *)
(* and-set on its revision, and that tells the truth about every attempt.  *)
(* A commit that was acknowledged is never undone.  One that was cut short *)
(* may have happened all the same, and power cuts may undo it until        *)
(* another is acknowledged.                                                *)
(***************************************************************************)
EXTENDS Naturals

CONSTANTS
  Payloads,    \* what can be committed
  Invalid,     \* what cannot
  None         \* no payload, no call, no answer

VARIABLES
  reg,         \* [rev, val]: what a reader is told
  doubt,       \* the states since the last acknowledged one: reg may go back to them
  asked,       \* the last call: commit val if the revision is exp; or None
  answer       \* to that call: [committed, rev, val], or None

Initial == [rev |-> 0, val |-> None]
Calls   == [exp : Nat, val : Payloads \cup {Invalid}]

Init == reg = Initial /\ doubt = {} /\ asked = None /\ answer = None

Told(committed, rev, val) == answer' = [committed |-> committed, rev |-> rev, val |-> val]

Stays == UNCHANGED <<reg, doubt>>

Ask == asked' \in Calls /\ answer' = None /\ Stays

\* The call in progress quotes the current revision, and its payload is the next state.
Applies ==
  /\ asked \in Calls /\ answer = None
  /\ asked.exp = reg.rev /\ asked.val \in Payloads
  /\ reg' = [rev |-> reg.rev + 1, val |-> asked.val]

Commit == Applies /\ doubt' = {} /\ Told(TRUE, reg.rev + 1, None) /\ UNCHANGED asked

\* The call quotes another revision: the caller is told the current state.
Refuse ==
  /\ asked' \in Calls /\ asked'.exp # reg.rev
  /\ Told(FALSE, reg.rev, reg.val) /\ Stays

\* The call commits what is no state, or the store cannot write: the caller is told so.
Fail == asked' \in Calls /\ Told(FALSE, reg.rev, None) /\ Stays

\* The store dies in the middle of a commit that happens nevertheless.
CommitUnheard ==
  /\ Applies
  /\ doubt' = doubt \cup {reg}
  /\ asked' = None /\ answer' = None

\* A power cut undoes commits nobody was told of.
Revert ==
  /\ reg' \in doubt \cup {reg}
  /\ doubt' \in {doubt, doubt \cup {reg}}
  /\ asked' = None /\ answer' = None

\* Somebody reads, or the store dies and nothing comes of the call.
Quiet == asked' = None /\ answer' = None /\ Stays

Next == Ask \/ Commit \/ Refuse \/ Fail \/ CommitUnheard \/ Revert \/ Quiet

registerVars == <<reg, doubt, asked, answer>>

Spec == Init /\ [][Next]_registerVars
=============================================================================
